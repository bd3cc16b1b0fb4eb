-------------------------- MODULE IngestStoreProofs --------------------------
(***************************************************************************)
(* Proofs about the ingest store, for any contents, kinds and files and    *)
(* any number of threads, folder imports, crawls and kills.                *)
(*                                                                         *)
(* Beside the types the inductive invariant says whom each file of the     *)
(* store is owed to: no two threads have the same job, and a job under way *)
(* has no outcome yet (Jobs); a thread that is past a write finds the file *)
(* there (Staged); what succeeded or is listed is on the ledger, and a     *)
(* crawl lists with the pool at rest (Listed); while no process was        *)
(* killed, a truncated file has its writer, and what is recorded of a      *)
(* directory is a kind somebody wrote who is still at work or on the       *)
(* ledger (Written), no entry of the list is without a line (Balanced),    *)
(* and entries of bytes with one kind are as imported (AsImported).        *)
(***************************************************************************)
EXTENDS IngestStore, TLAPS, FiniteSetTheorems, SequenceTheorems

Steps == {"check", "open raw", "write raw", "extract", "open provenance",
          "write provenance", "open records", "write records", "append ledger"}

Jobs ==
  /\ Len(selection) <= MaxFiles
  /\ \A w \in Busy : outcome[worker[w].job] = "pending"
  /\ \A u, w \in Busy : worker[u].job = worker[w].job => u = w
  /\ \A j \in taken + 1 .. Len(selection) : outcome[j] = "pending"

PastRaw     == Steps \ {"check", "open raw"}
PastRecords == {"write records", "append ledger"}

Staged ==
  /\ \A i \in DOMAIN ledger :
       raw[ledger[i].content] # "absent" /\ records[ledger[i].content] # "absent"
  /\ \A w \in Busy :
       /\ worker[w].pc \in PastRaw => raw[Dir(w)] # "absent"
       /\ worker[w].pc \in PastRecords => records[Dir(w)] # "absent"

(* The kinds of those who have opened the records of c.                     *)
Writers(c) ==
  {ledger[i].kind : i \in {j \in DOMAIN ledger : ledger[j].content = c}}
    \cup {FileOf(w).kind : w \in {u \in Busy : worker[u].pc \in PastRecords /\ Dir(u) = c}}

Written ==
  crashes = 0 =>
    \A c \in Contents :
      /\ raw[c] = "partial" => BeingWritten(c, "write raw")
      /\ records[c] = "partial" => BeingWritten(c, "write records")
      /\ records[c] \in {"absent", "partial", "mixed"} \cup Writers(c)
      /\ records[c] = "mixed" => \E k, l \in Writers(c) : k # l

OnLedger(f) == \E i \in DOMAIN ledger : ledger[i] = f

Listed ==
  /\ \A j \in 1 .. Len(selection) : outcome[j] = "ok" => OnLedger(selection[j])
  /\ \A i \in DOMAIN imports : OnLedger(imports[i].file)
  /\ crawl.on => crawl.left = 0 /\ \A j \in 1 .. Len(selection) : selection[j].fetched # 0
  /\ crawl.left > 0 => collected = Len(selection)

(* The lines of f for which the list has no entry and nobody a success.     *)
Owed(f) == Count(ledger, f) - (Count(imports, Imported(f)) + Cardinality(Held(f)))

Balanced ==
  crashes = 0 => \A f \in File : Owed(f) >= 0 /\ (f \in Local => Owed(f) = 0)

AsImported ==
  crashes = 0 =>
    \A i \in DOMAIN imports : OneKind(imports[i].file) => imports[i] = Imported(imports[i].file)

StoreInv == TypeOK /\ Jobs /\ Staged /\ Listed /\ Written /\ Balanced /\ AsImported

-----------------------------------------------------------------------------
(* What the threads are doing.                                              *)

Working == [pc : Steps, job : 1 .. MaxFiles, file : File]

LEMMA WorkerStates ==
  /\ WorkerState = {Idle} \cup Working
  /\ Idle \notin Working /\ Idle.pc \notin Steps
  /\ \A s \in Working :
       s.pc \in Steps /\ s.job \in 1 .. MaxFiles /\ s.file \in File
       /\ s.file.content \in Contents /\ s.file.kind \in Kinds
BY DEF WorkerState, Working, Idle, Steps, File

(* A thread that is busy has a job; one at a step is busy.                  *)
LEMMA BusyWorks ==
  ASSUME TypeOK
  PROVE  /\ \A w \in Busy : w \in Workers /\ worker[w] \in Working
         /\ \A w \in Workers, step \in Steps : At(w, step) <=> w \in Busy /\ worker[w].pc = step
         /\ \A w \in Workers : w \notin Busy => worker[w] = Idle
BY WorkerStates DEF TypeOK, Busy, At

LEMMA Moved ==
  ASSUME NEW s \in Working, NEW p \in Steps
  PROVE  /\ [s EXCEPT !.pc = p] \in Working
         /\ [s EXCEPT !.pc = p].pc = p
         /\ [s EXCEPT !.pc = p].job = s.job
         /\ [s EXCEPT !.pc = p].file = s.file
BY DEF Working

(* A thread that goes to its next step keeps its job; the others stay.      *)
LEMMA GotoMoves ==
  ASSUME TypeOK, NEW w \in Busy, NEW p \in Steps, Goto(w, p)
  PROVE  /\ worker' \in [Workers -> WorkerState]
         /\ Busy' = Busy
         /\ worker'[w].pc = p
         /\ \A u \in Workers : u # w => worker'[u] = worker[u]
         /\ \A u \in Busy : worker'[u].job = worker[u].job /\ worker'[u].file = worker[u].file
<1>1. w \in Workers /\ worker[w] \in Working /\ worker \in [Workers -> WorkerState]
  BY BusyWorks DEF TypeOK
<1>2. worker' = [worker EXCEPT ![w] = [worker[w] EXCEPT !.pc = p]]
  BY <1>1 DEF Goto
<1>3. /\ worker'[w] \in Working /\ worker'[w].pc = p
      /\ worker'[w].job = worker[w].job /\ worker'[w].file = worker[w].file
  BY <1>1, <1>2, Moved
<1>4. worker' \in [Workers -> WorkerState]
  BY <1>1, <1>2, <1>3, WorkerStates
<1>5. Busy' = Busy
  BY <1>1, <1>2, <1>3, WorkerStates DEF Busy
<1> QED
  BY <1>1, <1>2, <1>3, <1>4, <1>5

(* A thread that is done is idle.                                           *)
LEMMA DoneRests ==
  ASSUME TypeOK, NEW w \in Busy, NEW r, Done(w, r)
  PROVE  /\ worker' \in [Workers -> WorkerState]
         /\ Busy' = Busy \ {w}
         /\ \A u \in Busy' : worker'[u] = worker[u]
<1>1. w \in Workers /\ worker \in [Workers -> WorkerState]
  BY BusyWorks DEF TypeOK
<1>2. worker' = [worker EXCEPT ![w] = Idle]
  BY DEF Done
<1> QED
  BY <1>1, <1>2, WorkerStates DEF Busy

(* Logs: a line that is appended comes behind the others.                   *)
LEMMA LogEntries ==
  ASSUME NEW s \in Seq(File), NEW i \in DOMAIN s
  PROVE  s[i] \in File /\ s[i].content \in Contents /\ s[i].kind \in Kinds
<1>1. s[i] \in File
  BY LenProperties
<1> QED
  BY <1>1 DEF File

LEMMA Appended ==
  ASSUME NEW T, NEW s \in Seq(T), NEW f \in T
  PROVE  /\ Len(s) + 1 \in DOMAIN Append(s, f) /\ Append(s, f)[Len(s) + 1] = f
         /\ \A i \in DOMAIN s : i \in DOMAIN Append(s, f) /\ Append(s, f)[i] = s[i]
         /\ \A i \in DOMAIN Append(s, f) : i = Len(s) + 1 \/ i \in DOMAIN s
<1>1. Len(s) \in Nat /\ DOMAIN s = 1 .. Len(s)
  BY LenProperties
<1>2. DOMAIN Append(s, f) = 1 .. Len(s) + 1
  BY <1>1
<1> QED
  BY <1>1, <1>2

(* Counting in sequences.                                                   *)
LEMMA CountAppended ==
  ASSUME NEW D, NEW s \in Seq(D), NEW f \in D, NEW g
  PROVE  /\ Count(s, g) \in Nat
         /\ Count(Append(s, f), g) = IF f = g THEN Count(s, g) + 1 ELSE Count(s, g)
<1> DEFINE S == {i \in DOMAIN s : s[i] = g}
           T == {i \in DOMAIN Append(s, f) : Append(s, f)[i] = g}
           n == Len(s)
<1>1. n \in Nat /\ DOMAIN s = 1 .. n
  BY LenProperties
<1>2. DOMAIN Append(s, f) = 1 .. n + 1 /\ \A i \in 1 .. n : Append(s, f)[i] = s[i]
  BY <1>1
<1>3. Append(s, f)[n + 1] = f
  BY <1>1
<1>4. IsFiniteSet(S) /\ n + 1 \notin S
  <2>1. IsFiniteSet(1 .. n)
    BY <1>1, FS_Interval
  <2> QED
    BY <1>1, <2>1, FS_Subset
<1>5. CASE f = g
  <2>1. T = S \cup {n + 1}
    BY <1>1, <1>2, <1>3, <1>5
  <2>2. Cardinality(T) = Cardinality(S) + 1 /\ Cardinality(S) \in Nat
    BY <1>4, <2>1, FS_AddElement, FS_CardinalityType
  <2> QED
    BY <1>5, <2>2 DEF Count
<1>6. CASE f # g
  <2>1. T = S
    BY <1>1, <1>2, <1>3, <1>6
  <2>2. Cardinality(S) \in Nat
    BY <1>4, FS_CardinalityType
  <2> QED
    BY <1>6, <2>1, <2>2 DEF Count
<1> QED
  BY <1>5, <1>6

-----------------------------------------------------------------------------
(* What the actions come down to.                                           *)

(* The steps of a thread within a file.                                     *)
Move(w) ==
  \/ CheckRaw(w)       \/ OpenRaw(w)          \/ WriteRaw(w)     \/ Extract(w)
  \/ OpenProvenance(w) \/ WriteProvenance(w)  \/ OpenRecords(w)  \/ WriteRecords(w)

(* Within a file only the threads' places and the files of the store change.*)
LEMMA MoveGoes ==
  ASSUME TypeOK, NEW w \in Workers, Move(w)
  PROVE  /\ w \in Busy /\ \E p \in Steps : Goto(w, p)
         /\ UNCHANGED <<ledger, selection, taken, outcome, collected, imports, crawl, folders, crashes>>
<1> USE BusyWorks DEF Steps, disk, pool
<1>1. CASE CheckRaw(w)
  BY <1>1 DEF CheckRaw
<1>2. CASE OpenRaw(w)
  BY <1>2 DEF OpenRaw
<1>3. CASE WriteRaw(w)
  BY <1>3 DEF WriteRaw
<1>4. CASE Extract(w)
  BY <1>4 DEF Extract
<1>5. CASE OpenProvenance(w)
  BY <1>5 DEF OpenProvenance
<1>6. CASE WriteProvenance(w)
  BY <1>6 DEF WriteProvenance
<1>7. CASE OpenRecords(w)
  BY <1>7 DEF OpenRecords
<1>8. CASE WriteRecords(w)
  BY <1>8 DEF WriteRecords
<1> QED
  BY <1>1, <1>2, <1>3, <1>4, <1>5, <1>6, <1>7, <1>8 DEF Move

(* A folder or a crawl begins with files to import, or none.                *)
Opens(files) ==
  \/ files \in Selections /\ ImportFolder(files)
  \/ files = <<>> /\ BeginCrawl

(* What a crawl does beside the imports.                                    *)
Crawls ==
  \/ \E p \in Pages : FetchPage(p)
  \/ \E result \in {"ok", "failed"} : PageDone(result)
  \/ ListLedger \/ EndUnlisted \/ ListNext

LEMMA NextCases ==
  ASSUME [Next]_vars
  PROVE  \/ \E files : Opens(files)
         \/ Collect
         \/ Crawls
         \/ \E w \in Workers : Take(w) \/ Refuse(w) \/ Move(w) \/ ExtractFails(w) \/ AppendLedger(w)
         \/ Crash
         \/ UNCHANGED vars
BY DEF Next, Step, Move, Opens, Crawls

LEMMA OpensBegins ==
  ASSUME NEW files, Opens(files)
  PROVE  /\ BeginImport(files)
         /\ UNCHANGED <<disk, raw, provenance, records, ledger, worker, imports, crashes>>
BY DEF Opens, ImportFolder, BeginCrawl, BeginImport, disk

(* The crawl leaves the store and the threads alone.                        *)
LEMMA CrawlsKeeps ==
  ASSUME Crawls
  PROVE  UNCHANGED <<disk, raw, provenance, records, ledger, worker, taken, folders, crashes>>
BY DEF Crawls, FetchPage, PageDone, ListLedger, EndUnlisted, ListNext, disk, pool

(* A folder import or a crawl finds the pool at rest: every outcome is in.  *)
LEMMA PoolRests ==
  ASSUME TypeOK, Jobs, collected = Len(selection)
  PROVE  Busy = {}
<1> SUFFICES ASSUME NEW w \in Busy PROVE FALSE
  OBVIOUS
<1>1. worker[w].job \in 1 .. MaxFiles /\ outcome[worker[w].job] = "pending"
  BY BusyWorks, WorkerStates DEF Jobs
<1>2. worker[w].job \in 1 .. collected
  <2>1. worker[w].job <= taken /\ taken <= Len(selection) /\ taken \in Int
    BY LenProperties DEF TypeOK
  <2> QED
    BY <1>1, <2>1, StoreAssumption, LenProperties DEF TypeOK
<1> QED
  BY <1>1, <1>2 DEF TypeOK

LEMMA FetchedIsFile ==
  ASSUME TypeOK, NEW p \in Pages
  PROVE  /\ Stamped(p) \in File /\ Stamped(p).fetched # 0
         /\ \A f \in Local : f \in File /\ f.fetched = 0
<1>1. Len(ledger) + 1 \in Nat \ {0}
  BY LenProperties DEF TypeOK
<1>2. p \in File /\ \A f \in Local : f \in File /\ f.fetched = 0
  BY StoreAssumption
<1> QED
  BY <1>1, <1>2 DEF Stamped, File

LEMMA SelectionIsSeq ==
  ASSUME TypeOK, NEW files, Opens(files)
  PROVE  files \in Seq(File) /\ Len(files) \in 0 .. MaxFiles
<1>1. ASSUME NEW n \in 1 .. MaxFiles, NEW s \in [1 .. n -> Local], files = s
      PROVE  files \in Seq(File) /\ Len(files) \in 0 .. MaxFiles
  <2>1. n \in Nat /\ s \in Seq(Local) /\ Local \subseteq File
    BY StoreAssumption
  <2>2. Len(s) = n
    BY <2>1, LenProperties
  <2> QED
    BY <1>1, <2>1, <2>2
<1>2. ASSUME NEW p \in Pages, files = <<Stamped(p)>>
      PROVE  files \in Seq(File) /\ Len(files) \in 0 .. MaxFiles
  <2>1. Len(<<Stamped(p)>>) = 1 /\ <<Stamped(p)>> \in Seq(File)
    BY FetchedIsFile
  <2>2. 1 \in 0 .. MaxFiles
    BY StoreAssumption
  <2> QED
    BY <1>2, <2>1, <2>2
<1>3. CASE files = <<>>
  BY <1>3, EmptySeq, StoreAssumption
<1>4. ASSUME files \in Selections
      PROVE  \/ \E p \in Pages : files = <<Stamped(p)>>
             \/ \E n \in 1 .. MaxFiles : \E s \in [1 .. n -> Local] : files = s
  BY <1>4 DEF Selections
<1> QED
  BY <1>1, <1>2, <1>3, <1>4 DEF Opens

(* The thread that takes a file works on it, and nobody else does.          *)
LEMMA TakeWorks ==
  ASSUME TypeOK, Jobs, NEW w \in Workers, Take(w)
  PROVE  /\ taken + 1 \in 1 .. Len(selection) /\ w \notin Busy
         /\ worker' \in [Workers -> WorkerState]
         /\ Busy' = Busy \cup {w}
         /\ worker'[w].pc = "check" /\ worker'[w].job = taken + 1
         /\ worker'[w].file = selection[taken + 1]
         /\ \A u \in Busy : worker'[u] = worker[u]
<1> DEFINE new == [pc |-> "check", job |-> taken + 1, file |-> selection[taken + 1]]
<1>1. taken + 1 \in 1 .. Len(selection) /\ taken + 1 \in 1 .. MaxFiles
  BY StoreAssumption, LenProperties DEF TypeOK, Jobs, Take
<1>2. selection[taken + 1] \in File
  BY <1>1, LenProperties DEF TypeOK
<1>3. new \in Working
  BY <1>1, <1>2 DEF Working, Steps
<1>4. worker \in [Workers -> WorkerState] /\ worker[w] = Idle
  BY DEF TypeOK, Take
<1>5. worker' = [worker EXCEPT ![w] = new]
  BY DEF Take
<1>6. new.pc = "check" /\ new.job = taken + 1 /\ new.file = selection[taken + 1]
  OBVIOUS
<1> HIDE DEF new
<1>7. Busy' = Busy \cup {w} /\ w \notin Busy
  BY <1>3, <1>4, <1>5, WorkerStates DEF Busy
<1> QED
  BY <1>1, <1>3, <1>4, <1>5, <1>6, <1>7, WorkerStates DEF Busy

-----------------------------------------------------------------------------
(* The types.                                                               *)
DiskOK ==
  /\ raw \in [Contents -> {"absent", "partial", "whole"}]
  /\ provenance \in [Contents -> {"absent", "partial", "mixed"} \cup Kinds]
  /\ records \in [Contents -> {"absent", "partial", "mixed"} \cup Kinds]

LEMMA DiskStep == TypeOK /\ [Next]_vars => DiskOK'
<1> SUFFICES ASSUME TypeOK, [Next]_vars PROVE DiskOK'
  OBVIOUS
<1>0. DiskOK
  BY DEF TypeOK, DiskOK
<1> USE <1>0 DEF DiskOK, disk
<1>1. CASE UNCHANGED disk
  BY <1>1
<1>2. ASSUME NEW w \in Workers, Move(w) PROVE DiskOK'
  <2>1. w \in Busy /\ FileOf(w).kind \in Kinds
    BY <1>2, MoveGoes, BusyWorks, WorkerStates DEF FileOf
  <2>2. CASE OpenRaw(w) \/ WriteRaw(w)
    BY <2>2 DEF OpenRaw, WriteRaw
  <2>3. CASE OpenProvenance(w) \/ OpenRecords(w)
    BY <2>3 DEF OpenProvenance, OpenRecords
  <2>4. CASE WriteProvenance(w)
    BY <2>1, <2>4 DEF WriteProvenance, Overwritten
  <2>5. CASE WriteRecords(w)
    BY <2>1, <2>5 DEF WriteRecords, Overwritten
  <2>6. CASE CheckRaw(w) \/ Extract(w)
    BY <1>1, <2>6 DEF CheckRaw, Extract
  <2> QED
    BY <1>2, <2>2, <2>3, <2>4, <2>5, <2>6 DEF Move
<1>3. ASSUME NEW w \in Workers, Take(w) \/ Refuse(w) \/ ExtractFails(w) \/ AppendLedger(w)
      PROVE  DiskOK'
  BY <1>3 DEF Take, Refuse, ExtractFails, AppendLedger
<1>4. CASE Collect \/ Crash \/ UNCHANGED vars \/ Crawls \/ \E files : Opens(files)
  BY <1>4, OpensBegins, CrawlsKeeps DEF Collect, Crash, vars
<1> QED
  BY <1>2, <1>3, <1>4, NextCases

LEMMA EntriesMade ==
  ASSUME TypeOK
  PROVE  /\ \A f \in File : Imported(f) \in Entry /\ Imported(f).file = f
         /\ \A i \in DOMAIN ledger :
              Rehydrated(i) \in Entry /\ Rehydrated(i).file = ledger[i]
                /\ Rehydrated(i).records = records[ledger[i].content]
<1>1. \A f \in File : f.kind \in Kinds
  BY DEF File
<1>2. \A i \in DOMAIN ledger : ledger[i] \in File /\ ledger[i].content \in Contents
  BY LogEntries DEF TypeOK
<1>3. \A c \in Contents : records[c] \in {"absent", "partial", "mixed"} \cup Kinds
  BY DEF TypeOK
<1> QED
  BY <1>1, <1>2, <1>3 DEF Imported, Rehydrated, Entry

(* The line a listing comes to, and what becomes of the list.               *)
LEMMA ListNextAdds ==
  ASSUME TypeOK, ListNext
  PROVE  \E i \in DOMAIN ledger :
           /\ i = Len(ledger) - crawl.left + 1
           /\ crawl' = [crawl EXCEPT !.left = @ - 1]
           /\ \/ imports' = imports /\ \E j \in DOMAIN imports : imports[j] = Rehydrated(i)
              \/ /\ imports' = Append(imports, Rehydrated(i))
                 /\ \A j \in DOMAIN imports : imports[j] # Rehydrated(i)
<1> DEFINE i == Len(ledger) - crawl.left + 1
<1>1. crawl.left \in 1 .. Len(ledger) /\ Len(ledger) \in Nat /\ DOMAIN ledger = 1 .. Len(ledger)
  BY LenProperties DEF TypeOK, ListNext
<1>2. i \in DOMAIN ledger
  BY <1>1
<1> QED
  BY <1>2 DEF ListNext

LEMMA LogsStep ==
  TypeOK /\ [Next]_vars => ledger' \in Seq(File) /\ imports' \in Seq(Entry)
<1> SUFFICES ASSUME TypeOK, [Next]_vars
             PROVE  ledger' \in Seq(File) /\ imports' \in Seq(Entry)
  OBVIOUS
<1>0. ledger \in Seq(File) /\ imports \in Seq(Entry)
  BY DEF TypeOK
<1>1. CASE Collect
  <2>1. collected + 1 \in 1 .. Len(selection)
    BY <1>1, LenProperties DEF Collect, TypeOK
  <2>2. selection[collected + 1] \in File
    BY <2>1, LenProperties DEF TypeOK
  <2>3. Imported(selection[collected + 1]) \in Entry
    BY <2>2, EntriesMade
  <2>4. imports' \in {imports, Append(imports, Imported(selection[collected + 1]))}
    BY <1>1 DEF Collect
  <2> QED
    BY <1>0, <1>1, <2>3, <2>4 DEF Collect, disk
<1>2. ASSUME NEW w \in Workers, AppendLedger(w)
      PROVE  ledger' \in Seq(File) /\ imports' \in Seq(Entry)
  <2>1. FileOf(w) \in File
    BY <1>2, BusyWorks, WorkerStates DEF AppendLedger, FileOf, Steps
  <2>2. ledger' = Append(ledger, FileOf(w)) /\ imports' = imports
    BY <1>2 DEF AppendLedger
  <2> QED
    BY <1>0, <2>1, <2>2
<1>3. ASSUME NEW w \in Workers, Take(w) \/ Refuse(w) \/ Move(w) \/ ExtractFails(w)
      PROVE  ledger' \in Seq(File) /\ imports' \in Seq(Entry)
  BY <1>0, <1>3, MoveGoes DEF Take, Refuse, ExtractFails, disk
<1>4. CASE Crash \/ UNCHANGED vars \/ \E files : Opens(files)
  BY <1>0, <1>4, EmptySeq, OpensBegins DEF Crash, vars, disk
<1>5. CASE Crawls
  <2>1. UNCHANGED ledger
    BY <1>5, CrawlsKeeps
  <2>2. CASE ListNext
    <3>1. PICK i \in DOMAIN ledger :
            imports' = imports \/ imports' = Append(imports, Rehydrated(i))
      BY <2>2, ListNextAdds
    <3>2. Rehydrated(i) \in Entry
      BY EntriesMade
    <3> QED
      BY <1>0, <2>1, <3>1, <3>2
  <2>3. CASE ~ ListNext
    BY <1>0, <1>5, <2>1, <2>3 DEF Crawls, FetchPage, PageDone, ListLedger, EndUnlisted
  <2> QED
    BY <2>2, <2>3
<1> QED
  BY <1>1, <1>2, <1>3, <1>4, <1>5, NextCases

(* The folder selection and what has become of its files.                   *)
PoolOK ==
  /\ selection \in Seq(File)
  /\ outcome \in [1 .. Len(selection) -> {"pending", "ok", "failed"}]
  /\ taken \in 0 .. Len(selection) /\ collected \in 0 .. Len(selection)
  /\ crawl \in [on : BOOLEAN, left : 0 .. Len(ledger)]
  /\ folders \in 0 .. MaxFolders /\ crashes \in 0 .. MaxCrashes
  /\ \A j \in 1 .. collected : outcome[j] # "pending"

ThreadsOK ==
  /\ worker \in [Workers -> WorkerState]
  /\ \A w \in Busy : worker[w].job <= taken /\ FileOf(w) = selection[worker[w].job]

LEMMA TypeParts ==
  TypeOK <=> DiskOK /\ ledger \in Seq(File) /\ imports \in Seq(Entry) /\ PoolOK /\ ThreadsOK
BY DEF TypeOK, DiskOK, PoolOK, ThreadsOK

(* A busy thread's job is one of the selection that was not collected yet.  *)
LEMMA JobsOpen ==
  ASSUME TypeOK, Jobs, NEW w \in Busy
  PROVE  /\ worker[w].job \in 1 .. Len(selection) /\ worker[w].job \in 1 .. taken
         /\ worker[w].job \notin 1 .. collected
         /\ FileOf(w) = selection[worker[w].job] /\ FileOf(w) \in File
<1>1. worker[w].job \in 1 .. MaxFiles /\ worker[w].job <= taken /\ FileOf(w) \in File
  BY BusyWorks, WorkerStates DEF TypeOK, FileOf
<1>2. taken \in 0 .. Len(selection) /\ Len(selection) \in Nat
  BY LenProperties DEF TypeOK
<1>3. worker[w].job \in 1 .. Len(selection) /\ worker[w].job \in 1 .. taken
  BY <1>1, <1>2, StoreAssumption
<1> QED
  BY <1>1, <1>3 DEF TypeOK, Jobs

(* The ledger only grows.                                                   *)
LEMMA LedgerGrows ==
  ASSUME TypeOK, Jobs, [Next]_vars
  PROVE  /\ Len(ledger') \in Nat /\ Len(ledger) \in Nat /\ Len(ledger) <= Len(ledger')
         /\ \A i \in DOMAIN ledger : i \in DOMAIN ledger' /\ ledger'[i] = ledger[i]
         /\ \A f : OnLedger(f) => OnLedger(f)'
<1>0. ledger \in Seq(File) /\ Len(ledger) \in Nat
  BY LenProperties DEF TypeOK
<1>1. ASSUME NEW w \in Workers, AppendLedger(w)
      PROVE  /\ Len(ledger') = Len(ledger) + 1
             /\ \A i \in DOMAIN ledger : i \in DOMAIN ledger' /\ ledger'[i] = ledger[i]
  <2>1. FileOf(w) \in File /\ ledger' = Append(ledger, FileOf(w))
    BY <1>1, BusyWorks, JobsOpen DEF AppendLedger, Steps
  <2> QED
    BY <1>0, <2>1, Appended
<1>2. ASSUME NEW w \in Workers, Take(w) \/ Refuse(w) \/ Move(w) \/ ExtractFails(w)
      PROVE  UNCHANGED ledger
  BY <1>2, MoveGoes DEF Take, Refuse, ExtractFails, disk
<1>3. ASSUME Collect \/ Crash \/ UNCHANGED vars \/ Crawls \/ \E files : Opens(files)
      PROVE  UNCHANGED ledger
  BY <1>3, OpensBegins, CrawlsKeeps DEF Collect, Crash, vars, disk
<1>4. UNCHANGED ledger \/ \E w \in Workers : AppendLedger(w)
  BY <1>2, <1>3, NextCases
<1>5. /\ Len(ledger') \in Nat /\ Len(ledger) <= Len(ledger')
      /\ \A i \in DOMAIN ledger : i \in DOMAIN ledger' /\ ledger'[i] = ledger[i]
  BY <1>0, <1>1, <1>4
<1> QED
  BY <1>0, <1>5 DEF OnLedger

(* A page is added behind the others.                                       *)
LEMMA PageAdded ==
  ASSUME TypeOK, NEW p \in Pages, FetchPage(p)
  PROVE  /\ selection' \in Seq(File) /\ Len(selection') = Len(selection) + 1
         /\ outcome' \in [1 .. Len(selection') -> {"pending", "ok", "failed"}]
         /\ \A j \in 1 .. Len(selection) :
              selection'[j] = selection[j] /\ outcome'[j] = outcome[j]
         /\ selection'[Len(selection')] = Stamped(p) /\ outcome'[Len(selection')] = "pending"
         /\ Len(selection) \in Nat /\ Len(selection) < MaxFiles
<1>1. PICK n : n = Len(selection)
  OBVIOUS
<1>2. n \in Nat /\ selection \in Seq(File)
  BY <1>1, LenProperties DEF TypeOK
<1>3. outcome \in [1 .. n -> {"pending", "ok", "failed"}]
  BY <1>1 DEF TypeOK
<1>4. outcome \in Seq({"pending", "ok", "failed"}) /\ Len(outcome) = n
  BY <1>2, <1>3
<1>5. PICK o : o = Append(outcome, "pending")
  OBVIOUS
<1>6. /\ o \in [1 .. n + 1 -> {"pending", "ok", "failed"}]
      /\ o[n + 1] = "pending" /\ \A j \in 1 .. n : o[j] = outcome[j]
  <2>1. o \in Seq({"pending", "ok", "failed"}) /\ Len(o) = n + 1
    BY <1>4, <1>5, AppendProperties
  <2>2. o[n + 1] = "pending" /\ \A j \in 1 .. n : o[j] = outcome[j]
    BY <1>4, <1>5, AppendProperties
  <2>3. o \in [1 .. n + 1 -> {"pending", "ok", "failed"}]
    BY <2>1, LenProperties
  <2> QED
    BY <2>2, <2>3
<1>7. PICK t : t = Append(selection, Stamped(p))
  OBVIOUS
<1>8. /\ t \in Seq(File) /\ Len(t) = n + 1 /\ t[n + 1] = Stamped(p)
      /\ \A j \in 1 .. n : t[j] = selection[j]
  BY <1>1, <1>2, <1>7, FetchedIsFile
<1>9. selection' = t /\ outcome' = o /\ n < MaxFiles
  BY <1>1, <1>5, <1>7 DEF FetchPage
<1> QED
  BY <1>1, <1>2, <1>6, <1>8, <1>9

LEMMA PoolStep == TypeOK /\ Jobs /\ [Next]_vars => PoolOK'
<1> SUFFICES ASSUME TypeOK, Jobs, [Next]_vars PROVE PoolOK'
  OBVIOUS
<1>0. PoolOK /\ Len(selection) \in Nat /\ Len(ledger) \in Nat
  BY LenProperties DEF TypeOK, PoolOK
<1>9. crawl' \in [on : BOOLEAN, left : 0 .. Len(ledger)] => crawl' \in [on : BOOLEAN, left : 0 .. Len(ledger')]
  BY <1>0, LedgerGrows
<1> USE <1>0, <1>9, StoreAssumption DEF PoolOK, disk, pool
<1>1. ASSUME NEW files, Opens(files) PROVE PoolOK'
  <2>1. files \in Seq(File) /\ Len(files) \in Nat
    BY <1>1, SelectionIsSeq
  <2>2. BeginImport(files)
    BY <1>1, OpensBegins
  <2>3. crawl' \in [on : BOOLEAN, left : 0 .. Len(ledger)]
    BY <1>1 DEF Opens, ImportFolder, BeginCrawl
  <2> QED
    BY <2>1, <2>2, <2>3 DEF BeginImport
<1>2. CASE Collect
  BY <1>2 DEF Collect
<1>3. ASSUME NEW w \in Workers, Take(w) PROVE PoolOK'
  BY <1>3 DEF Take
<1>4. ASSUME NEW w \in Workers, Refuse(w) PROVE PoolOK'
  BY <1>4 DEF Refuse
<1>5. ASSUME NEW w \in Workers, Move(w) PROVE PoolOK'
  BY <1>5, MoveGoes
<1>6. ASSUME NEW w \in Workers, ExtractFails(w) \/ AppendLedger(w) PROVE PoolOK'
  <2>1. w \in Busy
    BY <1>6, BusyWorks DEF ExtractFails, AppendLedger, Steps
  <2>2. PICK r \in {"ok", "failed"} : outcome' = [outcome EXCEPT ![worker[w].job] = r]
    BY <1>6 DEF ExtractFails, AppendLedger, Done
  <2>3. UNCHANGED <<selection, taken, collected, crawl, folders, crashes>>
    BY <1>6 DEF ExtractFails, AppendLedger
  <2>4. worker[w].job \in 1 .. Len(selection)
    BY <2>1, JobsOpen
  <2> QED
    BY <2>2, <2>3, <2>4
<1>7. CASE Crash
  <2>1. <<>> \in [1 .. Len(<<>>) -> {"pending", "ok", "failed"}]
    BY EmptySeq, LenProperties
  <2> QED
    BY <1>7, <2>1, EmptySeq DEF Crash, NoCrawl
<1>8. CASE UNCHANGED vars
  BY <1>8 DEF vars
<1>10. ASSUME NEW p \in Pages, FetchPage(p) PROVE PoolOK'
  <2>1. UNCHANGED <<taken, collected, crawl, folders, crashes>>
    BY <1>10 DEF FetchPage
  <2> QED
    BY <1>10, <2>1, PageAdded
<1>11. ASSUME NEW r \in {"ok", "failed"}, PageDone(r) PROVE PoolOK'
  BY <1>11 DEF PageDone
<1>12. CASE ListLedger \/ EndUnlisted
  <2>1. crawl' \in [on : BOOLEAN, left : 0 .. Len(ledger)]
    <3>1. crawl' = [on |-> FALSE, left |-> Len(ledger)] \/ crawl' = [on |-> FALSE, left |-> 0]
      BY <1>12 DEF ListLedger, EndUnlisted, NoCrawl
    <3>2. PICK n \in 0 .. Len(ledger) : crawl' = [on |-> FALSE, left |-> n]
      BY <3>1
    <3>3. FALSE \in BOOLEAN
      OBVIOUS
    <3> QED
      BY <3>2, <3>3
  <2>2. UNCHANGED <<selection, outcome, taken, collected, folders, crashes>>
    BY <1>12 DEF ListLedger, EndUnlisted
  <2> QED
    BY <2>1, <2>2
<1>13. CASE ListNext
  <2>1. crawl' \in [on : BOOLEAN, left : 0 .. Len(ledger)]
    <3>1. crawl.left > 0 /\ crawl' = [crawl EXCEPT !.left = @ - 1]
      BY <1>13 DEF ListNext
    <3>2. crawl.left - 1 \in 0 .. Len(ledger)
      BY <3>1
    <3> QED
      BY <3>1, <3>2
  <2>2. UNCHANGED <<selection, outcome, taken, collected, folders, crashes>>
    BY <1>13 DEF ListNext
  <2> QED
    BY <2>1, <2>2
<1> QED
  BY <1>1, <1>2, <1>3, <1>4, <1>5, <1>6, <1>7, <1>8, <1>10, <1>11, <1>12, <1>13, NextCases
     DEF Crawls

LEMMA ThreadsStep == TypeOK /\ Jobs /\ [Next]_vars => ThreadsOK'
<1> SUFFICES ASSUME TypeOK, Jobs, [Next]_vars PROVE ThreadsOK'
  OBVIOUS
<1>0. /\ worker \in [Workers -> WorkerState] /\ taken \in Int
      /\ \A w \in Busy : worker[w].job \in Int /\ worker[w].job <= taken
                        /\ FileOf(w) = selection[worker[w].job]
  BY JobsOpen, LenProperties DEF TypeOK
<1>1. ASSUME NEW files, Opens(files) PROVE ThreadsOK'
  <2>1. Busy = {} /\ worker' = worker
    BY <1>1, PoolRests, OpensBegins DEF BeginImport
  <2>2. Busy' = {}
    BY <2>1 DEF Busy
  <2> QED
    BY <1>0, <2>1, <2>2 DEF ThreadsOK
<1>2. CASE Collect \/ UNCHANGED vars \/ (Crawls /\ ~ \E p \in Pages : FetchPage(p))
  <2>1. UNCHANGED <<worker, taken, selection>>
    BY <1>2 DEF Collect, vars, pool, Crawls, PageDone, ListLedger, EndUnlisted, ListNext
  <2> QED
    BY <1>0, <2>1 DEF ThreadsOK, Busy, FileOf
<1>8. ASSUME NEW p \in Pages, FetchPage(p) PROVE ThreadsOK'
  <2>1. UNCHANGED <<worker, taken>> /\ Busy' = Busy
    BY <1>8 DEF FetchPage, Busy
  <2>2. \A w \in Busy : selection'[worker[w].job] = selection[worker[w].job]
    BY <1>8, JobsOpen, PageAdded
  <2> QED
    BY <1>0, <2>1, <2>2 DEF ThreadsOK, FileOf
<1>3. ASSUME NEW w \in Workers, Take(w) PROVE ThreadsOK'
  <2>1. taken' = taken + 1 /\ selection' = selection
    BY <1>3 DEF Take
  <2> QED
    BY <1>0, <1>3, <2>1, TakeWorks DEF ThreadsOK, FileOf
<1>4. ASSUME NEW w \in Workers, Refuse(w) PROVE ThreadsOK'
  <2>1. taken' = taken + 1 /\ UNCHANGED <<worker, selection>>
    BY <1>4 DEF Refuse
  <2> QED
    BY <1>0, <2>1 DEF ThreadsOK, Busy, FileOf
<1>5. ASSUME NEW w \in Workers, Move(w) PROVE ThreadsOK'
  <2>1. PICK p \in Steps : w \in Busy /\ Goto(w, p)
    BY <1>5, MoveGoes
  <2>2. UNCHANGED <<taken, selection>>
    BY <1>5, MoveGoes
  <2> QED
    BY <1>0, <2>1, <2>2, GotoMoves DEF ThreadsOK, FileOf
<1>6. ASSUME NEW w \in Workers, ExtractFails(w) \/ AppendLedger(w) PROVE ThreadsOK'
  <2>1. w \in Busy
    BY <1>6, BusyWorks DEF ExtractFails, AppendLedger, Steps
  <2>2. PICK r \in {"ok", "failed"} : Done(w, r)
    BY <1>6 DEF ExtractFails, AppendLedger
  <2>3. UNCHANGED <<taken, selection>>
    BY <1>6 DEF ExtractFails, AppendLedger, pool
  <2>4. /\ worker' \in [Workers -> WorkerState] /\ Busy' \subseteq Busy
        /\ \A u \in Busy' : worker'[u] = worker[u]
    BY <2>1, <2>2, DoneRests
  <2> QED
    BY <1>0, <2>3, <2>4 DEF ThreadsOK, FileOf
<1>7. CASE Crash
  <2>1. worker' = [u \in Workers |-> Idle]
    BY <1>7 DEF Crash
  <2> QED
    BY <2>1, WorkerStates DEF ThreadsOK, Busy
<1> QED
  BY <1>1, <1>2, <1>3, <1>4, <1>5, <1>6, <1>7, <1>8, NextCases DEF Crawls

LEMMA TypeStep == TypeOK /\ Jobs /\ [Next]_vars => TypeOK'
BY DiskStep, LogsStep, PoolStep, ThreadsStep, TypeParts
   DEF TypeOK, DiskOK, PoolOK, ThreadsOK

-----------------------------------------------------------------------------
(* The jobs.                                                                *)
LEMMA JobsStep == TypeOK /\ Jobs /\ [Next]_vars => Jobs'
<1> SUFFICES ASSUME TypeOK, Jobs, [Next]_vars PROVE Jobs'
  OBVIOUS
<1>0. /\ Len(selection) \in Nat /\ taken \in 0 .. Len(selection)
      /\ outcome \in [1 .. Len(selection) -> {"pending", "ok", "failed"}]
      /\ \A w \in Busy : worker[w].job \in 1 .. Len(selection) /\ worker[w].job <= taken
  BY JobsOpen, LenProperties DEF TypeOK
<1>1. ASSUME NEW files, Opens(files) PROVE Jobs'
  <2>0. BeginImport(files)
    BY <1>1, OpensBegins
  <2>1. Busy' = {}
    BY <2>0, PoolRests DEF BeginImport, Busy
  <2>2. /\ selection' = files /\ taken' = 0
        /\ outcome' = [j \in 1 .. Len(files) |-> "pending"]
    BY <2>0 DEF BeginImport
  <2>3. Len(files) \in 0 .. MaxFiles
    BY <1>1, SelectionIsSeq
  <2> QED
    BY <2>1, <2>2, <2>3, StoreAssumption DEF Jobs
<1>2. CASE Collect \/ UNCHANGED vars \/ (Crawls /\ ~ \E p \in Pages : FetchPage(p))
  <2>1. UNCHANGED <<worker, taken, selection, outcome>>
    BY <1>2 DEF Collect, vars, pool, Crawls, PageDone, ListLedger, EndUnlisted, ListNext
  <2> QED
    BY <2>1 DEF Jobs, Busy
<1>8. ASSUME NEW p \in Pages, FetchPage(p) PROVE Jobs'
  <2>1. UNCHANGED <<worker, taken>> /\ Busy' = Busy
    BY <1>8 DEF FetchPage, Busy
  <2>2. \A u \in Busy : outcome'[worker[u].job] = outcome[worker[u].job]
    BY <1>0, <1>8, PageAdded
  <2>3. \A j \in taken + 1 .. Len(selection') : outcome'[j] = "pending"
    <3> SUFFICES ASSUME NEW j \in taken + 1 .. Len(selection') PROVE outcome'[j] = "pending"
      OBVIOUS
    <3>1. j \in taken + 1 .. Len(selection) \/ j = Len(selection')
      BY <1>0, <1>8, PageAdded
    <3>2. j \in taken + 1 .. Len(selection) => j \in 1 .. Len(selection)
      BY <1>0
    <3> QED
      BY <1>8, <3>1, <3>2, PageAdded DEF Jobs
  <2>4. Len(selection') <= MaxFiles
    BY <1>8, PageAdded, StoreAssumption
  <2> QED
    BY <2>1, <2>2, <2>3, <2>4 DEF Jobs
<1>3. ASSUME NEW w \in Workers, Take(w) PROVE Jobs'
  <2>1. taken' = taken + 1 /\ UNCHANGED <<selection, outcome>>
    BY <1>3 DEF Take
  <2>2. \A u \in Busy : worker[u].job # taken + 1
    BY <1>0
  <2>3. \A u, v \in Busy' : worker'[u].job = worker'[v].job => u = v
    BY <1>3, <2>2, TakeWorks DEF Jobs
  <2>4. \A u \in Busy' : outcome[worker'[u].job] = "pending"
    BY <1>0, <1>3, TakeWorks DEF Jobs
  <2> QED
    BY <1>0, <2>1, <2>3, <2>4 DEF Jobs
<1>4. ASSUME NEW w \in Workers, Refuse(w) PROVE Jobs'
  <2>1. /\ taken' = taken + 1 /\ UNCHANGED <<worker, selection>>
        /\ outcome' = [outcome EXCEPT ![taken + 1] = "failed"]
    BY <1>4 DEF Refuse
  <2>2. Busy' = Busy
    BY <2>1 DEF Busy
  <2>3. \A u \in Busy : outcome'[worker[u].job] = outcome[worker[u].job]
    BY <1>0, <2>1
  <2>4. \A j \in taken + 2 .. Len(selection) : outcome'[j] = outcome[j]
    BY <1>0, <2>1
  <2> QED
    BY <1>0, <2>1, <2>2, <2>3, <2>4 DEF Jobs
<1>5. ASSUME NEW w \in Workers, Move(w) PROVE Jobs'
  <2>1. PICK p \in Steps : w \in Busy /\ Goto(w, p)
    BY <1>5, MoveGoes
  <2>2. UNCHANGED <<taken, selection, outcome>>
    BY <1>5, MoveGoes
  <2> QED
    BY <2>1, <2>2, GotoMoves DEF Jobs
<1>6. ASSUME NEW w \in Workers, ExtractFails(w) \/ AppendLedger(w) PROVE Jobs'
  <2>1. w \in Busy
    BY <1>6, BusyWorks DEF ExtractFails, AppendLedger, Steps
  <2>2. PICK r \in {"ok", "failed"} : Done(w, r)
    BY <1>6 DEF ExtractFails, AppendLedger
  <2>3. UNCHANGED <<taken, selection>> /\ outcome' = [outcome EXCEPT ![worker[w].job] = r]
    BY <1>6, <2>2 DEF ExtractFails, AppendLedger, pool, Done
  <2>4. Busy' = Busy \ {w} /\ \A u \in Busy' : worker'[u] = worker[u]
    BY <2>1, <2>2, DoneRests
  <2>5. \A j \in 1 .. Len(selection) : j # worker[w].job => outcome'[j] = outcome[j]
    BY <1>0, <2>3
  <2>6. \A u \in Busy' : outcome'[worker'[u].job] = "pending"
    BY <1>0, <2>1, <2>4, <2>5 DEF Jobs
  <2>7. \A j \in taken + 1 .. Len(selection) : outcome'[j] = "pending"
    BY <1>0, <2>1, <2>5 DEF Jobs
  <2> QED
    BY <2>3, <2>4, <2>6, <2>7 DEF Jobs
<1>7. CASE Crash
  <2>1. worker' = [u \in Workers |-> Idle] /\ selection' = <<>> /\ taken' = 0
    BY <1>7 DEF Crash
  <2>2. Busy' = {}
    BY <2>1 DEF Busy
  <2> QED
    BY <2>1, <2>2, EmptySeq, StoreAssumption DEF Jobs
<1> QED
  BY <1>1, <1>2, <1>3, <1>4, <1>5, <1>6, <1>7, <1>8, NextCases DEF Crawls

-----------------------------------------------------------------------------
(* What has been staged is never absent again, before or after a kill.      *)
LEMMA NothingUnstaged ==
  ASSUME TypeOK, [Next]_vars, NEW c \in Contents
  PROVE  /\ raw[c] # "absent" => raw'[c] # "absent"
         /\ records[c] # "absent" => records'[c] # "absent"
<1>0. DiskOK
  BY TypeParts
<1> USE <1>0 DEF DiskOK, disk
<1>1. CASE UNCHANGED <<raw, records>>
  BY <1>1
<1>2. ASSUME NEW w \in Workers, OpenRaw(w) \/ WriteRaw(w) \/ OpenRecords(w)
      PROVE  /\ raw[c] # "absent" => raw'[c] # "absent"
             /\ records[c] # "absent" => records'[c] # "absent"
  BY <1>2 DEF OpenRaw, WriteRaw, OpenRecords
<1>3. ASSUME NEW w \in Workers, WriteRecords(w)
      PROVE  /\ raw[c] # "absent" => raw'[c] # "absent"
             /\ records[c] # "absent" => records'[c] # "absent"
  <2>1. FileOf(w).kind \in Kinds
    BY <1>3, BusyWorks, WorkerStates DEF WriteRecords, FileOf, Steps
  <2> QED
    BY <1>3, <2>1, StoreAssumption DEF WriteRecords, Overwritten
<1>4. ASSUME NEW w \in Workers,
             Take(w) \/ Refuse(w) \/ CheckRaw(w) \/ Extract(w) \/ OpenProvenance(w)
               \/ WriteProvenance(w) \/ ExtractFails(w) \/ AppendLedger(w)
      PROVE  UNCHANGED <<raw, records>>
  BY <1>4 DEF Take, Refuse, CheckRaw, Extract, OpenProvenance, WriteProvenance,
              ExtractFails, AppendLedger
<1>5. CASE Collect \/ Crash \/ UNCHANGED vars \/ Crawls \/ \E files : Opens(files)
  BY <1>1, <1>5, OpensBegins, CrawlsKeeps DEF Collect, Crash, vars
<1> QED
  BY <1>1, <1>2, <1>3, <1>4, <1>5, NextCases DEF Move

(* What a move makes of the thread that takes it.                           *)
LEMMA MoveStages ==
  ASSUME StoreInv, NEW w \in Workers, Move(w)
  PROVE  /\ worker'[w].pc \in PastRaw => raw'[Dir(w)] # "absent"
         /\ worker'[w].pc \in PastRecords => records'[Dir(w)] # "absent"
<1>0. TypeOK /\ Staged /\ [Next]_vars
  BY DEF StoreInv, Move, Next, Step
<1>1. w \in Busy /\ Dir(w) \in Contents /\ worker[w] \in Working
  BY <1>0, MoveGoes, BusyWorks, WorkerStates DEF Dir
<1>2. \A p \in Steps : Goto(w, p) => worker'[w].pc = p
  BY <1>0, <1>1, GotoMoves
<1>3. \A p \in Steps : At(w, p) => worker[w].pc = p
  BY DEF At
<1>4. DiskOK
  BY <1>0, TypeParts
<1>5. /\ worker[w].pc \in PastRaw => raw'[Dir(w)] # "absent"
      /\ worker[w].pc \in PastRecords => records'[Dir(w)] # "absent"
  BY <1>0, <1>1, NothingUnstaged DEF Staged
<1>6. CASE CheckRaw(w)
  <2>1. CASE raw[Dir(w)] = "absent"
    BY <1>2, <1>6, <2>1 DEF CheckRaw, Steps, PastRaw, PastRecords
  <2>2. CASE raw[Dir(w)] # "absent"
    BY <1>2, <1>6, <2>2 DEF CheckRaw, Steps, PastRaw, PastRecords, disk
  <2> QED
    BY <2>1, <2>2
<1>7. CASE OpenRaw(w)
  BY <1>1, <1>2, <1>4, <1>7 DEF OpenRaw, Steps, PastRaw, PastRecords, DiskOK
<1>8. CASE WriteRaw(w)
  BY <1>1, <1>2, <1>4, <1>8 DEF WriteRaw, Steps, PastRaw, PastRecords, DiskOK
<1>9. CASE Extract(w) \/ OpenProvenance(w) \/ WriteProvenance(w)
  BY <1>2, <1>3, <1>5, <1>9
     DEF Extract, OpenProvenance, WriteProvenance, Steps, PastRaw, PastRecords
<1>10. CASE OpenRecords(w)
  <2>1. records'[Dir(w)] = "partial"
    BY <1>1, <1>4, <1>10 DEF OpenRecords, DiskOK
  <2> QED
    BY <1>3, <1>5, <1>10, <2>1 DEF OpenRecords, Steps, PastRaw
<1>11. CASE WriteRecords(w)
  BY <1>3, <1>5, <1>11 DEF WriteRecords, Steps, PastRaw, PastRecords
<1> QED
  BY <1>6, <1>7, <1>8, <1>9, <1>10, <1>11 DEF Move

LEMMA StagedStep == StoreInv /\ [Next]_vars => Staged'
<1> SUFFICES ASSUME StoreInv, [Next]_vars PROVE Staged'
  OBVIOUS
<1>0. TypeOK /\ Jobs /\ Staged /\ ledger \in Seq(File)
  BY DEF StoreInv, TypeOK
<1>1. \A i \in DOMAIN ledger : ledger[i].content \in Contents
  BY <1>0, LogEntries
<1>2. \A u \in Busy : Dir(u) \in Contents /\ worker[u] \in Working
  BY <1>0, BusyWorks, WorkerStates DEF Dir
<1>3. ASSUME UNCHANGED ledger
      PROVE  \A i \in DOMAIN ledger' :
               raw'[ledger'[i].content] # "absent" /\ records'[ledger'[i].content] # "absent"
  BY <1>0, <1>1, <1>3, NothingUnstaged DEF Staged
<1>4. ASSUME NEW u \in Busy, worker'[u] = worker[u]
      PROVE  /\ worker'[u].pc \in PastRaw => raw'[Dir(u)'] # "absent"
             /\ worker'[u].pc \in PastRecords => records'[Dir(u)'] # "absent"
  BY <1>0, <1>2, <1>4, NothingUnstaged DEF Staged, Dir
<1>5. ASSUME NEW w \in Workers, Take(w) PROVE Staged'
  <2>1. /\ Busy' = Busy \cup {w} /\ worker'[w].pc = "check"
        /\ \A u \in Busy : worker'[u] = worker[u]
    BY <1>0, <1>5, TakeWorks
  <2>2. UNCHANGED ledger
    BY <1>5 DEF Take, disk
  <2> QED
    BY <1>3, <1>4, <2>1, <2>2 DEF Staged, PastRaw, PastRecords
<1>6. ASSUME NEW w \in Workers, Move(w) PROVE Staged'
  <2>1. PICK p \in Steps : w \in Busy /\ Goto(w, p)
    BY <1>0, <1>6, MoveGoes
  <2>2. UNCHANGED ledger
    BY <1>0, <1>6, MoveGoes
  <2>3. /\ Busy' = Busy /\ worker'[w].file = worker[w].file
        /\ \A u \in Busy : u # w => worker'[u] = worker[u]
    BY <1>0, <2>1, GotoMoves, BusyWorks
  <2>4. /\ worker'[w].pc \in PastRaw => raw'[Dir(w)'] # "absent"
        /\ worker'[w].pc \in PastRecords => records'[Dir(w)'] # "absent"
    BY <1>6, <2>3, MoveStages DEF Dir
  <2> QED
    BY <1>3, <1>4, <2>2, <2>3, <2>4 DEF Staged
<1>7. ASSUME NEW w \in Workers, ExtractFails(w) \/ AppendLedger(w) PROVE Staged'
  <2>1. w \in Busy
    BY <1>0, <1>7, BusyWorks DEF ExtractFails, AppendLedger, Steps
  <2>2. Busy' \subseteq Busy /\ \A u \in Busy' : worker'[u] = worker[u]
    BY <1>0, <1>7, <2>1, DoneRests DEF ExtractFails, AppendLedger
  <2>3. CASE ExtractFails(w)
    BY <1>3, <1>4, <2>2, <2>3 DEF Staged, ExtractFails, disk
  <2>4. CASE AppendLedger(w)
    <3>1. ledger' = Append(ledger, FileOf(w)) /\ worker[w].pc = "append ledger"
      BY <2>4 DEF AppendLedger, At
    <3>2. raw'[Dir(w)] # "absent" /\ records'[Dir(w)] # "absent"
      BY <1>0, <1>2, <2>1, <3>1, NothingUnstaged DEF Staged, PastRaw, PastRecords, Steps
    <3>3. \A i \in DOMAIN ledger' : ledger'[i] = FileOf(w) \/ (i \in DOMAIN ledger /\ ledger'[i] = ledger[i])
      <4> DEFINE f == FileOf(w)
      <4>1. f \in File /\ ledger \in Seq(File) /\ ledger' = Append(ledger, f)
        BY <1>0, <2>1, <3>1, JobsOpen DEF TypeOK
      <4> HIDE DEF f
      <4>2. /\ Append(ledger, f)[Len(ledger) + 1] = f
            /\ \A i \in DOMAIN ledger : Append(ledger, f)[i] = ledger[i]
            /\ \A i \in DOMAIN Append(ledger, f) : i = Len(ledger) + 1 \/ i \in DOMAIN ledger
        BY <4>1, Appended
      <4>3. \A i \in DOMAIN ledger' :
              ledger'[i] = f \/ (i \in DOMAIN ledger /\ ledger'[i] = ledger[i])
        BY <4>1, <4>2
      <4> QED
        BY <4>3 DEF f
    <3>4. \A i \in DOMAIN ledger' :
            raw'[ledger'[i].content] # "absent" /\ records'[ledger'[i].content] # "absent"
      BY <1>0, <1>1, <3>2, <3>3, NothingUnstaged DEF Staged, FileOf, Dir
    <3> QED
      BY <1>4, <2>2, <3>4 DEF Staged
  <2> QED
    BY <1>7, <2>3, <2>4
<1>8. ASSUME NEW w \in Workers, Refuse(w) PROVE Staged'
  BY <1>3, <1>4, <1>8 DEF Staged, Refuse, disk, Busy
<1>9. CASE Collect \/ UNCHANGED vars
  BY <1>3, <1>4, <1>9 DEF Staged, Collect, vars, disk, Busy
<1>10. CASE Crawls \/ \E files : Opens(files)
  <2>1. UNCHANGED <<raw, records, ledger, worker>>
    BY <1>10, OpensBegins, CrawlsKeeps
  <2> QED
    BY <1>3, <1>4, <2>1 DEF Staged, Busy
<1>11. CASE Crash
  BY <1>3, <1>11 DEF Staged, Crash, disk, Busy
<1> QED
  BY <1>5, <1>6, <1>7, <1>8, <1>9, <1>10, <1>11, NextCases

-----------------------------------------------------------------------------
(* As long as nothing is killed, what has been written has its writer.      *)

(* The thread whose turn it is aside, everyone stays at work.               *)
LEMMA OthersStay ==
  ASSUME StoreInv, [Next]_vars, crashes' = 0, NEW u \in Busy,
         ~ Move(u), ~ ExtractFails(u), ~ AppendLedger(u)
  PROVE  u \in Busy' /\ worker'[u] = worker[u]
<1>0. TypeOK /\ Jobs /\ u \in Workers
  BY BusyWorks DEF StoreInv
<1>1. CASE UNCHANGED worker
  BY <1>1 DEF Busy
<1>2. ASSUME NEW w \in Workers, Take(w) PROVE u \in Busy' /\ worker'[u] = worker[u]
  BY <1>0, <1>2, TakeWorks
<1>3. ASSUME NEW w \in Workers, Move(w) PROVE u \in Busy' /\ worker'[u] = worker[u]
  <2>1. PICK p \in Steps : w \in Busy /\ Goto(w, p)
    BY <1>0, <1>3, MoveGoes
  <2>2. u # w
    BY <1>3
  <2> QED
    BY <1>0, <2>1, <2>2, GotoMoves
<1>4. ASSUME NEW w \in Workers, ExtractFails(w) \/ AppendLedger(w)
      PROVE  u \in Busy' /\ worker'[u] = worker[u]
  <2>1. w \in Busy
    BY <1>0, <1>4, BusyWorks DEF ExtractFails, AppendLedger, Steps
  <2>2. PICK r \in {"ok", "failed"} : Done(w, r)
    BY <1>4 DEF ExtractFails, AppendLedger
  <2>3. Busy' = Busy \ {w} /\ \A v \in Busy' : worker'[v] = worker[v]
    BY <1>0, <2>1, <2>2, DoneRests
  <2>4. u # w
    BY <1>4
  <2> QED
    BY <2>3, <2>4
<1>5. CASE Collect \/ UNCHANGED vars \/ Crawls \/ \E files : Opens(files)
  BY <1>1, <1>5, OpensBegins, CrawlsKeeps DEF Collect, vars
<1>6. ASSUME NEW w \in Workers, Refuse(w) PROVE UNCHANGED worker
  BY <1>6 DEF Refuse
<1>7. ~ Crash
  BY <1>0 DEF Crash, TypeOK
<1> QED
  BY <1>1, <1>2, <1>3, <1>4, <1>5, <1>6, <1>7, NextCases

(* A file that is open stays so until its writer writes.                    *)
LEMMA StaysOpen ==
  ASSUME StoreInv, [Next]_vars, crashes' = 0, NEW c \in Contents,
         NEW step \in {"write raw", "write records"}, BeingWritten(c, step),
         ~ \E w \in Workers : Dir(w) = c /\ (WriteRaw(w) \/ WriteRecords(w)) /\ At(w, step)
  PROVE  BeingWritten(c, step)'
<1>0. TypeOK
  BY DEF StoreInv
<1>1. PICK u \in Busy : At(u, step) /\ Dir(u) = c
  BY DEF BeingWritten
<1>2. u \in Workers /\ worker[u].pc = step
  BY <1>0, <1>1, BusyWorks DEF At
<1>3. ~ WriteRaw(u) /\ ~ WriteRecords(u)
  BY <1>1, <1>2
<1>4. ~ Move(u)
  BY <1>2, <1>3 DEF Move, CheckRaw, OpenRaw, Extract, OpenProvenance, WriteProvenance, OpenRecords, At
<1>5. ~ ExtractFails(u) /\ ~ AppendLedger(u)
  BY <1>2 DEF ExtractFails, AppendLedger, At
<1>6. u \in Busy' /\ worker'[u] = worker[u]
  BY <1>4, <1>5, OthersStay
<1> QED
  BY <1>1, <1>6 DEF BeingWritten, At, Dir

LEMMA WriterIs ==
  ASSUME NEW c, NEW k
  PROVE  k \in Writers(c) <=>
           \/ \E i \in DOMAIN ledger : ledger[i].content = c /\ ledger[i].kind = k
           \/ \E u \in Busy : worker[u].pc \in PastRecords /\ Dir(u) = c /\ FileOf(u).kind = k
BY DEF Writers

(* Whoever opened the records is still at it, or on the ledger.             *)
LEMMA WritersStay ==
  ASSUME StoreInv, [Next]_vars, crashes' = 0, NEW c \in Contents, NEW k \in Writers(c)
  PROVE  k \in Writers(c)'
<1>0. TypeOK /\ Jobs /\ ledger \in Seq(File)
  BY DEF StoreInv, TypeOK
<1>1. ASSUME NEW i \in DOMAIN ledger
      PROVE  i \in DOMAIN ledger' /\ ledger'[i] = ledger[i]
  <2>1. CASE UNCHANGED ledger
    BY <2>1
  <2>2. ASSUME NEW w \in Workers, AppendLedger(w)
        PROVE  i \in DOMAIN ledger' /\ ledger'[i] = ledger[i]
    <3>1. FileOf(w) \in File /\ ledger' = Append(ledger, FileOf(w))
      BY <1>0, <2>2, BusyWorks, JobsOpen DEF AppendLedger, Steps
    <3> QED
      BY <1>0, <3>1, Appended
  <2>3. ASSUME NEW w \in Workers, Take(w) \/ Refuse(w) \/ Move(w) \/ ExtractFails(w)
        PROVE  UNCHANGED ledger
    BY <1>0, <2>3, MoveGoes DEF Take, Refuse, ExtractFails, disk
  <2>4. CASE Collect \/ Crash \/ UNCHANGED vars \/ Crawls \/ \E files : Opens(files)
    BY <2>1, <2>4, OpensBegins, CrawlsKeeps DEF Collect, Crash, vars, disk
  <2> QED
    BY <2>1, <2>2, <2>3, <2>4, NextCases
<1>2. ASSUME NEW i \in DOMAIN ledger, ledger[i].content = c, ledger[i].kind = k
      PROVE  k \in Writers(c)'
  BY <1>1, <1>2 DEF Writers
<1>3. ASSUME NEW u \in Busy, worker[u].pc \in PastRecords, Dir(u) = c, FileOf(u).kind = k
      PROVE  k \in Writers(c)'
  <2>0. u \in Workers /\ worker[u] \in Working
    BY <1>0, BusyWorks
  <2>1. CASE AppendLedger(u)
    <3>1. FileOf(u) \in File /\ ledger' = Append(ledger, FileOf(u))
      BY <1>0, <2>1, JobsOpen DEF AppendLedger
    <3>2. Len(ledger) + 1 \in DOMAIN ledger' /\ ledger'[Len(ledger) + 1] = FileOf(u)
      BY <1>0, <3>1, Appended
    <3>3. FileOf(u).content = c
      BY <1>3 DEF FileOf, Dir
    <3> QED
      BY <1>3, <3>2, <3>3 DEF Writers
  <2>2. CASE Move(u)
    <3>1. WriteRecords(u)
      BY <1>3, <2>2 DEF Move, CheckRaw, OpenRaw, WriteRaw, Extract, OpenProvenance,
                        WriteProvenance, OpenRecords, At, PastRecords
    <3>2. Goto(u, "append ledger")
      BY <3>1 DEF WriteRecords
    <3>3. u \in Busy' /\ worker'[u].pc = "append ledger" /\ worker'[u].file = worker[u].file
      BY <1>0, <3>2, GotoMoves DEF Steps
    <3> QED
      BY <1>3, <3>3 DEF Writers, PastRecords, Dir, FileOf
  <2>3. ~ ExtractFails(u)
    BY <1>3 DEF ExtractFails, At, PastRecords
  <2>4. CASE ~ Move(u) /\ ~ AppendLedger(u)
    <3>1. u \in Busy' /\ worker'[u] = worker[u]
      BY <2>3, <2>4, OthersStay
    <3> QED
      BY <1>3, <3>1 DEF Writers, Dir, FileOf
  <2> QED
    BY <2>1, <2>2, <2>4
<1> QED
  BY <1>2, <1>3, WriterIs

(* Who touches the raw file and the records of a directory.                 *)
LEMMA RawOf ==
  ASSUME TypeOK, [Next]_vars, NEW c \in Contents
  PROVE  \/ \E w \in Workers : Dir(w) = c /\ (OpenRaw(w) \/ WriteRaw(w))
         \/ raw'[c] = raw[c]
<1>0. DiskOK
  BY TypeParts
<1>1. ASSUME NEW w \in Workers, OpenRaw(w) \/ WriteRaw(w), Dir(w) # c
      PROVE  raw'[c] = raw[c]
  BY <1>0, <1>1 DEF OpenRaw, WriteRaw, DiskOK
<1>2. ASSUME NEW w \in Workers,
             Take(w) \/ Refuse(w) \/ CheckRaw(w) \/ Extract(w) \/ OpenProvenance(w)
               \/ WriteProvenance(w) \/ OpenRecords(w) \/ WriteRecords(w)
               \/ ExtractFails(w) \/ AppendLedger(w)
      PROVE  raw'[c] = raw[c]
  BY <1>2 DEF Take, Refuse, CheckRaw, Extract, OpenProvenance, WriteProvenance, OpenRecords,
              WriteRecords, ExtractFails, AppendLedger, disk
<1>3. CASE Collect \/ Crash \/ UNCHANGED vars \/ Crawls \/ \E files : Opens(files)
  BY <1>3, OpensBegins, CrawlsKeeps DEF Collect, Crash, vars, disk
<1> QED
  BY <1>1, <1>2, <1>3, NextCases DEF Move

LEMMA RecordsOf ==
  ASSUME TypeOK, [Next]_vars, NEW c \in Contents
  PROVE  \/ \E w \in Workers : Dir(w) = c /\ (OpenRecords(w) \/ WriteRecords(w))
         \/ records'[c] = records[c]
<1>0. DiskOK
  BY TypeParts
<1>1. ASSUME NEW w \in Workers, OpenRecords(w) \/ WriteRecords(w), Dir(w) # c
      PROVE  records'[c] = records[c]
  BY <1>0, <1>1 DEF OpenRecords, WriteRecords, DiskOK
<1>2. ASSUME NEW w \in Workers,
             Take(w) \/ Refuse(w) \/ CheckRaw(w) \/ Extract(w) \/ OpenProvenance(w)
               \/ WriteProvenance(w) \/ OpenRaw(w) \/ WriteRaw(w)
               \/ ExtractFails(w) \/ AppendLedger(w)
      PROVE  records'[c] = records[c]
  BY <1>2 DEF Take, Refuse, CheckRaw, Extract, OpenProvenance, WriteProvenance, OpenRaw,
              WriteRaw, ExtractFails, AppendLedger, disk
<1>3. CASE Collect \/ Crash \/ UNCHANGED vars \/ Crawls \/ \E files : Opens(files)
  BY <1>3, OpensBegins, CrawlsKeeps DEF Collect, Crash, vars, disk
<1> QED
  BY <1>1, <1>2, <1>3, NextCases DEF Move

LEMMA KillsCounted ==
  ASSUME TypeOK, [Next]_vars, crashes' = 0
  PROVE  crashes = 0 /\ ~ Crash
<1>1. ASSUME NEW w \in Workers, Take(w) \/ Refuse(w) \/ Move(w) \/ ExtractFails(w) \/ AppendLedger(w)
      PROVE  UNCHANGED crashes
  BY <1>1, MoveGoes DEF Take, Refuse, ExtractFails, AppendLedger
<1>2. ASSUME Collect \/ UNCHANGED vars \/ Crawls \/ \E files : Opens(files)
      PROVE  UNCHANGED crashes
  BY <1>2, OpensBegins, CrawlsKeeps DEF Collect, vars
<1>3. ~ Crash
  BY DEF Crash, TypeOK
<1> QED
  BY <1>1, <1>2, <1>3, NextCases

LEMMA WrittenStep == StoreInv /\ [Next]_vars => Written'
<1> SUFFICES ASSUME StoreInv, [Next]_vars, crashes' = 0, NEW c \in Contents
             PROVE  /\ raw'[c] = "partial" => BeingWritten(c, "write raw")'
                    /\ records'[c] = "partial" => BeingWritten(c, "write records")'
                    /\ records'[c] \in {"absent", "partial", "mixed"} \cup Writers(c)'
                    /\ records'[c] = "mixed" => \E k, l \in Writers(c)' : k # l
  BY DEF Written
<1>0. TypeOK /\ Staged /\ DiskOK /\ crashes = 0
  BY KillsCounted, TypeParts DEF StoreInv
<1>1. /\ raw[c] = "partial" => BeingWritten(c, "write raw")
      /\ records[c] = "partial" => BeingWritten(c, "write records")
      /\ records[c] \in {"absent", "partial", "mixed"} \cup Writers(c)
      /\ records[c] = "mixed" => \E k, l \in Writers(c) : k # l
  BY <1>0 DEF StoreInv, Written
<1>2. raw'[c] = "partial" => BeingWritten(c, "write raw")'
  <2>1. ASSUME NEW w \in Workers, Dir(w) = c, OpenRaw(w) PROVE BeingWritten(c, "write raw")'
    <3>1. w \in Busy /\ Goto(w, "write raw")
      BY <1>0, <2>1, MoveGoes DEF OpenRaw, Move
    <3>2. w \in Busy' /\ worker'[w].pc = "write raw" /\ worker'[w].file = worker[w].file
      BY <1>0, <3>1, GotoMoves DEF Steps
    <3> QED
      BY <2>1, <3>2 DEF BeingWritten, At, Dir, Busy
  <2>2. ASSUME NEW w \in Workers, Dir(w) = c, WriteRaw(w) PROVE raw'[c] # "partial"
    BY <1>0, <2>2 DEF WriteRaw, DiskOK
  <2>3. CASE ~ \E w \in Workers : Dir(w) = c /\ (OpenRaw(w) \/ WriteRaw(w))
    <3>1. raw'[c] = raw[c]
      BY <1>0, <2>3, RawOf
    <3>2. ASSUME raw[c] = "partial" PROVE BeingWritten(c, "write raw")'
      <4>1. ASSUME NEW w \in Workers, Dir(w) = c, WriteRaw(w) \/ WriteRecords(w), At(w, "write raw")
            PROVE  FALSE
        BY <2>3, <4>1 DEF WriteRecords, At
      <4> QED
        BY <1>1, <3>2, <4>1, StaysOpen
    <3> QED
      BY <3>1, <3>2
  <2> QED
    BY <2>1, <2>2, <2>3
<1>3. ASSUME NEW w \in Workers, Dir(w) = c, OpenRecords(w)
      PROVE  records'[c] = "partial" /\ BeingWritten(c, "write records")'
  <2>1. w \in Busy /\ Goto(w, "write records")
    BY <1>0, <1>3, MoveGoes DEF OpenRecords, Move
  <2>2. w \in Busy' /\ worker'[w].pc = "write records" /\ worker'[w].file = worker[w].file
    BY <1>0, <2>1, GotoMoves DEF Steps
  <2>3. records'[c] = "partial"
    BY <1>0, <1>3 DEF OpenRecords, DiskOK
  <2> QED
    BY <1>3, <2>2, <2>3 DEF BeingWritten, At, Dir, Busy
<1>4. ASSUME NEW w \in Workers, Dir(w) = c, WriteRecords(w)
      PROVE  /\ records'[c] # "partial"
             /\ records'[c] \in {"mixed"} \cup Writers(c)'
             /\ records'[c] = "mixed" => \E k, l \in Writers(c)' : k # l
  <2>1. PICK k : k = FileOf(w).kind
    OBVIOUS
  <2>2. w \in Busy /\ worker[w].pc = "write records" /\ k \in Kinds
    BY <1>0, <1>4, <2>1, BusyWorks, WorkerStates DEF WriteRecords, Steps, FileOf
  <2>3. k \in Writers(c)
    BY <1>4, <2>1, <2>2 DEF Writers, PastRecords
  <2>4. records[c] # "absent"
    BY <1>0, <1>4, <2>2 DEF Staged, PastRecords
  <2>5. records'[c] \in Overwritten(records[c], k)
    BY <1>0, <1>4, <2>1 DEF WriteRecords, DiskOK
  <2>6. k # "partial" /\ k # "mixed"
    BY <2>2, StoreAssumption
  <2>7. records'[c] = k \/ (records'[c] = "mixed" /\ records[c] # "partial" /\ records[c] # k)
    BY <2>5 DEF Overwritten
  <2>8. ASSUME records'[c] = "mixed" PROVE \E l, m \in Writers(c) : l # m
    BY <1>1, <2>3, <2>4, <2>6, <2>7, <2>8
  <2>9. \A l \in Writers(c) : l \in Writers(c)'
    BY WritersStay
  <2> QED
    BY <2>3, <2>6, <2>7, <2>8, <2>9
<1>5. CASE ~ \E w \in Workers : Dir(w) = c /\ (OpenRecords(w) \/ WriteRecords(w))
  <2>1. records'[c] = records[c]
    BY <1>0, <1>5, RecordsOf
  <2>2. \A l \in Writers(c) : l \in Writers(c)'
    BY WritersStay
  <2>3. ASSUME records[c] = "partial" PROVE BeingWritten(c, "write records")'
    <3>1. ASSUME NEW w \in Workers, Dir(w) = c, WriteRaw(w) \/ WriteRecords(w), At(w, "write records")
          PROVE  FALSE
      BY <1>5, <3>1 DEF WriteRaw, At
    <3> QED
      BY <1>1, <2>3, <3>1, StaysOpen
  <2>4. /\ records'[c] = "partial" => BeingWritten(c, "write records")'
        /\ records'[c] \in {"absent", "partial", "mixed"} \cup Writers(c)'
        /\ records'[c] = "mixed" => \E k, l \in Writers(c)' : k # l
    BY <1>1, <2>1, <2>2, <2>3
  <2> QED
    BY <1>2, <2>4
<1> QED
  BY <1>2, <1>3, <1>4, <1>5

-----------------------------------------------------------------------------
(* The ledger and the imports.                                              *)
LEMMA HeldFinite ==
  ASSUME TypeOK, NEW f
  PROVE  IsFiniteSet(Held(f)) /\ Cardinality(Held(f)) \in Nat
<1>1. IsFiniteSet(collected + 1 .. Len(selection))
  BY FS_Interval, LenProperties DEF TypeOK
<1>2. Held(f) \in SUBSET (collected + 1 .. Len(selection))
  BY DEF Held
<1> QED
  BY <1>1, <1>2, FS_Subset, FS_CardinalityType

(* The counts are numbers.                                                  *)
LEMMA CountsAre ==
  ASSUME TypeOK, NEW f
  PROVE  /\ Count(ledger, f) \in Nat /\ Count(imports, f) \in Nat
         /\ \A s \in Seq(File) \cup Seq(Entry) : Count(s, f) \in Nat
         /\ OnLedger(f) => Count(ledger, f) > 0
<1>1. \A s \in Seq(File) \cup Seq(Entry) :
        IsFiniteSet({i \in DOMAIN s : s[i] = f}) /\ Count(s, f) \in Nat
  <2> SUFFICES ASSUME NEW s \in Seq(File) \cup Seq(Entry)
               PROVE  IsFiniteSet({i \in DOMAIN s : s[i] = f}) /\ Count(s, f) \in Nat
    OBVIOUS
  <2>1. DOMAIN s = 1 .. Len(s) /\ Len(s) \in Nat
    BY LenProperties
  <2>2. IsFiniteSet(DOMAIN s)
    BY <2>1, FS_Interval
  <2>3. {i \in DOMAIN s : s[i] = f} \in SUBSET DOMAIN s
    OBVIOUS
  <2> QED
    BY <2>2, <2>3, FS_Subset, FS_CardinalityType DEF Count
<1>2. ASSUME OnLedger(f) PROVE Count(ledger, f) # 0
  <2>1. {i \in DOMAIN ledger : ledger[i] = f} # {}
    BY <1>2 DEF OnLedger
  <2> QED
    BY <1>1, <2>1, FS_EmptySet DEF Count, TypeOK
<1>3. ledger \in Seq(File) /\ imports \in Seq(Entry)
  BY DEF TypeOK
<1>4. Count(ledger, f) \in Nat /\ Count(imports, f) \in Nat
  BY <1>1, <1>3
<1>5. \A n \in Nat : n # 0 => n > 0
  OBVIOUS
<1>6. OnLedger(f) => Count(ledger, f) > 0
  BY <1>2, <1>4, <1>5
<1> QED
  BY <1>1, <1>4, <1>6

(* Nothing of f is in the list: it is counted as often.                     *)
LEMMA CountNone ==
  ASSUME NEW s, NEW f, \A i \in DOMAIN s : s[i] # f
  PROVE  Count(s, f) = 0
BY FS_EmptySet DEF Count

LEMMA OwedIs ==
  ASSUME TypeOK, NEW f
  PROVE  Owed(f) \in Int
BY CountsAre, HeldFinite DEF Owed, TypeOK

(* Collecting an outcome takes it from the futures; an import that succeeds *)
(* goes to the controller's list.                                           *)
LEMMA CollectOwes ==
  ASSUME TypeOK, Collect, NEW f \in File
  PROVE  Owed(f)' = Owed(f)
<1> DEFINE j == collected + 1
<1>0. /\ j \in 1 .. Len(selection) /\ collected \in Nat /\ Len(selection) \in Nat
      /\ selection[j] \in File /\ imports \in Seq(Entry) /\ ledger' = ledger
  <2>1. Len(selection) \in Nat /\ collected \in 0 .. Len(selection) /\ collected < Len(selection)
    BY LenProperties DEF TypeOK, Collect
  <2>2. \A i \in 1 .. Len(selection) : selection[i] \in File
    BY LenProperties DEF TypeOK
  <2> QED
    BY <2>1, <2>2 DEF TypeOK, Collect, disk
<1>1. Held(f)' = Held(f) \ {j}
  BY <1>0 DEF Collect, Held, pool
<1>2. j \in Held(f) <=> outcome[j] = "ok" /\ selection[j] = f
  BY <1>0 DEF Held
<1>3. Cardinality(Held(f)') = IF j \in Held(f) THEN Cardinality(Held(f)) - 1 ELSE Cardinality(Held(f))
  BY <1>1, HeldFinite, FS_RemoveElement
<1>4. /\ Count(imports, Imported(f)) \in Nat /\ Cardinality(Held(f)) \in Nat
      /\ Count(ledger, f) \in Nat
  BY CountsAre, HeldFinite DEF TypeOK
<1>5. Imported(selection[j]) = Imported(f) <=> selection[j] = f
  BY DEF Imported
<1>6. Count(imports', Imported(f)) =
        IF j \in Held(f) THEN Count(imports, Imported(f)) + 1 ELSE Count(imports, Imported(f))
  <2>1. CASE outcome[j] = "ok"
    <3>1. imports' = Append(imports, Imported(selection[j])) /\ Imported(selection[j]) \in Entry
      BY <1>0, <2>1, EntriesMade DEF Collect
    <3>2. Count(imports', Imported(f)) =
            IF Imported(selection[j]) = Imported(f)
            THEN Count(imports, Imported(f)) + 1 ELSE Count(imports, Imported(f))
      BY <1>0, <3>1, CountAppended
    <3> QED
      BY <1>2, <1>5, <2>1, <3>2
  <2>2. CASE outcome[j] # "ok"
    BY <1>2, <2>2 DEF Collect
  <2> QED
    BY <2>1, <2>2
<1>7. /\ Owed(f)' = Count(ledger', f) - (Count(imports', Imported(f)) + Cardinality(Held(f)'))
      /\ Count(ledger', f) = Count(ledger, f)
  BY <1>0 DEF Owed, Count, Imported
<1> QED
  BY <1>3, <1>4, <1>6, <1>7 DEF Owed

(* A thread that records its file leaves a success for the controller.      *)
LEMMA AppendOwes ==
  ASSUME TypeOK, Jobs, NEW w \in Workers, AppendLedger(w), NEW f \in File
  PROVE  Owed(f)' = Owed(f)
<1> DEFINE j == worker[w].job
<1>0. /\ w \in Busy /\ j \in 1 .. Len(selection) /\ j \notin 1 .. collected
      /\ FileOf(w) = selection[j] /\ FileOf(w) \in File /\ outcome[j] = "pending"
  BY BusyWorks, JobsOpen DEF AppendLedger, Steps, Jobs
<1>1. /\ collected \in Nat /\ Len(selection) \in Nat /\ ledger \in Seq(File)
      /\ outcome \in [1 .. Len(selection) -> {"pending", "ok", "failed"}]
  BY LenProperties DEF TypeOK
<1>2. /\ outcome' = [outcome EXCEPT ![j] = "ok"] /\ ledger' = Append(ledger, FileOf(w))
      /\ UNCHANGED <<selection, collected, imports>>
  BY DEF AppendLedger, Done, pool
<1>3. j \in collected + 1 .. Len(selection)
  BY <1>0, <1>1
<1>4. Held(f)' = IF FileOf(w) = f THEN Held(f) \cup {j} ELSE Held(f)
  <2>1. CASE FileOf(w) = f
    <3>1. outcome'[j] = "ok" /\ selection'[j] = f
      BY <1>0, <1>1, <1>2, <2>1
    <3>2. \A i \in 1 .. Len(selection) : i # j => outcome'[i] = outcome[i]
      BY <1>1, <1>2
    <3>3. ASSUME NEW i \in collected + 1 .. Len(selection)
          PROVE  outcome'[i] = "ok" /\ selection'[i] = f <=>
                   (outcome[i] = "ok" /\ selection[i] = f) \/ i = j
      BY <1>1, <1>2, <3>1, <3>2
    <3> QED
      BY <1>2, <1>3, <2>1, <3>3 DEF Held
  <2>2. CASE FileOf(w) # f
    BY <1>0, <1>1, <1>2, <1>3, <2>2 DEF Held
  <2> QED
    BY <2>1, <2>2
<1>5. j \notin Held(f)
  BY <1>0 DEF Held
<1>6. Cardinality(Held(f) \cup {j}) = Cardinality(Held(f)) + 1
  BY <1>5, HeldFinite, FS_AddElement
<1>7. Count(ledger', f) = IF FileOf(w) = f THEN Count(ledger, f) + 1 ELSE Count(ledger, f)
  BY <1>0, <1>1, <1>2, CountAppended
<1>8. /\ Count(imports, Imported(f)) \in Nat /\ Cardinality(Held(f)) \in Nat
      /\ Count(ledger, f) \in Nat
  BY CountsAre, HeldFinite DEF TypeOK
<1>9. Owed(f)' = Count(ledger', f) - (Count(imports, Imported(f)) + Cardinality(Held(f)'))
  BY <1>2 DEF Owed, Count, Imported
<1>10. CASE FileOf(w) = f
  BY <1>4, <1>6, <1>7, <1>8, <1>9, <1>10 DEF Owed
<1>11. CASE FileOf(w) # f
  BY <1>4, <1>7, <1>8, <1>9, <1>11 DEF Owed
<1> QED
  BY <1>10, <1>11

(* The end of a page's import is nobody's success any more.                 *)
LEMMA PageDoneOwes ==
  ASSUME StoreInv, NEW r \in {"ok", "failed"}, PageDone(r), NEW f \in File
  PROVE  Owed(f)' >= Owed(f) /\ (f \in Local => Owed(f)' = Owed(f))
<1> DEFINE j == collected + 1
<1>0. TypeOK /\ Listed
  BY DEF StoreInv
<1>1. /\ j \in 1 .. Len(selection) /\ collected \in Nat /\ Len(selection) \in Nat
      /\ crawl.on /\ collected' = j
      /\ UNCHANGED <<ledger, imports, selection, outcome>>
  BY <1>0, LenProperties DEF TypeOK, PageDone, disk, pool
<1>2. Held(f)' = Held(f) \ {j}
  BY <1>1 DEF Held
<1>3. f \in Local => j \notin Held(f)
  <2>1. selection[j].fetched # 0
    BY <1>0, <1>1 DEF Listed
  <2>2. f \in Local => f.fetched = 0
    BY StoreAssumption
  <2> QED
    BY <2>1, <2>2 DEF Held
<1>4. Cardinality(Held(f)') = IF j \in Held(f) THEN Cardinality(Held(f)) - 1 ELSE Cardinality(Held(f))
  BY <1>0, <1>2, HeldFinite, FS_RemoveElement
<1>5. /\ Count(imports, Imported(f)) \in Nat /\ Cardinality(Held(f)) \in Nat
      /\ Count(ledger, f) \in Nat
  BY <1>0, CountsAre, HeldFinite DEF TypeOK
<1>6. Owed(f)' = Count(ledger, f) - (Count(imports, Imported(f)) + Cardinality(Held(f)'))
  BY <1>1 DEF Owed, Count, Imported
<1> QED
  BY <1>3, <1>4, <1>5, <1>6 DEF Owed

(* Where the pool is at rest, no future holds a success.                    *)
LEMMA NothingHeld ==
  ASSUME TypeOK, collected = Len(selection), NEW f
  PROVE  Held(f) = {} /\ Cardinality(Held(f)) = 0
<1>1. Len(selection) \in Nat
  BY LenProperties DEF TypeOK
<1>2. Held(f) = {}
  BY <1>1 DEF Held
<1> QED
  BY <1>2, FS_EmptySet

(* A line is listed when it has no entry.                                   *)
LEMMA ListNextOwes ==
  ASSUME StoreInv, crashes = 0, ListNext, NEW f \in File
  PROVE  Owed(f)' >= 0 /\ (f \in Local => Owed(f)' = 0)
<1>0. /\ TypeOK /\ Owed(f) >= 0 /\ (f \in Local => Owed(f) = 0)
      /\ ledger \in Seq(File) /\ imports \in Seq(Entry)
  BY DEF StoreInv, Balanced, TypeOK
<1>1. collected = Len(selection)
  BY <1>0, LenProperties DEF StoreInv, Listed, ListNext, TypeOK
<1>2. Cardinality(Held(f)) = 0
  BY <1>0, <1>1, NothingHeld
<1>3. UNCHANGED <<ledger, selection, outcome, collected>>
  BY DEF ListNext, disk, pool
<1>4. /\ Owed(f) = Count(ledger, f) - Count(imports, Imported(f))
      /\ Owed(f)' = Count(ledger, f) - Count(imports', Imported(f))
  <2>1. Count(imports, Imported(f)) \in Nat /\ Count(ledger, f) \in Nat
    BY <1>0, CountsAre
  <2>2. Owed(f)' = Count(ledger, f) - (Count(imports', Imported(f)) + Cardinality(Held(f)))
    BY <1>3 DEF Owed, Count, Imported, Held
  <2>3. imports' \in Seq(Entry)
    BY <1>0, LogsStep DEF Next
  <2>4. Count(imports', Imported(f)) \in Nat
    BY <1>0, <2>3, CountsAre
  <2> QED
    BY <1>2, <2>1, <2>2, <2>4 DEF Owed
<1>5. CASE imports' = imports
  BY <1>0, <1>4, <1>5
<1>6. CASE imports' # imports
  <2>1. PICK i \in DOMAIN ledger :
          /\ imports' = Append(imports, Rehydrated(i))
          /\ \A j \in DOMAIN imports : imports[j] # Rehydrated(i)
    BY <1>0, <1>6, ListNextAdds
  <2>2. Rehydrated(i) \in Entry
    BY <1>0, EntriesMade
  <2>3. CASE Rehydrated(i) = Imported(f)
    <3>1. ledger[i] = f
      BY <2>3 DEF Rehydrated, Imported
    <3>2. Count(ledger, f) > 0 /\ Count(ledger, f) \in Nat
      BY <1>0, <3>1, CountsAre DEF OnLedger
    <3>3. Count(imports, Imported(f)) = 0
      BY <2>1, <2>3, CountNone
    <3>4. Count(imports', Imported(f)) = 1
      BY <1>0, <2>1, <2>2, <2>3, <3>3, CountAppended
    <3>5. f \notin Local
      BY <1>0, <1>4, <3>2, <3>3
    <3> QED
      BY <1>4, <3>2, <3>4, <3>5
  <2>4. CASE Rehydrated(i) # Imported(f)
    <3>1. Count(imports', Imported(f)) = Count(imports, Imported(f))
      BY <1>0, <2>1, <2>2, <2>4, CountAppended
    <3> QED
      BY <1>0, <1>4, <3>1
  <2> QED
    BY <2>3, <2>4
<1> QED
  BY <1>5, <1>6

LEMMA BalancedStep == StoreInv /\ [Next]_vars => Balanced'
<1> SUFFICES ASSUME StoreInv, [Next]_vars, crashes' = 0, NEW f \in File
             PROVE  Owed(f)' >= 0 /\ (f \in Local => Owed(f)' = 0)
  BY DEF Balanced
<1>0. TypeOK /\ Jobs /\ crashes = 0 /\ Len(selection) \in Nat
  BY KillsCounted, LenProperties DEF StoreInv, TypeOK
<1>1. Owed(f) >= 0 /\ (f \in Local => Owed(f) = 0)
  BY <1>0 DEF StoreInv, Balanced
<1>2. CASE Collect
  BY <1>0, <1>1, <1>2, CollectOwes
<1>3. ASSUME NEW w \in Workers, AppendLedger(w)
      PROVE  Owed(f)' >= 0 /\ (f \in Local => Owed(f)' = 0)
  BY <1>0, <1>1, <1>3, AppendOwes
<1>4. ASSUME UNCHANGED <<ledger, imports>>, Held(f)' = Held(f)
      PROVE  Owed(f)' >= 0 /\ (f \in Local => Owed(f)' = 0)
  <2>1. Owed(f)' = Owed(f)
    BY <1>4 DEF Owed, Count, Imported
  <2> QED
    BY <1>1, <2>1
<1>5. ASSUME NEW files, Opens(files)
      PROVE  UNCHANGED <<ledger, imports>> /\ Held(f)' = Held(f)
  <2>1. Held(f) = {}
    BY <1>0, <1>5, OpensBegins, NothingHeld DEF BeginImport
  <2>2. Held(f)' = {}
    BY <1>5, OpensBegins DEF BeginImport, Held
  <2> QED
    BY <1>5, <2>1, <2>2, OpensBegins
<1>6. ASSUME NEW w \in Workers, Take(w) \/ Move(w)
      PROVE  UNCHANGED <<ledger, imports>> /\ Held(f)' = Held(f)
  BY <1>0, <1>6, MoveGoes DEF Take, Held, disk
<1>7. ASSUME NEW w \in Workers, Refuse(w)
      PROVE  UNCHANGED <<ledger, imports>> /\ Held(f)' = Held(f)
  <2>1. /\ outcome' = [outcome EXCEPT ![taken + 1] = "failed"] /\ taken < Len(selection)
        /\ UNCHANGED <<ledger, imports, selection, collected>>
    BY <1>7 DEF Refuse, disk
  <2>2. taken \in Nat /\ Len(selection) \in Nat /\ taken + 1 \in 1 .. Len(selection)
    BY <1>0, <2>1, LenProperties DEF TypeOK
  <2>3. outcome[taken + 1] = "pending"
    BY <1>0, <2>2 DEF Jobs
  <2>4. \A j \in 1 .. Len(selection) : outcome'[j] = "ok" <=> outcome[j] = "ok"
    BY <1>0, <2>1, <2>3 DEF TypeOK
  <2>5. Held(f)' = Held(f)
    BY <1>0, <2>1, <2>4 DEF Held, TypeOK
  <2> QED
    BY <2>1, <2>5
<1>8. ASSUME NEW w \in Workers, ExtractFails(w)
      PROVE  UNCHANGED <<ledger, imports>> /\ Held(f)' = Held(f)
  <2>1. /\ outcome' = [outcome EXCEPT ![worker[w].job] = "failed"]
        /\ UNCHANGED <<ledger, imports, selection, collected>>
    BY <1>8 DEF ExtractFails, Done, disk, pool
  <2>2. w \in Busy
    BY <1>0, <1>8, BusyWorks DEF ExtractFails, Steps
  <2>3. outcome[worker[w].job] = "pending"
    BY <1>0, <2>2 DEF Jobs
  <2>4. \A j \in 1 .. Len(selection) : outcome'[j] = "ok" <=> outcome[j] = "ok"
    BY <1>0, <2>1, <2>3 DEF TypeOK
  <2>5. Held(f)' = Held(f)
    BY <1>0, <2>1, <2>4 DEF Held, TypeOK
  <2> QED
    BY <2>1, <2>5
<1>9. CASE UNCHANGED vars
  BY <1>4, <1>9 DEF vars, Held, disk, pool
<1>10. ~ Crash
  BY <1>0, KillsCounted
<1>11. ASSUME NEW p \in Pages, FetchPage(p)
       PROVE  UNCHANGED <<ledger, imports>> /\ Held(f)' = Held(f)
  <2>1. collected' = collected /\ collected = Len(selection) /\ UNCHANGED <<ledger, imports>>
    BY <1>11 DEF FetchPage, disk
  <2>2. \A j \in collected + 1 .. Len(selection') : outcome'[j] = "pending"
    BY <1>0, <1>11, <2>1, PageAdded
  <2>3. Held(f)' = {}
    BY <2>1, <2>2 DEF Held
  <2> QED
    BY <1>0, <2>1, <2>3, NothingHeld
<1>12. ASSUME NEW r \in {"ok", "failed"}, PageDone(r)
       PROVE  Owed(f)' >= 0 /\ (f \in Local => Owed(f)' = 0)
  <2>1. Owed(f)' >= Owed(f) /\ (f \in Local => Owed(f)' = Owed(f))
    BY <1>12, PageDoneOwes
  <2>2. Owed(f) \in Int
    BY <1>0, OwedIs
  <2>3. Owed(f)' \in Int
    <3>1. TypeOK'
      BY <1>0, TypeStep
    <3>2. Count(ledger', f) \in Nat /\ Count(imports', Imported(f)) \in Nat
      BY <1>0, <3>1, CountsAre DEF TypeOK
    <3>3. Held(f)' \in SUBSET (collected' + 1 .. Len(selection')) /\ IsFiniteSet(collected' + 1 .. Len(selection'))
      <4>1. collected' + 1 \in Int /\ Len(selection') \in Int
        BY <3>1, LenProperties DEF TypeOK
      <4>2. IsFiniteSet(collected' + 1 .. Len(selection'))
        BY <4>1, FS_Interval
      <4> QED
        BY <4>2 DEF Held
    <3>4. Cardinality(Held(f)') \in Nat
      BY <3>3, FS_Subset, FS_CardinalityType
    <3>5. Owed(f)' = Count(ledger', f) - (Count(imports', Imported(f)) + Cardinality(Held(f)'))
      BY DEF Owed, Count, Imported
    <3> QED
      BY <3>2, <3>4, <3>5
  <2> QED
    BY <1>1, <2>1, <2>2, <2>3
<1>13. CASE ListLedger \/ EndUnlisted
  BY <1>4, <1>13 DEF ListLedger, EndUnlisted, Held, disk, pool
<1>14. CASE ListNext
  BY <1>0, <1>14, ListNextOwes
<1> QED
  BY <1>2, <1>3, <1>4, <1>5, <1>6, <1>7, <1>8, <1>9, <1>10, <1>11, <1>12, <1>13, <1>14, NextCases
     DEF Crawls

(* A success has its line, and so has what is listed.                       *)
LEMMA ListedStep == StoreInv /\ [Next]_vars => Listed'
<1> SUFFICES ASSUME StoreInv, [Next]_vars PROVE Listed'
  OBVIOUS
<1>0. TypeOK /\ Jobs /\ Listed /\ Len(selection) \in Nat /\ collected \in 0 .. Len(selection)
  BY LenProperties DEF StoreInv, TypeOK
<1>1. \A f : OnLedger(f) => OnLedger(f)'
  BY <1>0, LedgerGrows
<1> DEFINE Successes == \A j \in 1 .. Len(selection) : outcome[j] = "ok" => OnLedger(selection[j])
           Entries   == \A i \in DOMAIN imports : OnLedger(imports[i].file)
           Crawling  == /\ crawl.on => crawl.left = 0 /\ \A j \in 1 .. Len(selection) : selection[j].fetched # 0
                        /\ crawl.left > 0 => collected = Len(selection)
<1>2. /\ Listed <=> Successes /\ Entries /\ Crawling
      /\ Listed' <=> Successes' /\ Entries' /\ Crawling'
  BY DEF Listed
<1>3. Successes /\ Entries /\ Crawling
  BY <1>0, <1>2
<1>4. UNCHANGED imports => Entries'
  BY <1>1, <1>3
<1>5. UNCHANGED <<selection, outcome>> => Successes'
  BY <1>1, <1>3
<1>6. UNCHANGED <<selection, crawl, collected>> => Crawling'
  BY <1>3
<1>7. ASSUME NEW files, Opens(files) PROVE Listed'
  <2>1. BeginImport(files) /\ UNCHANGED imports
    BY <1>7, OpensBegins
  <2>2. /\ selection' = files /\ outcome' = [j \in 1 .. Len(files) |-> "pending"]
        /\ crawl = NoCrawl
    BY <2>1 DEF BeginImport
  <2>3. Successes'
    BY <2>2
  <2>4. Crawling'
    <3>1. CASE ImportFolder(files)
      BY <2>2, <3>1 DEF ImportFolder, NoCrawl
    <3>2. CASE files = <<>> /\ BeginCrawl
      <4>1. crawl' = [on |-> TRUE, left |-> 0]
        BY <2>2, <3>2 DEF BeginCrawl, NoCrawl
      <4>2. Len(selection') = 0
        BY <2>2, <3>2, EmptySeq
      <4> QED
        BY <4>1, <4>2
    <3> QED
      BY <1>7, <3>1, <3>2 DEF Opens
  <2> QED
    BY <1>2, <1>4, <2>1, <2>3, <2>4
<1>8. CASE Collect
  <2>1. /\ UNCHANGED <<selection, outcome, crawl, ledger>> /\ ~ crawl.on
        /\ collected' = collected + 1 /\ collected < Len(selection)
    BY <1>8 DEF Collect, pool, disk
  <2>2. Crawling'
    BY <1>0, <1>3, <2>1
  <2>3. Entries'
    <3>1. CASE outcome[collected + 1] = "ok"
      <4>1. collected + 1 \in 1 .. Len(selection)
        BY <1>0, <2>1
      <4>2. selection[collected + 1] \in File
        BY <1>0, <4>1, LenProperties DEF TypeOK
      <4>3. /\ Imported(selection[collected + 1]) \in Entry
            /\ Imported(selection[collected + 1]).file = selection[collected + 1]
        BY <1>0, <4>2, EntriesMade
      <4>4. PICK e \in Entry : e.file = selection[collected + 1] /\ imports' = Append(imports, e)
        BY <1>8, <3>1, <4>3 DEF Collect
      <4>5. OnLedger(e.file)'
        BY <1>1, <1>3, <3>1, <4>1, <4>4
      <4>6. imports \in Seq(Entry)
        BY <1>0 DEF TypeOK
      <4>7. \A i \in DOMAIN imports' : imports'[i] = e \/ (i \in DOMAIN imports /\ imports'[i] = imports[i])
        BY <4>4, <4>6, Appended
      <4> QED
        BY <1>1, <1>3, <4>5, <4>7
    <3>2. CASE outcome[collected + 1] # "ok"
      BY <1>4, <1>8, <3>2 DEF Collect
    <3> QED
      BY <3>1, <3>2
  <2> QED
    BY <1>2, <1>5, <2>1, <2>2, <2>3
<1>9. ASSUME NEW p \in Pages, FetchPage(p) PROVE Listed'
  <2>1. UNCHANGED <<imports, crawl, collected, ledger>> /\ crawl.on
    BY <1>9 DEF FetchPage, disk
  <2>2. /\ Len(selection') = Len(selection) + 1
        /\ \A j \in 1 .. Len(selection) : selection'[j] = selection[j] /\ outcome'[j] = outcome[j]
        /\ selection'[Len(selection')].fetched # 0 /\ outcome'[Len(selection')] = "pending"
    BY <1>0, <1>9, PageAdded, FetchedIsFile
  <2>3. \A j \in 1 .. Len(selection') : j \in 1 .. Len(selection) \/ j = Len(selection')
    BY <1>0, <2>2
  <2>4. Successes'
    BY <1>1, <1>3, <2>2, <2>3
  <2>5. Crawling'
    BY <1>3, <2>1, <2>2, <2>3
  <2> QED
    BY <1>2, <1>4, <2>1, <2>4, <2>5
<1>10. ASSUME NEW r \in {"ok", "failed"}, PageDone(r) PROVE Listed'
  <2>1. UNCHANGED <<selection, outcome, imports, crawl>> /\ crawl.on
    BY <1>10 DEF PageDone, pool
  <2>2. Crawling'
    BY <1>3, <2>1
  <2> QED
    BY <1>2, <1>4, <1>5, <2>1, <2>2
<1>11. CASE ListLedger \/ EndUnlisted
  <2>1. UNCHANGED <<selection, outcome, imports, collected>> /\ collected = Len(selection)
    BY <1>11 DEF ListLedger, EndUnlisted, pool
  <2>2. crawl'.on = FALSE
    BY <1>11 DEF ListLedger, EndUnlisted, NoCrawl
  <2> QED
    BY <1>2, <1>4, <1>5, <2>1, <2>2
<1>12. CASE ListNext
  <2>1. PICK i \in DOMAIN ledger :
          /\ crawl' = [crawl EXCEPT !.left = @ - 1]
          /\ imports' = imports \/ imports' = Append(imports, Rehydrated(i))
    BY <1>0, <1>12, ListNextAdds
  <2>2. UNCHANGED <<selection, outcome, collected>> /\ crawl.left > 0
    BY <1>12 DEF ListNext, pool
  <2>3. Crawling'
    BY <1>0, <1>3, <2>1, <2>2 DEF TypeOK
  <2>4. Entries'
    <3>1. PICK e \in Entry : e = Rehydrated(i) /\ e.file = ledger[i]
      BY <1>0, EntriesMade
    <3>2. OnLedger(e.file)'
      <4>1. OnLedger(ledger[i])
        BY DEF OnLedger
      <4> QED
        BY <1>1, <3>1, <4>1
    <3>3. imports \in Seq(Entry)
      BY <1>0 DEF TypeOK
    <3>4. CASE imports' = Append(imports, e)
      <4>1. \A j \in DOMAIN imports' : imports'[j] = e \/ (j \in DOMAIN imports /\ imports'[j] = imports[j])
        BY <3>3, <3>4, Appended
      <4> QED
        BY <1>1, <1>3, <3>2, <4>1
    <3> QED
      BY <1>4, <2>1, <3>1, <3>4
  <2> QED
    BY <1>2, <1>5, <2>2, <2>3, <2>4
<1>13. ASSUME NEW w \in Workers, Take(w) \/ Move(w) PROVE Listed'
  <2>1. UNCHANGED <<selection, outcome, imports, crawl, collected>>
    BY <1>0, <1>13, MoveGoes DEF Take
  <2> QED
    BY <1>2, <1>4, <1>5, <1>6, <2>1
<1>14. ASSUME NEW w \in Workers, Refuse(w) PROVE Listed'
  <2>1. UNCHANGED <<selection, imports, crawl, collected>> /\ outcome' = [outcome EXCEPT ![taken + 1] = "failed"]
    BY <1>14 DEF Refuse
  <2>2. \A j \in 1 .. Len(selection) : outcome'[j] = "ok" => outcome[j] = "ok"
    BY <1>0, <2>1 DEF TypeOK
  <2>3. Successes'
    BY <1>1, <1>3, <2>1, <2>2
  <2> QED
    BY <1>2, <1>4, <1>6, <2>1, <2>3
<1>15. ASSUME NEW w \in Workers, ExtractFails(w) PROVE Listed'
  <2>1. UNCHANGED <<selection, imports, crawl, collected>> /\ outcome' = [outcome EXCEPT ![worker[w].job] = "failed"]
    BY <1>15 DEF ExtractFails, Done, pool
  <2>2. \A j \in 1 .. Len(selection) : outcome'[j] = "ok" => outcome[j] = "ok"
    BY <1>0, <2>1 DEF TypeOK
  <2>3. Successes'
    BY <1>1, <1>3, <2>1, <2>2
  <2> QED
    BY <1>2, <1>4, <1>6, <2>1, <2>3
<1>16. ASSUME NEW w \in Workers, AppendLedger(w) PROVE Listed'
  <2>1. /\ UNCHANGED <<selection, imports, crawl, collected>> /\ ledger' = Append(ledger, FileOf(w))
        /\ outcome' = [outcome EXCEPT ![worker[w].job] = "ok"]
    BY <1>16 DEF AppendLedger, Done, pool
  <2>2. w \in Busy /\ FileOf(w) = selection[worker[w].job] /\ FileOf(w) \in File
    BY <1>0, <1>16, BusyWorks, JobsOpen DEF AppendLedger, Steps
  <2>3. PICK f \in File : f = FileOf(w)
    BY <2>2
  <2>4. OnLedger(f)'
    BY <1>0, <2>1, <2>3, Appended DEF OnLedger, TypeOK
  <2>5. \A j \in 1 .. Len(selection) : outcome'[j] = "ok" => outcome[j] = "ok" \/ selection[j] = f
    BY <1>0, <2>1, <2>2, <2>3 DEF TypeOK
  <2>6. Successes'
    BY <1>1, <1>3, <2>1, <2>4, <2>5
  <2> QED
    BY <1>2, <1>4, <1>6, <2>1, <2>6
<1>17. CASE Crash
  <2>1. selection' = <<>> /\ imports' = <<>> /\ crawl' = NoCrawl
    BY <1>17 DEF Crash
  <2>2. Len(<<>>) = 0 /\ DOMAIN <<>> = {}
    BY EmptySeq
  <2> QED
    BY <2>1, <2>2 DEF Listed, NoCrawl
<1>18. CASE UNCHANGED vars
  BY <1>2, <1>4, <1>5, <1>6, <1>18 DEF vars, pool
<1> QED
  BY <1>7, <1>8, <1>9, <1>10, <1>11, <1>12, <1>13, <1>14, <1>15, <1>16, <1>17, <1>18, NextCases
     DEF Crawls

-----------------------------------------------------------------------------
(* What a crawl lists.  The pool is at rest, so that records of one kind    *)
(* are whole.                                                               *)
LEMMA RestingRecords ==
  ASSUME StoreInv, crashes = 0, Busy = {}, NEW i \in DOMAIN ledger, OneKind(ledger[i])
  PROVE  Rehydrated(i) = Imported(ledger[i])
<1>0. TypeOK /\ ledger[i] \in File /\ ledger[i].content \in Contents
  BY LogEntries DEF StoreInv, TypeOK
<1>1. PICK c \in Contents : c = ledger[i].content
  BY <1>0
<1>2. \A k \in Writers(c) : k = ledger[i].kind
  BY <1>1 DEF Writers, OneKind
<1>3. records[c] # "absent"
  BY <1>1 DEF StoreInv, Staged
<1>4. ~ BeingWritten(c, "write records")
  BY DEF BeingWritten
<1>5. /\ records[c] \in {"partial", "mixed"} \cup Writers(c)
      /\ records[c] # "partial"
      /\ records[c] = "mixed" => \E k, l \in Writers(c) : k # l
  BY <1>3, <1>4 DEF StoreInv, Written
<1>6. records[c] = ledger[i].kind
  BY <1>2, <1>5
<1> QED
  BY <1>1, <1>6 DEF Rehydrated, Imported

LEMMA AsImportedStep == StoreInv /\ [Next]_vars => AsImported'
<1> DEFINE One(f) == \A j \in DOMAIN ledger' : ledger'[j].content = f.content => ledger'[j].kind = f.kind
<1> SUFFICES ASSUME StoreInv, [Next]_vars, crashes' = 0, NEW i \in DOMAIN imports',
                    One(imports'[i].file)
             PROVE  imports'[i] = Imported(imports'[i].file)
  BY DEF AsImported, Imported, OneKind
<1>0. TypeOK /\ Jobs /\ crashes = 0 /\ ~ Crash /\ imports \in Seq(Entry)
  BY KillsCounted DEF StoreInv, TypeOK
<1>1. \A f : One(f) => OneKind(f)
  BY <1>0, LedgerGrows DEF OneKind
<1> HIDE DEF One
<1>2. ASSUME i \in DOMAIN imports, imports'[i] = imports[i]
      PROVE  imports'[i] = Imported(imports'[i].file)
  BY <1>0, <1>1, <1>2 DEF StoreInv, AsImported
<1>3. CASE Collect
  <2>1. collected + 1 \in 1 .. Len(selection)
    BY <1>0, <1>3, LenProperties DEF TypeOK, Collect
  <2>2. selection[collected + 1] \in File
    BY <1>0, <2>1, LenProperties DEF TypeOK
  <2>3. PICK e \in Entry : e = Imported(selection[collected + 1]) /\ e.file = selection[collected + 1]
    BY <1>0, <2>2, EntriesMade
  <2>4. imports' = imports \/ imports' = Append(imports, e)
    BY <1>3, <2>3 DEF Collect
  <2>5. imports'[i] = e \/ (i \in DOMAIN imports /\ imports'[i] = imports[i])
    BY <1>0, <2>4, Appended
  <2> QED
    BY <1>2, <2>3, <2>5
<1>4. CASE ListNext
  <2>1. PICK j \in DOMAIN ledger : imports' = imports \/ imports' = Append(imports, Rehydrated(j))
    BY <1>0, <1>4, ListNextAdds
  <2>2. PICK e \in Entry : e = Rehydrated(j) /\ e.file = ledger[j]
    BY <1>0, EntriesMade
  <2>3. imports'[i] = e \/ (i \in DOMAIN imports /\ imports'[i] = imports[i])
    BY <1>0, <2>1, <2>2, Appended
  <2>4. Busy = {}
    <3>1. collected = Len(selection)
      BY <1>4 DEF ListNext, StoreInv, Listed
    <3> QED
      BY <1>0, <3>1, PoolRests
  <2>5. CASE imports'[i] = e
    <3>1. OneKind(ledger[j])
      BY <1>1, <2>2, <2>5
    <3> QED
      BY <1>0, <2>2, <2>4, <2>5, <3>1, RestingRecords
  <2> QED
    BY <1>2, <2>3, <2>5
<1>5. CASE UNCHANGED imports
  BY <1>2, <1>5
<1>6. ASSUME NEW w \in Workers, Take(w) \/ Refuse(w) \/ Move(w) \/ ExtractFails(w) \/ AppendLedger(w)
      PROVE  UNCHANGED imports
  BY <1>0, <1>6, MoveGoes DEF Take, Refuse, ExtractFails, AppendLedger
<1>7. CASE UNCHANGED vars \/ (Crawls /\ ~ ListNext) \/ \E files : Opens(files)
  BY <1>5, <1>7, OpensBegins DEF vars, Crawls, FetchPage, PageDone, ListLedger, EndUnlisted
<1> QED
  BY <1>0, <1>3, <1>4, <1>5, <1>6, <1>7, NextCases

LEMMA StoreStart == Init => StoreInv
<1> SUFFICES ASSUME Init PROVE StoreInv
  OBVIOUS
<1>1. Busy = {} /\ worker \in [Workers -> WorkerState]
  BY WorkerStates DEF Init, Busy
<1>2. Len(<<>>) = 0 /\ <<>> \in Seq(File) /\ <<>> \in Seq(Entry) /\ DOMAIN <<>> = {}
  BY EmptySeq
<1>3. outcome \in [1 .. Len(selection) -> {"pending", "ok", "failed"}]
  BY <1>2, LenProperties DEF Init
<1>4. DiskOK /\ PoolOK /\ ThreadsOK
  BY <1>1, <1>2, <1>3, StoreAssumption DEF Init, DiskOK, PoolOK, ThreadsOK, NoCrawl
<1>5. TypeOK
  BY <1>2, <1>4, TypeParts DEF Init
<1>6. Jobs /\ Staged /\ Written
  BY <1>1, <1>2, StoreAssumption DEF Init, Jobs, Staged, Written
<1>7. Listed /\ AsImported
  BY <1>2 DEF Init, Listed, AsImported, NoCrawl
<1>8. Balanced
  <2>1. ASSUME NEW f \in File PROVE Owed(f) = 0
    <3>1. Count(ledger, f) = 0 /\ Count(imports, Imported(f)) = 0
      BY <1>2, CountNone DEF Init
    <3>2. Cardinality(Held(f)) = 0
      BY <1>2, <1>5, NothingHeld DEF Init
    <3> QED
      BY <3>1, <3>2 DEF Owed
  <2> QED
    BY <2>1 DEF Balanced
<1> QED
  BY <1>5, <1>6, <1>7, <1>8 DEF StoreInv

THEOREM StoreInvariance == Spec => []StoreInv
<1>1. Init => StoreInv
  BY StoreStart
<1>2. StoreInv /\ [Next]_vars => StoreInv'
  BY TypeStep, JobsStep, StagedStep, ListedStep, WrittenStep, BalancedStep, AsImportedStep
     DEF StoreInv
<1> QED
  BY <1>1, <1>2, PTL DEF Spec

(* A busy thread works on the file of its own job, and no job is collected  *)
(* before it has an outcome.                                                *)
THEOREM StoreTypes == Spec => []TypeOK
<1>1. StoreInv => TypeOK
  BY DEF StoreInv
<1> QED
  BY <1>1, StoreInvariance, PTL

(* The records file of every ledger line exists, before and after a kill,   *)
(* though a kill may leave it cut off or mixed; as long as there was none   *)
(* it is written out, or a thread is about to write it.                     *)
THEOREM LedgerResolves == Spec => []LedgerResolvable
<1>1. StoreInv => LedgerResolvable
  <2> SUFFICES ASSUME StoreInv, NEW i \in DOMAIN ledger
               PROVE  /\ records[ledger[i].content] # "absent"
                      /\ crashes = 0 /\ records[ledger[i].content] = "partial" =>
                           BeingWritten(ledger[i].content, "write records")
    BY DEF LedgerResolvable
  <2>1. ledger[i].content \in Contents
    BY LogEntries DEF StoreInv, TypeOK
  <2> QED
    BY <2>1 DEF StoreInv, Staged, Written
<1> QED
  BY <1>1, StoreInvariance, PTL

(* As long as no process was killed, the bytes of every ledgered import are *)
(* in the store, or the thread that found the directory empty is still      *)
(* writing them.                                                            *)
THEOREM RawIsStaged == Spec => []RawStaged
<1>1. StoreInv => RawStaged
  <2> SUFFICES ASSUME StoreInv, crashes = 0, NEW i \in DOMAIN ledger
               PROVE  \/ raw[ledger[i].content] = "whole"
                      \/ BeingWritten(ledger[i].content, "write raw")
    BY DEF RawStaged
  <2>1. ledger[i].content \in Contents
    BY LogEntries DEF StoreInv, TypeOK
  <2>2. raw[ledger[i].content] \in {"absent", "partial", "whole"}
    BY <2>1 DEF StoreInv, TypeOK
  <2> QED
    BY <2>1, <2>2 DEF StoreInv, Staged, Written
<1> QED
  BY <1>1, StoreInvariance, PTL

(* As long as no process was killed, bytes imported under one kind only are *)
(* read back as they were imported, unless a thread is rewriting their      *)
(* records at that moment.                                                  *)
THEOREM OneKindRehydrates == Spec => []SingleKindRehydrates
<1>1. StoreInv => SingleKindRehydrates
  <2> SUFFICES ASSUME StoreInv, crashes = 0, NEW i \in DOMAIN ledger,
                      Cardinality(KindsOf(ledger[i].content)) = 1
               PROVE  \/ Rehydrated(i) = Imported(ledger[i])
                      \/ BeingWritten(ledger[i].content, "write records")
    BY DEF SingleKindRehydrates
  <2>0. TypeOK /\ ledger \in Seq(File)
    BY DEF StoreInv, TypeOK
  <2>1. PICK c \in Contents : c = ledger[i].content
    BY <2>0, LogEntries
  <2>2. ledger[i] \in File /\ ledger[i].kind \in KindsOf(c)
    BY <2>0, <2>1, LogEntries DEF KindsOf
  <2>3. Writers(c) \subseteq KindsOf(c) /\ KindsOf(c) \subseteq Kinds
    <3>1. \A u \in Busy : FileOf(u).kind \in Kinds
      BY <2>0, BusyWorks, WorkerStates DEF FileOf
    <3>2. \A j \in DOMAIN ledger : ledger[j].kind \in Kinds
      BY <2>0, LogEntries
    <3> QED
      BY <3>1, <3>2 DEF Writers, KindsOf
  <2>4. \A k \in KindsOf(c) : k = ledger[i].kind
    <3>1. IsFiniteSet(KindsOf(c))
      BY <2>3, StoreAssumption, FS_Subset
    <3>2. PICK x : KindsOf(c) = {x}
      BY <2>1, <3>1, FS_Singleton
    <3> QED
      BY <2>2, <3>2
  <2>5. /\ records[c] # "absent"
        /\ records[c] = "partial" => BeingWritten(c, "write records")
        /\ records[c] \in {"absent", "partial", "mixed"} \cup Writers(c)
        /\ records[c] = "mixed" => \E k, l \in Writers(c) : k # l
    BY <2>1 DEF StoreInv, Staged, Written
  <2>6. records[c] = ledger[i].kind \/ BeingWritten(c, "write records")
    BY <2>3, <2>4, <2>5
  <2>7. records[c] = ledger[i].kind => Rehydrated(i) = Imported(ledger[i])
    BY <2>1 DEF Rehydrated, Imported
  <2> QED
    BY <2>1, <2>6, <2>7
<1> QED
  BY <1>1, StoreInvariance, PTL

(* As long as no process was killed, the ledger and the controller's list   *)
(* agree: a user's file has one line per entry and uncollected success, and *)
(* what a crawl listed of bytes with one kind is what was imported.         *)
THEOREM ImportsMatch == Spec => []LedgerMatchesImports
<1>1. StoreInv => LedgerMatchesImports
  <2> SUFFICES ASSUME StoreInv, crashes = 0 PROVE LedgerMatchesImports
    BY DEF LedgerMatchesImports
  <2>0. TypeOK /\ \A f \in File : Owed(f) >= 0 /\ (f \in Local => Owed(f) = 0)
    BY DEF StoreInv, Balanced
  <2>1. \A f : /\ Count(ledger, f) \in Nat /\ Count(imports, Imported(f)) \in Nat
               /\ Cardinality(Held(f)) \in Nat
    BY <2>0, CountsAre, HeldFinite
  <2>2. ASSUME NEW f \in Local
        PROVE  Count(ledger, f) = Count(imports, Imported(f)) + Cardinality(Held(f))
    <3>1. Owed(f) = 0
      BY <2>0, StoreAssumption
    <3> QED
      BY <2>1, <3>1 DEF Owed
  <2>3. ASSUME NEW i \in DOMAIN imports
        PROVE  /\ Count(imports, Imported(imports[i].file)) <= Count(ledger, imports[i].file)
               /\ OneKind(imports[i].file) => imports[i] = Imported(imports[i].file)
    <3>1. PICK f \in File : f = imports[i].file
      <4>1. imports[i] \in Entry
        BY <2>0, LenProperties DEF TypeOK
      <4> QED
        BY <4>1 DEF Entry
    <3>2. Count(imports, Imported(f)) <= Count(ledger, f)
      BY <2>0, <2>1 DEF Owed
    <3> QED
      BY <3>1, <3>2 DEF StoreInv, AsImported
  <2> QED
    BY <2>2, <2>3 DEF LedgerMatchesImports
<1> QED
  BY <1>1, StoreInvariance, PTL
=============================================================================
