----------------------------- MODULE IngestStore -----------------------------
(***************************************************************************)
(* The content-addressed ingest store of a workspace                       *)
(* (python/spaceslug/workspace.py, WorkspaceService) and the folder import *)
(* of the desktop controller that fills it: a folder from a pool of        *)
(* threads (python/spaceslug/desktop/controller.py, import_local_folder),  *)
(* a crawl page by page, listing the ledger at its end                     *)
(* (crawl_documentation).                                                  *)
(*                                                                         *)
(* An import has a source, bytes and the kind its name suggests; one that  *)
(* was fetched has the time of it, here the ledger line it is to have.     *)
(* The SHA-256 directory of the bytes is shared by every import of them;   *)
(* only the ledger has one line per import.  A file write                  *)
(* is two steps, because write_bytes truncates before it writes; a thread  *)
(* whose file was written by another since it truncated it overwrites the  *)
(* head and may leave a longer tail behind ("mixed").  A ledger line is    *)
(* appended by one write.  The process can be killed between any two       *)
(* steps: what is on disk stays, everything else starts afresh.            *)
(***************************************************************************)
EXTENDS Integers, Sequences, FiniteSets

CONSTANTS
  Origins,     \* paths of files and addresses of pages
  Contents,    \* byte strings, each standing for its SHA-256 directory
  Kinds,       \* kinds infer_kind tells apart
  Local,       \* files of the user
  Pages,       \* pages of the web
  Extractable, \* pairs of content and kind from which extract_text succeeds
  Workers,     \* threads of the import pool
  MaxFiles,    \* bound: files of one folder selection, pages of one crawl
  MaxFolders,  \* bound: folder imports and crawls of a run
  MaxCrashes   \* bound: process kills of a run

File == [source : Origins, content : Contents, kind : Kinds, fetched : Nat]

ASSUME StoreAssumption ==
  /\ Local \cup Pages \subseteq {f \in File : f.fetched = 0}
  /\ IsFiniteSet(Kinds) /\ Kinds \cap {"absent", "partial", "mixed"} = {}
  /\ Extractable \subseteq Contents \X Kinds
  /\ Workers # {}
  /\ MaxFiles \in Nat \ {0} /\ MaxFolders \in Nat /\ MaxCrashes \in Nat

VARIABLES
  raw,         \* per directory: "absent", "partial" or "whole"
  provenance,  \* per directory: "absent", "partial", "mixed" or the kind it records
  records,     \* per directory: "absent", "partial", "mixed" or the kind extracted
  ledger,      \* sources.jsonl: the imports recorded, one per line
  worker,      \* what each pool thread is doing, and for which file
  selection,   \* files of the folder import in progress, in order
  taken,       \* how many of them the pool has handed to a thread
  outcome,     \* outcome of each file of the selection
  collected,   \* how many outcomes the controller has collected
  imports,     \* the controller's list of imports
  crawl,       \* whether a crawl imports, and the ledger lines it has yet to list
  folders,     \* folder imports and crawls begun
  crashes      \* process kills so far

disk == <<raw, provenance, records, ledger>>
pool == <<selection, taken>>
vars == <<disk, worker, pool, outcome, collected, imports, crawl, folders, crashes>>

-----------------------------------------------------------------------------
Idle == [pc |-> "idle"]
Busy == {w \in Workers : worker[w] # Idle}

NoCrawl == [on |-> FALSE, left |-> 0]

(* An import as import_bytes returns it, with the records it extracted.     *)
Imported(f) == [file |-> f, records |-> f.kind]

Stamped(p) == [p EXCEPT !.fetched = Len(ledger) + 1]

(* The files of a folder, or one page (import_url).                         *)
Selections ==
  {<<Stamped(p)>> : p \in Pages} \cup
  UNION {{s \in [1 .. n -> Local] : \A i, j \in 1 .. n : s[i] = s[j] => i = j} : n \in 1 .. MaxFiles}

(* A thread moves on to its next step.                                      *)
Goto(w, step) == worker' = [worker EXCEPT ![w].pc = step]

(* A thread is done with its file, which then has an outcome.               *)
Done(w, result) ==
  /\ worker' = [worker EXCEPT ![w] = Idle]
  /\ outcome' = [outcome EXCEPT ![worker[w].job] = result]

Init ==
  /\ raw = [c \in Contents |-> "absent"]
  /\ provenance = [c \in Contents |-> "absent"]
  /\ records = [c \in Contents |-> "absent"]
  /\ ledger = <<>>
  /\ worker = [w \in Workers |-> Idle]
  /\ selection = <<>>
  /\ taken = 0
  /\ outcome = <<>>
  /\ collected = 0
  /\ imports = <<>>
  /\ crawl = NoCrawl
  /\ folders = 0
  /\ crashes = 0

-----------------------------------------------------------------------------
(* The controller begins to import files, when it is done with the last.    *)
BeginImport(files) ==
  /\ folders < MaxFolders
  /\ collected = Len(selection) /\ crawl = NoCrawl
  /\ selection' = files
  /\ taken' = 0
  /\ outcome' = [j \in 1 .. Len(files) |-> "pending"]
  /\ collected' = 0
  /\ folders' = folders + 1
  /\ UNCHANGED <<disk, worker, imports, crashes>>

(* Submit every file of a folder to the pool, then collect the futures in   *)
(* selection order.  A single import is a folder of one.                    *)
ImportFolder(files) ==
  /\ BeginImport(files)
  /\ UNCHANGED crawl

(* Mutant: the collector does not wait for the future.                      *)
CollectUnfinished ==
  /\ ~crawl.on
  /\ collected < Len(selection)
  /\ collected' = collected + 1
  /\ imports' = IF outcome[collected + 1] = "ok"
                THEN Append(imports, Imported(selection[collected + 1])) ELSE imports
  /\ UNCHANGED <<disk, worker, pool, outcome, crawl, folders, crashes>>

Collect ==
  /\ ~crawl.on
  /\ collected < Len(selection)
  /\ outcome[collected + 1] # "pending"
  /\ collected' = collected + 1
  /\ imports' = IF outcome[collected + 1] = "ok"
                THEN Append(imports, Imported(selection[collected + 1])) ELSE imports
  /\ UNCHANGED <<disk, worker, pool, outcome, crawl, folders, crashes>>

-----------------------------------------------------------------------------
(* A crawl.  It imports one page after the other in the UI thread, for      *)
(* which any thread of the pool stands, the others being idle, and keeps    *)
(* none of what import_bytes returns.                                       *)
BeginCrawl ==
  /\ BeginImport(<<>>)
  /\ crawl' = [crawl EXCEPT !.on = TRUE]

FetchPage(p) ==
  /\ crawl.on
  /\ collected = Len(selection) /\ Len(selection) < MaxFiles
  /\ selection' = Append(selection, Stamped(p))
  /\ outcome' = Append(outcome, "pending")
  /\ UNCHANGED <<disk, worker, taken, collected, imports, crawl, folders, crashes>>

(* import_bytes has returned, or raised.                                    *)
PageDone(result) ==
  /\ crawl.on
  /\ collected < Len(selection)
  /\ outcome[collected + 1] = result
  /\ collected' = collected + 1
  /\ UNCHANGED <<disk, worker, pool, outcome, imports, crawl, folders, crashes>>

(* The crawl is over and every line of the ledger is read, which may fail   *)
(* at records that a kill or several kinds left half written.               *)
ListLedger ==
  /\ crawl.on
  /\ collected = Len(selection)
  /\ \A i \in DOMAIN ledger : records[ledger[i].content] # "absent"
  /\ crawl' = [on |-> FALSE, left |-> Len(ledger)]
  /\ UNCHANGED <<disk, worker, pool, outcome, collected, imports, folders, crashes>>

(* Reading the ledger raises; or a script resumed the crawl, and lists      *)
(* nothing.                                                                 *)
EndUnlisted ==
  /\ crawl.on
  /\ collected = Len(selection)
  /\ crawl' = NoCrawl
  /\ UNCHANGED <<disk, worker, pool, outcome, collected, imports, folders, crashes>>

(* list_imports: what reading the ledger back gives for line i.             *)
Rehydrated(i) == [file |-> ledger[i], records |-> records[ledger[i].content]]

(* imports.extend: the lines not in the list as they were read are added.   *)
ListNext ==
  /\ crawl.left > 0
  /\ crawl' = [crawl EXCEPT !.left = @ - 1]
  /\ LET line == Rehydrated(Len(ledger) - crawl.left + 1)
     IN  imports' = IF \E i \in DOMAIN imports : imports[i] = line
                    THEN imports ELSE Append(imports, line)
  /\ UNCHANGED <<disk, worker, pool, outcome, collected, folders, crashes>>

-----------------------------------------------------------------------------
(* Mutant: the file is appended to, not truncated.                          *)
OverwrittenAppending(content, k) ==
  IF content = "partial" THEN {k} ELSE {"mixed"}

(* What writing kind k leaves of a file that holds the content now.         *)
Overwritten(content, k) ==
  IF content \in {"partial", k} THEN {k} ELSE {k, "mixed"}

(* A pool thread.  Take reads the file and makes the directory; a file that *)
(* cannot be read is refused before the store is touched.                   *)
Take(w) ==
  /\ worker[w] = Idle
  /\ taken < Len(selection)
  /\ taken' = taken + 1
  /\ worker' = [worker EXCEPT ![w] =
                  [pc |-> "check", job |-> taken + 1, file |-> selection[taken + 1]]]
  /\ UNCHANGED <<disk, selection, outcome, collected, imports, crawl, folders, crashes>>

Refuse(w) ==
  /\ worker[w] = Idle /\ ~crawl.on
  /\ taken < Len(selection)
  /\ taken' = taken + 1
  /\ outcome' = [outcome EXCEPT ![taken + 1] = "failed"]
  /\ UNCHANGED <<disk, worker, selection, collected, imports, crawl, folders, crashes>>

At(w, step) == worker[w] # Idle /\ worker[w].pc = step
FileOf(w)   == worker[w].file
Dir(w)      == worker[w].file.content

(* Mutant: the test looks at the directory, which mkdir has just made.      *)
CheckRawDirectory(w) ==
  /\ At(w, "check")
  /\ Goto(w, "extract")
  /\ UNCHANGED <<disk, pool, outcome, collected, imports, crawl, folders, crashes>>

(* raw_path.exists(): whoever comes second relies on the first writer.      *)
CheckRaw(w) ==
  /\ At(w, "check")
  /\ Goto(w, IF raw[Dir(w)] = "absent" THEN "open raw" ELSE "extract")
  /\ UNCHANGED <<disk, pool, outcome, collected, imports, crawl, folders, crashes>>

OpenRaw(w) ==
  /\ At(w, "open raw")
  /\ raw' = [raw EXCEPT ![Dir(w)] = "partial"]
  /\ Goto(w, "write raw")
  /\ UNCHANGED <<provenance, records, ledger, pool, outcome, collected, imports, crawl, folders, crashes>>

WriteRaw(w) ==
  /\ At(w, "write raw")
  /\ raw' = [raw EXCEPT ![Dir(w)] = "whole"]
  /\ Goto(w, "extract")
  /\ UNCHANGED <<provenance, records, ledger, pool, outcome, collected, imports, crawl, folders, crashes>>

(* extract_text works on the bytes in memory, not on the raw file.          *)
Extract(w) ==
  /\ At(w, "extract")
  /\ <<Dir(w), FileOf(w).kind>> \in Extractable
  /\ Goto(w, "open provenance")
  /\ UNCHANGED <<disk, pool, outcome, collected, imports, crawl, folders, crashes>>

(* An extraction that fails leaves the raw file and no ledger line.         *)
ExtractFails(w) ==
  /\ At(w, "extract")
  /\ <<Dir(w), FileOf(w).kind>> \notin Extractable
  /\ Done(w, "failed")
  /\ UNCHANGED <<disk, pool, collected, imports, crawl, folders, crashes>>

OpenProvenance(w) ==
  /\ At(w, "open provenance")
  /\ provenance' = [provenance EXCEPT ![Dir(w)] = "partial"]
  /\ Goto(w, "write provenance")
  /\ UNCHANGED <<raw, records, ledger, pool, outcome, collected, imports, crawl, folders, crashes>>

(* Mutant: the ledger line is written along with the provenance.            *)
WriteProvenanceAndLedger(w) ==
  /\ At(w, "write provenance")
  /\ provenance' = [provenance EXCEPT ![Dir(w)] = FileOf(w).kind]
  /\ ledger' = Append(ledger, FileOf(w))
  /\ Goto(w, "open records")
  /\ UNCHANGED <<raw, records, pool, outcome, collected, imports, crawl, folders, crashes>>

WriteProvenance(w) ==
  /\ At(w, "write provenance")
  /\ \E left \in Overwritten(provenance[Dir(w)], FileOf(w).kind) :
       provenance' = [provenance EXCEPT ![Dir(w)] = left]
  /\ Goto(w, "open records")
  /\ UNCHANGED <<raw, records, ledger, pool, outcome, collected, imports, crawl, folders, crashes>>

OpenRecords(w) ==
  /\ At(w, "open records")
  /\ records' = [records EXCEPT ![Dir(w)] = "partial"]
  /\ Goto(w, "write records")
  /\ UNCHANGED <<raw, provenance, ledger, pool, outcome, collected, imports, crawl, folders, crashes>>

WriteRecords(w) ==
  /\ At(w, "write records")
  /\ \E left \in Overwritten(records[Dir(w)], FileOf(w).kind) :
       records' = [records EXCEPT ![Dir(w)] = left]
  /\ Goto(w, "append ledger")
  /\ UNCHANGED <<raw, provenance, ledger, pool, outcome, collected, imports, crawl, folders, crashes>>

(* Mutant: bytes already on the ledger get no second line.                  *)
AppendLedgerOnce(w) ==
  /\ At(w, "append ledger")
  /\ ledger' = IF \E i \in DOMAIN ledger : ledger[i].content = Dir(w)
               THEN ledger ELSE Append(ledger, FileOf(w))
  /\ Done(w, "ok")
  /\ UNCHANGED <<raw, provenance, records, pool, collected, imports, crawl, folders, crashes>>

AppendLedger(w) ==
  /\ At(w, "append ledger")
  /\ ledger' = Append(ledger, FileOf(w))
  /\ Done(w, "ok")
  /\ UNCHANGED <<raw, provenance, records, pool, collected, imports, crawl, folders, crashes>>

Step(w) ==
  \/ Take(w)            \/ Refuse(w)
  \/ CheckRaw(w)        \/ OpenRaw(w)        \/ WriteRaw(w)
  \/ Extract(w)         \/ ExtractFails(w)
  \/ OpenProvenance(w)  \/ WriteProvenance(w)
  \/ OpenRecords(w)     \/ WriteRecords(w)
  \/ AppendLedger(w)

(* The process is killed and the application started again.                 *)
Crash ==
  /\ crashes < MaxCrashes
  /\ crashes' = crashes + 1
  /\ worker' = [w \in Workers |-> Idle]
  /\ selection' = <<>>
  /\ taken' = 0
  /\ outcome' = <<>>
  /\ collected' = 0
  /\ imports' = <<>>
  /\ crawl' = NoCrawl
  /\ UNCHANGED <<disk, folders>>

Next ==
  \/ \E files \in Selections : ImportFolder(files)
  \/ Collect
  \/ BeginCrawl \/ ListLedger \/ EndUnlisted \/ ListNext
  \/ \E p \in Pages : FetchPage(p)
  \/ \E result \in {"ok", "failed"} : PageDone(result)
  \/ \E w \in Workers : Step(w)
  \/ Crash

Spec == Init /\ [][Next]_vars

-----------------------------------------------------------------------------
WorkerState ==
  {Idle} \cup [pc : {"check", "open raw", "write raw", "extract", "open provenance",
                     "write provenance", "open records", "write records", "append ledger"},
               job : 1 .. MaxFiles, file : File]

Entry == [file : File, records : {"absent", "partial", "mixed"} \cup Kinds]

(* Types: a busy thread works on the file of its own job, and no job is     *)
(* collected before it has an outcome.                                      *)
TypeOK ==
  /\ raw \in [Contents -> {"absent", "partial", "whole"}]
  /\ provenance \in [Contents -> {"absent", "partial", "mixed"} \cup Kinds]
  /\ records \in [Contents -> {"absent", "partial", "mixed"} \cup Kinds]
  /\ ledger \in Seq(File) /\ imports \in Seq(Entry) /\ selection \in Seq(File)
  /\ worker \in [Workers -> WorkerState]
  /\ outcome \in [1 .. Len(selection) -> {"pending", "ok", "failed"}]
  /\ taken \in 0 .. Len(selection) /\ collected \in 0 .. Len(selection)
  /\ crawl \in [on : BOOLEAN, left : 0 .. Len(ledger)]
  /\ folders \in 0 .. MaxFolders /\ crashes \in 0 .. MaxCrashes
  /\ \A w \in Busy : worker[w].job <= taken /\ FileOf(w) = selection[worker[w].job]
  /\ \A j \in 1 .. collected : outcome[j] # "pending"

(* A directory some thread is about to complete.                            *)
BeingWritten(c, step) == \E w \in Busy : At(w, step) /\ Dir(w) = c

(* Every ledger line has its records file (list_imports opens the           *)
(* records.jsonl of every line), after any kill; after a kill the file may  *)
(* be cut off or mixed.  As long as no process was killed it is written     *)
(* out, or some thread is about to write it.                                *)
LedgerResolvable ==
  \A i \in DOMAIN ledger :
    LET c == ledger[i].content
    IN  /\ records[c] # "absent"
        /\ crashes = 0 /\ records[c] = "partial" => BeingWritten(c, "write records")

(* As long as no process was killed, the bytes of every ledgered import are *)
(* in the store, or being written by the thread that found the directory    *)
(* empty: the threads that skip the write do not end up relying on each     *)
(* other.  A line may so precede its bytes.  Of a store in which a process  *)
(* was killed this says nothing.                                            *)
RawStaged ==
  crashes = 0 =>
    \A i \in DOMAIN ledger :
      LET c == ledger[i].content
      IN  raw[c] = "whole" \/ BeingWritten(c, "write raw")

(* The kinds under which the bytes of c are on the ledger or being imported.*)
KindsOf(c) ==
  {ledger[i].kind : i \in {j \in DOMAIN ledger : ledger[j].content = c}}
    \cup {FileOf(w).kind : w \in {u \in Busy : Dir(u) = c}}

(* As long as no process was killed, bytes imported under one kind only are *)
(* read back as they were imported, however many threads wrote them at      *)
(* once, except by a reader that looks between the truncation and the       *)
(* write.  Of a store in which a process was killed this says nothing.      *)
SingleKindRehydrates ==
  crashes = 0 =>
    \A i \in DOMAIN ledger :
      LET c == ledger[i].content
      IN  Cardinality(KindsOf(c)) = 1 =>
            Rehydrated(i) = Imported(ledger[i]) \/ BeingWritten(c, "write records")

Count(s, f) == Cardinality({i \in DOMAIN s : s[i] = f})

(* Successes of f that a future still holds, or a crawl is to go on from.   *)
Held(f) == {j \in collected + 1 .. Len(selection) : outcome[j] = "ok" /\ selection[j] = f}

(* The bytes of f are on the ledger under its kind only.                    *)
OneKind(f) == \A i \in DOMAIN ledger : ledger[i].content = f.content => ledger[i].kind = f.kind

(* As long as no process was killed, the ledger and the controller's list   *)
(* agree, whatever the interleaving of the threads, folders and crawls: of  *)
(* a user's file there are as many lines as list entries and successes in   *)
(* futures, so that no crawl lists one again; of a page not fewer; and what *)
(* a crawl listed of bytes with one kind is what was imported.              *)
LedgerMatchesImports ==
  crashes = 0 =>
    /\ \A f \in Local :
         Count(ledger, f) = Count(imports, Imported(f)) + Cardinality(Held(f))
    /\ \A i \in DOMAIN imports :
         LET f == imports[i].file
         IN  /\ Count(imports, Imported(f)) <= Count(ledger, f)
             /\ OneKind(f) => imports[i] = Imported(f)

(* "Rehydrate previously staged imports from the append-only ledger": with  *)
(* no import in progress, every line is read back as it was imported.       *)
LedgerRehydrates ==
  Busy = {} => \A i \in DOMAIN ledger : Rehydrated(i) = Imported(ledger[i])

=============================================================================
