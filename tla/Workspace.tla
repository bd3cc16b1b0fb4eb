------------------------------- MODULE Workspace -------------------------------
(***************************************************************************)
(* A crawl into the ingest store.  DocumentationCrawl takes the import of  *)
(* a page for one step of the crawler and the ledger for a set of urls;    *)
(* here the page goes through the steps of IngestStore, in the workspace   *)
(* that folder imports fill before and after, and a kill may come at any   *)
(* of them.  The UI thread runs it all: while a page is imported the       *)
(* crawler waits, and a folder is imported when no crawl is under way      *)
(* (python/spaceslug/desktop/controller.py, crawl_documentation).          *)
(***************************************************************************)
EXTENDS IngestStore, DocumentationCrawl

workspaceVars == <<vars, crawlVars>>

WorkspaceInit == Init /\ CrawlInit

-----------------------------------------------------------------------------
\* The store alone: folder imports, the threads, and the listing after a crawl.
StoreMoves ==
  /\ \/ \E files \in Selections : ImportFolder(files)
     \/ Collect
     \/ \E w \in Workers : Step(w)
     \/ ListNext
  /\ UNCHANGED crawlVars

\* The controller starts a crawl; only a script resumes one (run).
CrawlBegins == BeginCrawl /\ (CrawlStart \/ CrawlResume)

\* The crawler alone, between two imports; a page that cannot be parsed is not
\* imported at all.
CrawlMoves ==
  /\ collected = Len(selection)
  /\ \/ Skip \/ Reject \/ FetchFails \/ ImportFails
     \/ End \/ Truncate \/ (Write /\ ~ending)
  /\ UNCHANGED vars

\* import_bytes is called with the page of the item, ...
PageFetched ==
  /\ phase = "loop" /\ More /\ item.url \notin seen /\ ~Refused
  /\ total + Size[item.url] <= MaxTotal
  /\ \E p \in Pages : p.source = item.url /\ FetchPage(p)
  /\ UNCHANGED crawlVars

\* Mutant: the page counts as imported although import_bytes has raised.
PageImportedAnyhow ==
  \E result \in {"ok", "failed"} : PageDone(result) /\ (Visit \/ LinkBreaks)

\* ... returns, ...
PageImported == PageDone("ok") /\ (Visit \/ LinkBreaks)

\* ... or raises.
PageRefused == PageDone("failed") /\ ImportFails

\* The session is saved for the last time, and the imports are listed.
CrawlEnds == Write /\ ending /\ (ListLedger \/ EndUnlisted)

\* A kill takes the store's threads, the controller and the crawler.
Killed == Crash /\ (Kill \/ (phase = "idle" /\ UNCHANGED crawlVars))

WorkspaceNext ==
  \/ StoreMoves
  \/ CrawlBegins \/ CrawlMoves \/ CrawlEnds
  \/ PageFetched \/ PageImported \/ PageRefused
  \/ Killed

WorkspaceSpec == WorkspaceInit /\ [][WorkspaceNext]_workspaceVars

-----------------------------------------------------------------------------
\* A page the session calls fetched, in memory or in the file, is on the ledger
\* of the store and its records file is there, wherever a crawl or a folder import
\* was killed: whoever resumes the crawl does not fetch it again.
FetchedStaged ==
  \A s \in Sessions : \A u \in UrlsOf(s.fetched) :
    \E i \in DOMAIN ledger :
      ledger[i].source = u /\ records[ledger[i].content] # "absent"

================================================================================
