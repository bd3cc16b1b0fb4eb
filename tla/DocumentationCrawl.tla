-------------------------- MODULE DocumentationCrawl --------------------------
(***************************************************************************)
(* The documentation crawler                                               *)
(* (python/spaceslug/documentation_crawler.py, DocumentationCrawler): a     *)
(* breadth-first walk over the pages that links reach from a seed, within  *)
(* limits, which imports what it fetches and keeps its session in a JSON   *)
(* file from which it can be resumed.                                      *)
(*                                                                         *)
(* One round of the loop takes the first item of the queue; what follows   *)
(* the import of a page happens in memory, and the session is written at   *)
(* the end of the round, unless the item was skipped or rejected.  Writing *)
(* truncates the file first.  A kill keeps the file and the ledger.        *)
(***************************************************************************)
EXTENDS Integers, Sequences, FiniteSets

CONSTANTS
  Urls, Seed,
  Sites,       \* what the pages may link to
  Approved,    \* what the user approves and the origin policy allows
  Size,        \* bytes of each page
  PageLimits,  \* values max_pages is run with
  MaxDepth, MaxTotal,
  CrawlRuns,   \* bound: starts and resumptions
  CrawlKills   \* bound: process kills

ASSUME CrawlAssumption ==
  /\ Seed \in Urls /\ Approved \subseteq Urls
  /\ Sites \subseteq [Urls -> [links : Seq(Urls), broken : BOOLEAN]]
  /\ Size \in [Urls -> Nat] /\ PageLimits \subseteq Nat
  /\ MaxDepth \in Nat /\ MaxTotal \in Nat /\ CrawlRuns \in Nat /\ CrawlKills \in Nat

VARIABLES
  site,       \* the pages: their links up to the first that is no HTTP URL, if any
  maxPages,
  session,    \* the CrawlSession in memory
  seen,       \* local of run: urls taken from the queue in this run, or before
  total,      \* local of run: bytes read so far
  file,       \* the session file
  ledgered,   \* urls with a line on the ledger
  phase,      \* "idle", or where the loop stands
  ending,     \* the loop is over, only the last save is left
  runs, kills

crawlVars == <<site, maxPages, session, seen, total, file, ledgered, phase, ending, runs, kills>>

Item(u, d) == [url |-> u, depth |-> d]

NoSession == [queue |-> <<>>, fetched |-> <<>>, rejected |-> <<>>, errors |-> <<>>]
NoFile    == [state |-> "absent", session |-> NoSession]
Torn      == [state |-> "torn", session |-> NoSession]
Saved(s)  == [state |-> "whole", session |-> s]

Readable == file.state = "whole"

UrlsOf(items) == {items[i].url : i \in DOMAIN items}
Handled(s)    == UrlsOf(s.fetched) \cup UrlsOf(s.rejected) \cup UrlsOf(s.errors)

\* Bytes of a list of pages, none of which occurs twice.
BytesOf(items) ==
  LET sum[n \in 0 .. Len(items)] == IF n = 0 THEN 0 ELSE sum[n - 1] + Size[items[n].url]
  IN  sum[Len(items)]

CrawlInit ==
  /\ site \in Sites /\ maxPages \in PageLimits
  /\ session = NoSession /\ seen = {} /\ total = 0
  /\ file = NoFile /\ ledgered = {}
  /\ phase = "idle" /\ ending = FALSE
  /\ runs = 0 /\ kills = 0

-----------------------------------------------------------------------------
Begin(s, handled, bytes) ==
  /\ phase = "idle" /\ runs < CrawlRuns
  /\ session' = s /\ seen' = handled /\ total' = bytes
  /\ phase' = "loop" /\ runs' = runs + 1
  /\ UNCHANGED <<site, maxPages, file, ledgered, ending, kills>>

CrawlStart == Begin([NoSession EXCEPT !.queue = <<Item(Seed, 0)>>], {}, 0)

\* Mutant: only rejected pages count as seen.
CrawlResumeForgetting ==
  /\ Readable
  /\ Begin(file.session, UrlsOf(file.session.rejected), BytesOf(file.session.fetched))

\* run on a loaded session: what failed before may be tried again.
CrawlResume ==
  /\ Readable
  /\ Begin(file.session, UrlsOf(file.session.fetched) \cup UrlsOf(file.session.rejected),
           BytesOf(file.session.fetched))

\* The condition of the loop.
More == session.queue # <<>> /\ Len(session.fetched) < maxPages

item == Head(session.queue)
rest == Tail(session.queue)

Refused == item.url \notin Approved \/ item.depth > MaxDepth

\* A round of the loop with an item that was not seen before.
Round ==
  /\ phase = "loop" /\ More /\ item.url \notin seen
  /\ seen' = seen \cup {item.url}
  /\ UNCHANGED <<site, maxPages, file, ending, runs, kills>>

Skip ==
  /\ phase = "loop" /\ More /\ item.url \in seen
  /\ session' = [session EXCEPT !.queue = rest]
  /\ UNCHANGED <<site, maxPages, seen, total, file, ledgered, phase, ending, runs, kills>>

\* Not approved, out of the policy, or refused by robots.txt.
Reject ==
  /\ Round
  /\ session' = [session EXCEPT !.queue = rest, !.rejected = Append(@, item)]
  /\ UNCHANGED <<total, ledgered, phase>>

Fails(queue) ==
  /\ session' = [session EXCEPT !.queue = queue, !.errors = Append(@, item)]
  /\ phase' = "save"

\* The page cannot be fetched, or is too large for a limit.
FetchFails ==
  /\ Round /\ ~Refused
  /\ Fails(rest)
  /\ UNCHANGED <<total, ledgered>>

\* The page is fetched, within the limit of bytes.
Fetched ==
  /\ Round /\ ~Refused
  /\ total + Size[item.url] <= MaxTotal
  /\ total' = total + Size[item.url]

\* It cannot be parsed or extracted: import_bytes leaves no ledger line.
ImportFails ==
  /\ Fetched
  /\ Fails(rest)
  /\ UNCHANGED ledgered

\* The queue after the links were gone through in turn, those known left out.
Grown(queue, links, depth, known) ==
  LET grown[n \in 0 .. Len(links)] ==
        IF n = 0 THEN queue
        ELSE IF links[n] \in known THEN grown[n - 1]
        ELSE Append(grown[n - 1], Item(links[n], depth))
  IN  grown[Len(links)]

\* Mutant: new links go to the front of the queue.
QueuedInFront == Grown(<<>>, site[item.url].links, item.depth + 1, seen \cup {item.url}) \o rest

\* The queue with the new links of the page behind it.
Queued == Grown(rest, site[item.url].links, item.depth + 1, seen \cup {item.url})

\* The page is on the ledger when one of its links turns out to be no HTTP URL:
\* the links before it are followed, the page counts as failed.
LinkBreaks ==
  /\ Fetched /\ site[item.url].broken
  /\ ledgered' = ledgered \cup {item.url}
  /\ Fails(Queued)

Visit ==
  /\ Fetched /\ ~site[item.url].broken
  /\ ledgered' = ledgered \cup {item.url}
  /\ session' = [session EXCEPT !.queue = Queued, !.fetched = Append(@, item)]
  /\ phase' = "save"

\* Mutant: the item is popped before the number of pages is looked at.
EndPopping ==
  /\ phase = "loop" /\ ~More
  /\ session' = [session EXCEPT !.queue = IF @ = <<>> THEN @ ELSE Tail(@)]
  /\ phase' = "save" /\ ending' = TRUE
  /\ UNCHANGED <<site, maxPages, seen, total, file, ledgered, runs, kills>>

End ==
  /\ phase = "loop" /\ ~More
  /\ phase' = "save" /\ ending' = TRUE
  /\ UNCHANGED <<site, maxPages, session, seen, total, file, ledgered, runs, kills>>

\* CrawlSession.save: write_text truncates, then writes.
Truncate ==
  /\ phase = "save"
  /\ file' = Torn /\ phase' = "write"
  /\ UNCHANGED <<site, maxPages, session, seen, total, ledgered, ending, runs, kills>>

Write ==
  /\ phase = "write"
  /\ file' = Saved(session)
  /\ phase' = IF ending THEN "idle" ELSE "loop"
  /\ ending' = FALSE
  /\ UNCHANGED <<site, maxPages, session, seen, total, ledgered, runs, kills>>

Kill ==
  /\ phase # "idle" /\ kills < CrawlKills
  /\ kills' = kills + 1
  /\ session' = NoSession /\ seen' = {} /\ total' = 0
  /\ phase' = "idle" /\ ending' = FALSE
  /\ UNCHANGED <<site, maxPages, file, ledgered, runs>>

CrawlNext ==
  \/ CrawlStart \/ CrawlResume
  \/ Skip \/ Reject \/ FetchFails \/ ImportFails \/ LinkBreaks \/ Visit
  \/ End \/ Truncate \/ Write
  \/ Kill

CrawlSpec == CrawlInit /\ [][CrawlNext]_crawlVars

-----------------------------------------------------------------------------
Items == [url : Urls, depth : Nat]

SessionOK(s) ==
  /\ s.queue \in Seq(Items) /\ s.fetched \in Seq(Items)
  /\ s.rejected \in Seq(Items) /\ s.errors \in Seq(Items)

\* What the crawl knows, in memory and on disk.
Sessions == {session, file.session}

CrawlTypeOK ==
  /\ \A s \in Sessions : SessionOK(s)
  /\ file.state = "whole" \/ file \in {NoFile, Torn}
  /\ seen \subseteq Urls /\ ledgered \subseteq Urls /\ total \in Nat
  /\ phase \in {"idle", "loop", "save", "write"} /\ ending \in BOOLEAN
  /\ runs \in 0 .. CrawlRuns /\ kills \in 0 .. CrawlKills

\* "Persists a resumable JSON session": whatever was fetched, rejected or failed,
\* and wherever the crawl stopped or was killed, each link of a fetched page is
\* still in the queue or has been dealt with, in memory and in the file.
NoLinkLost ==
  \A s \in Sessions : \A u \in UrlsOf(s.fetched) :
    \A i \in DOMAIN site[u].links :
      site[u].links[i] \in UrlsOf(s.queue) \cup Handled(s)

\* The walk is breadth first: a page is taken at most one link deeper than any
\* fetched page that links to it, so that the depth limit turns away only what is
\* too deep on every way.  A page that failed may be found again on a longer way
\* after a resumption.
ShortestDepth ==
  \A s \in Sessions :
    \A i \in DOMAIN s.fetched : \A k \in DOMAIN s.fetched \cup DOMAIN s.rejected :
      \A g \in {x \in {s.fetched, s.rejected} : k \in DOMAIN x} :
        LET links == site[s.fetched[i].url].links
        IN  /\ \E j \in DOMAIN links : links[j] = g[k].url
            /\ g[k].url \notin UrlsOf(s.errors)
            => g[k].depth <= s.fetched[i].depth + 1

\* "Deduplicates URLs"; "page/depth/byte limits and explicit approval prevent
\* unbounded crawling": over all the runs of a session, resumed or not.
WithinLimits ==
  \A s \in Sessions :
    /\ Len(s.fetched) <= maxPages
    /\ Cardinality(UrlsOf(s.fetched)) = Len(s.fetched)
    /\ BytesOf(s.fetched) <= MaxTotal
    /\ \A i \in DOMAIN s.fetched :
         s.fetched[i].url \in Approved /\ s.fetched[i].depth <= MaxDepth

\* A page the session calls fetched is on the ledger, whatever a kill took away.
FetchedOnLedger == \A s \in Sessions : UrlsOf(s.fetched) \subseteq ledgered

=============================================================================
