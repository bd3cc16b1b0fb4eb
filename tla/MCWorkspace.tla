------------------------------ MODULE MCWorkspace ------------------------------
(* Three instances in one run; a behaviour is of one of them.  "store" is      *)
(* Workspace with the folders and pages of MCIngestStore, and crawls of a home *)
(* page that links to a second page, which links back, and to one that is not  *)
(* approved.  "sites" is Workspace with crawls only: of three pages of a site  *)
(* that link to each other (the third of twice the size, the second perhaps    *)
(* broken) and one of another.  "bundles" is DatasetBundles, with two sources  *)
(* of which one has no text.                                                   *)
EXTENDS MCIngestStore, Workspace, DatasetBundles

CONSTANTS page2, foreign, d1

MCUrls == {home, page1, page2, foreign}

Page(links, broken) == [links |-> links, broken |-> broken]

Site(h, l, b, k) ==
  (home :> Page(h, FALSE)) @@ (page1 :> Page(l, b)) @@ (page2 :> Page(k, FALSE))
    @@ (foreign :> Page(<<>>, FALSE))

SmallSites == {Site(<<page1, foreign>>, <<home>>, FALSE, <<>>)}
LargeSites ==
  {Site(h, l, b, <<home, page1>>) :
     h \in {<<page1, page2, page1>>, <<foreign, page2>>},
     l \in {<<>>, <<page2>>, <<home, page2>>, <<foreign, page2>>},
     b \in BOOLEAN}

MCWorkspaceOrigins == MCOrigins \cup {page2}
MCWorkspacePages   == MCPages \cup {Unfetched(page2, c2, k1)}

MCSites    == SmallSites \cup LargeSites
MCApproved == {home, page1, page2}
MCSize     == [u \in MCUrls |-> IF u = page2 THEN 2 ELSE 1]

VARIABLE instance

MCInit ==
  /\ WorkspaceInit /\ BundlesInit
  /\ \/ instance = "store" /\ site \in SmallSites /\ maxPages = 2 /\ dir = d1
     \/ instance = "sites" /\ site \in LargeSites /\ dir = d1
     \/ instance = "bundles" /\ site \in SmallSites /\ maxPages = 2

Crawling == crawl # NoCrawl

MCNext ==
  /\ \/ instance = "store" /\ WorkspaceNext /\ UNCHANGED bundleVars
     \/ instance = "sites" /\ WorkspaceNext /\ (Crawling \/ Crawling') /\ UNCHANGED bundleVars
     \/ instance = "bundles" /\ BundlesNext /\ UNCHANGED workspaceVars
  /\ UNCHANGED instance

MCSpec == MCInit /\ [][MCNext]_<<workspaceVars, bundleVars, instance>>
================================================================================
