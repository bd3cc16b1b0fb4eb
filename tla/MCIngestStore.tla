---------------------------- MODULE MCIngestStore ----------------------------
(* Two byte strings and two kinds; the second string cannot be read as the  *)
(* second kind (text that is not JSON Lines, say).  Two files hold the same *)
(* bytes under one kind, a third file and a page under the other; another   *)
(* page changes its kind between one fetch and the next.                    *)
EXTENDS IngestStore, TLC

CONSTANTS c1, c2, k1, k2, w1, w2, f1, f2, f3, f4, home, page1

Unfetched(source, content, kind) ==
  [source |-> source, content |-> content, kind |-> kind, fetched |-> 0]

MCOrigins     == {f1, f2, f3, f4, home, page1}
MCContents    == {c1, c2}
MCKinds       == {k1, k2}
MCLocal       == {Unfetched(f1, c1, k1), Unfetched(f2, c1, k1), Unfetched(f3, c1, k2),
                  Unfetched(f4, c2, k1)}
MCPages       == {Unfetched(home, c1, k2), Unfetched(page1, c2, k1), Unfetched(page1, c2, k2)}
MCExtractable == {<<c1, k1>>, <<c1, k2>>, <<c2, k1>>}
MCWorkers     == {w1, w2}
Symmetry      == Permutations(MCWorkers)
=============================================================================
