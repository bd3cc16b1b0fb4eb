------------------------ MODULE DocumentationCrawlProofs ------------------------
(***************************************************************************)
(* Proofs about DocumentationCrawl: its type invariant and its four safety *)
(* properties, for every site, every limit and any number of resumptions   *)
(* and kills.                                                              *)
(*                                                                         *)
(* The queue a page leaves behind (Grown) and the bytes of a list of pages *)
(* (BytesOf) are recursive functions.  What they compute is shown by       *)
(* induction over a set of numbers, which needs no theorem with an         *)
(* operator for a parameter: were a number missing from the set, there     *)
(* would be a least one.                                                   *)
(***************************************************************************)
EXTENDS DocumentationCrawl, TLAPS, FiniteSetTheorems, SequenceTheorems, WellFoundedInduction

-----------------------------------------------------------------------------
\* Recursion over a sequence

\* Every nonempty set of numbers has a least one.
LEMMA LeastNumber ==
  ASSUME NEW T, T \subseteq Nat, T # {}
  PROVE  \E m \in T : \A k \in T : m <= k
<1> DEFINE R == OpToRel(<, Nat)
<1>1. IsWellFoundedOn(R, Nat)
  BY NatLessThanWellFounded
<1> HIDE DEF R
<1>2. PICK m \in T : \A k \in T : ~ (<<k, m>> \in R)
  BY <1>1, WFMin
<1>3. \A k \in T : k < m => <<k, m>> \in R
  BY DEF R, OpToRel
<1>4. \A k \in T : k \in Int
  OBVIOUS
<1>5. ASSUME NEW k \in T PROVE m <= k
  <2>1. ~ (k < m)
    BY <1>2, <1>3
  <2> QED
    BY <1>4, <2>1
<1> QED
  BY <1>5

\* Induction, over the set of the numbers up to N of which something holds.
LEMMA InductionUpTo ==
  ASSUME NEW N \in Nat, NEW T, 0 \in T, \A n \in 0 .. N : n \in T /\ n < N => n + 1 \in T
  PROVE  0 .. N \subseteq T
<1> SUFFICES ASSUME (0 .. N) \ T # {} PROVE FALSE
  OBVIOUS
<1>1. PICK m \in (0 .. N) \ T : \A k \in (0 .. N) \ T : m <= k
  <2> DEFINE U == (0 .. N) \ T
  <2>1. U \subseteq Nat /\ U # {}
    OBVIOUS
  <2> HIDE DEF U
  <2>2. \E m \in U : \A k \in U : m <= k
    BY <2>1, LeastNumber
  <2> QED
    BY <2>2 DEF U
<1>2. m # 0 /\ m \in 1 .. N
  BY <1>1
<1>3. m - 1 \in 0 .. N /\ m - 1 < N /\ ~ (m <= m - 1) /\ (m - 1) + 1 = m
  BY <1>2
<1>4. m - 1 \in T
  BY <1>1, <1>3
<1> QED
  BY <1>1, <1>3, <1>4

\* f is what step makes of a, number by number.
Iterates(f, N, S, a, step) ==
  /\ f \in [0 .. N -> S] /\ f[0] = a
  /\ \A i \in 1 .. N : f[i] = step[i][f[i - 1]]

\* Every recursion over 1 .. N is met by a function.
LEMMA Recursion ==
  ASSUME NEW N \in Nat, NEW S, NEW a \in S, NEW step \in [1 .. N -> [S -> S]]
  PROVE  \E f : Iterates(f, N, S, a, step)
<1> DEFINE T == {n \in 0 .. N : \E f : Iterates(f, n, S, a, step)}
<1>1. 0 \in T
  <2> DEFINE f == [n \in 0 .. 0 |-> a]
  <2>1. Iterates(f, 0, S, a, step)
    BY DEF Iterates
  <2> QED
    BY <2>1
<1>2. ASSUME NEW n \in 0 .. N, n \in T, n < N PROVE n + 1 \in T
  <2>1. PICK f : Iterates(f, n, S, a, step)
    BY <1>2
  <2> DEFINE g == [m \in 0 .. n + 1 |-> IF m = n + 1 THEN step[n + 1][f[n]] ELSE f[m]]
  <2>2. n + 1 \in 1 .. N /\ n \in 0 .. n /\ f[n] \in S
    BY <1>2, <2>1 DEF Iterates
  <2>3. step[n + 1] \in [S -> S]
    BY <2>2
  <2>4. step[n + 1][f[n]] \in S
    BY <2>2, <2>3
  <2>5. \A m \in 0 .. n + 1 : m # n + 1 => m \in 0 .. n
    OBVIOUS
  <2>6. g \in [0 .. n + 1 -> S]
    BY <2>1, <2>4, <2>5 DEF Iterates
  <2>7. g[0] = a
    BY <2>1 DEF Iterates
  <2>8. ASSUME NEW i \in 1 .. n + 1 PROVE g[i] = step[i][g[i - 1]]
    <3>1. i - 1 \in 0 .. n + 1 /\ i - 1 # n + 1 /\ g[i - 1] = f[i - 1]
      OBVIOUS
    <3>2. CASE i = n + 1
      <4>1. i - 1 = n
        BY <3>2
      <4> QED
        BY <3>1, <3>2, <4>1
    <3>3. CASE i # n + 1
      <4>1. i \in 1 .. n /\ g[i] = f[i]
        BY <3>3
      <4> QED
        BY <2>1, <3>1, <4>1 DEF Iterates
    <3> QED
      BY <3>2, <3>3
  <2>9. Iterates(g, n + 1, S, a, step)
    BY <2>6, <2>7, <2>8 DEF Iterates
  <2> QED
    BY <2>2, <2>9
<1> HIDE DEF T
<1>3. 0 .. N \subseteq T
  BY <1>1, <1>2, InductionUpTo
<1>4. N \in T
  BY <1>3
<1> QED
  BY <1>4 DEF T

-----------------------------------------------------------------------------
\* The queue and the lists of a session

ItemsIn(items) == {items[i] : i \in DOMAIN items}

\* Depths grow along the queue, by no more than one link in all.
Ordered(queue) ==
  \A i, j \in DOMAIN queue :
    i <= j => queue[i].depth <= queue[j].depth /\ queue[j].depth <= queue[i].depth + 1

LEMMA ItemTyped ==
  ASSUME NEW u \in Urls, NEW d \in Nat
  PROVE  Item(u, d) \in Items /\ Item(u, d).url = u /\ Item(u, d).depth = d
BY DEF Item, Items

LEMMA ItemsTyped ==
  ASSUME NEW s \in Seq(Items)
  PROVE  /\ ItemsIn(s) \subseteq Items
         /\ UrlsOf(s) = {x.url : x \in ItemsIn(s)}
         /\ UrlsOf(s) \subseteq Urls
<1>1. \A i \in DOMAIN s : s[i] \in Items /\ s[i].url \in Urls
  <2>1. \A i \in DOMAIN s : s[i] \in Items
    BY LenProperties
  <2> QED
    BY <2>1 DEF Items
<1>2. ItemsIn(s) \subseteq Items /\ UrlsOf(s) \subseteq Urls
  BY <1>1 DEF ItemsIn, UrlsOf
<1>3. UrlsOf(s) \subseteq {x.url : x \in ItemsIn(s)}
  BY DEF ItemsIn, UrlsOf
<1>4. {x.url : x \in ItemsIn(s)} \subseteq UrlsOf(s)
  BY DEF ItemsIn, UrlsOf
<1> QED
  BY <1>2, <1>3, <1>4

LEMMA NoItems ==
  /\ <<>> \in Seq(Items) /\ Len(<<>>) = 0
  /\ ItemsIn(<<>>) = {} /\ UrlsOf(<<>>) = {} /\ Ordered(<<>>)
<1>1. <<>> \in Seq(Items) /\ Len(<<>>) = 0
  BY EmptySeq
<1>2. DOMAIN <<>> = 1 .. 0
  BY <1>1, LenProperties
<1> QED
  BY <1>1, <1>2 DEF ItemsIn, UrlsOf, Ordered

LEMMA AppendItem ==
  ASSUME NEW s \in Seq(Items), NEW x \in Items
  PROVE  /\ Append(s, x) \in Seq(Items) /\ Len(Append(s, x)) = Len(s) + 1
         /\ ItemsIn(Append(s, x)) = ItemsIn(s) \cup {x}
         /\ UrlsOf(Append(s, x)) = UrlsOf(s) \cup {x.url}
         /\ \A i \in 1 .. Len(s) : Append(s, x)[i] = s[i]
         /\ Append(s, x)[Len(s) + 1] = x
<1>1. /\ Append(s, x) \in Seq(Items) /\ Len(Append(s, x)) = Len(s) + 1
      /\ \A i \in 1 .. Len(s) : Append(s, x)[i] = s[i]
      /\ Append(s, x)[Len(s) + 1] = x
  BY AppendProperties
<1>2. DOMAIN s = 1 .. Len(s) /\ DOMAIN Append(s, x) = 1 .. Len(s) + 1 /\ Len(s) \in Nat
  BY <1>1, LenProperties
<1>3. 1 .. Len(s) + 1 = (1 .. Len(s)) \cup {Len(s) + 1}
  BY <1>2
<1> QED
  BY <1>1, <1>2, <1>3 DEF ItemsIn, UrlsOf

LEMMA TakeItem ==
  ASSUME NEW s \in Seq(Items), s # <<>>
  PROVE  /\ Head(s) \in Items /\ Tail(s) \in Seq(Items)
         /\ ItemsIn(s) = ItemsIn(Tail(s)) \cup {Head(s)}
         /\ Ordered(s) =>
              /\ Ordered(Tail(s))
              /\ \A x \in ItemsIn(s) : Head(s).depth <= x.depth /\ x.depth <= Head(s).depth + 1
<1>1. /\ Head(s) \in Items /\ Tail(s) \in Seq(Items) /\ Len(Tail(s)) = Len(s) - 1
      /\ \A i \in 1 .. Len(Tail(s)) : Tail(s)[i] = s[i + 1]
  BY HeadTailProperties
<1>2. DOMAIN s = 1 .. Len(s) /\ DOMAIN Tail(s) = 1 .. Len(s) - 1 /\ Len(s) \in Nat \ {0}
  BY <1>1, LenProperties, EmptySeq
<1>3. Head(s) = s[1] /\ 1 \in DOMAIN s
  BY <1>2
<1>4. \A i \in DOMAIN Tail(s) : i + 1 \in DOMAIN s /\ Tail(s)[i] = s[i + 1]
  BY <1>1, <1>2
<1>5. \A i \in DOMAIN s : i # 1 => i - 1 \in DOMAIN Tail(s) /\ Tail(s)[i - 1] = s[i]
  BY <1>1, <1>2
<1>6. ItemsIn(s) = ItemsIn(Tail(s)) \cup {Head(s)}
  <2>1. ItemsIn(s) \subseteq ItemsIn(Tail(s)) \cup {Head(s)}
    BY <1>3, <1>5 DEF ItemsIn
  <2>2. ItemsIn(Tail(s)) \cup {Head(s)} \subseteq ItemsIn(s)
    BY <1>3, <1>4 DEF ItemsIn
  <2> QED
    BY <2>1, <2>2
<1>7. ASSUME Ordered(s) PROVE Ordered(Tail(s))
  <2> SUFFICES ASSUME NEW i \in DOMAIN Tail(s), NEW j \in DOMAIN Tail(s), i <= j
               PROVE  /\ Tail(s)[i].depth <= Tail(s)[j].depth
                      /\ Tail(s)[j].depth <= Tail(s)[i].depth + 1
    BY DEF Ordered
  <2>1. i + 1 <= j + 1
    BY <1>2
  <2> QED
    BY <1>4, <1>7, <2>1 DEF Ordered
<1>8. ASSUME Ordered(s), NEW x \in ItemsIn(s)
      PROVE  Head(s).depth <= x.depth /\ x.depth <= Head(s).depth + 1
  <2>1. PICK j \in DOMAIN s : s[j] = x
    BY <1>8 DEF ItemsIn
  <2>2. 1 <= j
    BY <1>2
  <2> QED
    BY <1>3, <1>8, <2>1, <2>2 DEF Ordered
<1> QED
  BY <1>1, <1>6, <1>7, <1>8

LEMMA OrderedAppend ==
  ASSUME NEW s \in Seq(Items), NEW x \in Items, Ordered(s),
         \A y \in ItemsIn(s) : y.depth <= x.depth /\ x.depth <= y.depth + 1
  PROVE  Ordered(Append(s, x))
<1>1. DOMAIN s = 1 .. Len(s) /\ Len(s) \in Nat
  BY LenProperties
<1>2. Append(s, x) \in Seq(Items) /\ Len(Append(s, x)) = Len(s) + 1
  BY AppendItem
<1>3. DOMAIN Append(s, x) = 1 .. Len(s) + 1
  BY <1>2, LenProperties
<1>4. /\ \A i \in 1 .. Len(s) : Append(s, x)[i] = s[i] /\ s[i] \in ItemsIn(s)
      /\ Append(s, x)[Len(s) + 1] = x /\ x.depth \in Nat
  BY <1>1, AppendItem DEF ItemsIn, Items
<1> SUFFICES ASSUME NEW i \in 1 .. Len(s) + 1, NEW j \in 1 .. Len(s) + 1, i <= j
             PROVE  /\ Append(s, x)[i].depth <= Append(s, x)[j].depth
                    /\ Append(s, x)[j].depth <= Append(s, x)[i].depth + 1
  BY <1>3 DEF Ordered
<1>5. CASE j = Len(s) + 1 /\ i = Len(s) + 1
  BY <1>4, <1>5
<1>6. CASE j = Len(s) + 1 /\ i # Len(s) + 1
  <2>1. i \in 1 .. Len(s)
    BY <1>1, <1>6
  <2> QED
    BY <1>4, <1>6, <2>1
<1>7. CASE j # Len(s) + 1
  <2>1. i \in 1 .. Len(s) /\ j \in 1 .. Len(s)
    BY <1>1, <1>7
  <2> QED
    BY <1>1, <1>4, <2>1 DEF Ordered
<1> QED
  BY <1>5, <1>6, <1>7

-----------------------------------------------------------------------------
\* The queue that the links of a page leave behind

\* What defines the function of Grown.
Grows(g, queue, links, depth, known) ==
  g = [n \in 0 .. Len(links) |->
        IF n = 0 THEN queue
        ELSE IF links[n] \in known THEN g[n - 1]
        ELSE Append(g[n - 1], Item(links[n], depth))]

\* The queues on the way, from none of the links gone through to all of them.
GrowsTo(g, queue, links, depth, known) ==
  /\ g \in [0 .. Len(links) -> Seq(Items)] /\ g[0] = queue
  /\ \A n \in 1 .. Len(links) :
       /\ links[n] \in known => g[n] = g[n - 1]
       /\ links[n] \notin known => g[n] = Append(g[n - 1], Item(links[n], depth))
  /\ Grown(queue, links, depth, known) = g[Len(links)]

LEMMA GrownStepwise ==
  ASSUME NEW queue \in Seq(Items), NEW links \in Seq(Urls), NEW depth \in Nat, NEW known
  PROVE  \E g : GrowsTo(g, queue, links, depth, known)
<1> DEFINE N == Len(links)
           step == [n \in 1 .. N |-> [z \in Seq(Items) |->
                     IF links[n] \in known THEN z ELSE Append(z, Item(links[n], depth))]]
           G == CHOOSE g : Grows(g, queue, links, depth, known)
<1>1. N \in Nat /\ \A n \in 1 .. N : links[n] \in Urls
  BY LenProperties, ElementOfSeq
<1>2. \A n \in 1 .. N : \A z \in Seq(Items) : Append(z, Item(links[n], depth)) \in Seq(Items)
  BY <1>1, ItemTyped, AppendItem
<1>3. step \in [1 .. N -> [Seq(Items) -> Seq(Items)]]
  BY <1>2
<1> HIDE DEF step
<1>4. PICK f : Iterates(f, N, Seq(Items), queue, step)
  BY <1>1, <1>3, Recursion
<1>5. \A n \in 1 .. N : n - 1 \in 0 .. N /\ f[n - 1] \in Seq(Items)
  BY <1>1, <1>4, SMTT(30) DEF Iterates
<1>6. \A n \in 1 .. N : f[n] = IF links[n] \in known THEN f[n - 1]
                               ELSE Append(f[n - 1], Item(links[n], depth))
  BY <1>4, <1>5 DEF Iterates, step
<1>7. \A n \in 0 .. N : f[n] = IF n = 0 THEN queue
                               ELSE IF links[n] \in known THEN f[n - 1]
                               ELSE Append(f[n - 1], Item(links[n], depth))
  <2> TAKE n \in 0 .. N
  <2>1. CASE n = 0
    BY <1>4, <2>1 DEF Iterates
  <2>2. CASE n # 0
    <3>1. n \in 1 .. N
      BY <1>1, <2>2
    <3> QED
      BY <1>6, <2>2, <3>1
  <2> QED
    BY <2>1, <2>2
<1>8. Grows(f, queue, links, depth, known)
  BY <1>4, <1>7 DEF Iterates, Grows
<1>9. Grows(G, queue, links, depth, known)
  BY <1>8
<1>10. Grown(queue, links, depth, known) = G[N]
  BY DEF Grown, Grows
<1> HIDE DEF G
<1>11. \A n \in 0 .. N : G[n] = IF n = 0 THEN queue
                               ELSE IF links[n] \in known THEN G[n - 1]
                               ELSE Append(G[n - 1], Item(links[n], depth))
  BY <1>9 DEF Grows
<1>12. G = [n \in 0 .. N |-> G[n]] /\ G[0] = queue
  <2>1. 0 \in 0 .. N
    BY <1>1
  <2>2. G[0] = queue
    BY <1>11, <2>1
  <2>3. G = [n \in 0 .. N |-> G[n]]
    BY <1>9 DEF Grows
  <2> QED
    BY <2>2, <2>3
<1>13. \A n \in 1 .. N : /\ links[n] \in known => G[n] = G[n - 1]
                         /\ links[n] \notin known => G[n] = Append(G[n - 1], Item(links[n], depth))
  <2> TAKE n \in 1 .. N
  <2>1. n \in 0 .. N /\ n # 0
    BY <1>1
  <2> QED
    BY <1>11, <2>1
<1>14. \A n \in 0 .. N : G[n] \in Seq(Items)
  <2> DEFINE T == {n \in 0 .. N : G[n] \in Seq(Items)}
  <2>1. 0 \in T
    BY <1>1, <1>12
  <2>2. \A n \in 0 .. N : n \in T /\ n < N => n + 1 \in T
    <3> SUFFICES ASSUME NEW n \in 0 .. N, n \in T, n < N PROVE n + 1 \in T
      OBVIOUS
    <3>1. n + 1 \in 1 .. N /\ n + 1 \in 0 .. N /\ (n + 1) - 1 = n
      BY <1>1
    <3>2. Append(G[n], Item(links[n + 1], depth)) \in Seq(Items)
      BY <1>2, <3>1
    <3>3. G[n + 1] = G[n] \/ G[n + 1] = Append(G[n], Item(links[n + 1], depth))
      BY <1>13, <3>1
    <3> QED
      BY <3>1, <3>2, <3>3
  <2> HIDE DEF T
  <2>3. 0 .. N \subseteq T
    BY <1>1, <2>1, <2>2, InductionUpTo
  <2> QED
    BY <2>3 DEF T
<1> QED
  BY <1>10, <1>12, <1>13, <1>14 DEF GrowsTo

\* A queue grown by the links of a page keeps what it held, gains items of the
\* depth of the links only, misses no link, and stays ordered.
LEMMA GrownProperties ==
  ASSUME NEW queue \in Seq(Items), NEW links \in Seq(Urls), NEW depth \in Nat, NEW known
  PROVE  /\ Grown(queue, links, depth, known) \in Seq(Items)
         /\ ItemsIn(queue) \subseteq ItemsIn(Grown(queue, links, depth, known))
         /\ \A x \in ItemsIn(Grown(queue, links, depth, known)) :
              x \in ItemsIn(queue) \/ x.depth = depth
         /\ \A i \in DOMAIN links :
              \/ links[i] \in known
              \/ Item(links[i], depth) \in ItemsIn(Grown(queue, links, depth, known))
         /\ Ordered(queue) /\ (\A x \in ItemsIn(queue) : x.depth <= depth /\ depth <= x.depth + 1)
              => Ordered(Grown(queue, links, depth, known))
<1> DEFINE N == Len(links)
           Near == Ordered(queue)
                   /\ \A x \in ItemsIn(queue) : x.depth <= depth /\ depth <= x.depth + 1
           Good(n, s) ==
             /\ ItemsIn(queue) \subseteq ItemsIn(s)
             /\ \A x \in ItemsIn(s) : x \in ItemsIn(queue) \/ x.depth = depth
             /\ \A i \in 1 .. n : links[i] \in known \/ Item(links[i], depth) \in ItemsIn(s)
             /\ Near => Ordered(s)
<1>1. N \in Nat /\ DOMAIN links = 1 .. N /\ \A n \in 1 .. N : links[n] \in Urls
  BY LenProperties, ElementOfSeq
<1>2. PICK g : /\ g \in [0 .. N -> Seq(Items)] /\ g[0] = queue
               /\ \A n \in 1 .. N :
                    /\ links[n] \in known => g[n] = g[n - 1]
                    /\ links[n] \notin known => g[n] = Append(g[n - 1], Item(links[n], depth))
               /\ Grown(queue, links, depth, known) = g[N]
  <2>1. \E g : GrowsTo(g, queue, links, depth, known)
    BY GrownStepwise
  <2> QED
    BY <2>1 DEF GrowsTo
<1> DEFINE T == {n \in 0 .. N : Good(n, g[n])}
<1>3. 0 \in T
  BY <1>1, <1>2
<1>4. ASSUME NEW n \in 0 .. N, n \in T, n < N PROVE n + 1 \in T
  <2>1. n + 1 \in 1 .. N /\ n + 1 \in 0 .. N /\ (n + 1) - 1 = n
    BY <1>1, <1>4
  <2>2. \A i \in 1 .. n + 1 : i \in 1 .. n \/ i = n + 1
    BY <2>1
  <2>3. g[n] \in Seq(Items) /\ Good(n, g[n])
    BY <1>2, <1>4
  <2>4. CASE links[n + 1] \in known
    <3>1. g[n + 1] = g[n]
      BY <1>2, <2>1, <2>4
    <3> QED
      BY <2>1, <2>2, <2>3, <2>4, <3>1
  <2>5. CASE links[n + 1] \notin known
    <3> DEFINE x == Item(links[n + 1], depth)
    <3>1. x \in Items /\ x.depth = depth
      BY <1>1, <2>1, ItemTyped
    <3> HIDE DEF x
    <3>2. g[n + 1] = Append(g[n], x)
      BY <1>2, <2>1, <2>5 DEF x
    <3>3. ItemsIn(g[n + 1]) = ItemsIn(g[n]) \cup {x}
      BY <2>3, <3>1, <3>2, AppendItem
    <3>4. \A i \in 1 .. n + 1 : links[i] \in known \/ Item(links[i], depth) \in ItemsIn(g[n + 1])
      BY <2>2, <2>3, <3>3 DEF x
    <3>5. ASSUME Near PROVE Ordered(g[n + 1])
      <4>1. \A y \in ItemsIn(g[n]) : y.depth <= x.depth /\ x.depth <= y.depth + 1
        BY <2>3, <3>1, <3>5
      <4>2. Ordered(g[n])
        BY <2>3, <3>5
      <4> QED
        BY <2>3, <3>1, <3>2, <4>1, <4>2, OrderedAppend
    <3>6. Good(n + 1, g[n + 1])
      BY <2>3, <3>1, <3>3, <3>4, <3>5
    <3> QED
      BY <2>1, <3>6
  <2> QED
    BY <2>4, <2>5
<1> HIDE DEF T
<1>5. 0 .. N \subseteq T
  BY <1>1, <1>3, <1>4, InductionUpTo
<1>6. Good(N, g[N]) /\ g[N] \in Seq(Items)
  BY <1>1, <1>2, <1>5 DEF T
<1> QED
  BY <1>1, <1>2, <1>6

-----------------------------------------------------------------------------
\* The bytes of a list of pages

\* What defines the function of BytesOf.
Sums(f, items) == f = [n \in 0 .. Len(items) |-> IF n = 0 THEN 0 ELSE f[n - 1] + Size[items[n].url]]

LEMMA SumsStepwise ==
  ASSUME NEW items \in Seq(Items)
  PROVE  \E f : /\ f \in [0 .. Len(items) -> Nat] /\ f[0] = 0
                /\ \A n \in 1 .. Len(items) : f[n] = f[n - 1] + Size[items[n].url]
                /\ BytesOf(items) = f[Len(items)]
<1> DEFINE N == Len(items)
           step == [n \in 1 .. N |-> [z \in Nat |-> z + Size[items[n].url]]]
           G == CHOOSE f : Sums(f, items)
<1>1. N \in Nat /\ \A n \in 1 .. N : items[n] \in Items
  BY LenProperties, ElementOfSeq
<1>2. \A n \in 1 .. N : Size[items[n].url] \in Nat
  BY <1>1, CrawlAssumption DEF Items
<1>3. step \in [1 .. N -> [Nat -> Nat]]
  BY <1>2
<1> HIDE DEF step
<1>4. PICK f : Iterates(f, N, Nat, 0, step)
  BY <1>1, <1>3, Recursion
<1>5. \A n \in 1 .. N : n - 1 \in 0 .. N /\ f[n - 1] \in Nat
  BY <1>1, <1>4 DEF Iterates
<1>6. \A n \in 0 .. N : f[n] = IF n = 0 THEN 0 ELSE f[n - 1] + Size[items[n].url]
  <2> TAKE n \in 0 .. N
  <2>1. CASE n = 0
    BY <1>4, <2>1 DEF Iterates
  <2>2. CASE n # 0
    <3>1. n \in 1 .. N
      BY <1>1, <2>2
    <3>2. f[n] = f[n - 1] + Size[items[n].url]
      BY <1>4, <1>5, <3>1 DEF Iterates, step
    <3> QED
      BY <2>2, <3>2
  <2> QED
    BY <2>1, <2>2
<1>7. Sums(f, items)
  BY <1>4, <1>6 DEF Iterates, Sums
<1>8. Sums(G, items)
  BY <1>7
<1>9. BytesOf(items) = G[N]
  BY DEF BytesOf, Sums
<1> HIDE DEF G
<1>10. \A n \in 0 .. N : G[n] = IF n = 0 THEN 0 ELSE G[n - 1] + Size[items[n].url]
  BY <1>8 DEF Sums
<1>11. G = [n \in 0 .. N |-> G[n]]
  BY <1>8 DEF Sums
<1>12. G[0] = 0
  BY <1>1, <1>10
<1>13. \A n \in 1 .. N : G[n] = G[n - 1] + Size[items[n].url]
  <2> TAKE n \in 1 .. N
  <2>1. n \in 0 .. N /\ n # 0
    BY <1>1
  <2> QED
    BY <1>10, <2>1
<1>14. \A n \in 0 .. N : G[n] \in Nat
  <2> DEFINE T == {n \in 0 .. N : G[n] \in Nat}
  <2>1. 0 \in T
    BY <1>1, <1>12
  <2>2. \A n \in 0 .. N : n \in T /\ n < N => n + 1 \in T
    <3> SUFFICES ASSUME NEW n \in 0 .. N, n \in T, n < N PROVE n + 1 \in T
      OBVIOUS
    <3>1. n + 1 \in 1 .. N /\ n + 1 \in 0 .. N /\ (n + 1) - 1 = n
      BY <1>1
    <3>2. G[n + 1] = G[n] + Size[items[n + 1].url]
      BY <1>13, <3>1
    <3> QED
      BY <1>2, <3>1, <3>2
  <2> HIDE DEF T
  <2>3. 0 .. N \subseteq T
    BY <1>1, <2>1, <2>2, InductionUpTo
  <2> QED
    BY <2>3 DEF T
<1> QED
  BY <1>9, <1>11, <1>12, <1>13, <1>14

LEMMA BytesOfNone == BytesOf(<<>>) = 0
<1>1. <<>> \in Seq(Items) /\ Len(<<>>) = 0
  BY NoItems
<1> QED
  BY <1>1, SumsStepwise

LEMMA BytesOfNat ==
  ASSUME NEW items \in Seq(Items)
  PROVE  BytesOf(items) \in Nat
<1>1. Len(items) \in Nat
  BY LenProperties
<1>2. Len(items) \in 0 .. Len(items)
  BY <1>1
<1> QED
  BY <1>2, SumsStepwise

\* One more page adds its bytes.
LEMMA BytesOfAppend ==
  ASSUME NEW items \in Seq(Items), NEW x \in Items
  PROVE  BytesOf(Append(items, x)) = BytesOf(items) + Size[x.url]
<1> DEFINE more == Append(items, x)
           N == Len(items)
<1>1. /\ more \in Seq(Items) /\ Len(more) = N + 1 /\ N \in Nat
      /\ \A i \in 1 .. N : more[i] = items[i]
      /\ more[N + 1] = x
  BY AppendItem, LenProperties
<1> HIDE DEF more
<1>2. PICK f : /\ f \in [0 .. N -> Nat] /\ f[0] = 0
               /\ \A n \in 1 .. N : f[n] = f[n - 1] + Size[items[n].url]
               /\ BytesOf(items) = f[N]
  BY SumsStepwise
<1>3. PICK g : /\ g \in [0 .. N + 1 -> Nat] /\ g[0] = 0
               /\ \A n \in 1 .. N + 1 : g[n] = g[n - 1] + Size[more[n].url]
               /\ BytesOf(more) = g[N + 1]
  BY <1>1, SumsStepwise
<1> DEFINE T == {n \in 0 .. N : f[n] = g[n]}
<1>4. 0 \in T
  BY <1>1, <1>2, <1>3
<1>5. \A n \in 0 .. N : n \in T /\ n < N => n + 1 \in T
  <2> SUFFICES ASSUME NEW n \in 0 .. N, n \in T, n < N PROVE n + 1 \in T
    OBVIOUS
  <2>1. n + 1 \in 1 .. N /\ n + 1 \in 1 .. N + 1 /\ n + 1 \in 0 .. N /\ (n + 1) - 1 = n
    BY <1>1
  <2> QED
    <3>1. f[n + 1] = f[n] + Size[items[n + 1].url]
      BY <1>2, <2>1
    <3>2. g[n + 1] = g[n] + Size[more[n + 1].url]
      BY <1>3, <2>1
    <3>3. more[n + 1] = items[n + 1] /\ f[n] = g[n]
      BY <1>1, <2>1
    <3> QED
      BY <2>1, <3>1, <3>2, <3>3
<1> HIDE DEF T
<1>6. f[N] = g[N]
  <2>1. 0 .. N \subseteq T
    BY <1>1, <1>4, <1>5, InductionUpTo
  <2> QED
    BY <1>1, <2>1 DEF T
<1>7. N + 1 \in 1 .. N + 1 /\ (N + 1) - 1 = N
  BY <1>1
<1>8. BytesOf(more) = g[N] + Size[x.url]
  BY <1>1, <1>3, <1>7
<1> QED
  BY <1>2, <1>6, <1>8 DEF more

-----------------------------------------------------------------------------
\* The inductive invariant

SessionRecords ==
  [queue : Seq(Items), fetched : Seq(Items), rejected : Seq(Items), errors : Seq(Items)]

\* The items a session has taken from its queue, those that failed left out.
Taken(s) == ItemsIn(s.fetched) \cup ItemsIn(s.rejected)

\* What was taken lies no deeper than what waits.
TakenFirst(s) == \A y \in Taken(s) : \A x \in ItemsIn(s.queue) : y.depth <= x.depth

\* A link to u from a page at depth d: the page failed, or it was taken at most
\* one link deeper, or it waits there.
Followed(s, u, d) ==
  \/ u \in UrlsOf(s.errors)
  \/ /\ \A y \in Taken(s) : y.url = u => y.depth <= d + 1
     /\ \/ \E y \in Taken(s) : y.url = u
        \/ \E x \in ItemsIn(s.queue) : x.url = u /\ x.depth <= d + 1

LinksFollowed(s, pages) ==
  \A x \in ItemsIn(s.fetched) : \A i \in DOMAIN pages[x.url].links :
    Followed(s, pages[x.url].links[i], x.depth)

Limited(s, most) ==
  /\ Len(s.fetched) <= most
  /\ IsFiniteSet(UrlsOf(s.fetched)) /\ Cardinality(UrlsOf(s.fetched)) = Len(s.fetched)
  /\ BytesOf(s.fetched) <= MaxTotal
  /\ \A x \in ItemsIn(s.fetched) : x.url \in Approved /\ x.depth <= MaxDepth

\* What holds of a session, in memory or in the file.
SessionInv(s, pages, most) ==
  /\ s \in SessionRecords
  /\ Ordered(s.queue) /\ TakenFirst(s)
  /\ LinksFollowed(s, pages)
  /\ Limited(s, most)

\* What the locals of run have to do with the session in memory.
LocalsInv ==
  /\ UrlsOf(session.fetched) \cup UrlsOf(session.rejected) \subseteq seen
  /\ seen \subseteq Handled(session)
  /\ BytesOf(session.fetched) <= total /\ total <= MaxTotal

CrawlInv ==
  /\ site \in Sites /\ maxPages \in PageLimits
  /\ CrawlTypeOK
  /\ SessionInv(session, site, maxPages) /\ SessionInv(file.session, site, maxPages)
  /\ FetchedOnLedger
  /\ LocalsInv

LEMMA SessionParts ==
  ASSUME NEW s \in SessionRecords
  PROVE  /\ s.queue \in Seq(Items) /\ s.fetched \in Seq(Items)
         /\ s.rejected \in Seq(Items) /\ s.errors \in Seq(Items)
BY DEF SessionRecords

LEMMA NothingTaken ==
  ASSUME NEW pages, NEW most \in Nat,
         NEW s \in SessionRecords, s.fetched = <<>>, s.rejected = <<>>, Ordered(s.queue)
  PROVE  SessionInv(s, pages, most)
<1>1. Taken(s) = {} /\ TakenFirst(s) /\ LinksFollowed(s, pages)
  BY NoItems DEF Taken, TakenFirst, LinksFollowed
<1>2. Limited(s, most)
  <2>1. Len(s.fetched) = 0 /\ UrlsOf(s.fetched) = {} /\ ItemsIn(s.fetched) = {}
    BY NoItems
  <2>2. IsFiniteSet(UrlsOf(s.fetched)) /\ Cardinality(UrlsOf(s.fetched)) = 0
    BY <2>1, FS_EmptySet
  <2>3. BytesOf(s.fetched) <= MaxTotal
    BY BytesOfNone, CrawlAssumption
  <2> QED
    BY <2>1, <2>2, <2>3 DEF Limited
<1> QED
  BY <1>1, <1>2 DEF SessionInv

LEMMA NoSessionInv ==
  ASSUME NEW pages, NEW most \in Nat
  PROVE  SessionInv(NoSession, pages, most)
<1>1. NoSession \in SessionRecords /\ Ordered(NoSession.queue)
      /\ NoSession.fetched = <<>> /\ NoSession.rejected = <<>>
  BY NoItems DEF NoSession, SessionRecords
<1> QED
  BY <1>1, NothingTaken

LEMMA SeedInv ==
  ASSUME NEW pages, NEW most \in Nat
  PROVE  SessionInv([NoSession EXCEPT !.queue = <<Item(Seed, 0)>>], pages, most)
<1> DEFINE x == Item(Seed, 0)
           s == [NoSession EXCEPT !.queue = <<x>>]
<1>1. x \in Items /\ x.depth \in Nat
  BY ItemTyped, CrawlAssumption
<1> HIDE DEF x
<1>2. <<x>> = Append(<<>>, x)
  OBVIOUS
<1>3. <<x>> \in Seq(Items) /\ Ordered(<<x>>)
  <2>1. /\ <<>> \in Seq(Items) /\ Ordered(<<>>)
        /\ \A y \in ItemsIn(<<>>) : y.depth <= x.depth /\ x.depth <= y.depth + 1
    BY NoItems
  <2>2. Append(<<>>, x) \in Seq(Items)
    BY <1>1, <2>1, AppendItem
  <2>3. Ordered(Append(<<>>, x))
    BY <1>1, <2>1, OrderedAppend
  <2> QED
    BY <1>2, <2>2, <2>3
<1>4. s \in SessionRecords /\ s.queue = <<x>> /\ s.fetched = <<>> /\ s.rejected = <<>>
  BY <1>3, NoItems DEF NoSession, SessionRecords
<1> HIDE DEF s
<1>5. SessionInv(s, pages, most)
  BY <1>3, <1>4, NothingTaken
<1> QED
  BY <1>5 DEF s, x

\* A queue that may take the place of that of s when its first item is taken:
\* the rest of it waits there, and nothing less deep than the first.
Successor(q, s) ==
  /\ q \in Seq(Items) /\ Ordered(q)
  /\ ItemsIn(Tail(s.queue)) \subseteq ItemsIn(q)
  /\ \A x \in ItemsIn(q) : Head(s.queue).depth <= x.depth

LEMMA RestSucceeds ==
  ASSUME NEW s \in SessionRecords, Ordered(s.queue), s.queue # <<>>
  PROVE  Successor(Tail(s.queue), s)
BY SessionParts, TakeItem DEF Successor

LEMMA GrownSucceeds ==
  ASSUME NEW s \in SessionRecords, Ordered(s.queue), s.queue # <<>>,
         NEW links \in Seq(Urls), NEW known
  PROVE  LET q == Grown(Tail(s.queue), links, Head(s.queue).depth + 1, known)
         IN  /\ Successor(q, s)
             /\ \A i \in DOMAIN links :
                  links[i] \in known \/ Item(links[i], Head(s.queue).depth + 1) \in ItemsIn(q)
<1> DEFINE x == Head(s.queue)
           r == Tail(s.queue)
           q == Grown(r, links, x.depth + 1, known)
<1>1. /\ x \in Items /\ r \in Seq(Items) /\ Ordered(r)
      /\ \A y \in ItemsIn(s.queue) : x.depth <= y.depth /\ y.depth <= x.depth + 1
      /\ ItemsIn(r) \subseteq ItemsIn(s.queue)
  BY SessionParts, TakeItem
<1>2. x.depth \in Nat /\ x.depth + 1 \in Nat
  BY <1>1 DEF Items
<1>3. ItemsIn(r) \subseteq Items /\ \A y \in Items : y.depth \in Nat
  BY <1>1, ItemsTyped DEF Items
<1> HIDE DEF x, r
<1>4. \A y \in ItemsIn(r) : y.depth <= x.depth + 1 /\ x.depth + 1 <= y.depth + 1
  BY <1>1, <1>2, <1>3
<1>5. /\ q \in Seq(Items) /\ ItemsIn(r) \subseteq ItemsIn(q) /\ Ordered(q)
      /\ \A y \in ItemsIn(q) : y \in ItemsIn(r) \/ y.depth = x.depth + 1
      /\ \A i \in DOMAIN links : links[i] \in known \/ Item(links[i], x.depth + 1) \in ItemsIn(q)
  BY <1>1, <1>2, <1>4, GrownProperties
<1> HIDE DEF q
<1>6. \A y \in ItemsIn(q) : x.depth <= y.depth
  BY <1>1, <1>2, <1>5
<1>7. Successor(q, s)
  BY <1>5, <1>6 DEF Successor, x, r
<1> QED
  BY <1>5, <1>7 DEF q, x, r

\* A skipped item leaves the invariant: its url was dealt with before.
LEMMA SkipKeeps ==
  ASSUME NEW pages, NEW most \in Nat,
         NEW s, SessionInv(s, pages, most), s.queue # <<>>, Head(s.queue).url \in Handled(s)
  PROVE  SessionInv([s EXCEPT !.queue = Tail(s.queue)], pages, most)
<1> DEFINE t == [s EXCEPT !.queue = Tail(s.queue)]
           x == Head(s.queue)
<1>1. /\ s \in SessionRecords /\ Ordered(s.queue) /\ TakenFirst(s) /\ LinksFollowed(s, pages)
      /\ Limited(s, most)
  BY DEF SessionInv
<1>2. /\ Tail(s.queue) \in Seq(Items) /\ Ordered(Tail(s.queue))
      /\ ItemsIn(s.queue) = ItemsIn(Tail(s.queue)) \cup {x}
  BY <1>1, SessionParts, TakeItem
<1>3. /\ t \in SessionRecords /\ t.queue = Tail(s.queue)
      /\ t.fetched = s.fetched /\ t.rejected = s.rejected /\ t.errors = s.errors
  BY <1>1, <1>2 DEF SessionRecords
<1> HIDE DEF t, x
<1>4. Taken(t) = Taken(s) /\ TakenFirst(t)
  BY <1>1, <1>2, <1>3 DEF Taken, TakenFirst
<1>5. x.url \in UrlsOf(s.errors) \/ \E y \in Taken(s) : y.url = x.url
  <2>1. x.url \in UrlsOf(s.fetched) \cup UrlsOf(s.rejected) => \E y \in Taken(s) : y.url = x.url
    BY DEF Taken, ItemsIn, UrlsOf
  <2>2. x.url \in UrlsOf(s.fetched) \cup UrlsOf(s.rejected) \cup UrlsOf(s.errors)
    BY DEF Handled, x
  <2> QED
    BY <2>1, <2>2
<1>6. ASSUME NEW u, NEW d, Followed(s, u, d) PROVE Followed(t, u, d)
  BY <1>2, <1>3, <1>4, <1>5, <1>6 DEF Followed
<1>7. LinksFollowed(t, pages)
  BY <1>1, <1>3, <1>6 DEF LinksFollowed
<1>8. Limited(t, most)
  BY <1>1, <1>3 DEF Limited
<1>9. SessionInv(t, pages, most)
  BY <1>2, <1>3, <1>4, <1>7, <1>8 DEF SessionInv
<1> QED
  BY <1>9 DEF t

\* So does a page that failed, whatever it queued.
LEMMA FailKeeps ==
  ASSUME NEW pages, NEW most \in Nat,
         NEW s, SessionInv(s, pages, most), s.queue # <<>>,
         NEW q, Successor(q, s)
  PROVE  SessionInv([s EXCEPT !.queue = q, !.errors = Append(s.errors, Head(s.queue))], pages, most)
<1> DEFINE x == Head(s.queue)
           t == [s EXCEPT !.queue = q, !.errors = Append(s.errors, x)]
<1>1. /\ s \in SessionRecords /\ Ordered(s.queue) /\ TakenFirst(s) /\ LinksFollowed(s, pages)
      /\ Limited(s, most)
  BY DEF SessionInv
<1>2. x \in Items /\ x \in ItemsIn(s.queue) /\ ItemsIn(s.queue) = ItemsIn(Tail(s.queue)) \cup {x}
  BY <1>1, SessionParts, TakeItem
<1>3. /\ Append(s.errors, x) \in Seq(Items)
      /\ UrlsOf(Append(s.errors, x)) = UrlsOf(s.errors) \cup {x.url}
  BY <1>1, <1>2, SessionParts, AppendItem
<1>4. /\ q \in Seq(Items) /\ Ordered(q) /\ ItemsIn(Tail(s.queue)) \subseteq ItemsIn(q)
      /\ \A y \in ItemsIn(q) : x.depth <= y.depth
  BY DEF Successor
<1>5. /\ t \in SessionRecords /\ t.queue = q
      /\ t.fetched = s.fetched /\ t.rejected = s.rejected /\ t.errors = Append(s.errors, x)
  BY <1>1, <1>3, <1>4 DEF SessionRecords
<1> HIDE DEF t, x
<1>6. Taken(t) = Taken(s)
  BY <1>5 DEF Taken
<1>7. TakenFirst(t)
  <2> SUFFICES ASSUME NEW y \in Taken(s), NEW z \in ItemsIn(q) PROVE y.depth <= z.depth
    BY <1>5, <1>6 DEF TakenFirst
  <2>1. y.depth <= x.depth /\ x.depth <= z.depth
    BY <1>1, <1>2, <1>4 DEF TakenFirst
  <2>2. y \in Items /\ z \in Items
    BY <1>1, <1>4, SessionParts, ItemsTyped DEF Taken
  <2> QED
    BY <1>2, <2>1, <2>2 DEF Items
<1>8. ASSUME NEW u, NEW d, Followed(s, u, d) PROVE Followed(t, u, d)
  <2>1. CASE u = x.url
    BY <1>3, <1>5, <2>1 DEF Followed
  <2>2. CASE u # x.url
    BY <1>2, <1>3, <1>4, <1>5, <1>6, <1>8, <2>2 DEF Followed
  <2> QED
    BY <2>1, <2>2
<1>9. LinksFollowed(t, pages)
  BY <1>1, <1>5, <1>8 DEF LinksFollowed
<1>10. Limited(t, most)
  BY <1>1, <1>5 DEF Limited
<1>11. SessionInv(t, pages, most)
  BY <1>4, <1>5, <1>7, <1>9, <1>10 DEF SessionInv
<1> QED
  BY <1>11 DEF t, x

\* A link that was followed stays so when the first item, of a url not taken
\* before, is taken: where it waited, the first item was no deeper.
LEMMA TakingKeepsFollowed ==
  ASSUME NEW s \in SessionRecords, Ordered(s.queue), s.queue # <<>>,
         \A y \in Taken(s) : y.url # Head(s.queue).url,
         NEW t \in SessionRecords, t.errors = s.errors,
         Taken(t) = Taken(s) \cup {Head(s.queue)}, Successor(t.queue, s),
         NEW u, NEW d \in Nat, Followed(s, u, d)
  PROVE  Followed(t, u, d)
<1> DEFINE x == Head(s.queue)
<1>1. /\ x \in Items /\ x.depth \in Nat /\ ItemsIn(s.queue) = ItemsIn(Tail(s.queue)) \cup {x}
      /\ ItemsIn(s.queue) \subseteq Items
      /\ \A y \in ItemsIn(s.queue) : x.depth <= y.depth
  BY SessionParts, TakeItem, ItemsTyped DEF Items
<1>2. ItemsIn(Tail(s.queue)) \subseteq ItemsIn(t.queue)
  BY DEF Successor
<1> HIDE DEF x
<1>3. CASE u \in UrlsOf(s.errors)
  BY <1>3 DEF Followed
<1>4. CASE u \notin UrlsOf(s.errors) /\ u = x.url
  <2>1. PICK z \in ItemsIn(s.queue) : z.url = u /\ z.depth <= d + 1
    BY <1>4 DEF Followed, x
  <2>2. z.depth \in Nat /\ x.depth <= z.depth
    BY <1>1, <2>1 DEF Items
  <2>3. x.depth <= d + 1
    BY <1>1, <2>1, <2>2
  <2>4. \A y \in Taken(t) : y.url = u => y = x
    BY <1>4 DEF x
  <2> QED
    BY <1>4, <2>3, <2>4 DEF Followed, x
<1>5. CASE u \notin UrlsOf(s.errors) /\ u # x.url
  <2>1. \A y \in Taken(t) : y.url = u => y \in Taken(s)
    BY <1>5 DEF x
  <2>2. \/ \E y \in Taken(t) : y.url = u
        \/ \E z \in ItemsIn(t.queue) : z.url = u /\ z.depth <= d + 1
    <3>1. CASE \E y \in Taken(s) : y.url = u
      BY <3>1
    <3>2. CASE \E z \in ItemsIn(s.queue) : z.url = u /\ z.depth <= d + 1
      BY <1>1, <1>2, <1>5, <3>2
    <3> QED
      BY <1>5, <3>1, <3>2 DEF Followed
  <2> QED
    BY <1>5, <2>1, <2>2 DEF Followed
<1> QED
  BY <1>3, <1>4, <1>5

\* The same for the order of what was taken and what waits.
LEMMA TakingKeepsFirst ==
  ASSUME NEW s \in SessionRecords, Ordered(s.queue), s.queue # <<>>, TakenFirst(s),
         NEW t \in SessionRecords,
         Taken(t) = Taken(s) \cup {Head(s.queue)}, Successor(t.queue, s)
  PROVE  TakenFirst(t) /\ \A y \in Taken(t) : y.depth <= Head(s.queue).depth
<1> DEFINE x == Head(s.queue)
<1>1. x \in Items /\ x \in ItemsIn(s.queue) /\ x.depth \in Nat
  BY SessionParts, TakeItem DEF Items
<1>2. /\ \A z \in ItemsIn(t.queue) : x.depth <= z.depth /\ z.depth \in Nat
      /\ \A y \in Taken(s) : y.depth \in Nat
  <2>1. ItemsIn(t.queue) \subseteq Items /\ Taken(s) \subseteq Items
    BY SessionParts, ItemsTyped DEF Taken
  <2> QED
    BY <2>1 DEF Successor, Items
<1> HIDE DEF x
<1>3. \A y \in Taken(t) : y.depth <= x.depth /\ y.depth \in Nat
  BY <1>1, <1>2 DEF TakenFirst, x
<1>4. TakenFirst(t)
  <2> SUFFICES ASSUME NEW y \in Taken(t), NEW z \in ItemsIn(t.queue) PROVE y.depth <= z.depth
    BY DEF TakenFirst
  <2> QED
    BY <1>1, <1>2, <1>3
<1> QED
  BY <1>3, <1>4 DEF x

\* A rejected item leaves the invariant.
LEMMA RejectKeeps ==
  ASSUME NEW pages, NEW most \in Nat,
         NEW s, SessionInv(s, pages, most), s.queue # <<>>,
         Head(s.queue).url \notin UrlsOf(s.fetched) \cup UrlsOf(s.rejected)
  PROVE  SessionInv([s EXCEPT !.queue = Tail(s.queue), !.rejected = Append(s.rejected, Head(s.queue))],
                    pages, most)
<1> DEFINE x == Head(s.queue)
           t == [s EXCEPT !.queue = Tail(s.queue), !.rejected = Append(s.rejected, x)]
<1>1. /\ s \in SessionRecords /\ Ordered(s.queue) /\ TakenFirst(s) /\ LinksFollowed(s, pages)
      /\ Limited(s, most)
  BY DEF SessionInv
<1>2. x \in Items /\ Successor(Tail(s.queue), s)
  BY <1>1, SessionParts, TakeItem, RestSucceeds
<1>3. /\ Append(s.rejected, x) \in Seq(Items)
      /\ ItemsIn(Append(s.rejected, x)) = ItemsIn(s.rejected) \cup {x}
  BY <1>1, <1>2, SessionParts, AppendItem
<1>4. Tail(s.queue) \in Seq(Items) /\ Ordered(Tail(s.queue))
  BY <1>2 DEF Successor
<1>5. /\ t \in SessionRecords /\ t.queue = Tail(s.queue)
      /\ t.fetched = s.fetched /\ t.errors = s.errors /\ t.rejected = Append(s.rejected, x)
  BY <1>1, <1>3, <1>4 DEF SessionRecords
<1> HIDE DEF t
<1>6. Taken(t) = Taken(s) \cup {x}
  BY <1>3, <1>5 DEF Taken
<1>7. \A y \in Taken(s) : y.url # x.url
  <2>1. s.fetched \in Seq(Items) /\ s.rejected \in Seq(Items)
    BY <1>1, SessionParts
  <2>2. \A y \in Taken(s) : y.url \in UrlsOf(s.fetched) \cup UrlsOf(s.rejected)
    BY DEF Taken, ItemsIn, UrlsOf
  <2> QED
    BY <2>2
<1>8. TakenFirst(t)
  BY <1>1, <1>2, <1>5, <1>6, TakingKeepsFirst
<1>9. LinksFollowed(t, pages)
  <2> SUFFICES ASSUME NEW z \in ItemsIn(s.fetched), NEW i \in DOMAIN pages[z.url].links
               PROVE  Followed(t, pages[z.url].links[i], z.depth)
    BY <1>5 DEF LinksFollowed
  <2>1. z.depth \in Nat
    BY <1>1, SessionParts, ItemsTyped DEF Items
  <2>2. Followed(s, pages[z.url].links[i], z.depth)
    BY <1>1 DEF LinksFollowed
  <2> QED
    BY <1>1, <1>2, <1>5, <1>6, <1>7, <2>1, <2>2, TakingKeepsFollowed
<1>10. Limited(t, most)
  BY <1>1, <1>5 DEF Limited
<1>11. SessionInv(t, pages, most)
  BY <1>4, <1>5, <1>8, <1>9, <1>10 DEF SessionInv
<1> QED
  BY <1>11 DEF t

\* So does a page that is fetched within the limits, when each of its links was
\* dealt with before, is the page itself, or waits one link deeper.
LEMMA VisitKeeps ==
  ASSUME NEW pages, NEW most \in Nat,
         NEW s, SessionInv(s, pages, most), s.queue # <<>>, NEW q, Successor(q, s),
         Head(s.queue).url \notin UrlsOf(s.fetched) \cup UrlsOf(s.rejected),
         \A i \in DOMAIN pages[Head(s.queue).url].links :
           \/ pages[Head(s.queue).url].links[i] \in Handled(s) \cup {Head(s.queue).url}
           \/ Item(pages[Head(s.queue).url].links[i], Head(s.queue).depth + 1) \in ItemsIn(q),
         Len(s.fetched) < most,
         Head(s.queue).url \in Approved, Head(s.queue).depth <= MaxDepth,
         BytesOf(s.fetched) + Size[Head(s.queue).url] <= MaxTotal
  PROVE  SessionInv([s EXCEPT !.queue = q, !.fetched = Append(s.fetched, Head(s.queue))], pages, most)
<1> DEFINE x == Head(s.queue)
           t == [s EXCEPT !.queue = q, !.fetched = Append(s.fetched, x)]
<1>1. /\ s \in SessionRecords /\ Ordered(s.queue) /\ TakenFirst(s) /\ LinksFollowed(s, pages)
      /\ Limited(s, most)
  BY DEF SessionInv
<1>2. x \in Items /\ x.depth \in Nat
  BY <1>1, SessionParts, TakeItem DEF Items
<1>3. q \in Seq(Items) /\ Ordered(q)
  BY DEF Successor
<1>4. /\ Append(s.fetched, x) \in Seq(Items) /\ Len(Append(s.fetched, x)) = Len(s.fetched) + 1
      /\ ItemsIn(Append(s.fetched, x)) = ItemsIn(s.fetched) \cup {x}
      /\ UrlsOf(Append(s.fetched, x)) = UrlsOf(s.fetched) \cup {x.url}
      /\ BytesOf(Append(s.fetched, x)) = BytesOf(s.fetched) + Size[x.url]
  BY <1>1, <1>2, SessionParts, AppendItem, BytesOfAppend
<1>5. /\ t \in SessionRecords /\ t.queue = q
      /\ t.fetched = Append(s.fetched, x) /\ t.errors = s.errors /\ t.rejected = s.rejected
  BY <1>1, <1>3, <1>4 DEF SessionRecords
<1> HIDE DEF t
<1>6. Taken(t) = Taken(s) \cup {x}
  BY <1>4, <1>5 DEF Taken
<1>7. /\ \A y \in Taken(s) : y.url \in UrlsOf(s.fetched) \cup UrlsOf(s.rejected)
      /\ \A y \in Taken(s) : y.url # x.url
  <2>1. \A y \in Taken(s) : y.url \in UrlsOf(s.fetched) \cup UrlsOf(s.rejected)
    BY DEF Taken, ItemsIn, UrlsOf
  <2> QED
    BY <2>1
<1>8. TakenFirst(t) /\ \A y \in Taken(t) : y.depth <= x.depth
  BY <1>1, <1>5, <1>6, TakingKeepsFirst
<1>9. LinksFollowed(t, pages)
  <2> SUFFICES ASSUME NEW z \in ItemsIn(s.fetched) \cup {x}, NEW i \in DOMAIN pages[z.url].links
               PROVE  Followed(t, pages[z.url].links[i], z.depth)
    BY <1>4, <1>5 DEF LinksFollowed
  <2>1. CASE z \in ItemsIn(s.fetched)
    <3>1. z.depth \in Nat
      BY <1>1, <2>1, SessionParts, ItemsTyped DEF Items
    <3>2. Followed(s, pages[z.url].links[i], z.depth)
      BY <1>1, <2>1 DEF LinksFollowed
    <3> QED
      BY <1>1, <1>5, <1>6, <1>7, <3>1, <3>2, TakingKeepsFollowed
  <2>2. CASE z = x
    <3> DEFINE u == pages[x.url].links[i]
    <3>1. \A y \in Taken(t) : y.depth <= x.depth + 1
      <4> SUFFICES ASSUME NEW y \in Taken(t) PROVE y.depth <= x.depth + 1
        OBVIOUS
      <4>1. y \in Items
        BY <1>5, SessionParts, ItemsTyped DEF Taken
      <4> QED
        BY <1>2, <1>8, <4>1 DEF Items
    <3>2. CASE u \in UrlsOf(s.errors)
      BY <1>5, <2>2, <3>2 DEF Followed
    <3>3. CASE \E y \in Taken(t) : y.url = u
      BY <2>2, <3>1, <3>3 DEF Followed
    <3>4. CASE Item(u, x.depth + 1) \in ItemsIn(q)
      <4>1. Item(u, x.depth + 1).url = u /\ Item(u, x.depth + 1).depth <= x.depth + 1
        BY <1>2 DEF Item
      <4> QED
        BY <1>5, <2>2, <3>1, <3>4, <4>1 DEF Followed
    <3>5. u \in UrlsOf(s.fetched) \cup UrlsOf(s.rejected) => \E y \in Taken(s) : y.url = u
      BY DEF Taken, ItemsIn, UrlsOf
    <3> QED
      BY <1>6, <2>2, <3>2, <3>3, <3>4, <3>5 DEF Handled
  <2> QED
    BY <2>1, <2>2
<1>10. Limited(t, most)
  <2>1. Len(s.fetched) \in Nat
    BY <1>1, SessionParts, LenProperties
  <2>2. Len(t.fetched) <= most
    BY <1>4, <1>5, <2>1
  <2>3. /\ IsFiniteSet(UrlsOf(t.fetched))
        /\ Cardinality(UrlsOf(t.fetched)) = Cardinality(UrlsOf(s.fetched)) + 1
    <3>1. IsFiniteSet(UrlsOf(s.fetched)) /\ x.url \notin UrlsOf(s.fetched)
      BY <1>1 DEF Limited
    <3> QED
      BY <1>4, <1>5, <3>1, FS_AddElement
  <2>4. Cardinality(UrlsOf(t.fetched)) = Len(t.fetched)
    BY <1>1, <1>4, <1>5, <2>3 DEF Limited
  <2>5. BytesOf(t.fetched) <= MaxTotal
    BY <1>4, <1>5
  <2>6. \A y \in ItemsIn(t.fetched) : y.url \in Approved /\ y.depth <= MaxDepth
    BY <1>1, <1>4, <1>5 DEF Limited
  <2> QED
    BY <2>2, <2>3, <2>4, <2>5, <2>6 DEF Limited
<1>11. SessionInv(t, pages, most)
  BY <1>3, <1>5, <1>8, <1>9, <1>10 DEF SessionInv
<1> QED
  BY <1>11 DEF t

-----------------------------------------------------------------------------
\* The steps of the crawl

CrawlFlagsOK ==
  /\ phase \in {"idle", "loop", "save", "write"} /\ ending \in BOOLEAN
  /\ runs \in 0 .. CrawlRuns /\ kills \in 0 .. CrawlKills

FileOK == file.state = "whole" \/ file \in {NoFile, Torn}

\* The invariant, part by part.
CrawlParts ==
  /\ site \in Sites /\ maxPages \in PageLimits
  /\ CrawlFlagsOK /\ FileOK
  /\ seen \subseteq Urls /\ ledgered \subseteq Urls /\ total \in Nat
  /\ SessionInv(session, site, maxPages) /\ SessionInv(file.session, site, maxPages)
  /\ UrlsOf(session.fetched) \subseteq ledgered /\ UrlsOf(file.session.fetched) \subseteq ledgered
  /\ LocalsInv

LEMMA CrawlInvParts == CrawlInv <=> CrawlParts
<1>1. \A s : SessionInv(s, site, maxPages) => SessionOK(s)
  BY SessionParts DEF SessionInv, SessionOK
<1>2. (\A s \in Sessions : SessionOK(s)) <=> SessionOK(session) /\ SessionOK(file.session)
  BY DEF Sessions
<1>3. FetchedOnLedger <=> /\ UrlsOf(session.fetched) \subseteq ledgered
                          /\ UrlsOf(file.session.fetched) \subseteq ledgered
  BY DEF FetchedOnLedger, Sessions
<1> QED
  BY <1>1, <1>2, <1>3 DEF CrawlInv, CrawlParts, CrawlTypeOK, CrawlFlagsOK, FileOK

LEMMA InitInv == CrawlInit => CrawlInv
<1> SUFFICES ASSUME CrawlInit PROVE CrawlInv
  OBVIOUS
<1>1. maxPages \in Nat
  BY CrawlAssumption DEF CrawlInit
<1>2. session = NoSession /\ file.session = NoSession /\ file = NoFile
  BY DEF CrawlInit, NoFile
<1>3. SessionInv(session, site, maxPages) /\ SessionInv(file.session, site, maxPages)
  BY <1>1, <1>2, NoSessionInv
<1>4. /\ UrlsOf(NoSession.fetched) = {} /\ UrlsOf(NoSession.rejected) = {}
      /\ BytesOf(NoSession.fetched) = 0
  BY NoItems, BytesOfNone DEF NoSession
<1>5. LocalsInv
  BY <1>2, <1>4, CrawlAssumption DEF CrawlInit, LocalsInv
<1>6. CrawlFlagsOK
  <2>1. 0 \in 0 .. CrawlRuns /\ 0 \in 0 .. CrawlKills
    BY CrawlAssumption
  <2>2. phase = "idle" /\ ending = FALSE /\ runs = 0 /\ kills = 0
    BY DEF CrawlInit
  <2> QED
    BY <2>1, <2>2 DEF CrawlFlagsOK
<1>7. FileOK
  BY <1>2 DEF FileOK
<1> QED
  BY <1>2, <1>3, <1>4, <1>5, <1>6, <1>7, CrawlInvParts DEF CrawlInit, CrawlParts

LEMMA StartKeeps == CrawlInv /\ CrawlStart => CrawlInv'
<1> SUFFICES ASSUME CrawlInv, CrawlStart PROVE CrawlInv'
  OBVIOUS
<1> DEFINE s == [NoSession EXCEPT !.queue = <<Item(Seed, 0)>>]
<1>1. CrawlParts
  BY CrawlInvParts
<1>2. /\ runs < CrawlRuns /\ session' = s /\ seen' = {} /\ total' = 0
      /\ phase' = "loop" /\ runs' = runs + 1
      /\ UNCHANGED <<site, maxPages, file, ledgered, ending, kills>>
  BY DEF CrawlStart, Begin
<1>3. maxPages \in Nat
  BY <1>1, CrawlAssumption DEF CrawlParts
<1>4. SessionInv(s, site, maxPages)
  BY <1>3, SeedInv
<1>5. /\ UrlsOf(s.fetched) = {} /\ UrlsOf(s.rejected) = {}
      /\ BytesOf(s.fetched) = 0
  BY NoItems, BytesOfNone DEF NoSession
<1> HIDE DEF s
<1>6. LocalsInv'
  BY <1>2, <1>5, CrawlAssumption DEF LocalsInv
<1>7. CrawlFlagsOK' /\ FileOK'
  BY <1>1, <1>2, CrawlAssumption DEF CrawlParts, CrawlFlagsOK, FileOK
<1>8. CrawlParts'
  BY <1>1, <1>2, <1>4, <1>5, <1>6, <1>7 DEF CrawlParts
<1> QED
  BY <1>8, CrawlInvParts, PTL

LEMMA ResumeKeeps == CrawlInv /\ CrawlResume => CrawlInv'
<1> SUFFICES ASSUME CrawlInv, CrawlResume PROVE CrawlInv'
  OBVIOUS
<1> DEFINE s == file.session
<1>1. CrawlParts
  BY CrawlInvParts
<1>2. /\ runs < CrawlRuns /\ session' = s
      /\ seen' = UrlsOf(s.fetched) \cup UrlsOf(s.rejected) /\ total' = BytesOf(s.fetched)
      /\ phase' = "loop" /\ runs' = runs + 1
      /\ UNCHANGED <<site, maxPages, file, ledgered, ending, kills>>
  BY DEF CrawlResume, Begin
<1>3. SessionInv(s, site, maxPages)
  BY <1>1 DEF CrawlParts
<1>4. s.fetched \in Seq(Items) /\ s.rejected \in Seq(Items)
  BY <1>3, SessionParts DEF SessionInv
<1>5. /\ BytesOf(s.fetched) \in Nat /\ BytesOf(s.fetched) <= MaxTotal
      /\ UrlsOf(s.fetched) \subseteq Urls /\ UrlsOf(s.rejected) \subseteq Urls
  BY <1>3, <1>4, BytesOfNat, ItemsTyped DEF SessionInv, Limited
<1>6. LocalsInv'
  BY <1>2, <1>5 DEF LocalsInv, Handled
<1>7. CrawlFlagsOK' /\ FileOK'
  BY <1>1, <1>2, CrawlAssumption DEF CrawlParts, CrawlFlagsOK, FileOK
<1>8. CrawlParts'
  BY <1>1, <1>2, <1>3, <1>5, <1>6, <1>7 DEF CrawlParts
<1> QED
  BY <1>8, CrawlInvParts, PTL

LEMMA SkipStep == CrawlInv /\ Skip => CrawlInv'
<1> SUFFICES ASSUME CrawlInv, Skip PROVE CrawlInv'
  OBVIOUS
<1> DEFINE t == [session EXCEPT !.queue = rest]
<1>1. CrawlParts
  BY CrawlInvParts
<1>2. /\ session.queue # <<>> /\ item.url \in seen /\ session' = t
      /\ UNCHANGED <<site, maxPages, seen, total, file, ledgered, phase, ending, runs, kills>>
  BY DEF Skip, More
<1>3. SessionInv(session, site, maxPages) /\ maxPages \in Nat /\ item.url \in Handled(session)
  BY <1>1, <1>2, CrawlAssumption DEF CrawlParts, LocalsInv
<1>4. SessionInv(t, site, maxPages)
  BY <1>2, <1>3, SkipKeeps DEF item, rest
<1>5. t.fetched = session.fetched /\ t.rejected = session.rejected /\ t.errors = session.errors
  BY <1>3 DEF SessionInv, SessionRecords
<1> HIDE DEF t
<1>6. LocalsInv'
  BY <1>1, <1>2, <1>5 DEF CrawlParts, LocalsInv, Handled
<1>7. CrawlFlagsOK' /\ FileOK'
  BY <1>1, <1>2 DEF CrawlParts, CrawlFlagsOK, FileOK
<1>8. CrawlParts'
  BY <1>1, <1>2, <1>4, <1>5, <1>6, <1>7 DEF CrawlParts
<1> QED
  BY <1>8, CrawlInvParts, PTL

\* What a round with an item not seen before can rely on.
LEMMA RoundFacts ==
  ASSUME CrawlParts, Round
  PROVE  /\ maxPages \in Nat /\ session \in SessionRecords
         /\ session.queue # <<>> /\ Len(session.fetched) < maxPages
         /\ item \in Items /\ item.url \in Urls /\ item.depth \in Nat
         /\ item.url \notin UrlsOf(session.fetched) \cup UrlsOf(session.rejected)
         /\ site[item.url].links \in Seq(Urls)
         /\ Successor(rest, session) /\ Successor(Queued, session)
         /\ \A i \in DOMAIN site[item.url].links :
              \/ site[item.url].links[i] \in Handled(session) \cup {item.url}
              \/ Item(site[item.url].links[i], item.depth + 1) \in ItemsIn(Queued)
         /\ seen' = seen \cup {item.url} /\ seen' \subseteq Urls
         /\ UNCHANGED <<site, maxPages, file, ending, runs, kills>>
<1>1. /\ maxPages \in Nat /\ session \in SessionRecords /\ Ordered(session.queue)
      /\ session.queue # <<>> /\ Len(session.fetched) < maxPages /\ item.url \notin seen
      /\ UrlsOf(session.fetched) \cup UrlsOf(session.rejected) \subseteq seen
      /\ seen \subseteq Handled(session)
      /\ site \in [Urls -> [links : Seq(Urls), broken : BOOLEAN]]
  BY CrawlAssumption DEF CrawlParts, SessionInv, LocalsInv, Round, More
<1>2. item \in Items
  BY <1>1, SessionParts, TakeItem DEF item
<1>3. item.url \in Urls /\ item.depth \in Nat
  BY <1>2 DEF Items
<1>4. site[item.url].links \in Seq(Urls)
  BY <1>1, <1>3
<1>5. Successor(rest, session)
  BY <1>1, RestSucceeds DEF rest
<1>6. /\ Successor(Queued, session)
      /\ \A i \in DOMAIN site[item.url].links :
           \/ site[item.url].links[i] \in seen \cup {item.url}
           \/ Item(site[item.url].links[i], item.depth + 1) \in ItemsIn(Queued)
  BY <1>1, <1>4, GrownSucceeds DEF item, rest, Queued
<1>7. /\ seen' = seen \cup {item.url} /\ seen' \subseteq Urls
      /\ UNCHANGED <<site, maxPages, file, ending, runs, kills>>
  BY <1>3 DEF Round, CrawlParts
<1> QED
  BY <1>1, <1>2, <1>3, <1>4, <1>5, <1>6, <1>7

LEMMA RejectStep == CrawlInv /\ Reject => CrawlInv'
<1> SUFFICES ASSUME CrawlInv, Reject PROVE CrawlInv'
  OBVIOUS
<1> DEFINE t == [session EXCEPT !.queue = rest, !.rejected = Append(session.rejected, item)]
<1>1. CrawlParts /\ Round /\ session' = t /\ UNCHANGED <<total, ledgered, phase>>
  BY CrawlInvParts DEF Reject
<1>2. /\ maxPages \in Nat /\ session \in SessionRecords /\ session.queue # <<>>
      /\ item \in Items
      /\ item.url \notin UrlsOf(session.fetched) \cup UrlsOf(session.rejected)
      /\ seen' = seen \cup {item.url} /\ seen' \subseteq Urls
      /\ UNCHANGED <<site, maxPages, file, ending, runs, kills>>
  BY <1>1, RoundFacts
<1>3. SessionInv(t, site, maxPages)
  BY <1>1, <1>2, RejectKeeps DEF CrawlParts, item, rest
<1>4. /\ t.fetched = session.fetched /\ t.errors = session.errors
      /\ UrlsOf(t.rejected) = UrlsOf(session.rejected) \cup {item.url}
  BY <1>2, SessionParts, AppendItem DEF SessionRecords
<1> HIDE DEF t
<1>5. LocalsInv'
  BY <1>1, <1>2, <1>4 DEF CrawlParts, LocalsInv, Handled
<1>6. CrawlFlagsOK' /\ FileOK'
  BY <1>1, <1>2 DEF CrawlParts, CrawlFlagsOK, FileOK
<1>7. CrawlParts'
  BY <1>1, <1>2, <1>3, <1>4, <1>5, <1>6 DEF CrawlParts
<1> QED
  BY <1>7, CrawlInvParts, PTL

\* A round in which the page fails: total may have grown, the ledger too.
LEMMA FailStep ==
  ASSUME CrawlInv, Round,
         NEW q, Successor(q, session), Fails(q),
         total' \in Nat, total <= total', total' <= MaxTotal,
         ledgered \subseteq ledgered', ledgered' \subseteq Urls
  PROVE  CrawlInv'
<1> DEFINE t == [session EXCEPT !.queue = q, !.errors = Append(session.errors, item)]
<1>1. CrawlParts /\ session' = t /\ phase' = "save"
  BY CrawlInvParts DEF Fails
<1>2. /\ maxPages \in Nat /\ session \in SessionRecords /\ session.queue # <<>>
      /\ item \in Items
      /\ seen' = seen \cup {item.url} /\ seen' \subseteq Urls
      /\ UNCHANGED <<site, maxPages, file, ending, runs, kills>>
  BY <1>1, RoundFacts
<1>3. SessionInv(t, site, maxPages)
  BY <1>1, <1>2, FailKeeps DEF CrawlParts, item
<1>4. /\ t.fetched = session.fetched /\ t.rejected = session.rejected
      /\ UrlsOf(t.errors) = UrlsOf(session.errors) \cup {item.url}
  BY <1>2, SessionParts, AppendItem DEF SessionRecords
<1>5. BytesOf(session.fetched) \in Nat /\ BytesOf(session.fetched) <= total /\ total \in Nat
  BY <1>1, <1>2, SessionParts, BytesOfNat DEF CrawlParts, LocalsInv
<1> HIDE DEF t
<1>6. LocalsInv'
  BY <1>1, <1>2, <1>4, <1>5 DEF CrawlParts, LocalsInv, Handled
<1>7. CrawlFlagsOK' /\ FileOK'
  BY <1>1, <1>2 DEF CrawlParts, CrawlFlagsOK, FileOK
<1>8. CrawlParts'
  BY <1>1, <1>2, <1>3, <1>4, <1>6, <1>7 DEF CrawlParts
<1> QED
  BY <1>8, CrawlInvParts, PTL

\* Total after the bytes of a page.
LEMMA FetchedTotal ==
  ASSUME CrawlParts, Fetched
  PROVE  Round /\ ~Refused /\ total' = total + Size[item.url]
         /\ total' \in Nat /\ total <= total' /\ total' <= MaxTotal
<1>1. Round /\ ~Refused /\ total' = total + Size[item.url] /\ total + Size[item.url] <= MaxTotal
  BY DEF Fetched
<1>2. total \in Nat /\ Size[item.url] \in Nat
  BY <1>1, RoundFacts, CrawlAssumption DEF CrawlParts
<1> QED
  BY <1>1, <1>2

LEMMA VisitStep == CrawlInv /\ Visit => CrawlInv'
<1> SUFFICES ASSUME CrawlInv, Visit PROVE CrawlInv'
  OBVIOUS
<1> DEFINE t == [session EXCEPT !.queue = Queued, !.fetched = Append(session.fetched, item)]
<1>1. /\ CrawlParts /\ Fetched /\ session' = t /\ phase' = "save"
      /\ ledgered' = ledgered \cup {item.url}
  BY CrawlInvParts DEF Visit
<1>2. /\ Round /\ ~Refused /\ total' = total + Size[item.url]
      /\ total' \in Nat /\ total' <= MaxTotal
  BY <1>1, FetchedTotal
<1>3. /\ maxPages \in Nat /\ session \in SessionRecords
      /\ session.queue # <<>> /\ Len(session.fetched) < maxPages
      /\ item \in Items /\ item.url \in Urls /\ item.depth \in Nat
      /\ item.url \notin UrlsOf(session.fetched) \cup UrlsOf(session.rejected)
      /\ Successor(Queued, session)
      /\ \A i \in DOMAIN site[item.url].links :
           \/ site[item.url].links[i] \in Handled(session) \cup {item.url}
           \/ Item(site[item.url].links[i], item.depth + 1) \in ItemsIn(Queued)
      /\ seen' = seen \cup {item.url} /\ seen' \subseteq Urls
      /\ UNCHANGED <<site, maxPages, file, ending, runs, kills>>
  BY <1>1, <1>2, RoundFacts
<1>4. Queued \in Seq(Items)
  BY <1>3 DEF Successor
<1>5. /\ UrlsOf(Append(session.fetched, item)) = UrlsOf(session.fetched) \cup {item.url}
      /\ BytesOf(Append(session.fetched, item)) = BytesOf(session.fetched) + Size[item.url]
  BY <1>3, SessionParts, AppendItem, BytesOfAppend
<1>6. /\ t.fetched = Append(session.fetched, item)
      /\ t.rejected = session.rejected /\ t.errors = session.errors
  BY <1>3 DEF SessionRecords
<1>7. /\ BytesOf(session.fetched) \in Nat /\ BytesOf(session.fetched) <= total
      /\ total \in Nat /\ Size[item.url] \in Nat
  BY <1>1, <1>3, SessionParts, BytesOfNat, CrawlAssumption DEF CrawlParts, LocalsInv
<1>8. item.url \in Approved /\ item.depth <= MaxDepth
  BY <1>2, <1>3, CrawlAssumption DEF Refused
<1>9. BytesOf(session.fetched) + Size[item.url] <= MaxTotal
  BY <1>2, <1>7, CrawlAssumption
<1>10. SessionInv(t, site, maxPages)
  BY <1>1, <1>3, <1>8, <1>9, VisitKeeps DEF CrawlParts, item
<1> HIDE DEF t
<1>11. LocalsInv'
  <2>1. UrlsOf(t.fetched) \cup UrlsOf(t.rejected) \subseteq seen'
    BY <1>1, <1>3, <1>5, <1>6 DEF CrawlParts, LocalsInv
  <2>2. seen' \subseteq Handled(t)
    BY <1>1, <1>3, <1>5, <1>6 DEF CrawlParts, LocalsInv, Handled
  <2>3. BytesOf(t.fetched) <= total'
    BY <1>2, <1>5, <1>6, <1>7
  <2> QED
    BY <1>1, <1>2, <2>1, <2>2, <2>3 DEF LocalsInv
<1>12. CrawlFlagsOK' /\ FileOK'
  BY <1>1, <1>3 DEF CrawlParts, CrawlFlagsOK, FileOK
<1>13. CrawlParts'
  BY <1>1, <1>2, <1>3, <1>5, <1>6, <1>10, <1>11, <1>12 DEF CrawlParts
<1> QED
  BY <1>13, CrawlInvParts, PTL

LEMMA FetchFailsStep == CrawlInv /\ FetchFails => CrawlInv'
<1> SUFFICES ASSUME CrawlInv, FetchFails PROVE CrawlInv'
  OBVIOUS
<1>1. CrawlParts /\ Round /\ Fails(rest) /\ UNCHANGED <<total, ledgered>>
  BY CrawlInvParts DEF FetchFails
<1>2. Successor(rest, session)
  BY <1>1, RoundFacts
<1>3. total \in Nat /\ total <= MaxTotal /\ ledgered \subseteq Urls
  BY <1>1 DEF CrawlParts, LocalsInv
<1> QED
  BY <1>1, <1>2, <1>3, FailStep

LEMMA ImportFailsStep == CrawlInv /\ ImportFails => CrawlInv'
<1> SUFFICES ASSUME CrawlInv, ImportFails PROVE CrawlInv'
  OBVIOUS
<1>1. CrawlParts /\ Fetched /\ Fails(rest) /\ UNCHANGED ledgered
  BY CrawlInvParts DEF ImportFails
<1>2. Round /\ total' \in Nat /\ total <= total' /\ total' <= MaxTotal
  BY <1>1, FetchedTotal
<1>3. Successor(rest, session) /\ ledgered \subseteq Urls
  BY <1>1, <1>2, RoundFacts DEF CrawlParts
<1> QED
  BY <1>1, <1>2, <1>3, FailStep

LEMMA LinkBreaksStep == CrawlInv /\ LinkBreaks => CrawlInv'
<1> SUFFICES ASSUME CrawlInv, LinkBreaks PROVE CrawlInv'
  OBVIOUS
<1>1. CrawlParts /\ Fetched /\ Fails(Queued) /\ ledgered' = ledgered \cup {item.url}
  BY CrawlInvParts DEF LinkBreaks
<1>2. Round /\ total' \in Nat /\ total <= total' /\ total' <= MaxTotal
  BY <1>1, FetchedTotal
<1>3. Successor(Queued, session) /\ item.url \in Urls /\ ledgered \subseteq Urls
  BY <1>1, <1>2, RoundFacts DEF CrawlParts
<1> QED
  BY <1>1, <1>2, <1>3, FailStep

\* The end of the loop and the two halves of a save.
LEMMA SaveStep == CrawlInv /\ (End \/ Truncate \/ Write) => CrawlInv'
<1> SUFFICES ASSUME CrawlInv, End \/ Truncate \/ Write PROVE CrawlInv'
  OBVIOUS
<1>1. CrawlParts
  BY CrawlInvParts
<1>2. UNCHANGED <<site, maxPages, session, seen, total, ledgered, runs, kills>>
  BY DEF End, Truncate, Write
<1>3. /\ phase' \in {"idle", "loop", "save", "write"} /\ ending' \in BOOLEAN
      /\ file' \in {file, Torn, Saved(session)}
  BY <1>1 DEF End, Truncate, Write, CrawlParts, CrawlFlagsOK
<1>4. CrawlFlagsOK'
  BY <1>1, <1>2, <1>3 DEF CrawlParts, CrawlFlagsOK
<1>5. maxPages \in Nat
  BY <1>1, CrawlAssumption DEF CrawlParts
<1>6. /\ FileOK' /\ SessionInv(file'.session, site, maxPages)
      /\ UrlsOf(file'.session.fetched) \subseteq ledgered
  <2>1. CASE file' = file
    BY <1>1, <2>1 DEF CrawlParts, FileOK
  <2>2. CASE file' = Torn
    <3>1. file'.session = NoSession /\ UrlsOf(NoSession.fetched) = {}
      BY <2>2, NoItems DEF Torn, NoSession
    <3> QED
      BY <1>5, <2>2, <3>1, NoSessionInv DEF FileOK
  <2>3. CASE file' = Saved(session)
    <3>1. file'.session = session /\ file'.state = "whole"
      BY <2>3 DEF Saved
    <3> QED
      BY <1>1, <3>1 DEF CrawlParts, FileOK
  <2> QED
    BY <1>3, <2>1, <2>2, <2>3
<1>7. LocalsInv'
  BY <1>1, <1>2 DEF CrawlParts, LocalsInv, Handled
<1>8. CrawlParts'
  BY <1>1, <1>2, <1>4, <1>6, <1>7 DEF CrawlParts
<1> QED
  BY <1>8, CrawlInvParts, PTL

LEMMA KillStep == CrawlInv /\ Kill => CrawlInv'
<1> SUFFICES ASSUME CrawlInv, Kill PROVE CrawlInv'
  OBVIOUS
<1>1. CrawlParts
  BY CrawlInvParts
<1>2. /\ kills < CrawlKills /\ kills' = kills + 1
      /\ session' = NoSession /\ seen' = {} /\ total' = 0
      /\ phase' = "idle" /\ ending' = FALSE
      /\ UNCHANGED <<site, maxPages, file, ledgered, runs>>
  BY DEF Kill
<1>3. maxPages \in Nat
  BY <1>1, CrawlAssumption DEF CrawlParts
<1>4. SessionInv(NoSession, site, maxPages)
  BY <1>3, NoSessionInv
<1>5. /\ UrlsOf(NoSession.fetched) = {} /\ UrlsOf(NoSession.rejected) = {}
      /\ BytesOf(NoSession.fetched) = 0
  BY NoItems, BytesOfNone DEF NoSession
<1>6. LocalsInv'
  BY <1>2, <1>5, CrawlAssumption DEF LocalsInv
<1>7. CrawlFlagsOK' /\ FileOK'
  <2>1. kills' \in 0 .. CrawlKills /\ runs' \in 0 .. CrawlRuns
    BY <1>1, <1>2, CrawlAssumption DEF CrawlParts, CrawlFlagsOK
  <2>2. ending' \in BOOLEAN /\ phase' \in {"idle", "loop", "save", "write"}
    BY <1>2
  <2>3. FileOK'
    BY <1>1, <1>2 DEF CrawlParts, FileOK
  <2> QED
    BY <2>1, <2>2, <2>3 DEF CrawlFlagsOK
<1>8. CrawlParts'
  BY <1>1, <1>2, <1>4, <1>5, <1>6, <1>7 DEF CrawlParts
<1> QED
  BY <1>8, CrawlInvParts, PTL

-----------------------------------------------------------------------------
\* The theorems

\* The invariant holds whatever pages link to what, wherever a page fails, and
\* however often the crawl is started, resumed and killed.
THEOREM CrawlInvariance == CrawlSpec => []CrawlInv
<1>1. CrawlInv /\ [CrawlNext]_crawlVars => CrawlInv'
  <2> SUFFICES ASSUME CrawlInv, [CrawlNext]_crawlVars PROVE CrawlInv'
    OBVIOUS
  <2>1. CASE CrawlStart
    BY <2>1, StartKeeps
  <2>2. CASE CrawlResume
    BY <2>2, ResumeKeeps
  <2>3. CASE Skip
    BY <2>3, SkipStep
  <2>4. CASE Reject
    BY <2>4, RejectStep
  <2>5. CASE FetchFails
    BY <2>5, FetchFailsStep
  <2>6. CASE ImportFails
    BY <2>6, ImportFailsStep
  <2>7. CASE LinkBreaks
    BY <2>7, LinkBreaksStep
  <2>8. CASE Visit
    BY <2>8, VisitStep
  <2>9. CASE End \/ Truncate \/ Write
    BY <2>9, SaveStep
  <2>10. CASE Kill
    BY <2>10, KillStep
  <2>11. CASE UNCHANGED crawlVars
    <3>1. CrawlParts
      BY CrawlInvParts
    <3>2. CrawlParts'
      BY <2>11, <3>1 DEF crawlVars, CrawlParts, CrawlFlagsOK, FileOK, LocalsInv, Handled
    <3> QED
      BY <3>2, CrawlInvParts, PTL
  <2> QED
    BY <2>1, <2>2, <2>3, <2>4, <2>5, <2>6, <2>7, <2>8, <2>9, <2>10, <2>11 DEF CrawlNext
<1> QED
  BY <1>1, InitInv, PTL DEF CrawlSpec

\* Every variable of the crawl keeps its type (CrawlSession and the locals of run).
THEOREM CrawlTypes == CrawlSpec => []CrawlTypeOK
<1>1. CrawlInv => CrawlTypeOK
  BY DEF CrawlInv
<1> QED
  BY <1>1, CrawlInvariance, PTL

\* A page the session calls fetched is on the ledger, in memory and in the file,
\* after any kill (run: import_bytes comes before fetched.append and save).
THEOREM FetchedIsLedgered == CrawlSpec => []FetchedOnLedger
<1>1. CrawlInv => FetchedOnLedger
  BY DEF CrawlInv
<1> QED
  BY <1>1, CrawlInvariance, PTL

\* No link of a fetched page is lost, wherever the crawl stops, is killed and is
\* resumed (run, CrawlSession.save and load).
THEOREM LinksAreKept == CrawlSpec => []NoLinkLost
<1>1. CrawlInv => NoLinkLost
  <2> SUFFICES ASSUME CrawlInv, NEW s \in Sessions, NEW u \in UrlsOf(s.fetched),
                      NEW i \in DOMAIN site[u].links
               PROVE  site[u].links[i] \in UrlsOf(s.queue) \cup Handled(s)
    BY DEF NoLinkLost
  <2>1. SessionInv(s, site, maxPages)
    BY DEF CrawlInv, Sessions
  <2>2. PICK x \in ItemsIn(s.fetched) : x.url = u
    BY DEF ItemsIn, UrlsOf
  <2>3. Followed(s, site[u].links[i], x.depth)
    BY <2>1, <2>2 DEF SessionInv, LinksFollowed
  <2>4. \A y \in Taken(s) : y.url \in Handled(s)
    BY DEF Taken, ItemsIn, UrlsOf, Handled
  <2>5. \A y \in ItemsIn(s.queue) : y.url \in UrlsOf(s.queue)
    BY DEF ItemsIn, UrlsOf
  <2> QED
    BY <2>3, <2>4, <2>5 DEF Followed, Handled
<1> QED
  BY <1>1, CrawlInvariance, PTL

\* The walk is breadth first, resumptions included: whatever a fetched page links
\* to is taken at most one link deeper, unless it failed (run's queue and the
\* depth it gives to new links).
THEOREM WalkIsBreadthFirst == CrawlSpec => []ShortestDepth
<1>1. CrawlInv => ShortestDepth
  <2> SUFFICES ASSUME CrawlInv, NEW s \in Sessions, NEW i \in DOMAIN s.fetched,
                      NEW k \in DOMAIN s.fetched \cup DOMAIN s.rejected,
                      NEW g \in {s.fetched, s.rejected}, k \in DOMAIN g,
                      NEW j \in DOMAIN site[s.fetched[i].url].links,
                      site[s.fetched[i].url].links[j] = g[k].url,
                      g[k].url \notin UrlsOf(s.errors)
               PROVE  g[k].depth <= s.fetched[i].depth + 1
    BY DEF ShortestDepth
  <2>1. SessionInv(s, site, maxPages)
    BY DEF CrawlInv, Sessions
  <2>2. s.fetched[i] \in ItemsIn(s.fetched) /\ g[k] \in Taken(s)
    BY DEF ItemsIn, Taken
  <2>3. Followed(s, g[k].url, s.fetched[i].depth)
    BY <2>1, <2>2 DEF SessionInv, LinksFollowed
  <2> QED
    BY <2>2, <2>3 DEF Followed
<1> QED
  BY <1>1, CrawlInvariance, PTL

\* Over all the runs of a session, no page is fetched twice, and pages, depth,
\* bytes and origins stay within what was approved (run's limits and checks).
THEOREM LimitsAreKept == CrawlSpec => []WithinLimits
<1>1. CrawlInv => WithinLimits
  <2> SUFFICES ASSUME CrawlInv, NEW s \in Sessions
               PROVE  /\ Len(s.fetched) <= maxPages
                      /\ Cardinality(UrlsOf(s.fetched)) = Len(s.fetched)
                      /\ BytesOf(s.fetched) <= MaxTotal
                      /\ \A i \in DOMAIN s.fetched :
                           s.fetched[i].url \in Approved /\ s.fetched[i].depth <= MaxDepth
    BY DEF WithinLimits
  <2>1. Limited(s, maxPages)
    BY DEF CrawlInv, Sessions, SessionInv
  <2> QED
    BY <2>1 DEF Limited, ItemsIn
<1> QED
  BY <1>1, CrawlInvariance, PTL

================================================================================
