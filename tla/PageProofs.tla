----------------------------- MODULE PageProofs -----------------------------
(***************************************************************************)
(* Lemmas about the file: what a sequence of writes leaves in it, and what *)
(* is read along a path of child pointers.                                 *)
(***************************************************************************)
EXTENDS CollectionInvariant, NodeProofs

-----------------------------------------------------------------------------
\* Writing.

\* The files after none, one, two ... of the writes.
IsHistory(f, nodes, h) ==
  h = [i \in 0 .. Len(nodes) |->
         IF i = 0 THEN f ELSE WithPage(h[i - 1], nodes[i].page, Stored(nodes[i]))]

LEMMA HistoryExists ==
  ASSUME NEW f, NEW nodes, Len(nodes) \in Nat
  PROVE  \E h : IsHistory(f, nodes, h)
<1> DEFINE Upto(h, n) ==
             h = [i \in 0 .. n |->
                    IF i = 0 THEN f ELSE WithPage(h[i - 1], nodes[i].page, Stored(nodes[i]))]
           T == {n \in Nat : \E h : Upto(h, n)}
<1>1. 0 \in T
  <2> DEFINE h == [i \in 0 .. 0 |-> f]
  <2>1. Upto(h, 0)
    OBVIOUS
  <2> QED
    BY <2>1
<1>2. ASSUME NEW n \in Nat, n \in T PROVE n + 1 \in T
  <2>1. PICK h : Upto(h, n)
    BY <1>2
  <2> DEFINE next == WithPage(h[n], nodes[n + 1].page, Stored(nodes[n + 1]))
             g == [i \in 0 .. n + 1 |-> IF i = n + 1 THEN next ELSE h[i]]
  <2>2. \A i \in 0 .. n : g[i] = h[i]
    OBVIOUS
  <2>3. \A i \in 0 .. n + 1 :
          g[i] = IF i = 0 THEN f
                 ELSE WithPage(g[i - 1], nodes[i].page, Stored(nodes[i]))
    <3> SUFFICES ASSUME NEW i \in 0 .. n + 1
                 PROVE  g[i] = IF i = 0 THEN f
                               ELSE WithPage(g[i - 1], nodes[i].page, Stored(nodes[i]))
      OBVIOUS
    <3>1. CASE i = n + 1
      <4>1. g[i] = next /\ i - 1 = n /\ g[n] = h[n] /\ i # 0
        BY <3>1, <2>2
      <4> QED
        BY <3>1, <4>1
    <3>2. CASE i # n + 1
      <4>1. i \in 0 .. n /\ (i # 0 => i - 1 \in 0 .. n)
        BY <3>2
      <4>2. g[i] = h[i] /\ (i # 0 => g[i - 1] = h[i - 1])
        BY <2>2, <4>1
      <4>3. h[i] = IF i = 0 THEN f
                   ELSE WithPage(h[i - 1], nodes[i].page, Stored(nodes[i]))
        BY <2>1, <4>1
      <4> QED
        BY <4>2, <4>3
    <3> QED
      BY <3>1, <3>2
  <2>4. Upto(g, n + 1)
    <3> DEFINE e == [i \in 0 .. n + 1 |->
                       IF i = 0 THEN f
                       ELSE WithPage(g[i - 1], nodes[i].page, Stored(nodes[i]))]
    <3>1. DOMAIN g = 0 .. n + 1 /\ DOMAIN e = 0 .. n + 1
      OBVIOUS
    <3>2. \A i \in 0 .. n + 1 : g[i] = e[i]
      BY <2>3
    <3>3. g = [i \in 0 .. n + 1 |-> g[i]] /\ e = [i \in 0 .. n + 1 |-> e[i]]
      OBVIOUS
    <3> HIDE DEF g, e
    <3>4. g = e
      BY <3>2, <3>3
    <3> QED
      BY <3>4 DEF e
  <2> HIDE DEF g, Upto
  <2> QED
    BY <2>4
<1> HIDE DEF T
<1>3. Nat \subseteq T
  BY <1>1, <1>2, Induction
<1> QED
  BY <1>3 DEF T, IsHistory

LEMMA WrittenIsLast ==
  ASSUME NEW f, NEW nodes, Len(nodes) \in Nat
  PROVE  \E h : IsHistory(f, nodes, h) /\ Written(f, nodes) = h[Len(nodes)]
<1> DEFINE h == CHOOSE h : IsHistory(f, nodes, h)
<1>1. IsHistory(f, nodes, h)
  BY HistoryExists
<1>2. Written(f, nodes) = h[Len(nodes)]
  BY DEF Written, IsHistory
<1> QED
  BY <1>1, <1>2

HasNoGap(f) == DOMAIN f \subseteq Nat /\ \A p \in DOMAIN f : 0 .. p \subseteq DOMAIN f

\* One write: the page has the new content, the pages between the old end of the
\* file and it are holes, and no other page changes.
WritesPage(f, p, content, g) ==
  /\ DOMAIN g = DOMAIN f \union 0 .. p
  /\ g[p] = content
  /\ \A q \in DOMAIN g \ {p} : g[q] = IF q \in DOMAIN f THEN f[q] ELSE Hole

LEMMA WithPageWrites ==
  ASSUME NEW f, HasNoGap(f), NEW p \in Nat, NEW content
  PROVE  WritesPage(f, p, content, WithPage(f, p, content))
<1> DEFINE g == WithPage(f, p, content)
<1>1. CASE p \in DOMAIN f
  <2>1. g = [f EXCEPT ![p] = content]
    BY <1>1 DEF WithPage
  <2>2. 0 .. p \subseteq DOMAIN f
    BY <1>1 DEF HasNoGap
  <2> HIDE DEF g
  <2> QED
    BY <1>1, <2>1, <2>2 DEF WritesPage, g
<1>2. CASE p \notin DOMAIN f
  <2>1. g = [q \in 0 .. p |-> IF q = p THEN content
                              ELSE IF q \in DOMAIN f THEN f[q] ELSE Hole]
    BY <1>2 DEF WithPage
  <2>2. DOMAIN f \subseteq 0 .. p
    <3> SUFFICES ASSUME NEW q \in DOMAIN f PROVE q \in 0 .. p
      OBVIOUS
    <3>1. q \in Nat /\ 0 .. q \subseteq DOMAIN f
      BY DEF HasNoGap
    <3>2. p \notin 0 .. q
      BY <1>2, <3>1
    <3> QED
      BY <3>1, <3>2
  <2>3. p \in 0 .. p
    OBVIOUS
  <2> HIDE DEF g
  <2>4. DOMAIN g = 0 .. p
    BY <2>1
  <2> QED
    BY <2>1, <2>2, <2>3, <2>4 DEF WritesPage, g
<1> QED
  BY <1>1, <1>2

\* What page p holds after the first n writes: the last of them to p, or what
\* was there before.
HasWrites(f, nodes, n, g) ==
  /\ HasNoGap(g)
  /\ DOMAIN g = DOMAIN f \union UNION {0 .. nodes[i].page : i \in 1 .. n}
  /\ \A p \in DOMAIN g :
       \/ /\ \A i \in 1 .. n : nodes[i].page # p
          /\ g[p] = IF p \in DOMAIN f THEN f[p] ELSE Hole
       \/ \E i \in 1 .. n : nodes[i].page = p /\ g[p] = Stored(nodes[i])

LEMMA OneMoreWrite ==
  ASSUME NEW f, HasNoGap(f), NEW nodes, NEW n \in Nat, NEW g, HasWrites(f, nodes, n, g),
         nodes[n + 1].page \in Nat
  PROVE  HasWrites(f, nodes, n + 1, WithPage(g, nodes[n + 1].page, Stored(nodes[n + 1])))
<1> DEFINE q == nodes[n + 1].page
           c == Stored(nodes[n + 1])
           h == WithPage(g, q, c)
<1>1. HasNoGap(g)
  BY DEF HasWrites
<1>2. /\ DOMAIN h = DOMAIN g \union 0 .. q
      /\ h[q] = Stored(nodes[n + 1])
      /\ \A p \in DOMAIN h \ {q} : h[p] = IF p \in DOMAIN g THEN g[p] ELSE Hole
  <2>1. q \in Nat
    OBVIOUS
  <2> HIDE DEF q, c
  <2>2. WritesPage(g, q, c, h)
    BY <1>1, <2>1, WithPageWrites
  <2> HIDE DEF h
  <2> QED
    BY <2>2 DEF c, WritesPage
<1> HIDE DEF h
<1>3. \A i : i \in 1 .. n + 1 <=> i \in 1 .. n \/ i = n + 1
  OBVIOUS
<1>4. DOMAIN h = DOMAIN f \union UNION {0 .. nodes[i].page : i \in 1 .. n + 1}
  <2>1. DOMAIN g = DOMAIN f \union UNION {0 .. nodes[i].page : i \in 1 .. n}
    BY DEF HasWrites
  <2> HIDE DEF HasWrites
  <2> QED
    BY <1>2, <1>3, <2>1
<1>5. HasNoGap(h)
  <2>1. DOMAIN h \subseteq Nat
    BY <1>1, <1>2 DEF HasNoGap
  <2>2. \A p \in 0 .. q : 0 .. p \subseteq 0 .. q
    OBVIOUS
  <2> QED
    BY <1>1, <1>2, <2>1, <2>2 DEF HasNoGap
<1>6. ASSUME NEW p \in DOMAIN h
      PROVE  \/ /\ \A i \in 1 .. n + 1 : nodes[i].page # p
                /\ h[p] = IF p \in DOMAIN f THEN f[p] ELSE Hole
             \/ \E i \in 1 .. n + 1 : nodes[i].page = p /\ h[p] = Stored(nodes[i])
  <2>1. CASE p = q
    <3>1. n + 1 \in 1 .. n + 1
      OBVIOUS
    <3> QED
      BY <1>2, <2>1, <3>1
  <2>2. CASE p # q /\ p \in DOMAIN g
    <3>1. h[p] = g[p]
      BY <1>2, <2>2
    <3>2. \/ /\ \A i \in 1 .. n : nodes[i].page # p
             /\ g[p] = IF p \in DOMAIN f THEN f[p] ELSE Hole
          \/ \E i \in 1 .. n : nodes[i].page = p /\ g[p] = Stored(nodes[i])
      BY <2>2 DEF HasWrites
    <3> QED
      BY <1>3, <2>2, <3>1, <3>2
  <2>3. CASE p # q /\ p \notin DOMAIN g
    <3>1. h[p] = Hole
      BY <1>2, <2>3
    <3>2. DOMAIN g = DOMAIN f \union UNION {0 .. nodes[i].page : i \in 1 .. n}
      BY DEF HasWrites
    <3>3. p \notin DOMAIN f
      BY <2>3, <3>2
    <3>4. ASSUME NEW i \in 1 .. n, nodes[i].page = p PROVE FALSE
      <4>1. p \in Nat
        BY <1>5 DEF HasNoGap
      <4>2. p \in 0 .. nodes[i].page
        BY <3>4, <4>1
      <4> QED
        BY <2>3, <3>2, <4>2
    <3> QED
      BY <1>3, <2>3, <3>1, <3>3, <3>4
  <2> QED
    BY <2>1, <2>2, <2>3
<1>7. HasWrites(f, nodes, n + 1, h)
  BY <1>4, <1>5, <1>6 DEF HasWrites
<1> QED
  BY <1>7 DEF h

LEMMA WrittenHasWrites ==
  ASSUME NEW f, HasNoGap(f), NEW nodes, Len(nodes) \in Nat,
         \A i \in 1 .. Len(nodes) : nodes[i].page \in Nat
  PROVE  HasWrites(f, nodes, Len(nodes), Written(f, nodes))
<1>1. PICK h : IsHistory(f, nodes, h) /\ Written(f, nodes) = h[Len(nodes)]
  BY WrittenIsLast
<1>2. h[0] = f
  BY <1>1 DEF IsHistory
<1>3. \A i \in 0 .. Len(nodes) : i # 0 =>
        h[i] = WithPage(h[i - 1], nodes[i].page, Stored(nodes[i]))
  BY <1>1 DEF IsHistory
<1> DEFINE T == {n \in Nat : n <= Len(nodes) => HasWrites(f, nodes, n, h[n])}
<1>4. 0 \in T
  <2>1. {0 .. nodes[i].page : i \in 1 .. 0} = {}
    OBVIOUS
  <2>2. HasWrites(f, nodes, 0, f)
    BY <2>1 DEF HasWrites
  <2> QED
    BY <1>2, <2>2
<1>5. ASSUME NEW n \in Nat, n \in T PROVE n + 1 \in T
  <2>1. SUFFICES ASSUME n + 1 <= Len(nodes) PROVE HasWrites(f, nodes, n + 1, h[n + 1])
    OBVIOUS
  <2>2. /\ n + 1 \in 0 .. Len(nodes) /\ n + 1 # 0 /\ n + 1 - 1 = n
        /\ n + 1 \in 1 .. Len(nodes) /\ n <= Len(nodes)
    BY <2>1
  <2>3. h[n + 1] = WithPage(h[n], nodes[n + 1].page, Stored(nodes[n + 1]))
    BY <1>3, <2>2
  <2>4. HasWrites(f, nodes, n, h[n]) /\ nodes[n + 1].page \in Nat
    BY <1>5, <2>2
  <2> QED
    BY <2>3, <2>4, OneMoreWrite
<1> HIDE DEF T
<1>6. Nat \subseteq T
  BY <1>4, <1>5, Induction
<1> QED
  BY <1>1, <1>6 DEF T
-----------------------------------------------------------------------------
\* Writing nodes.

\* The pages in S hold nodes with their children in T.
StoredIn(f, S, T) == S \subseteq DOMAIN f /\ \A p \in S : f[p] \in StoredNodes(T)

\* Pages that can be given to nodes: the header is not among them.
NodePages(f, T) ==
  /\ T \subseteq 1 .. PageBound
  /\ META_PAGE \in DOMAIN f /\ f[META_PAGE] # Hole => 1 \notin T

\* The header of f is that of g.
HeaderKept(f, g) ==
  /\ META_PAGE \in DOMAIN f => META_PAGE \in DOMAIN g /\ g[META_PAGE] = f[META_PAGE]
  /\ META_PAGE \in DOMAIN f /\ f[META_PAGE] # Hole => g[1] = f[1]

LEMMA PageBoundNat == PageBound \in Nat /\ FarPage > PageBound
  BY CollectionAssumption DEF PageBound

LEMMA StoredNodesMonotonic ==
  ASSUME NEW S, NEW T, S \subseteq T
  PROVE  StoredNodes(S) \subseteq StoredNodes(T)
<1> SUFFICES ASSUME NEW n \in StoredNodes(S) PROVE n \in StoredNodes(T)
  OBVIOUS
<1>1. n.children \in Seq(S)
  BY DEF StoredNodes
<1>2. n.children \in Seq(T)
  BY <1>1, SeqMonotonic
<1> QED
  BY <1>2 DEF StoredNodes

LEMMA StoredNodesAreContent ==
  ASSUME NEW T, T \subseteq Nat, NEW n \in StoredNodes(T)
  PROVE  n \in StoredNodes(Nat) /\ n \in PageContent /\ n.kind = "node"
<1>1. n \in StoredNodes(Nat)
  BY StoredNodesMonotonic
<1> QED
  BY <1>1 DEF StoredNodes, PageContent

LEMMA NodesWritten ==
  ASSUME NEW f, PagesOK(f), NEW T, NodePages(f, T),
         NEW nodes \in Seq(NodesOver(T, T))
  PROVE  /\ HasNoGap(f) /\ Len(nodes) \in Nat
         /\ HasWrites(f, nodes, Len(nodes), Written(f, nodes))
         /\ \A i \in 1 .. Len(nodes) :
              nodes[i].page \in T /\ Stored(nodes[i]) \in StoredNodes(T)
<1>1. HasNoGap(f)
  BY PageBoundNat DEF PagesOK, HasNoGap
<1>2. Len(nodes) \in Nat
  BY LenProperties
<1>3. \A i \in 1 .. Len(nodes) : nodes[i] \in NodesOver(T, T)
  BY ElementOfSeq
<1>4. \A i \in 1 .. Len(nodes) : nodes[i].page \in T
  BY <1>3 DEF NodesOver
<1>5. \A i \in 1 .. Len(nodes) : Stored(nodes[i]) \in StoredNodes(T)
  BY <1>3, StoredType
<1>6. \A i \in 1 .. Len(nodes) : nodes[i].page \in Nat
  BY <1>4 DEF NodePages
<1>7. HasWrites(f, nodes, Len(nodes), Written(f, nodes))
  BY <1>1, <1>2, <1>6, WrittenHasWrites
<1> QED
  BY <1>1, <1>2, <1>4, <1>5, <1>7

\* Whatever nodes are written, the file is one of nodes and holes below the
\* header, and the header is as it was.
LEMMA WritingKeepsFile ==
  ASSUME NEW f, PagesOK(f), HeaderOK(f), NEW T, NodePages(f, T),
         NEW nodes \in Seq(NodesOver(T, T)),
         NEW g, g = Written(f, nodes)
  PROVE  PagesOK(g) /\ HeaderOK(g) /\ HeaderKept(f, g)
<1> DEFINE n == Len(nodes)
<1>1. /\ HasNoGap(f) /\ n \in Nat
      /\ HasWrites(f, nodes, n, g)
  BY NodesWritten
<1>2. \A i \in 1 .. n : nodes[i].page \in T /\ Stored(nodes[i]) \in StoredNodes(T)
  BY NodesWritten
<1> HIDE DEF n
<1>3. T \subseteq 1 .. PageBound
  BY DEF NodePages
<1>4. DOMAIN g = DOMAIN f \union UNION {0 .. nodes[i].page : i \in 1 .. n}
  BY <1>1 DEF HasWrites
<1>5. \A p \in DOMAIN g :
       \/ p \notin T /\ g[p] = IF p \in DOMAIN f THEN f[p] ELSE Hole
       \/ p \in T /\ g[p] = IF p \in DOMAIN f THEN f[p] ELSE Hole
       \/ p \in T /\ g[p] \in StoredNodes(T)
  BY <1>1, <1>2 DEF HasWrites
<1>6. PagesOK(g)
  <2>1. DOMAIN g \subseteq 0 .. PageBound
    <3>1. \A p \in 1 .. PageBound : 0 .. p \subseteq 0 .. PageBound
      BY PageBoundNat
    <3>2. \A i \in 1 .. n : nodes[i].page \in 1 .. PageBound
      BY <1>2, <1>3
    <3>3. \A i \in 1 .. n : 0 .. nodes[i].page \subseteq 0 .. PageBound
      BY <3>1, <3>2
    <3>4. DOMAIN f \subseteq 0 .. PageBound
      BY DEF PagesOK
    <3> QED
      BY <1>4, <3>3, <3>4
  <2>2. \A p \in DOMAIN g : 0 .. p \subseteq DOMAIN g
    BY <1>1 DEF HasWrites, HasNoGap
  <2>3. Hole \in PageContent /\ Hole.kind # "node"
    BY DEF Hole, PageContent
  <2>4. T \subseteq Nat
    BY <1>3
  <2>5. \A c \in StoredNodes(T) : c \in PageContent /\ c \in StoredNodes(Nat)
    BY <2>4, StoredNodesAreContent
  <2>6. \A p \in DOMAIN f : f[p] \in PageContent /\ (f[p].kind = "node" => f[p] \in StoredNodes(Nat))
    BY DEF PagesOK
  <2>7. \A p \in DOMAIN g : g[p] \in PageContent /\ (g[p].kind = "node" => g[p] \in StoredNodes(Nat))
    BY <1>5, <2>3, <2>5, <2>6
  <2> QED
    BY <2>1, <2>2, <2>7 DEF PagesOK
<1>7. META_PAGE \notin T
  BY <1>3 DEF META_PAGE
<1>8. META_PAGE \in DOMAIN g => g[META_PAGE] = IF META_PAGE \in DOMAIN f THEN f[META_PAGE] ELSE Hole
  BY <1>5, <1>7
<1>9. DOMAIN f \subseteq DOMAIN g
  BY <1>4
<1>10. META_PAGE \in DOMAIN f /\ f[META_PAGE] # Hole
         => 1 \in DOMAIN f /\ 1 \notin T
  BY DEF HeaderOK, NodePages
<1>11. META_PAGE \in DOMAIN f /\ f[META_PAGE] # Hole => g[1] = f[1] /\ 1 \in DOMAIN g
  BY <1>5, <1>9, <1>10
<1>12. HeaderKept(f, g)
  BY <1>8, <1>9, <1>11 DEF HeaderKept
<1>13. HeaderOK(g)
  BY <1>8, <1>9, <1>11 DEF HeaderOK
<1> QED
  BY <1>6, <1>12, <1>13

\* The pages that were written, and those that were nodes before, are nodes.
LEMMA WritingStores ==
  ASSUME NEW f, PagesOK(f), NEW T, NodePages(f, T),
         NEW S, S \subseteq T, StoredIn(f, S, T),
         NEW nodes \in Seq(NodesOver(T, T)),
         NEW g, g = Written(f, nodes)
  PROVE  StoredIn(g, S \union {nodes[i].page : i \in 1 .. Len(nodes)}, T)
<1> DEFINE n == Len(nodes)
<1>1. /\ HasNoGap(f) /\ n \in Nat
      /\ HasWrites(f, nodes, n, g)
  BY NodesWritten
<1>2. \A i \in 1 .. n : nodes[i].page \in T /\ Stored(nodes[i]) \in StoredNodes(T)
  BY NodesWritten
<1> HIDE DEF n
<1>3. DOMAIN g = DOMAIN f \union UNION {0 .. nodes[i].page : i \in 1 .. n}
  BY <1>1 DEF HasWrites
<1>4. \A p \in DOMAIN g :
        \/ /\ \A i \in 1 .. n : nodes[i].page # p
           /\ g[p] = IF p \in DOMAIN f THEN f[p] ELSE Hole
        \/ g[p] \in StoredNodes(T)
  BY <1>1, <1>2 DEF HasWrites
<1>5. \A p \in S : p \in DOMAIN g /\ g[p] \in StoredNodes(T)
  BY <1>3, <1>4 DEF StoredIn
<1>6. \A i \in 1 .. n : nodes[i].page \in DOMAIN g /\ g[nodes[i].page] \in StoredNodes(T)
  <2> TAKE i \in 1 .. n
  <2>1. nodes[i].page \in Nat
    BY <1>2 DEF NodePages
  <2>2. nodes[i].page \in 0 .. nodes[i].page
    BY <2>1
  <2>3. nodes[i].page \in DOMAIN g
    BY <1>3, <2>2
  <2> QED
    BY <1>4, <2>3
<1> QED
  BY <1>5, <1>6 DEF StoredIn, n
-----------------------------------------------------------------------------
\* Paths.

\* The children of a page that a path may lead through are still there when it
\* has been written: they are the first of its children now.
KeepsChildren(f, g, S) ==
  \A p \in S : \A i \in 1 .. Len(f[p].children) :
    i \in 1 .. Len(g[p].children) /\ g[p].children[i] = f[p].children[i]

LEMMA WritingKeepsChildren ==
  ASSUME NEW f, PagesOK(f), NEW T, NodePages(f, T), StoredIn(f, T, T),
         NEW nodes \in Seq(NodesOver(T, T)),
         \A i \in 1 .. Len(nodes) : \A j \in 1 .. Len(f[nodes[i].page].children) :
           /\ j \in 1 .. Len(Stored(nodes[i]).children)
           /\ Stored(nodes[i]).children[j] = f[nodes[i].page].children[j],
         NEW g, g = Written(f, nodes)
  PROVE  KeepsChildren(f, g, T)
<1>1. HasWrites(f, nodes, Len(nodes), g)
  BY NodesWritten
<1>2. \A p \in T : p \in DOMAIN f /\ p \in DOMAIN g
  BY <1>1 DEF StoredIn, HasWrites
<1>3. SUFFICES ASSUME NEW p \in T, NEW j \in 1 .. Len(f[p].children)
               PROVE  j \in 1 .. Len(g[p].children) /\ g[p].children[j] = f[p].children[j]
  BY DEF KeepsChildren
<1>4. \/ g[p] = f[p]
      \/ \E i \in 1 .. Len(nodes) : nodes[i].page = p /\ g[p] = Stored(nodes[i])
  BY <1>1, <1>2 DEF HasWrites
<1> QED
  BY <1>3, <1>4

LEMMA PathKept ==
  ASSUME NEW f, NEW g, NEW S, NEW T, S \subseteq T, KeepsChildren(f, g, S),
         NEW slots \in Seq(Nat), NEW from, NEW p,
         LeadsTo(f, S, slots, from, p)
  PROVE  LeadsTo(g, T, slots, from, p)
<1>1. PICK w \in [1 .. Len(slots) + 1 -> S] :
        /\ w[1] = from /\ w[Len(slots) + 1] = p
        /\ \A i \in 1 .. Len(slots) :
             /\ slots[i] \in 1 .. Len(f[w[i]].children)
             /\ w[i + 1] = f[w[i]].children[slots[i]]
  BY DEF LeadsTo
<1>2. w \in [1 .. Len(slots) + 1 -> T]
  OBVIOUS
<1>3. \A i \in 1 .. Len(slots) : /\ slots[i] \in 1 .. Len(g[w[i]].children)
                                /\ w[i + 1] = g[w[i]].children[slots[i]]
  <2> TAKE i \in 1 .. Len(slots)
  <2>1. i \in 1 .. Len(slots) + 1
    BY LenProperties
  <2>2. w[i] \in S
    BY <2>1
  <2>3. /\ slots[i] \in 1 .. Len(f[w[i]].children)
        /\ w[i + 1] = f[w[i]].children[slots[i]]
    BY <1>1
  <2> QED
    BY <2>2, <2>3 DEF KeepsChildren
<1> QED
  BY <1>1, <1>2, <1>3 DEF LeadsTo

\* One child further.
LEMMA PathGrows ==
  ASSUME NEW f, NEW S, StoredIn(f, S, S), NEW slots \in Seq(Nat), NEW from, NEW p,
         LeadsTo(f, S, slots, from, p),
         NEW slot \in 1 .. Len(f[p].children)
  PROVE  LeadsTo(f, S, Append(slots, slot), from, f[p].children[slot])
<1> DEFINE n == Len(slots)
           longer == Append(slots, slot)
           child == f[p].children[slot]
<1>1. n \in Nat
  BY LenProperties
<1>2. PICK w \in [1 .. n + 1 -> S] :
        /\ w[1] = from /\ w[n + 1] = p
        /\ \A i \in 1 .. n : /\ slots[i] \in 1 .. Len(f[w[i]].children)
                             /\ w[i + 1] = f[w[i]].children[slots[i]]
  BY DEF LeadsTo
<1>3. p \in S
  BY <1>1, <1>2
<1>4. f[p].children \in Seq(S)
  BY <1>3 DEF StoredIn, StoredNodes
<1>5. slot \in Nat /\ child \in S
  BY <1>4, ElementOfSeq, LenProperties
<1>6. /\ Len(longer) = n + 1
      /\ \A i \in 1 .. n : longer[i] = slots[i]
      /\ longer[n + 1] = slot
  BY <1>5, AppendProperties
<1> HIDE DEF n, longer, child
<1> DEFINE v == [i \in 1 .. n + 2 |-> IF i = n + 2 THEN child ELSE w[i]]
<1>7. v \in [1 .. n + 2 -> S]
  <2> SUFFICES ASSUME NEW i \in 1 .. n + 2 PROVE (IF i = n + 2 THEN child ELSE w[i]) \in S
    OBVIOUS
  <2>1. CASE i = n + 2
    BY <1>5, <2>1
  <2>2. CASE i # n + 2
    <3>1. i \in 1 .. n + 1
      BY <1>1, <2>2
    <3> QED
      BY <2>2, <3>1
  <2> QED
    BY <2>1, <2>2
<1>8. v[1] = from /\ v[n + 2] = child /\ \A i \in 1 .. n + 1 : v[i] = w[i]
  <2>1. 1 \in 1 .. n + 2 /\ n + 2 \in 1 .. n + 2 /\ 1 # n + 2
    BY <1>1
  <2>2. \A i \in 1 .. n + 1 : i \in 1 .. n + 2 /\ i # n + 2
    BY <1>1
  <2> QED
    BY <1>2, <2>1, <2>2
<1> HIDE DEF v
<1>9. \A i \in 1 .. n + 1 : /\ longer[i] \in 1 .. Len(f[v[i]].children)
                            /\ v[i + 1] = f[v[i]].children[longer[i]]
  <2> TAKE i \in 1 .. n + 1
  <2>1. CASE i = n + 1
    <3>1. v[i] = p /\ longer[i] = slot /\ i + 1 = n + 2
      BY <1>1, <1>2, <1>6, <1>8, <2>1
    <3> QED
      BY <1>8, <3>1 DEF child
  <2>2. CASE i # n + 1
    <3>1. i \in 1 .. n /\ i + 1 \in 1 .. n + 1
      BY <1>1, <2>2
    <3> QED
      BY <1>2, <1>6, <1>8, <3>1
  <2> QED
    BY <2>1, <2>2
<1>10. Len(longer) + 1 = n + 2
  BY <1>1, <1>6
<1>11. LeadsTo(f, S, longer, from, child)
  BY <1>6, <1>7, <1>8, <1>9, <1>10 DEF LeadsTo
<1> QED
  BY <1>11 DEF longer, child

\* The root alone is a path.
LEMMA PathOfRoot ==
  ASSUME NEW f, NEW S, NEW from \in S
  PROVE  LeadsTo(f, S, <<>>, from, from)
<1>1. Len(<<>>) = 0
  OBVIOUS
<1> DEFINE w == [i \in 1 .. 1 |-> from]
<1>2. w \in [1 .. 1 -> S] /\ w[1] = from
  OBVIOUS
<1> HIDE DEF w
<1> QED
  BY <1>1, <1>2 DEF LeadsTo
-----------------------------------------------------------------------------
\* Reading.

LEMMA GetNodeOf ==
  ASSUME NEW f, NEW S, StoredIn(f, S, S), NEW p \in S
  PROVE  /\ get_node(f, p) \in NodesOf(S)
         /\ get_node(f, p).page = p
         /\ get_node(f, p).items = f[p].items
         /\ get_node(f, p).children = f[p].children
<1>1. f[p] \in StoredNodes(S)
  BY DEF StoredIn
<1>2. /\ f[p].kind = "node" /\ f[p].items \in Seq(Item) /\ f[p].children \in Seq(S)
      /\ IsShaped(f[p])
  BY <1>1 DEF StoredNodes
<1>3. get_node(f, p) = [page |-> p, items |-> f[p].items, children |-> f[p].children]
  BY <1>2 DEF get_node
<1> HIDE DEF get_node
<1>4. get_node(f, p) \in NodesOver(S, S)
  BY <1>2, <1>3 DEF NodesOver
<1>5. IsShaped(get_node(f, p))
  BY <1>2, <1>3 DEF IsShaped, is_leaf
<1> QED
  BY <1>3, <1>4, <1>5 DEF NodesOf

\* The nodes along a path are those of the pages it leads through.
IsAlong(f, from, slots, nodes) ==
  nodes = [i \in 1 .. Len(slots) + 1 |->
             IF i = 1 THEN get_node(f, from)
             ELSE get_node(f, nodes[i - 1].children[slots[i - 1]])]

IsWalk(f, S, slots, w) ==
  /\ w \in [1 .. Len(slots) + 1 -> S]
  /\ \A i \in 1 .. Len(slots) : w[i + 1] = f[w[i]].children[slots[i]]

AreNodesOn(f, slots, w, nodes) ==
  nodes = [i \in 1 .. Len(slots) + 1 |-> get_node(f, w[i])]

LEMMA NodesAlongPath ==
  ASSUME NEW f, NEW S, StoredIn(f, S, S), NEW slots \in Seq(Nat),
         NEW w, IsWalk(f, S, slots, w)
  PROVE  AreNodesOn(f, slots, w, get_nodes(f, w[1], slots))
<1> DEFINE n == Len(slots)
           from == w[1]
           along == [i \in 1 .. n + 1 |-> get_node(f, w[i])]
<1>0. /\ w \in [1 .. n + 1 -> S]
      /\ \A i \in 1 .. n : w[i + 1] = f[w[i]].children[slots[i]]
  BY DEF IsWalk
<1>1. n \in Nat
  BY LenProperties
<1>2. \A i \in 1 .. n + 1 : get_node(f, w[i]).children = f[w[i]].children
  BY <1>0, GetNodeOf
<1>3. \A i \in 2 .. n + 1 : w[i] = get_node(f, w[i - 1]).children[slots[i - 1]]
  <2> TAKE i \in 2 .. n + 1
  <2>1. i - 1 \in 1 .. n /\ i - 1 \in 1 .. n + 1 /\ (i - 1) + 1 = i
    BY <1>1
  <2>2. w[(i - 1) + 1] = f[w[i - 1]].children[slots[i - 1]]
    BY <1>0, <2>1
  <2> QED
    BY <1>2, <2>1, <2>2
<1>4. \E nodes : IsAlong(f, from, slots, nodes)
  <2>1. \A i \in 1 .. n + 1 :
          along[i] = IF i = 1 THEN get_node(f, from)
                     ELSE get_node(f, along[i - 1].children[slots[i - 1]])
    <3> TAKE i \in 1 .. n + 1
    <3>1. CASE i = 1
      BY <3>1
    <3>2. CASE i # 1
      <4>1. i \in 2 .. n + 1 /\ i - 1 \in 1 .. n + 1
        BY <1>1, <3>2
      <4>2. along[i] = get_node(f, w[i]) /\ along[i - 1] = get_node(f, w[i - 1])
        BY <4>1
      <4> HIDE DEF along
      <4> QED
        BY <1>3, <3>2, <4>1, <4>2
    <3> QED
      BY <3>1, <3>2
  <2> DEFINE e == [i \in 1 .. n + 1 |->
                     IF i = 1 THEN get_node(f, from)
                     ELSE get_node(f, along[i - 1].children[slots[i - 1]])]
  <2>2. /\ along = [i \in 1 .. n + 1 |-> along[i]]
        /\ e = [i \in 1 .. n + 1 |-> e[i]]
        /\ \A i \in 1 .. n + 1 : along[i] = e[i]
    BY <2>1
  <2> HIDE DEF along, e
  <2>3. along = e
    BY <2>2
  <2>4. IsAlong(f, from, slots, along)
    BY <2>3 DEF IsAlong, e, n
  <2> QED
    BY <2>4
<1> DEFINE nodes == CHOOSE nodes : IsAlong(f, from, slots, nodes)
<1>5. IsAlong(f, from, slots, nodes)
  BY <1>4
<1>6. get_nodes(f, from, slots) = nodes
  BY DEF get_nodes, IsAlong
<1> HIDE DEF nodes
<1>7. /\ nodes = [i \in 1 .. n + 1 |-> nodes[i]]
      /\ nodes[1] = get_node(f, from)
      /\ \A i \in 2 .. n + 1 : nodes[i] = get_node(f, nodes[i - 1].children[slots[i - 1]])
  <2>1. \A i \in 1 .. n + 1 :
          nodes[i] = IF i = 1 THEN get_node(f, from)
                     ELSE get_node(f, nodes[i - 1].children[slots[i - 1]])
    BY <1>5 DEF IsAlong
  <2>2. nodes = [i \in 1 .. n + 1 |-> nodes[i]]
    BY <1>5 DEF IsAlong
  <2>3. 1 \in 1 .. n + 1 /\ \A i \in 2 .. n + 1 : i \in 1 .. n + 1 /\ i # 1
    BY <1>1
  <2> QED
    BY <2>1, <2>2, <2>3
<1> DEFINE T == {i \in Nat : i + 1 \in 1 .. n + 1 => nodes[i + 1] = get_node(f, w[i + 1])}
<1>8. 0 \in T
  BY <1>7
<1>9. ASSUME NEW i \in Nat, i \in T PROVE i + 1 \in T
  <2>1. SUFFICES ASSUME i + 2 \in 1 .. n + 1 PROVE nodes[i + 2] = get_node(f, w[i + 2])
    OBVIOUS
  <2>2. i + 1 \in 1 .. n + 1 /\ i + 2 \in 2 .. n + 1 /\ (i + 2) - 1 = i + 1
    BY <1>1, <2>1
  <2>3. nodes[i + 1] = get_node(f, w[i + 1])
    BY <1>9, <2>2
  <2>4. nodes[i + 2] = get_node(f, nodes[i + 1].children[slots[i + 1]])
    BY <1>7, <2>2
  <2>5. w[i + 2] = get_node(f, w[i + 1]).children[slots[i + 1]]
    BY <1>3, <2>2
  <2> QED
    BY <2>3, <2>4, <2>5
<1> HIDE DEF T
<1>10. Nat \subseteq T
  BY <1>8, <1>9, Induction
<1>11. \A i \in 1 .. n + 1 : nodes[i] = get_node(f, w[i])
  <2> TAKE i \in 1 .. n + 1
  <2>1. i - 1 \in Nat /\ (i - 1) + 1 = i
    BY <1>1
  <2>2. i - 1 \in T
    BY <1>10, <2>1
  <2> QED
    BY <2>1, <2>2 DEF T
<1>12. nodes = along
  BY <1>7, <1>11
<1> QED
  BY <1>6, <1>12 DEF AreNodesOn

\* What get_nodes returns for a path of the session.
IsCopyOfPath(S, slots, from, nodes) ==
  /\ nodes \in Seq(NodesOf(S))
  /\ Len(nodes) = Len(slots) + 1
  /\ nodes[1].page = from
  /\ \A i \in 1 .. Len(slots) : slots[i] \in 1 .. Len(nodes[i].children)

LEMMA GetNodesOf ==
  ASSUME NEW f, NEW S, StoredIn(f, S, S), NEW slots \in Seq(Nat), NEW from, NEW p,
         LeadsTo(f, S, slots, from, p)
  PROVE  /\ IsCopyOfPath(S, slots, from, get_nodes(f, from, slots))
         /\ get_nodes(f, from, slots)[Len(slots) + 1] = get_node(f, p)
<1> DEFINE n == Len(slots)
           nodes == get_nodes(f, from, slots)
<1>1. n \in Nat
  BY LenProperties
<1>2. PICK w \in [1 .. n + 1 -> S] :
        /\ w[1] = from /\ w[n + 1] = p
        /\ \A i \in 1 .. n : /\ slots[i] \in 1 .. Len(f[w[i]].children)
                             /\ w[i + 1] = f[w[i]].children[slots[i]]
  BY DEF LeadsTo
<1>3. nodes = [i \in 1 .. n + 1 |-> get_node(f, w[i])]
  <2>1. IsWalk(f, S, slots, w)
    BY <1>2 DEF IsWalk
  <2>2. AreNodesOn(f, slots, w, get_nodes(f, w[1], slots))
    BY <2>1, NodesAlongPath
  <2> QED
    BY <1>2, <2>2 DEF AreNodesOn
<1> HIDE DEF n, nodes
<1>4. \A i \in 1 .. n + 1 : /\ nodes[i] \in NodesOf(S) /\ nodes[i].page = w[i]
                            /\ nodes[i].children = f[w[i]].children
                            /\ nodes[i] = get_node(f, w[i])
  BY <1>3, GetNodeOf
<1>5. nodes \in [1 .. n + 1 -> NodesOf(S)]
  BY <1>3, <1>4
<1>6. nodes \in Seq(NodesOf(S)) /\ Len(nodes) = n + 1
  <2>1. n + 1 \in Nat
    BY <1>1
  <2>2. nodes \in Seq(NodesOf(S))
    BY <1>5, <2>1, SeqDef
  <2>3. DOMAIN nodes = 1 .. n + 1
    BY <1>5
  <2>4. DOMAIN nodes = 1 .. Len(nodes) /\ Len(nodes) \in Nat
    BY <2>2, LenProperties
  <2> QED
    BY <2>1, <2>2, <2>3, <2>4
<1>7. 1 \in 1 .. n + 1 /\ n + 1 \in 1 .. n + 1 /\ \A i \in 1 .. n : i \in 1 .. n + 1
  BY <1>1
<1>8. nodes[1].page = from /\ nodes[n + 1] = get_node(f, p)
  BY <1>2, <1>4, <1>7
<1>9. \A i \in 1 .. n : slots[i] \in 1 .. Len(nodes[i].children)
  BY <1>2, <1>4, <1>7
<1> QED
  BY <1>6, <1>8, <1>9 DEF IsCopyOfPath, n, nodes
-----------------------------------------------------------------------------
\* A function applied again and again.

IsIteration(next, start, w) ==
  w = [n \in 0 .. MaxDepth |-> IF n = 0 THEN start ELSE next[w[n - 1]]]

LEMMA IterationExists ==
  ASSUME NEW next, NEW start
  PROVE  \E w : IsIteration(next, start, w)
<1> DEFINE Upto(w, m) == w = [n \in 0 .. m |-> IF n = 0 THEN start ELSE next[w[n - 1]]]
           T == {m \in Nat : \E w : Upto(w, m)}
<1>1. 0 \in T
  <2> DEFINE w == [n \in 0 .. 0 |-> start]
  <2>1. Upto(w, 0)
    OBVIOUS
  <2> QED
    BY <2>1
<1>2. ASSUME NEW m \in Nat, m \in T PROVE m + 1 \in T
  <2>1. PICK w : Upto(w, m)
    BY <1>2
  <2> DEFINE last == next[w[m]]
             v == [n \in 0 .. m + 1 |-> IF n = m + 1 THEN last ELSE w[n]]
  <2>2. \A n \in 0 .. m : v[n] = w[n]
    OBVIOUS
  <2>3. \A n \in 0 .. m + 1 : v[n] = IF n = 0 THEN start ELSE next[v[n - 1]]
    <3> TAKE n \in 0 .. m + 1
    <3>1. CASE n = m + 1
      <4>1. v[n] = last /\ n - 1 = m /\ v[m] = w[m] /\ n # 0
        BY <3>1, <2>2
      <4> HIDE DEF v
      <4> QED
        BY <3>1, <4>1
    <3>2. CASE n # m + 1
      <4>1. n \in 0 .. m /\ (n # 0 => n - 1 \in 0 .. m)
        BY <3>2
      <4>2. v[n] = w[n] /\ (n # 0 => v[n - 1] = w[n - 1])
        BY <2>2, <4>1
      <4>3. w[n] = IF n = 0 THEN start ELSE next[w[n - 1]]
        BY <2>1, <4>1
      <4> HIDE DEF v
      <4> QED
        BY <4>2, <4>3
    <3> QED
      BY <3>1, <3>2
  <2>4. Upto(v, m + 1)
    <3> DEFINE e == [n \in 0 .. m + 1 |-> IF n = 0 THEN start ELSE next[v[n - 1]]]
    <3>1. \A n \in 0 .. m + 1 : v[n] = e[n]
      BY <2>3
    <3>2. v = [n \in 0 .. m + 1 |-> v[n]] /\ e = [n \in 0 .. m + 1 |-> e[n]]
      OBVIOUS
    <3> HIDE DEF v, e
    <3>3. v = e
      BY <3>1, <3>2
    <3> QED
      BY <3>3 DEF e
  <2> HIDE DEF v, Upto
  <2> QED
    BY <2>4
<1> HIDE DEF T
<1>3. Nat \subseteq T
  BY <1>1, <1>2, Induction
<1>4. MaxDepth \in T
  BY <1>3, CollectionAssumption
<1> QED
  BY <1>4 DEF T, IsIteration

LEMMA IterationSteps ==
  ASSUME NEW next, NEW start
  PROVE  /\ Iteration(next, start)[0] = start
         /\ \A n \in 0 .. MaxDepth - 1 :
              Iteration(next, start)[n + 1] = next[Iteration(next, start)[n]]
<1> DEFINE w == CHOOSE w : IsIteration(next, start, w)
<1>1. IsIteration(next, start, w)
  BY IterationExists
<1>2. Iteration(next, start) = w
  BY DEF Iteration, IsIteration
<1> HIDE DEF w
<1>3. MaxDepth \in Nat
  BY CollectionAssumption
<1>4. \A n \in 0 .. MaxDepth : w[n] = IF n = 0 THEN start ELSE next[w[n - 1]]
  BY <1>1 DEF IsIteration
<1>5. \A n \in 0 .. MaxDepth - 1 : n + 1 \in 0 .. MaxDepth /\ n + 1 # 0 /\ (n + 1) - 1 = n
  BY <1>3
<1>6. 0 \in 0 .. MaxDepth
  BY <1>3
<1> QED
  BY <1>2, <1>4, <1>5, <1>6
=============================================================================
