----------------------------- MODULE SafeProofs -----------------------------
(***************************************************************************)
(* Proofs about a collection under safe calls, on a disk that may fail,    *)
(* for all values of the constants: that the invariant of its tree         *)
(* (TreeInvariant) is inductive, and what follows from it.                 *)
(***************************************************************************)
EXTENDS TreeProofs, SessionProofs

-----------------------------------------------------------------------------
\* A collection with a tree.

HasTree(c, h) ==
  IInv /\ proc = "running" /\ root # 0 /\ h \in Nat /\ TreeInvariantWith(c, h)

\* The pages of the tree are pages of the session.
LEMMA TreeInSession ==
  ASSUME NEW c, NEW h, HasTree(c, h)
  PROVE  DOMAIN c \subseteq Session
<1> DEFINE T == {n \in Nat : \A q \in DOMAIN c : c[q].depth = n => q \in Session}
<1>1. IInv /\ proc = "running" /\ root # 0 /\ h \in Nat /\ TreeOK(c, h)
  BY DEF HasTree, TreeInvariantWith
<1>2. IsTreeWith(file, root, c, h)
  BY <1>1 DEF TreeOK
<1>3. StoredIn(file, Session, Session) /\ PagesHeld
  BY <1>1, Running
<1>4. root \in Session
  BY <1>1, <1>3 DEF PagesHeld
<1>5. ASSUME NEW q \in DOMAIN c, q # root
      PROVE  \E u \in DOMAIN c : \E i \in 1 .. Len(file[u].children) :
               /\ file[u].children[i] = q
               /\ c[u].depth \in Nat /\ c[q].depth = c[u].depth + 1
  <2> DEFINE u == c[q].up  i == c[q].at
  <2>1. u \in DOMAIN c /\ i \in 1 .. Len(file[u].children) /\ file[u].children[i] = q
    BY <1>2, <1>5 DEF IsTreeWith
  <2> HIDE DEF u, i
  <2>2. c[q].depth = c[u].depth + 1
    BY <1>1, <1>2, <2>1, ChildOfTree
  <2>3. c[u].depth \in 0 .. h
    BY <1>1, <1>2, <2>1, NodeOfTree
  <2> QED
    BY <1>1, <2>1, <2>2, <2>3
<1>6. 0 \in T
  BY <1>4, <1>5
<1>7. ASSUME NEW n \in Nat, n \in T PROVE n + 1 \in T
  <2> SUFFICES ASSUME NEW q \in DOMAIN c, c[q].depth = n + 1 PROVE q \in Session
    BY <1>7
  <2>1. CASE q = root
    BY <2>1, <1>4
  <2>2. CASE q # root
    <3>1. PICK u \in DOMAIN c : \E i \in 1 .. Len(file[u].children) :
               /\ file[u].children[i] = q
               /\ c[u].depth \in Nat /\ c[q].depth = c[u].depth + 1
      BY <2>2, <1>5
    <3>2. c[u].depth = n
      BY <3>1
    <3>3. u \in Session
      BY <3>2, <1>7
    <3>4. file[u].children \in Seq(Session)
      BY <3>3, <1>3 DEF StoredIn, StoredNodes
    <3> QED
      BY <3>1, <3>4, ElementOfSeq
  <2> QED
    BY <2>1, <2>2
<1> HIDE DEF T
<1>8. Nat \subseteq T
  BY <1>6, <1>7, Induction
<1>9. \A q \in DOMAIN c : c[q].depth \in 0 .. h
  BY <1>1, <1>2, NodeOfTree
<1>10. \A q \in DOMAIN c : c[q].depth \in Nat
  BY <1>1, <1>9
<1> QED
  BY <1>8, <1>10 DEF T

\* A freelist that has given out the pages in C, and none of them is free.
Frees(fl, C) ==
  /\ fl \in Freelists
  /\ C \subseteq 1 .. fl.max_page /\ ToSet(fl.released_pages) \subseteq 1 .. fl.max_page
  /\ C \intersect ToSet(fl.released_pages) = {}
  /\ \A i, j \in 1 .. Len(fl.released_pages) :
       fl.released_pages[i] = fl.released_pages[j] => i = j

\* What is known of the tree at every step.
LEMMA AtTree ==
  ASSUME NEW c, NEW h, HasTree(c, h)
  PROVE  /\ IsTreeOf(c, h) /\ IsTreeWith(file, root, c, h) /\ IsOrderedWith(file, c)
         /\ h \in Nat /\ h <= MaxDepth /\ root \in DOMAIN c
         /\ DOMAIN c \subseteq Session /\ DOMAIN c \subseteq Nat /\ DOMAIN c \subseteq DOMAIN file
         /\ IsFiniteSet(DOMAIN c)
         /\ FileOK(file, DOMAIN c) /\ Frees(freelist, DOMAIN c)
<1>1. /\ IInv /\ proc = "running" /\ root # 0 /\ h \in Nat
      /\ TreeOK(c, h) /\ ReleasedOK
  BY DEF HasTree, TreeInvariantWith
<1>2. /\ IsTreeWith(file, root, c, h) /\ IsOrderedWith(file, c) /\ h <= MaxDepth
      /\ DOMAIN c \subseteq 1 .. freelist.max_page /\ DOMAIN c \intersect Released = {}
  BY <1>1 DEF TreeOK
<1>3. /\ PagesOK(file) /\ HeaderOK(file) /\ HeaderLoaded /\ PagesHeld /\ TypeOK
      /\ Session \subseteq Allocated /\ StoredIn(file, Session, Session)
      /\ NodePages(file, Session) /\ freelist \in Freelists /\ freelist.max_page \in Nat
  BY <1>1, Running
<1>4. DOMAIN c \subseteq Session
  BY TreeInSession
<1>5. DOMAIN c \subseteq Nat /\ root \in DOMAIN c
  BY <1>2, <1>3 DEF IsTreeWith
<1>6. DOMAIN c \subseteq DOMAIN file
  BY <1>3, <1>4 DEF StoredIn
<1>7. IsFiniteSet(DOMAIN c)
  <2>1. IsFiniteSet(1 .. freelist.max_page)
    BY <1>3, FS_Interval
  <2> QED
    BY <1>2, <2>1, FS_Subset
<1>8. FileOK(file, DOMAIN c)
  <2>1. META_PAGE \in DOMAIN file
    BY <1>3 DEF HeaderLoaded
  <2>2. NodePages(file, DOMAIN c)
    BY <1>3, <1>4 DEF NodePages
  <2> QED
    BY <1>3, <2>1, <2>2 DEF FileOK
<1>9. Frees(freelist, DOMAIN c)
  <2>1. meta.freelist_page \in Nat
    BY <1>3 DEF TypeOK
  <2>2. Released \subseteq 1 .. freelist.max_page
    BY <1>3, <2>1 DEF PagesHeld, Allocated
  <2> QED
    BY <1>1, <1>2, <1>3, <2>2 DEF Frees, Released, ReleasedOK
<1> QED
  BY <1>1, <1>2, <1>4, <1>5, <1>6, <1>7, <1>8, <1>9 DEF IsTreeOf

\* Its freelist, once it has given out a page or been given one back.
LEMMA GivesPage ==
  ASSUME NEW fl, NEW C, Frees(fl, C), NEW b, b = next_page(fl)
  PROVE  b \notin C /\ Frees(get_next_page(fl), C \union {b})
<1> DEFINE s == fl.released_pages  n == fl.max_page  t == SubSeq(s, 1, Len(s) - 1)
<1>1. /\ n \in Nat /\ s \in Seq(Nat) /\ Len(s) \in Nat
      /\ fl = [max_page |-> n, released_pages |-> s]
      /\ C \subseteq 1 .. n /\ ToSet(s) \subseteq 1 .. n /\ C \intersect ToSet(s) = {}
      /\ \A i, j \in 1 .. Len(s) : s[i] = s[j] => i = j
  BY DEF Frees, Freelists
<1>2. CASE s = <<>>
  <2>1. b = n + 1 /\ get_next_page(fl) = [max_page |-> n + 1, released_pages |-> s]
    BY <1>1, <1>2 DEF next_page, get_next_page
  <2>2. b \notin C /\ C \union {b} \subseteq 1 .. n + 1 /\ ToSet(s) \subseteq 1 .. n + 1
    BY <1>1, <2>1
  <2>3. (C \union {b}) \intersect ToSet(s) = {}
    BY <1>1, <2>1
  <2>4. [max_page |-> n + 1, released_pages |-> s] \in Freelists
    BY <1>1 DEF Freelists
  <2> HIDE DEF n, s
  <2> QED
    BY <1>1, <2>1, <2>2, <2>3, <2>4 DEF Frees
<1>3. CASE s # <<>>
  <2>1. b = s[Len(s)] /\ get_next_page(fl) = [max_page |-> n, released_pages |-> t]
    BY <1>1, <1>3 DEF next_page, get_next_page
  <2> HIDE DEF n, s
  <2>2. Len(s) # 0
    BY <1>1, <1>3, EmptySeq
  <2>3. t \in Seq(Nat) /\ Len(t) = Len(s) - 1 /\ \A i \in 1 .. Len(s) - 1 : t[i] = s[i]
    <3> DEFINE m == Len(s) - 1
    <3>1. m \in 0 .. Len(s) /\ m \in Nat
      BY <1>1, <2>2
    <3>2. t = SubSeq(s, 1, m)
      OBVIOUS
    <3> HIDE DEF t, m
    <3>3. /\ SubSeq(s, 1, m) \in Seq(Nat) /\ Len(SubSeq(s, 1, m)) = m - 1 + 1
          /\ \A i \in 1 .. m - 1 + 1 : SubSeq(s, 1, m)[i] = s[1 + i - 1]
      BY <3>1, <1>1, Slice
    <3>4. m - 1 + 1 = m /\ \A i \in 1 .. m : 1 + i - 1 = i
      BY <3>1
    <3>5. t \in Seq(Nat) /\ Len(t) = m /\ \A i \in 1 .. m : t[i] = s[i]
      BY <3>2, <3>3, <3>4
    <3> QED
      BY <3>5 DEF m
  <2> HIDE DEF t
  <2>4. /\ ToSet(s) = {s[i] : i \in 1 .. Len(s)}
        /\ ToSet(t) = {t[i] : i \in 1 .. Len(t)}
    BY <1>1, <2>3, ToSetOfSeq
  <2>5. ToSet(t) \subseteq ToSet(s) /\ b \in ToSet(s) /\ b \notin ToSet(t)
    BY <1>1, <2>1, <2>2, <2>3, <2>4
  <2>6. \A i, j \in 1 .. Len(t) : t[i] = t[j] => i = j
    <3>1. \A i \in 1 .. Len(t) : i \in 1 .. Len(s) /\ t[i] = s[i]
      BY <1>1, <2>3
    <3> QED
      BY <1>1, <3>1
  <2>7. [max_page |-> n, released_pages |-> t] \in Freelists
    BY <1>1, <2>3 DEF Freelists
  <2>8. /\ b \notin C /\ C \union {b} \subseteq 1 .. n /\ ToSet(t) \subseteq 1 .. n
        /\ (C \union {b}) \intersect ToSet(t) = {}
    BY <1>1, <2>5
  <2> QED
    BY <2>1, <2>6, <2>7, <2>8 DEF Frees
<1> QED
  BY <1>2, <1>3

LEMMA TakesPageBack ==
  ASSUME NEW fl, NEW C, Frees(fl, C), NEW b \in C
  PROVE  /\ Frees(release_page(fl, b), C \ {b})
         /\ ToSet(release_page(fl, b).released_pages) = ToSet(fl.released_pages) \union {b}
<1> DEFINE s == fl.released_pages  n == fl.max_page  g == release_page(fl, b)
           t == g.released_pages
<1>1. /\ fl \in Freelists /\ n \in Nat /\ s \in Seq(Nat) /\ Len(s) \in Nat
      /\ C \subseteq 1 .. n /\ ToSet(s) \subseteq 1 .. n /\ C \intersect ToSet(s) = {}
      /\ \A i, j \in 1 .. Len(s) : s[i] = s[j] => i = j
  BY DEF Frees, Freelists
<1>2. b \in Nat
  BY <1>1
<1>3. g \in Freelists /\ g.max_page = n /\ ToSet(t) = ToSet(s) \union {b}
  BY <1>1, <1>2, PageReleased
<1>4. /\ t \in Seq(Nat) /\ Len(t) = Len(s) + 1 /\ t[Len(t)] = b
      /\ \A i \in 1 .. Len(s) : t[i] = s[i]
  <2>1. t = Append(s, b)
    BY <1>1, <1>2 DEF release_page, Freelists
  <2> HIDE DEF t
  <2> QED
    BY <2>1, <1>1, <1>2, AppendProperties
<1>5. ToSet(s) = {s[i] : i \in 1 .. Len(s)}
  BY <1>1, ToSetOfSeq
<1> HIDE DEF n, s, g, t
<1>7. \A i \in 1 .. Len(s) : s[i] # b
  BY <1>1, <1>5
<1>8. \A i, j \in 1 .. Len(t) : t[i] = t[j] => i = j
  <2> TAKE i, j \in 1 .. Len(t)
  <2>1. CASE i \in 1 .. Len(s) /\ j \in 1 .. Len(s)
    BY <2>1, <1>1, <1>4
  <2>2. CASE i = Len(t) \/ j = Len(t)
    <3>1. \A m \in 1 .. Len(t) : m = Len(t) \/ m \in 1 .. Len(s)
      BY <1>1, <1>4
    <3>2. t[i] = t[j] => i = Len(t) /\ j = Len(t)
      BY <2>2, <3>1, <1>4, <1>7
    <3> QED
      BY <3>2
  <2> QED
    BY <2>1, <2>2, <1>1, <1>4
<1>9. /\ C \ {b} \subseteq 1 .. n /\ ToSet(t) \subseteq 1 .. n
      /\ (C \ {b}) \intersect ToSet(t) = {}
  BY <1>1, <1>3
<1>10. Frees(g, C \ {b})
  BY <1>3, <1>8, <1>9 DEF Frees, t
<1> QED
  BY <1>3, <1>10 DEF g, t, s

-----------------------------------------------------------------------------
\* What the invariant is for.

LEMMA ItIsATree ==
  ASSUME NEW c, NEW h, HasTree(c, h)
  PROVE  /\ Cardinality(Links) = Cardinality(Reachable) - 1
         /\ \A l, m \in Links : get_node(file, l[1]).children[l[2]]
                                  = get_node(file, m[1]).children[m[2]] => l = m
         /\ Cardinality(LeafDepths) = 1
<1>1. IsTreeOf(c, h) /\ IsFiniteSet(DOMAIN c) /\ root # 0
  BY AtTree DEF HasTree
<1>2. LeafDepths = {h}
  BY <1>1, OneLeafDepth
<1>3. Cardinality(LeafDepths) = 1
  BY <1>2, FS_Singleton
<1> QED
  BY <1>1, <1>3, OneLinkEach

LEMMA SearchesFindItems ==
  ASSUME NEW c, NEW h, HasTree(c, h), NEW p \in Reachable, NEW i \in 1 .. Len(ItemsAt(p))
  PROVE  /\ SearchEnd(ItemsAt(p)[i].key).page = p
         /\ find_key_in_node(SearchEnd(ItemsAt(p)[i].key), ItemsAt(p)[i].key).position = i
<1>1. IsTreeOf(c, h) /\ root # 0
  BY AtTree DEF HasTree
<1>2. p \in DOMAIN c
  BY <1>1, PagesOfCollection
<1>3. /\ get_node(file, p).page = p /\ get_node(file, p).items = file[p].items
  BY <1>1, <1>2, NodeOfCollection
<1>4. ItemsAt(p) = file[p].items
  BY <1>3 DEF ItemsAt
<1> DEFINE k == file[p].items[i].key
<1>5. k = file[p].items[i].key /\ i \in 1 .. Len(file[p].items)
  BY <1>4
<1> HIDE DEF k
<1>6. /\ SearchEnd(k) = get_node(file, p)
      /\ KeyPosition(get_node(file, p), k) = i
  BY <1>1, <1>2, <1>5, SearchEnds
<1> QED
  BY <1>3, <1>4, <1>5, <1>6 DEF find_key_in_node

LEMMA NoPageIsFree ==
  ASSUME NEW c, NEW h, HasTree(c, h)
  PROVE  /\ Reachable \intersect Released = {}
         /\ Cardinality(Released) = Len(freelist.released_pages)
<1> DEFINE s == freelist.released_pages
<1>1. IsTreeOf(c, h) /\ root # 0 /\ Frees(freelist, DOMAIN c)
  BY AtTree DEF HasTree
<1>2. Reachable = DOMAIN c
  BY <1>1, PagesOfCollection
<1>3. /\ s \in Seq(Nat) /\ Len(s) \in Nat /\ DOMAIN c \intersect ToSet(s) = {}
      /\ \A i, j \in 1 .. Len(s) : s[i] = s[j] => i = j
  BY <1>1 DEF Frees, Freelists
<1>4. Released = ToSet(s)
  BY DEF Released
<1> HIDE DEF s
<1>5. ToSet(s) = {s[i] : i \in 1 .. Len(s)}
  BY <1>3, ToSetOfSeq
<1> DEFINE n == Len(s)
<1> HIDE DEF n
<1>6. IsFiniteSet(1 .. Len(s)) /\ Cardinality(1 .. Len(s)) = Len(s)
  <2>1. n \in Nat
    BY <1>3 DEF n
  <2>2. IsFiniteSet(1 .. n) /\ Cardinality(1 .. n) = IF 1 > n THEN 0 ELSE n - 1 + 1
    BY <2>1, FS_Interval
  <2>3. IsFiniteSet(1 .. n) /\ Cardinality(1 .. n) = n
    BY <2>1, <2>2
  <2> QED
    BY <2>3 DEF n
<1> DEFINE e == [i \in 1 .. Len(s) |-> s[i]]
<1>7. /\ e \in [1 .. Len(s) -> ToSet(s)]
      /\ \A i, j \in 1 .. Len(s) : e[i] = e[j] => i = j
      /\ \A t \in ToSet(s) : \E i \in 1 .. Len(s) : e[i] = t
  BY <1>3, <1>5
<1> HIDE DEF e
<1>8. Cardinality(ToSet(s)) = Cardinality(1 .. Len(s))
  BY <1>6, <1>7, SameCardinality
<1> QED
  BY <1>2, <1>3, <1>4, <1>6, <1>8 DEF s

-----------------------------------------------------------------------------
\* The path of the call in progress.

LEMMA SameSeq ==
  ASSUME NEW S, NEW s \in Seq(S), NEW t \in Seq(S), Len(s) = Len(t),
         \A i \in 1 .. Len(s) : s[i] = t[i]
  PROVE  s = t
<1>1. Len(s) \in Nat /\ s = [i \in 1 .. Len(s) |-> s[i]] /\ t = [i \in 1 .. Len(t) |-> t[i]]
  BY SeqOver, LenProperties
<1> QED
  BY <1>1

\* The slot a trail goes on by.
NextSlot(t, k) ==
  IF \E n \in ToSet(Front(t)) : find_key_in_node(n, k).found
  THEN Len(Last(t).children) ELSE KeyPosition(Last(t), k)

LEMMA SlotTaken ==
  ASSUME NEW t \in Seq(Nodes), t # <<>>, NEW k
  PROVE  /\ (\E i \in 1 .. Len(t) - 1 : find_key_in_node(t[i], k).found) =>
              NextSlot(t, k) = Len(Last(t).children)
         /\ (\A i \in 1 .. Len(t) - 1 : ~find_key_in_node(t[i], k).found) =>
              NextSlot(t, k) = KeyPosition(Last(t), k)
<1>1. /\ Len(t) \in Nat \ {0} /\ Front(t) \in Seq(Nodes) /\ Len(Front(t)) = Len(t) - 1
      /\ \A i \in 1 .. Len(t) - 1 : Front(t)[i] = t[i]
  BY FrontProperties
<1>2. ToSet(Front(t)) = {Front(t)[i] : i \in 1 .. Len(Front(t))}
  BY <1>1, ToSetOfSeq
<1>3. (\E n \in ToSet(Front(t)) : find_key_in_node(n, k).found)
        <=> (\E i \in 1 .. Len(t) - 1 : find_key_in_node(t[i], k).found)
  BY <1>1, <1>2
<1> QED
  BY <1>3 DEF NextSlot

LEMMA TrailSteps ==
  ASSUME NEW k
  PROVE  /\ Trails(k)[0] = <<get_node(file, root)>>
         /\ \A n \in 0 .. MaxDepth - 1 : Trails(k)[n] \in Seq(Nodes) =>
              Trails(k)[n + 1] =
                IF is_leaf(Last(Trails(k)[n])) THEN Trails(k)[n]
                ELSE Append(Trails(k)[n],
                            get_node(file, Last(Trails(k)[n]).children[NextSlot(Trails(k)[n], k)]))
         /\ \A n \in 0 .. MaxDepth :
              Trails(k)[n] \in Seq(Nodes) /\ is_leaf(Last(Trails(k)[n])) => Trail(k) = Trails(k)[n]
<1> DEFINE next == [t \in Seq(Nodes) |->
                      IF is_leaf(Last(t)) THEN t
                      ELSE Append(t, get_node(file, Last(t).children[NextSlot(t, k)]))]
           start == <<get_node(file, root)>>
           w == Trails(k)
<1>1. \A t \in Seq(Nodes) :
        next[t] = IF is_leaf(Last(t)) THEN t
                  ELSE Append(t, get_node(file, Last(t).children[NextSlot(t, k)]))
  OBVIOUS
<1>2. w = Iteration(next, start)
  BY DEF Trails, NextSlot
<1> HIDE DEF next, start
<1>3. w[0] = start /\ \A n \in 0 .. MaxDepth - 1 : w[n + 1] = next[w[n]]
  BY <1>2, IterationSteps
<1>4. ASSUME NEW n \in 0 .. MaxDepth, w[n] \in Seq(Nodes), is_leaf(Last(w[n]))
      PROVE  Trail(k) = w[n]
  <2>1. next[w[n]] = w[n]
    BY <1>1, <1>4
  <2>2. MaxDepth \in n .. MaxDepth
    BY CollectionAssumption
  <2> HIDE DEF w
  <2> DEFINE x == w[n]
  <2>3. Iteration(next, start)[n] = x /\ next[x] = x
    BY <1>2, <2>1
  <2> HIDE DEF x
  <2>4. Iteration(next, start)[MaxDepth] = x
    BY <2>2, <2>3, IterationStays
  <2> QED
    BY <1>2, <2>4 DEF x, w, Trail
<1> HIDE DEF w
<1> QED
  BY <1>1, <1>3, <1>4 DEF w, start

\* One page further.
Further(w, n, q) == [i \in 1 .. n + 2 |-> IF i = n + 2 THEN q ELSE w[i]]

LEMMA RouteGrows ==
  ASSUME NEW f, NEW r, NEW c, NEW h \in Nat, IsTreeWith(f, r, c, h),
         NEW slots \in Seq(Nat), NEW w, IsRoute(f, r, c, slots, w),
         NEW p, p = w[Len(slots) + 1], NEW s, s \in 1 .. Len(f[p].children),
         NEW q, q = f[p].children[s]
  PROVE  IsRoute(f, r, c, Append(slots, s), Further(w, Len(slots), q))
<1> DEFINE n == Len(slots)  v == Further(w, n, q)  a == Append(slots, s)
<1>1. /\ n \in Nat /\ s \in Nat /\ a \in Seq(Nat) /\ Len(a) = n + 1 /\ a[n + 1] = s
      /\ \A i \in 1 .. n : a[i] = slots[i]
  <2>1. Len(slots) \in Nat
    BY LenProperties
  <2>2. s \in Nat
    OBVIOUS
  <2> QED
    BY <2>1, <2>2, AppendProperties
<1>2. /\ w \in [1 .. n + 1 -> DOMAIN c] /\ w[1] = r /\ w[n + 1] = p
      /\ \A i \in 1 .. n + 1 : c[w[i]].depth = i - 1
      /\ \A i \in 1 .. n :
           /\ slots[i] \in 1 .. Len(f[w[i]].children)
           /\ f[w[i]].children[slots[i]] = w[i + 1]
           /\ c[w[i + 1]].up = w[i] /\ c[w[i + 1]].at = slots[i]
  BY DEF IsRoute
<1>3. p \in DOMAIN c /\ c[p].depth = n
  BY <1>1, <1>2
<1>4. q \in DOMAIN c /\ c[q].up = p /\ c[q].at = s /\ c[q].depth = n + 1
  <2>1. p \in DOMAIN c /\ f[p].children[s] = q
    BY <1>3
  <2>2. q \in DOMAIN c \ {r} /\ c[q].up = p /\ c[q].at = s /\ c[q].depth = c[p].depth + 1
    BY <2>1, ChildOfTree
  <2> QED
    BY <1>3, <2>2
<1>5. v[n + 2] = q /\ \A i \in 1 .. n + 1 : v[i] = w[i]
  BY <1>1 DEF Further
<1>6. v \in [1 .. n + 2 -> DOMAIN c]
  BY <1>1, <1>2, <1>4 DEF Further
<1> HIDE DEF n, v, a
<1>7. v[1] = r /\ \A i \in 1 .. n + 2 : c[v[i]].depth = i - 1
  <2>1. 1 \in 1 .. n + 1
    BY <1>1
  <2>2. v[1] = r
    BY <2>1, <1>2, <1>5
  <2>3. c[v[n + 2]].depth = n + 1 /\ n + 2 - 1 = n + 1
    BY <1>1, <1>4, <1>5
  <2>4. \A i \in 1 .. n + 1 : c[v[i]].depth = i - 1
    BY <1>2, <1>5
  <2>5. ASSUME NEW i \in 1 .. n + 2 PROVE c[v[i]].depth = i - 1
    <3>1. CASE i = n + 2
      <4>1. v[i] = v[n + 2] /\ i - 1 = n + 1
        BY <3>1, <1>1
      <4> QED
        BY <4>1, <2>3
    <3>2. CASE i # n + 2
      <4>1. i \in 1 .. n + 1
        BY <3>2, <1>1
      <4> QED
        BY <4>1, <2>4
    <3> QED
      BY <3>1, <3>2
  <2> QED
    BY <2>2, <2>5
<1>8. ASSUME NEW i \in 1 .. n + 1
      PROVE  /\ a[i] \in 1 .. Len(f[v[i]].children)
             /\ f[v[i]].children[a[i]] = v[i + 1]
             /\ c[v[i + 1]].up = v[i] /\ c[v[i + 1]].at = a[i]
  <2>1. CASE i = n + 1
    <3>1. v[i] = p /\ v[i + 1] = q /\ a[i] = s
      BY <2>1, <1>1, <1>2, <1>5
    <3> QED
      BY <3>1, <1>4
  <2>2. CASE i # n + 1
    <3>1. i \in 1 .. n /\ i + 1 \in 1 .. n + 1
      BY <2>2, <1>1
    <3>2. v[i] = w[i] /\ v[i + 1] = w[i + 1] /\ a[i] = slots[i]
      BY <3>1, <1>1, <1>5
    <3> QED
      BY <3>1, <3>2, <1>2
  <2> QED
    BY <2>1, <2>2
<1>9. Len(a) + 1 = n + 2
  BY <1>1
<1>10. IsRoute(f, r, c, a, v)
  BY <1>1, <1>6, <1>7, <1>8, <1>9 DEF IsRoute
<1> QED
  BY <1>10 DEF n, v, a

\* The nodes along a route, as a sequence.
LEMMA CopiesOfRoute ==
  ASSUME NEW f, NEW c, DOMAIN c \subseteq Nat, StoredIn(f, DOMAIN c, DOMAIN c),
         NEW r, NEW slots \in Seq(Nat), NEW w, IsRoute(f, r, c, slots, w),
         NEW t, t = get_nodes(f, r, slots)
  PROVE  /\ t \in Seq(NodesOf(DOMAIN c)) /\ t \in Seq(Nodes)
         /\ Len(t) = Len(slots) + 1 /\ Len(slots) \in Nat /\ t # <<>>
         /\ \A i \in 1 .. Len(slots) + 1 : t[i] = get_node(f, w[i])
         /\ Last(t) = get_node(f, w[Len(slots) + 1])
<1>1. Len(slots) \in Nat
  BY LenProperties
<1>3. IsWalk(f, DOMAIN c, slots, w) /\ w[1] = r
  BY DEF IsRoute, IsWalk
<1>4. LeadsTo(f, DOMAIN c, slots, r, w[Len(slots) + 1])
  <2>1. \A i \in 1 .. Len(slots) : /\ slots[i] \in 1 .. Len(f[w[i]].children)
                                   /\ w[i + 1] = f[w[i]].children[slots[i]]
    BY DEF IsRoute
  <2>2. w \in [1 .. Len(slots) + 1 -> DOMAIN c]
    BY DEF IsRoute
  <2> QED
    BY <1>3, <2>1, <2>2 DEF LeadsTo
<1>5. IsCopyOfPath(DOMAIN c, slots, r, t)
  BY <1>4, GetNodesOf
<1>6. t \in Seq(NodesOf(DOMAIN c)) /\ Len(t) = Len(slots) + 1
  BY <1>5 DEF IsCopyOfPath
<1>7. NodesOf(DOMAIN c) \subseteq Nodes
  BY NodesOfAreNodes
<1>8. t \in Seq(Nodes)
  BY <1>6, <1>7, SeqMonotonic
<1>9. \A i \in 1 .. Len(slots) + 1 : t[i] = get_node(f, w[i])
  <2>1. AreNodesOn(f, slots, w, get_nodes(f, w[1], slots))
    BY <1>3, NodesAlongPath
  <2>2. AreNodesOn(f, slots, w, t)
    BY <1>3, <2>1
  <2> QED
    BY <2>2 DEF AreNodesOn
<1>10. t # <<>> /\ Last(t) = t[Len(t)]
  <2>1. Len(t) # 0
    BY <1>1, <1>6
  <2>2. t # <<>>
    BY <2>1
  <2> QED
    BY <2>2, <1>8, FrontProperties
<1>11. Last(t) = get_node(f, w[Len(slots) + 1])
  <2>1. Len(slots) + 1 \in 1 .. Len(slots) + 1
    BY <1>1
  <2> QED
    BY <1>6, <1>9, <1>10, <2>1
<1> QED
  BY <1>1, <1>6, <1>8, <1>9, <1>10, <1>11

\* One slot more, one node more.
LEMMA CopiesGrow ==
  ASSUME NEW f, NEW r, NEW c, NEW h \in Nat, IsTreeWith(f, r, c, h),
         DOMAIN c \subseteq Nat, DOMAIN c \subseteq DOMAIN f,
         NEW slots \in Seq(Nat), NEW w, IsRoute(f, r, c, slots, w),
         NEW p, p = w[Len(slots) + 1], NEW s, s \in 1 .. Len(f[p].children)
  PROVE  get_nodes(f, r, Append(slots, s))
           = Append(get_nodes(f, r, slots), get_node(f, f[p].children[s]))
<1> DEFINE n == Len(slots)  q == f[p].children[s]  a == Append(slots, s)
           v == Further(w, n, q)  t == get_nodes(f, r, slots)  u == get_nodes(f, r, a)
<1>1. StoredIn(f, DOMAIN c, DOMAIN c) /\ n \in Nat
  BY LenProperties DEF IsTreeWith, StoredIn
<1>2. IsRoute(f, r, c, a, v)
  BY RouteGrows
<1>3. a \in Seq(Nat) /\ Len(a) = n + 1
  <2>1. s \in Nat
    OBVIOUS
  <2> QED
    BY <2>1, AppendProperties
<1>4. v[n + 2] = q /\ \A i \in 1 .. n + 1 : v[i] = w[i]
  BY <1>1 DEF Further
<1> HIDE DEF a, v
<1>5. /\ t \in Seq(Nodes) /\ Len(t) = n + 1
      /\ \A i \in 1 .. n + 1 : t[i] = get_node(f, w[i])
  BY <1>1, CopiesOfRoute
<1> HIDE DEF q, t
<1>6. /\ u \in Seq(Nodes) /\ Len(u) = Len(a) + 1
      /\ \A i \in 1 .. Len(a) + 1 : u[i] = get_node(f, v[i])
  BY <1>1, <1>2, <1>3, CopiesOfRoute, SMTT(30)
<1> DEFINE x == get_node(f, q)
<1> HIDE DEF n, u
<1>7. u[n + 2] = x
  <2>1. n + 2 \in 1 .. Len(a) + 1
    BY <1>1, <1>3
  <2> QED
    BY <1>4, <1>6, <2>1
<1>8. x \in Nodes
  <2>1. n + 2 \in 1 .. Len(u)
    BY <1>1, <1>3, <1>6
  <2>2. u[n + 2] \in Nodes
    BY <1>6, <2>1, ElementOfSeq
  <2> QED
    BY <2>2, <1>7
<1> HIDE DEF x
<1> DEFINE b == Append(t, x)
<1>9. b \in Seq(Nodes) /\ Len(b) = n + 2 /\ b[n + 2] = x /\ \A i \in 1 .. n + 1 : b[i] = t[i]
  <2>1. /\ b \in Seq(Nodes) /\ Len(b) = Len(t) + 1 /\ b[Len(t) + 1] = x
        /\ \A i \in 1 .. Len(t) : b[i] = t[i]
    BY <1>5, <1>8, AppendProperties
  <2>2. Len(t) + 1 = n + 2
    BY <1>1, <1>5
  <2> QED
    BY <1>5, <2>1, <2>2
<1> HIDE DEF b
<1>10. ASSUME NEW i \in 1 .. n + 2 PROVE u[i] = b[i]
  <2>1. CASE i = n + 2
    BY <2>1, <1>7, <1>9
  <2>2. CASE i # n + 2
    <3>1. i \in 1 .. n + 1 /\ i \in 1 .. Len(a) + 1
      BY <2>2, <1>1, <1>3
    <3> QED
      BY <3>1, <1>4, <1>5, <1>6, <1>9
  <2> QED
    BY <2>1, <2>2
<1>11. Len(u) = n + 2
  BY <1>1, <1>3, <1>6
<1>12. u = b
  BY <1>6, <1>9, <1>10, <1>11, SameSeq
<1> QED
  BY <1>12 DEF u, b, t, x, q, a

\* Where the call in progress is.
IsAt(c, w) ==
  IsRoute(file, root, c, path, w) /\ w[Len(path) + 1] = page

LEMMA AtPage ==
  ASSUME NEW c, NEW h, HasTree(c, h), pc \in {"find", "insert", "remove", "predecessor", "verify"}
  PROVE  /\ \E w : IsAt(c, w)
         /\ page \in DOMAIN c /\ c[page].depth = Len(path) /\ Len(path) \in Nat
         /\ path \in Seq(Nat) /\ Len(path) <= h
         /\ Copied \in Seq(Nodes) /\ Len(Copied) = Len(path) + 1 /\ Copied # <<>>
         /\ Last(Copied) = get_node(file, page)
         /\ \A s \in 1 .. Len(file[page].children) :
              /\ get_nodes(file, root, Append(path, s))
                   = Append(Copied, get_node(file, file[page].children[s]))
              /\ Len(Append(path, s)) = Len(path) + 1 /\ Len(path) + 1 <= h
<1>1. /\ IsTreeWith(file, root, c, h) /\ h \in Nat
      /\ DOMAIN c \subseteq Nat /\ DOMAIN c \subseteq DOMAIN file
  BY AtTree
<1>2. PathOK /\ path \in Seq(Nat) /\ Len(path) \in Nat
  <2>1. SearchOK /\ path \in Seq(Nat) /\ Len(path) \in Nat
    BY Running DEF HasTree
  <2> QED
    BY <2>1 DEF HasTree, SearchOK
<1>3. \E w : IsAt(c, w)
  <2>1. LeadsTo(file, Session, path, root, page)
    BY <1>2 DEF PathOK
  <2> QED
    BY <1>1, <1>2, <2>1, RouteOfPath DEF IsAt
<1>4. PICK w : IsAt(c, w)
  BY <1>3
<1>5. IsRoute(file, root, c, path, w) /\ w[Len(path) + 1] = page
  BY <1>4 DEF IsAt
<1>6. page \in DOMAIN c /\ c[page].depth = Len(path)
  <2>1. Len(path) + 1 \in 1 .. Len(path) + 1
    BY <1>2
  <2>2. w[Len(path) + 1] \in DOMAIN c /\ c[w[Len(path) + 1]].depth = Len(path) + 1 - 1
    BY <1>5, <2>1 DEF IsRoute
  <2> QED
    BY <1>2, <1>5, <2>2
<1>7. c[page].depth \in 0 .. h /\ (Len(file[page].children) = 0 <=> c[page].depth = h)
  BY <1>1, <1>6, NodeOfTree
<1>8. StoredIn(file, DOMAIN c, DOMAIN c)
  BY <1>1 DEF IsTreeWith, StoredIn
<1>9. /\ Copied \in Seq(Nodes) /\ Len(Copied) = Len(path) + 1 /\ Copied # <<>>
      /\ Last(Copied) = get_node(file, page)
  BY <1>1, <1>2, <1>5, <1>8, CopiesOfRoute DEF Copied
<1>10. ASSUME NEW s \in 1 .. Len(file[page].children)
       PROVE  /\ get_nodes(file, root, Append(path, s))
                   = Append(Copied, get_node(file, file[page].children[s]))
              /\ Len(Append(path, s)) = Len(path) + 1 /\ Len(path) + 1 <= h
  <2>1. get_nodes(file, root, Append(path, s))
          = Append(get_nodes(file, root, path), get_node(file, file[page].children[s]))
    <3>1. page = w[Len(path) + 1]
      BY <1>5
    <3> QED
      BY <3>1, <1>1, <1>2, <1>5, CopiesGrow
  <2>2. Len(Append(path, s)) = Len(path) + 1
    <3>1. s \in Nat
      OBVIOUS
    <3> QED
      BY <3>1, <1>2, AppendProperties
  <2>3. Len(file[page].children) # 0
    <3>1. file[page].children \in Seq(DOMAIN c)
      BY <1>1, <1>6, NodeOfTree
    <3>2. Len(file[page].children) \in Nat
      BY <3>1, LenProperties
    <3> QED
      BY <3>2
  <2>4. Len(path) + 1 <= h
    BY <1>1, <1>2, <1>6, <1>7, <2>3
  <2> QED
    BY <2>1, <2>2, <2>4 DEF Copied
<1> QED
  BY <1>1, <1>2, <1>3, <1>6, <1>7, <1>9, <1>10

LEMMA CopiesOfRoot ==
  ASSUME NEW c, NEW h, HasTree(c, h)
  PROVE  get_nodes(file, root, <<>>) = <<get_node(file, root)>>
<1> DEFINE t == get_nodes(file, root, <<>>)  w == [i \in 1 .. 1 |-> root]  x == get_node(file, root)
<1>1. /\ IsTreeOf(c, h) /\ IsTreeWith(file, root, c, h) /\ DOMAIN c \subseteq Nat
      /\ DOMAIN c \subseteq DOMAIN file /\ root \in DOMAIN c
  BY AtTree
<1>2. StoredIn(file, DOMAIN c, DOMAIN c) /\ c[root].depth = 0
  BY <1>1 DEF IsTreeWith, StoredIn
<1>3. IsRoute(file, root, c, <<>>, w) /\ <<>> \in Seq(Nat) /\ Len(<<>>) = 0
  BY <1>1, <1>2 DEF IsRoute
<1>4. w[1] = root
  OBVIOUS
<1> HIDE DEF w
<1>5. t \in Seq(Nodes) /\ Len(t) = 1 /\ t[1] = x
  <2> DEFINE z == <<>>
  <2>1. IsRoute(file, root, c, z, w) /\ z \in Seq(Nat) /\ Len(z) = 0 /\ t = get_nodes(file, root, z)
    BY <1>3
  <2> HIDE DEF z, t
  <2>2. /\ t \in Seq(Nodes) /\ Len(t) = Len(z) + 1
        /\ \A i \in 1 .. Len(z) + 1 : t[i] = get_node(file, w[i])
    <3>1. StoredIn(file, DOMAIN c, DOMAIN c) /\ DOMAIN c \subseteq Nat
      BY <1>1, <1>2
    <3>2. z \in Seq(Nat) /\ IsRoute(file, root, c, z, w) /\ t = get_nodes(file, root, z)
      BY <2>1
    <3> QED
      BY <3>1, <3>2, CopiesOfRoute
  <2>3. Len(z) + 1 = 1 /\ 1 \in 1 .. Len(z) + 1
    BY <2>1
  <2>4. t[1] = get_node(file, w[1])
    BY <2>2, <2>3
  <2> QED
    BY <1>4, <2>2, <2>3, <2>4
<1>6. x \in Nodes
  BY <1>1, NodeOfCollection
<1> HIDE DEF t, x
<1>7. <<x>> \in Seq(Nodes) /\ Len(<<x>>) = 1 /\ <<x>>[1] = x
  BY <1>6
<1>8. t = <<x>>
  BY <1>5, <1>7, SameSeq
<1> QED
  BY <1>8 DEF t, x

-----------------------------------------------------------------------------
\* Steps that leave the file alone.

LEMMA SafeCallStays ==
  ASSUME NEW o, UNCHANGED <<file, root, stream>>
  PROVE  SafeCall(o)' <=> SafeCall(o)
<1>1. \A k : Trail(k)' = Trail(k)
  BY DEF Trail, Trails, Iteration
<1>2. \A k : IsPresent(k)' = IsPresent(k)
  BY DEF IsPresent, IsPresentFrom, SearchEndFrom, Walk, Iteration
<1> QED
  BY <1>1, <1>2 DEF SafeCall, SafePut, SafeRemove

\* The items of the tree.
ItemsOf(f, c) == {y \in Item : HoldsItem(f, c, y)}

\* A step after which there is a tree again, with the items in I as long as the
\* stream works; no page of the old tree is lost but its root.
Continues(c, I) ==
  \E d : \E g \in Nat :
    /\ TreeInvariantWith(d, g)'
    /\ proc' = "running" => DOMAIN c \ DOMAIN d \subseteq Released' \union {root}
    /\ proc' = "running" /\ stream' = "good" => ItemsOf(file', d) = I

LEMMA EndsProcess ==
  ASSUME NEW c, NEW h, HasTree(c, h), proc' # "running", NEW I
  PROVE  Continues(c, I)
<1>1. TreeInvariantWith(c, h)' /\ h \in Nat
  BY DEF TreeInvariantWith, HasTree
<1> QED
  BY <1>1 DEF Continues

LEMMA SameTree ==
  ASSUME NEW c, NEW h, HasTree(c, h), UNCHANGED <<file, freelist, root>>,
         StreamOK', CallOK(c, h)'
  PROVE  Continues(c, ItemsOf(file, c))
<1>1. TreeOK(c, h) /\ ReleasedOK /\ h \in Nat
  BY DEF HasTree, TreeInvariantWith
<1>2. TreeOK(c, h)' /\ ReleasedOK'
  BY <1>1 DEF TreeOK, ReleasedOK, Released
<1>3. TreeInvariantWith(c, h)'
  BY <1>2 DEF TreeInvariantWith
<1>4. ItemsOf(file', c) = ItemsOf(file, c)
  OBVIOUS
<1> QED
  BY <1>1, <1>3, <1>4 DEF Continues

LEMMA CallStays ==
  ASSUME NEW c, NEW h, HasTree(c, h),
         UNCHANGED <<file, freelist, root, stream, pc, op, page, path, node, index, ancestors, level>>
  PROVE  Continues(c, ItemsOf(file, c))
<1>1. StreamOK /\ CallOK(c, h)
  BY DEF HasTree, TreeInvariantWith
<1>2. SafeCall(op)' <=> SafeCall(op)
  <2>1. \A o : SafeCall(o)' <=> SafeCall(o)
    BY SafeCallStays
  <2> QED
    BY <2>1
<1>3. GuardOK' <=> GuardOK
  BY <1>2 DEF GuardOK
<1>4. DescentOK' <=> DescentOK
  BY DEF DescentOK, FoundIn, Copied, Walk, Trails, Iteration
<1>5. CopiesOf(c)' <=> CopiesOf(c)
  BY DEF CopiesOf, IsFresh, Unbalanced
<1>6. CallOK(c, h)'
  BY <1>1, <1>3, <1>4, <1>5 DEF CallOK
<1>7. StreamOK'
  BY <1>1 DEF StreamOK
<1> QED
  BY <1>6, <1>7, SameTree

LEMMA TrailsStay ==
  ASSUME UNCHANGED <<file, root>>
  PROVE  \A k : Trails(k)' = Trails(k) /\ Walk(root, k)' = Walk(root, k)
BY DEF Trails, Walk, Iteration

\* Between calls, after one and while its last search is under way nothing is
\* known of the path and the copies.
LEMMA NoClaim ==
  ASSUME NEW c, NEW h, pc' \in {"idle", "return", "verify"}
  PROVE  StreamOK' /\ CallOK(c, h)'
<1>1. GuardOK' /\ DescentOK' /\ StreamOK'
  BY DEF GuardOK, DescentOK, StreamOK
<1> QED
  BY <1>1 DEF CallOK

LEMMA QuietStep ==
  ASSUME NEW c, NEW h, HasTree(c, h), UNCHANGED <<file, freelist, root>>,
         pc' \in {"idle", "return", "verify"}
  PROVE  Continues(c, ItemsOf(file, c))
<1>1. StreamOK' /\ CallOK(c, h)'
  BY NoClaim
<1> QED
  BY <1>1, SameTree

\* The search begins at the root, with its node for the only one of the path.
LEMMA CallContinues ==
  ASSUME NEW c, NEW h, HasTree(c, h), NEW o \in Operation, Call(o),
         stream = "good" => SafeCall(o)
  PROVE  Continues(c, ItemsOf(file, c))
<1>1. /\ pc' = "find" /\ op' = o /\ page' = root /\ pc = "idle"
      /\ UNCHANGED <<file, freelist, root, stream, path>>
  BY DEF HasTree, Call, dal_vars, At
<1>2. path = <<>> /\ MaxDepth \in Nat
  <2>1. StepOK
    BY Running DEF HasTree
  <2> QED
    BY <1>1, <2>1, CollectionAssumption DEF StepOK, IdleCall
<1>3. GuardOK'
  <2>1. SafeCall(o)' <=> SafeCall(o)
    BY <1>1, SafeCallStays
  <2>2. SafeCall(op)' <=> SafeCall(o)'
    BY <1>1
  <2> QED
    BY <1>1, <2>1, <2>2 DEF GuardOK
<1>4. Copied' = <<get_node(file, root)>>
  BY <1>1, <1>2, CopiesOfRoot DEF Copied
<1>5. /\ Trails(o.key)[0] = <<get_node(file, root)>>
      /\ Walk(root, o.key)[0] = get_node(file, root)
  BY TrailSteps, WalkSteps
<1>6. DescentOK'
  <2>1. Trails(op.key)' = Trails(o.key) /\ Walk(root, op.key)' = Walk(root, o.key)
    BY <1>1, TrailsStay
  <2>2. Len(path)' = 0 /\ get_node(file, page)' = get_node(file, root)
    BY <1>1, <1>2
  <2> QED
    BY <1>1, <1>4, <1>5, <2>1, <2>2 DEF DescentOK
<1>7. StreamOK' /\ CallOK(c, h)'
  BY <1>1, <1>3, <1>6 DEF StreamOK, CallOK
<1> QED
  BY <1>1, <1>7, SameTree

\* What is known of the search, and of the way to the predecessor.
LEMMA AtDescent ==
  ASSUME NEW c, NEW h, HasTree(c, h), pc \in {"find", "insert", "remove", "predecessor"},
         stream = "good"
  PROVE  /\ SafeCall(op) /\ DescentOK /\ op \in Operation /\ op.key \in Key
         /\ Trails(op.key)[Len(path)] = Copied
<1>1. CallOK(c, h) /\ StepOK
  BY Running DEF HasTree, TreeInvariantWith
<1>2. SafeCall(op) /\ DescentOK
  BY <1>1 DEF CallOK, GuardOK
<1>3. op \in Operation
  BY <1>1 DEF StepOK
<1>4. op.key \in Key
  BY <1>3 DEF Operation
<1> QED
  BY <1>2, <1>3, <1>4 DEF DescentOK

\* The trail and the path go on by the same slot.
LEMMA TrailGoesOn ==
  ASSUME NEW c, NEW h, HasTree(c, h), pc \in {"find", "predecessor"}, stream = "good",
         NEW s \in 1 .. Len(file[page].children), s = NextSlot(Copied, op.key),
         UNCHANGED <<file, root, op>>, path' = Append(path, s),
         page' = file[page].children[s]
  PROVE  /\ Trails(op.key)'[Len(path')] = Copied'
         /\ Len(path') = Len(path) + 1 /\ path'[Len(path) + 1] = s
         /\ \A i \in 1 .. Len(path) : path'[i] = path[i]
         /\ \A i \in 1 .. Len(path) + 1 : Copied'[i] = Copied[i]
<1>1. /\ page \in DOMAIN c /\ Len(path) \in Nat /\ Copied \in Seq(Nodes) /\ Copied # <<>>
      /\ Len(Copied) = Len(path) + 1 /\ Last(Copied) = get_node(file, page)
      /\ get_nodes(file, root, Append(path, s))
                   = Append(Copied, get_node(file, file[page].children[s]))
      /\ Len(Append(path, s)) = Len(path) + 1 /\ Len(path) + 1 <= h
  BY AtPage
<1>2. IsTreeOf(c, h) /\ h <= MaxDepth /\ MaxDepth \in Nat /\ h \in Nat
  BY AtTree, CollectionAssumption
<1>3. /\ get_node(file, page).children = file[page].children
      /\ is_leaf(get_node(file, page)) <=> file[page].children = <<>>
  BY <1>1, <1>2, NodeOfCollection DEF is_leaf
<1>4. ~is_leaf(get_node(file, page))
  BY <1>3
<1>5. Copied' = Append(Copied, get_node(file, file[page].children[s]))
  BY <1>1 DEF Copied
<1>6. Trails(op.key)[Len(path)] = Copied
  BY AtDescent
<1>7. Trails(op.key)[Len(path) + 1] = Copied'
  <2>1. Len(path) \in 0 .. MaxDepth - 1
    BY <1>1, <1>2
  <2>2. Trails(op.key)[Len(path) + 1]
          = Append(Copied, get_node(file, Last(Copied).children[NextSlot(Copied, op.key)]))
    BY <1>1, <1>4, <1>6, <2>1, TrailSteps
  <2> QED
    BY <1>1, <1>3, <1>5, <2>2
<1>8. Trails(op.key)' = Trails(op.key)
  BY TrailsStay
<1>9. Trails(op.key)'[Len(path')] = Copied'
  BY <1>1, <1>7, <1>8
<1>10. \A i \in 1 .. Len(path) + 1 : Copied'[i] = Copied[i]
  <2> DEFINE x == get_node(file, file[page].children[s])
  <2>1. x \in Nodes
    <3> DEFINE q == file[page].children[s]
    <3>1. file[page].children[s] = q
      OBVIOUS
    <3> HIDE DEF q
    <3>2. IsTreeWith(file, root, c, h) /\ h \in Nat
      BY AtTree
    <3>3. q \in DOMAIN c
      BY <1>1, <3>1, <3>2, ChildOfTree
    <3>4. get_node(file, q) \in Nodes
      BY <1>2, <3>3, NodeOfCollection
    <3> QED
      BY <3>4 DEF q
  <2> HIDE DEF x
  <2>2. \A i \in 1 .. Len(Copied) : Append(Copied, x)[i] = Copied[i]
    BY <1>1, <2>1, AppendProperties
  <2> QED
    BY <1>1, <1>5, <2>2 DEF x
<1>11. path'[Len(path) + 1] = s /\ \A i \in 1 .. Len(path) : path'[i] = path[i]
  <2>1. path \in Seq(Nat) /\ s \in Nat
    BY AtPage
  <2> QED
    BY <2>1, AppendProperties
<1> QED
  BY <1>1, <1>9, <1>10, <1>11

LEMMA GoDownContinues ==
  ASSUME NEW c, NEW h, HasTree(c, h), GoDown
  PROVE  Continues(c, ItemsOf(file, c))
<1> DEFINE n == get_node(file, page)  pos == KeyPosition(n, op.key)
<1>1. /\ pc \in {"find", "verify"} /\ stream = "good" /\ page \in DOMAIN file
      /\ ~find_key_in_node(n, op.key).found /\ ~is_leaf(n)
      /\ page' = n.children[pos] /\ path' = Append(path, pos)
      /\ UNCHANGED <<file, freelist, root, pc, op, stream>>
  BY DEF GoDown, Searching, Readable, At, find_key_in_node, dal_vars
<1>2. CASE pc = "verify"
  BY <1>1, <1>2, QuietStep
<1>3. CASE pc = "find"
  <2>1. SafeCall(op) /\ DescentOK /\ op.key \in Key
    BY <1>1, <1>3, AtDescent
  <2>2. /\ page \in DOMAIN c /\ Len(path) \in Nat /\ Len(path) <= h /\ Copied \in Seq(Nodes)
        /\ Len(Copied) = Len(path) + 1 /\ Last(Copied) = n /\ Copied # <<>>
    BY <1>3, AtPage
  <2>3. /\ IsTreeOf(c, h) /\ h \in Nat /\ h <= MaxDepth /\ MaxDepth \in Nat
        /\ IsTreeWith(file, root, c, h)
    BY AtTree, CollectionAssumption
  <2>4. /\ n \in Nodes /\ n.items = file[page].items /\ n.children = file[page].children
        /\ n.items \in Seq(Item)
    BY <2>2, <2>3, NodeOfCollection
  <2>5. pos \in 1 .. Len(file[page].children)
    <3>1. pos \in 1 .. Len(n.items) + 1
      BY <2>4, KeyPositionInRange
    <3>2. Len(file[page].children) = Len(file[page].items) + 1
      <4>1. is_leaf(file[page]) <=> Len(file[page].children) = 0
        BY <2>2, <2>3, NodeOfTree
      <4>2. ~is_leaf(file[page])
        BY <1>1, <2>4 DEF is_leaf
      <4> QED
        BY <2>2, <2>3, <4>1, <4>2, NodeOfTree
    <3> QED
      BY <2>4, <3>1, <3>2
  <2>6. \A i \in 1 .. Len(path) : /\ ~find_key_in_node(Copied[i], op.key).found
                                  /\ path[i] = KeyPosition(Copied[i], op.key)
    BY <1>3, <2>1 DEF DescentOK, FoundIn
  <2>7. pos = NextSlot(Copied, op.key)
    <3>1. \A i \in 1 .. Len(Copied) - 1 : ~find_key_in_node(Copied[i], op.key).found
      BY <2>2, <2>6
    <3> QED
      BY <2>2, <3>1, SlotTaken
  <2> HIDE DEF pos
  <2>8. /\ Trails(op.key)'[Len(path')] = Copied' /\ Len(path') = Len(path) + 1
        /\ path'[Len(path) + 1] = pos /\ \A i \in 1 .. Len(path) : path'[i] = path[i]
        /\ \A i \in 1 .. Len(path) + 1 : Copied'[i] = Copied[i]
    <3>1. path' = Append(path, pos) /\ page' = file[page].children[pos]
      BY <1>1, <2>4
    <3> HIDE DEF n
    <3> QED
      BY <1>1, <1>3, <2>5, <2>7, <3>1, TrailGoesOn
  <2>9. Walk(root, op.key)'[Len(path')] = get_node(file, page)'
    <3>1. Walk(root, op.key)[Len(path)] = n
      BY <1>3, <2>1 DEF DescentOK
    <3>2. Len(path) \in 0 .. MaxDepth - 1
      <4>1. Len(path) + 1 <= h
        BY <1>3, <2>5, AtPage
      <4> QED
        BY <2>2, <2>3, <4>1
    <3>3. ~Stops(n, op.key)
      BY <1>1 DEF Stops
    <3>4. Walk(root, op.key)[Len(path) + 1] = get_node(file, n.children[pos])
      BY <2>4, <3>1, <3>2, <3>3, WalkSteps DEF pos
    <3>5. Walk(root, op.key)' = Walk(root, op.key)
      BY <1>1, TrailsStay
    <3>6. get_node(file, page)' = get_node(file, n.children[pos])
      BY <1>1 DEF pos
    <3> QED
      BY <2>8, <3>4, <3>5, <3>6
  <2>10. ASSUME NEW i \in 1 .. Len(path')
         PROVE  /\ ~find_key_in_node(Copied'[i], op'.key).found
                /\ path'[i] = KeyPosition(Copied'[i], op'.key)
    <3>1. i \in 1 .. Len(path) + 1 /\ Copied'[i] = Copied[i]
      BY <2>8, <2>10
    <3>2. /\ ~find_key_in_node(Copied[i], op.key).found
          /\ path'[i] = KeyPosition(Copied[i], op.key)
      <4>1. CASE i \in 1 .. Len(path)
        BY <4>1, <2>6, <2>8
      <4>2. CASE i = Len(Copied)
        <5>1. Copied[i] = n
          BY <4>2, <2>2, FrontProperties
        <5>2. path'[i] = pos
          BY <4>2, <2>2, <2>8
        <5>3. path'[i] = KeyPosition(n, op.key)
          BY <5>2 DEF pos
        <5> HIDE DEF n
        <5> QED
          BY <5>1, <5>3, <1>1
      <4> QED
        BY <2>2, <3>1, <4>1, <4>2
    <3> QED
      BY <1>1, <3>1, <3>2
  <2>11. DescentOK'
    BY <1>1, <1>3, <2>8, <2>9, <2>10 DEF DescentOK, FoundIn
  <2>12. GuardOK'
    <3>1. SafeCall(op)' <=> SafeCall(op)
      <4>1. \A o : SafeCall(o)' <=> SafeCall(o)
        BY <1>1, SafeCallStays
      <4> QED
        BY <1>1, <4>1
    <3> QED
      BY <2>1, <3>1 DEF GuardOK
  <2>13. StreamOK' /\ CallOK(c, h)'
    BY <1>1, <1>3, <2>11, <2>12 DEF StreamOK, CallOK
  <2> QED
    BY <1>1, <2>13, SameTree
<1> QED
  BY <1>1, <1>2, <1>3

\* A search that is over is at the node SearchEnd names.
LEMMA SearchIsOver ==
  ASSUME NEW c, NEW h, HasTree(c, h), StopSearch, pc = "find",
         NEW n, n = get_node(file, page)
  PROVE  /\ stream = "good" /\ UNCHANGED <<file, freelist, root, op, stream>>
         /\ SafeCall(op) /\ SafeCall(op)' /\ DescentOK /\ op.key \in Key
         /\ IsPresent(op.key) <=> find_key_in_node(n, op.key).found
         /\ Len(path) < MaxDepth
         /\ node' = n /\ index' = KeyPosition(n, op.key)
<1>1. /\ stream = "good" /\ UNCHANGED <<file, freelist, root, op, stream>>
      /\ node' = n /\ index' = KeyPosition(n, op.key) /\ Stops(n, op.key) /\ ~StepGoesAstray
  BY DEF StopSearch, Searching, Readable, At, find_key_in_node, dal_vars, Stops, Proceeds
<1>2. SafeCall(op) /\ DescentOK /\ op.key \in Key
  BY <1>1, AtDescent
<1>3. SafeCall(op)'
  <2>1. \A o : SafeCall(o)' <=> SafeCall(o)
    BY <1>1, SafeCallStays
  <2> QED
    BY <1>1, <1>2, <2>1
<1>4. page \in DOMAIN c /\ Len(path) \in Nat /\ Len(path) <= h
  BY AtPage
<1>5. IsTreeOf(c, h) /\ h \in Nat /\ h <= MaxDepth /\ MaxDepth \in Nat /\ root # 0
  BY AtTree, CollectionAssumption DEF HasTree
<1>6. Len(path) < MaxDepth
  BY <1>1, <1>4, <1>5 DEF StepGoesAstray, StackIsExhausted
<1>7. n \in Nodes
  BY <1>4, <1>5, NodeOfCollection
<1>8. Walk(root, op.key)[Len(path)] = n
  BY <1>2 DEF DescentOK
<1>9. Walk(root, op.key)[MaxDepth] = n
  <2>1. Len(path) \in 0 .. MaxDepth /\ MaxDepth \in Len(path) .. MaxDepth
    BY <1>4, <1>5
  <2> QED
    BY <1>1, <1>7, <1>8, <2>1, WalkSteps
<1>10. IsPresent(op.key) <=> find_key_in_node(n, op.key).found
  BY <1>5, <1>9 DEF IsPresent, IsPresentFrom, SearchEndFrom
<1> QED
  BY <1>1, <1>2, <1>3, <1>6, <1>10

\* It goes on to the step that changes the node, or returns.
LEMMA StopSearchContinues ==
  ASSUME NEW c, NEW h, HasTree(c, h), StopSearch
  PROVE  Continues(c, ItemsOf(file, c))
<1> DEFINE n == get_node(file, page)  pos == KeyPosition(n, op.key)
<1>1. UNCHANGED <<file, freelist, root>>
  BY DEF StopSearch, dal_vars
<1>2. CASE pc' = "return"
  BY <1>1, <1>2, QuietStep
<1>3. CASE pc' # "return"
  <2>1. /\ pc = "find"
        /\ \/ /\ op.kind = "put" /\ pc' = "insert" /\ UNCHANGED <<page, path>>
           \/ /\ op.kind = "remove" /\ pc' = "remove" /\ UNCHANGED <<page, path>>
              /\ find_key_in_node(n, op.key).found
           \/ /\ op.kind = "remove" /\ pc' = "predecessor"
              /\ find_key_in_node(n, op.key).found /\ ~is_leaf(n)
              /\ page' = n.children[pos] /\ path' = Append(path, pos)
    <3>1. pc = "verify" => op.kind = "remove"
      BY Running DEF HasTree, StepOK
    <3> QED
      BY <1>3, <3>1 DEF StopSearch, Searching, ReturnWith, At, find_key_in_node
  <2>2. find_key_in_node(n, op.key).found \/ is_leaf(n)
    BY DEF StopSearch
  <2>3. /\ stream = "good" /\ UNCHANGED <<file, freelist, root, op, stream>>
        /\ SafeCall(op) /\ SafeCall(op)' /\ DescentOK /\ op.key \in Key
        /\ IsPresent(op.key) <=> find_key_in_node(n, op.key).found
        /\ Len(path) < MaxDepth
        /\ node' = n /\ index' = pos
    BY <2>1, SearchIsOver
  <2>4. /\ page \in DOMAIN c /\ Len(path) \in Nat /\ Len(path) <= h /\ Copied \in Seq(Nodes)
        /\ Len(Copied) = Len(path) + 1 /\ Last(Copied) = n /\ Copied # <<>>
        /\ c[page].depth = Len(path)
    BY <2>1, AtPage
  <2>5. /\ IsTreeOf(c, h) /\ h \in Nat /\ h <= MaxDepth /\ MaxDepth \in Nat
        /\ IsTreeWith(file, root, c, h)
    BY AtTree, CollectionAssumption
  <2>6. /\ n \in Nodes /\ n.items = file[page].items /\ n.children = file[page].children
        /\ n.items \in Seq(Item) /\ (is_leaf(n) <=> c[page].depth = h)
    BY <2>4, <2>5, NodeOfCollection
  <2>7. \A i \in 1 .. Len(path) : /\ ~find_key_in_node(Copied[i], op.key).found
                                  /\ path[i] = KeyPosition(Copied[i], op.key)
    BY <2>1, <2>3 DEF DescentOK, FoundIn
  <2>8. Trails(op.key)[Len(path)] = Copied
    BY <2>1, <2>3 DEF DescentOK
  <2>9. Trails(op.key)' = Trails(op.key)
    BY <2>3, TrailsStay
  <2>10. GuardOK' /\ StreamOK'
    BY <2>3 DEF GuardOK, StreamOK
  <2> HIDE DEF pos, n
  <2>11. CASE op.kind = "put" /\ pc' = "insert" /\ UNCHANGED <<page, path>>
    <3>1. ~find_key_in_node(n, op.key).found
      <4>1. root # 0
        BY DEF HasTree
      <4>2. SafePut([key |-> op.key, value |-> op.value])
        BY <2>3, <2>11 DEF SafeCall
      <4>3. ~IsPresent(op.key)
        BY <4>1, <4>2 DEF SafePut
      <4> QED
        BY <2>3, <4>3
    <3>2. is_leaf(n) /\ h < MaxDepth
      BY <2>2, <2>3, <2>4, <2>6, <3>1
    <3>3. UNCHANGED Copied
      BY <2>3, <2>11 DEF Copied
    <3>4. DescentOK'
      BY <2>3, <2>7, <2>8, <2>9, <2>11, <3>2, <3>3 DEF DescentOK, FoundIn, pos
    <3>5. CallOK(c, h)'
      BY <2>10, <2>11, <3>2, <3>4 DEF CallOK
    <3> QED
      BY <1>1, <2>10, <3>5, SameTree
  <2>12. CASE /\ op.kind = "remove" /\ pc' = "remove" /\ UNCHANGED <<page, path>>
              /\ find_key_in_node(n, op.key).found
    <3>1. UNCHANGED Copied
      BY <2>3, <2>12 DEF Copied
    <3>2. DescentOK'
      BY <2>3, <2>7, <2>8, <2>9, <2>12, <3>1 DEF DescentOK, FoundIn, pos
    <3>3. CallOK(c, h)'
      BY <2>10, <2>12, <3>2 DEF CallOK
    <3> QED
      BY <1>1, <2>10, <3>3, SameTree
  <2>13. CASE /\ op.kind = "remove" /\ pc' = "predecessor"
              /\ find_key_in_node(n, op.key).found /\ ~is_leaf(n)
              /\ page' = n.children[pos] /\ path' = Append(path, pos)
    <3>1. pos \in 1 .. Len(file[page].children)
      <4>1. pos \in 1 .. Len(n.items)
        BY <2>6, <2>13, KeyFound DEF pos
      <4>2. Len(file[page].children) = Len(file[page].items) + 1
        <5>1. is_leaf(file[page]) <=> Len(file[page].children) = 0
          BY <2>4, <2>5, NodeOfTree
        <5>2. ~is_leaf(file[page])
          BY <2>13, <2>6 DEF is_leaf
        <5> QED
          BY <2>4, <2>5, <5>1, <5>2, NodeOfTree
      <4>3. Len(file[page].items) \in Nat
        BY <2>4, <2>5, NodeOfTree
      <4> QED
        BY <2>6, <4>1, <4>2, <4>3
    <3>2. pos = NextSlot(Copied, op.key)
      <4>1. \A i \in 1 .. Len(Copied) - 1 : ~find_key_in_node(Copied[i], op.key).found
        BY <2>4, <2>7
      <4> QED
        BY <2>4, <4>1, SlotTaken DEF pos
    <3>3. /\ Trails(op.key)'[Len(path')] = Copied' /\ Len(path') = Len(path) + 1
          /\ path'[Len(path) + 1] = pos /\ \A i \in 1 .. Len(path) : path'[i] = path[i]
          /\ \A i \in 1 .. Len(path) + 1 : Copied'[i] = Copied[i]
      <4>1. path' = Append(path, pos) /\ page' = file[page].children[pos]
        BY <2>6, <2>13
      <4> QED
        BY <2>1, <2>3, <3>1, <3>2, <4>1, TrailGoesOn
    <3>4. Copied'[Len(path) + 1] = n
      <4>1. Len(path) + 1 \in 1 .. Len(path) + 1
        BY <2>4
      <4>2. Copied[Len(path) + 1] = n
        BY <2>4, FrontProperties
      <4> QED
        BY <3>3, <4>1, <4>2
    <3>5. \A m \in 1 .. Len(path) + 1 - 1 : ~find_key_in_node(Copied'[m], op'.key).found
      <4>1. \A m \in 1 .. Len(path) + 1 - 1 : m \in 1 .. Len(path) /\ m \in 1 .. Len(path) + 1
        BY <2>4
      <4> QED
        BY <2>3, <2>7, <3>3, <4>1
    <3>6. \E i \in 1 .. Len(path') :
            /\ Copied'[i] = node' /\ path'[i] = index'
            /\ \A m \in 1 .. i - 1 : ~find_key_in_node(Copied'[m], op'.key).found
            /\ \A m \in i + 1 .. Len(path') : path'[m] = Len(Copied'[m].children)
      <4>1. Len(path) + 1 \in 1 .. Len(path')
        BY <2>4, <3>3
      <4>2. \A m \in Len(path) + 1 + 1 .. Len(path') : FALSE
        BY <2>4, <3>3
      <4> QED
        BY <2>3, <3>3, <3>4, <3>5, <4>1, <4>2
    <3>7. DescentOK'
      BY <2>3, <2>13, <3>3, <3>6 DEF DescentOK, FoundIn, pos
    <3>8. CallOK(c, h)'
      BY <2>10, <2>13, <3>7 DEF CallOK
    <3> QED
      BY <1>1, <2>10, <3>8, SameTree
  <2> QED
    BY <2>1, <2>11, <2>12, <2>13
<1> QED
  BY <1>2, <1>3

LEMMA DescendContinues ==
  ASSUME NEW c, NEW h, HasTree(c, h), DescendToPredecessor
  PROVE  Continues(c, ItemsOf(file, c))
<1> DEFINE n == get_node(file, page)  s == Len(n.children)
<1>1. /\ pc = "predecessor" /\ ~is_leaf(n)
      /\ page' = Last(n.children) /\ path' = Append(path, s)
      /\ UNCHANGED <<file, freelist, root, pc, op, stream, node, index>>
  BY DEF DescendToPredecessor, At, dal_vars
<1>2. stream = "good"
  BY <1>1 DEF HasTree, TreeInvariantWith, StreamOK
<1>3. SafeCall(op) /\ DescentOK /\ op.key \in Key
  BY <1>1, <1>2, AtDescent
<1>4. /\ page \in DOMAIN c /\ Len(path) \in Nat /\ Copied \in Seq(Nodes)
      /\ Len(Copied) = Len(path) + 1 /\ Last(Copied) = n /\ Copied # <<>>
  BY <1>1, AtPage
<1>5. IsTreeOf(c, h) /\ h \in Nat /\ IsTreeWith(file, root, c, h)
  BY AtTree
<1>6. n \in Nodes /\ n.children = file[page].children
  BY <1>4, <1>5, NodeOfCollection
<1>7. s \in 1 .. Len(file[page].children) /\ Last(n.children) = n.children[s]
  <2>1. n.children \in Seq(Nat) /\ n.children # <<>>
    BY <1>1, <1>6 DEF Nodes, is_leaf
  <2>2. Len(n.children) \in Nat \ {0} /\ Last(n.children) = n.children[Len(n.children)]
    BY <2>1, FrontProperties
  <2> QED
    BY <1>6, <2>2
<1>8. /\ FoundIn(node) /\ index = KeyPosition(node, op.key)
  BY <1>1, <1>3 DEF DescentOK
<1>9. PICK i \in 1 .. Len(path) :
         /\ Copied[i] = node /\ path[i] = index
         /\ \A m \in 1 .. i - 1 : ~find_key_in_node(Copied[m], op.key).found
         /\ \A m \in i + 1 .. Len(path) : path[m] = Len(Copied[m].children)
  BY <1>1, <1>3 DEF DescentOK, FoundIn
<1>10. s = NextSlot(Copied, op.key)
  <2>1. i \in 1 .. Len(Copied) - 1 /\ find_key_in_node(Copied[i], op.key).found
    BY <1>4, <1>8, <1>9 DEF FoundIn
  <2> QED
    BY <1>4, <2>1, SlotTaken
<1> HIDE DEF s, n
<1>11. /\ Trails(op.key)'[Len(path')] = Copied' /\ Len(path') = Len(path) + 1
       /\ path'[Len(path) + 1] = s /\ \A m \in 1 .. Len(path) : path'[m] = path[m]
       /\ \A m \in 1 .. Len(path) + 1 : Copied'[m] = Copied[m]
  <2>1. path' = Append(path, s) /\ page' = file[page].children[s]
    BY <1>1, <1>6, <1>7
  <2> QED
    BY <1>1, <1>2, <1>7, <1>10, <2>1, TrailGoesOn
<1>12. i \in 1 .. Len(path') /\ Copied'[i] = node' /\ path'[i] = index'
  BY <1>1, <1>4, <1>9, <1>11
<1>13. \A m \in 1 .. i - 1 : ~find_key_in_node(Copied'[m], op'.key).found
  <2>1. \A m \in 1 .. i - 1 : m \in 1 .. Len(path) + 1
    BY <1>4
  <2> QED
    BY <1>1, <1>9, <1>11, <2>1
<1>14. \A m \in i + 1 .. Len(path') : path'[m] = Len(Copied'[m].children)
  <2> SUFFICES ASSUME NEW m \in i + 1 .. Len(path') PROVE path'[m] = Len(Copied'[m].children)
    OBVIOUS
  <2>1. m \in 1 .. Len(path) + 1
    BY <1>4, <1>11
  <2>2. CASE m = Len(path) + 1
    <3>1. Copied[m] = n
      BY <2>2, <1>4, FrontProperties
    <3> QED
      BY <2>1, <2>2, <3>1, <1>11 DEF s
  <2>3. CASE m # Len(path) + 1
    <3>1. m \in i + 1 .. Len(path) /\ m \in 1 .. Len(path)
      BY <2>1, <2>3, <1>4
    <3> QED
      BY <2>1, <3>1, <1>9, <1>11
  <2> QED
    BY <2>2, <2>3
<1>15. \E j \in 1 .. Len(path') :
         /\ Copied'[j] = node' /\ path'[j] = index'
         /\ \A m \in 1 .. j - 1 : ~find_key_in_node(Copied'[m], op'.key).found
         /\ \A m \in j + 1 .. Len(path') : path'[m] = Len(Copied'[m].children)
  BY <1>12, <1>13, <1>14
<1>16. DescentOK'
  BY <1>1, <1>8, <1>11, <1>15 DEF DescentOK, FoundIn
<1>17. GuardOK' /\ StreamOK'
  <2>1. \A o : SafeCall(o)' <=> SafeCall(o)
    BY <1>1, SafeCallStays
  <2> QED
    BY <1>1, <1>2, <1>3, <2>1 DEF GuardOK, StreamOK
<1>18. CallOK(c, h)'
  BY <1>1, <1>16, <1>17 DEF CallOK
<1> QED
  BY <1>1, <1>17, <1>18, SameTree

\* A tree that a step leaves.
LEMMA TreeNow ==
  ASSUME NEW d, NEW g \in Nat, IsTreeWith(file', root', d, g), IsOrderedWith(file', d),
         g <= MaxDepth, Frees(freelist', DOMAIN d), root' # 0, StreamOK', CallOK(d, g)'
  PROVE  TreeInvariantWith(d, g)'
<1>1. TreeOK(d, g)' /\ ReleasedOK'
  <2>1. /\ DOMAIN d \subseteq 1 .. freelist'.max_page
        /\ DOMAIN d \intersect ToSet(freelist'.released_pages) = {}
        /\ \A i, j \in 1 .. Len(freelist'.released_pages) :
             freelist'.released_pages[i] = freelist'.released_pages[j] => i = j
    BY DEF Frees
  <2> QED
    BY <2>1 DEF TreeOK, ReleasedOK, Released
<1> QED
  BY <1>1 DEF TreeInvariantWith

\* Steps that end the process, or the call.
LEMMA SimpleStepContinues ==
  ASSUME NEW c, NEW h, HasTree(c, h),
         ReadFails \/ Close \/ Exit \/ Return \/ KeepRoot \/ GoAstray
  PROVE  Continues(c, ItemsOf(file, c))
<1>1. CASE proc' # "running"
  BY <1>1, EndsProcess
<1>2. CASE proc' = "running"
  <2>1. ~Exit /\ ~GoAstray /\ ~Quit(file)
    BY <1>2 DEF Exit, GoAstray, Quit, Stop
  <2>2. UNCHANGED <<file, freelist, root>> /\ pc' \in {"idle", "return", "verify"}
    BY <2>1 DEF ReadFails, Close, Return, KeepRoot, ReturnWith, At, dal_vars
  <2> QED
    BY <2>2, QuietStep
<1> QED
  BY <1>1, <1>2

-----------------------------------------------------------------------------
\* The copies, between steps that write.

\* Those the loop has not come to are fresh.
LEMMA FreshAbove ==
  ASSUME NEW c, CopiesOf(c), NEW n \in 1 .. level + 1, n <= level
  PROVE  ancestors[n] = get_node(file, ancestors[n].page)
BY DEF CopiesOf, IsFresh

LEMMA KeepChildContinues ==
  ASSUME NEW c, NEW h, HasTree(c, h), KeepChild
  PROVE  Continues(c, ItemsOf(file, c))
<1>1. /\ level > 0 /\ pc \in {"split", "rebalance"} /\ level' = level - 1
      /\ UNCHANGED <<file, freelist, root, pc, op, stream, path, ancestors>>
  BY DEF KeepChild, At, dal_vars
<1>2. StreamOK /\ CallOK(c, h)
  BY DEF HasTree, TreeInvariantWith
<1>3. CopiesOf(c)
  BY <1>1, <1>2 DEF CallOK
<1>4. level \in Nat
  BY DEF HasTree, IInv, TypeOK
<1>5. CopiesOf(c)'
  <2>1. /\ ancestors[1].page = root
        /\ \A n \in 1 .. Len(path) : ancestors[n].children[path[n]] = ancestors[n + 1].page
        /\ \A n \in 1 .. level + 1 :
             /\ ancestors[n].page \in DOMAIN c
             /\ c[ancestors[n].page].depth = n - 1
    BY <1>3 DEF CopiesOf
  <2>2. \A n \in 1 .. level - 1 + 1 :
          n \in 1 .. level + 1 /\ ancestors[n] = get_node(file, ancestors[n].page)
    BY <1>1, <1>3, <1>4, FreshAbove
  <2> QED
    BY <1>1, <2>1, <2>2 DEF CopiesOf
<1>6. StreamOK' /\ CallOK(c, h)'
  <2>1. GuardOK' /\ DescentOK'
    BY <1>1 DEF GuardOK, DescentOK
  <2>2. pc = "split" => h < MaxDepth /\ SplitsApart(ancestors)'
    BY <1>1, <1>2 DEF CallOK, SplitsApart
  <2>3. pc = "rebalance" => RebalancesApart(ancestors)'
    BY <1>1, <1>2 DEF CallOK, RebalancesApart
  <2> QED
    BY <1>1, <1>2, <1>5, <2>1, <2>2, <2>3 DEF StreamOK, CallOK
<1> QED
  BY <1>1, <1>6, SameTree

-----------------------------------------------------------------------------
\* Steps that change items.

\* File g holds the tree with other items, those in I, in the same pages.
Edits(c, h, g, I) ==
  \E d : /\ SamePlaces(c, d) /\ SameChildren(file, g, DOMAIN c)
         /\ IsTreeWith(g, root, d, h) /\ IsOrderedWith(g, d)
         /\ DOMAIN c \subseteq DOMAIN g /\ ItemsOf(g, d) = I

\* Copies made of the nodes along a path are fresh.
CopiesAre(f, r, c, slots, t) ==
  /\ t[1].page = r
  /\ \A n \in 1 .. Len(slots) : t[n].children[slots[n]] = t[n + 1].page
  /\ \A n \in 1 .. Len(slots) + 1 :
       /\ t[n].page \in DOMAIN c /\ c[t[n].page].depth = n - 1
       /\ t[n] = get_node(f, t[n].page)

LEMMA CopiesMade ==
  ASSUME NEW f, NEW c, DOMAIN c \subseteq Nat, DOMAIN c \subseteq DOMAIN f,
         NEW r, NEW h \in Nat, IsTreeWith(f, r, c, h),
         NEW slots \in Seq(Nat), NEW w, IsRoute(f, r, c, slots, w),
         NEW t, t = get_nodes(f, r, slots)
  PROVE  CopiesAre(f, r, c, slots, t)
<1>1. StoredIn(f, DOMAIN c, DOMAIN c)
  BY DEF IsTreeWith, StoredIn
<1>2. /\ Len(slots) \in Nat
      /\ \A i \in 1 .. Len(slots) + 1 : t[i] = get_node(f, w[i])
  BY <1>1, CopiesOfRoute
<1>3. /\ w \in [1 .. Len(slots) + 1 -> DOMAIN c] /\ w[1] = r
      /\ \A i \in 1 .. Len(slots) + 1 : c[w[i]].depth = i - 1
      /\ \A i \in 1 .. Len(slots) : f[w[i]].children[slots[i]] = w[i + 1]
  BY DEF IsRoute
<1>4. ASSUME NEW n \in 1 .. Len(slots) + 1
      PROVE  t[n].page = w[n] /\ t[n].children = f[w[n]].children /\ w[n] \in DOMAIN c
  <2>1. w[n] \in DOMAIN c
    BY <1>3
  <2>2. get_node(f, w[n]).page = w[n] /\ get_node(f, w[n]).children = f[w[n]].children
    BY <1>1, <2>1, GetNodeOf
  <2> QED
    BY <1>2, <2>1, <2>2
<1>5. 1 \in 1 .. Len(slots) + 1 /\ \A n \in 1 .. Len(slots) : n \in 1 .. Len(slots) + 1
                                                             /\ n + 1 \in 1 .. Len(slots) + 1
  BY <1>2
<1>6. t[1].page = r
  BY <1>3, <1>4, <1>5
<1>7. ASSUME NEW n \in 1 .. Len(slots) PROVE t[n].children[slots[n]] = t[n + 1].page
  <2>1. t[n].children = f[w[n]].children /\ t[n + 1].page = w[n + 1]
    BY <1>4, <1>5
  <2> QED
    BY <1>3, <2>1
<1>8. \A n \in 1 .. Len(slots) + 1 :
       /\ t[n].page \in DOMAIN c /\ c[t[n].page].depth = n - 1
       /\ t[n] = get_node(f, t[n].page)
  BY <1>2, <1>3, <1>4
<1> QED
  BY <1>6, <1>7, <1>8 DEF CopiesAre

\* A route of the tree is one of the tree with other items.
LEMMA RouteMoves ==
  ASSUME NEW f, NEW r, NEW c, NEW slots \in Seq(Nat), NEW w, IsRoute(f, r, c, slots, w),
         NEW g, SameChildren(f, g, DOMAIN c), NEW d, SamePlaces(c, d)
  PROVE  IsRoute(g, r, d, slots, w)
<1>1. /\ w \in [1 .. Len(slots) + 1 -> DOMAIN c] /\ w[1] = r
      /\ \A i \in 1 .. Len(slots) + 1 : c[w[i]].depth = i - 1
      /\ \A i \in 1 .. Len(slots) :
           /\ slots[i] \in 1 .. Len(g[w[i]].children)
           /\ g[w[i]].children[slots[i]] = w[i + 1]
           /\ c[w[i + 1]].up = w[i] /\ c[w[i + 1]].at = slots[i]
  <2>1. IsRoute(g, r, c, slots, w)
    BY RouteKept
  <2> QED
    BY <2>1 DEF IsRoute
<1>2. /\ DOMAIN d = DOMAIN c
      /\ \A q \in DOMAIN c : d[q].depth = c[q].depth /\ d[q].up = c[q].up /\ d[q].at = c[q].at
  BY DEF SamePlaces
<1>3. Len(slots) \in Nat
  BY LenProperties
<1>4. \A i \in 1 .. Len(slots) + 1 : w[i] \in DOMAIN c
  BY <1>1
<1>5. \A i \in 1 .. Len(slots) + 1 : d[w[i]].depth = i - 1
  BY <1>1, <1>2, <1>4
<1>6. ASSUME NEW i \in 1 .. Len(slots) PROVE d[w[i + 1]].up = w[i] /\ d[w[i + 1]].at = slots[i]
  <2>1. w[i + 1] \in DOMAIN c
    BY <1>3, <1>4
  <2> QED
    BY <1>1, <1>2, <2>1
<1> QED
  BY <1>1, <1>2, <1>5, <1>6 DEF IsRoute

\* What the copies are then rebalanced by.
IsApart(step, t, h) ==
  IF step = "split" THEN SplitsApart(t) /\ h < MaxDepth ELSE RebalancesApart(t)

\* The tree after such a step, with the copies made from it.
LEMMA EditContinues ==
  ASSUME NEW c, NEW h, HasTree(c, h), pc \in {"insert", "remove", "predecessor"},
         NEW I, Edits(c, h, file', I),
         UNCHANGED <<freelist, root, path, stream>>, stream = "good",
         ancestors' = get_nodes(file', root, path), level' = Len(path),
         pc' \in {"split", "rebalance"}, IsApart(pc', ancestors', h)
  PROVE  Continues(c, I)
<1>1. PICK d : /\ SamePlaces(c, d) /\ SameChildren(file, file', DOMAIN c)
               /\ IsTreeWith(file', root, d, h) /\ IsOrderedWith(file', d)
               /\ DOMAIN c \subseteq DOMAIN file' /\ ItemsOf(file', d) = I
  BY DEF Edits
<1>2. /\ h \in Nat /\ h <= MaxDepth /\ DOMAIN c \subseteq Nat
      /\ Frees(freelist, DOMAIN c) /\ root # 0
  BY AtTree DEF HasTree
<1>3. PICK w : IsRoute(file, root, c, path, w)
  BY AtPage DEF IsAt
<1>4. path \in Seq(Nat)
  BY AtPage
<1>5. DOMAIN d = DOMAIN c
  BY <1>1 DEF SamePlaces
<1>6. IsRoute(file', root, d, path, w)
  BY <1>1, <1>3, <1>4, RouteMoves
<1>7. CopiesAre(file', root, d, path, ancestors')
  <2> DEFINE g == file'
  <2>1. /\ DOMAIN d \subseteq Nat /\ DOMAIN d \subseteq DOMAIN g /\ IsTreeWith(g, root, d, h)
        /\ IsRoute(g, root, d, path, w) /\ ancestors' = get_nodes(g, root, path)
    BY <1>1, <1>2, <1>5, <1>6
  <2> HIDE DEF g
  <2>2. CopiesAre(g, root, d, path, ancestors')
    BY <2>1, <1>2, <1>4, CopiesMade
  <2> QED
    BY <2>2 DEF g
<1>8. CopiesOf(d)'
  BY <1>7 DEF CopiesAre, CopiesOf
<1>9. GuardOK' /\ DescentOK' /\ StreamOK'
  BY DEF GuardOK, DescentOK, StreamOK
<1>10. CallOK(d, h)'
  <2>1. pc' = "split" => SplitsApart(ancestors') /\ h < MaxDepth
    BY DEF IsApart
  <2>2. pc' = "rebalance" => RebalancesApart(ancestors')
    BY DEF IsApart
  <2>3. pc' = "split" => SplitsApart(ancestors)'
    BY <2>1 DEF SplitsApart
  <2>4. pc' = "rebalance" => RebalancesApart(ancestors)'
    BY <2>2 DEF RebalancesApart
  <2> QED
    BY <1>8, <1>9, <2>1, <2>3, <2>4 DEF CallOK
<1>11. TreeInvariantWith(d, h)'
  BY <1>1, <1>2, <1>5, <1>9, <1>10, TreeNow
<1> QED
  BY <1>1, <1>2, <1>5, <1>11 DEF Continues

\* The tree when the call has been cut short after it.
LEMMA EditCutShort ==
  ASSUME NEW c, NEW h, HasTree(c, h), NEW I, Edits(c, h, file', I),
         UNCHANGED <<freelist, root>>, stream' # "good", pc' = "return", NEW J
  PROVE  Continues(c, J)
<1>1. PICK d : /\ SamePlaces(c, d) /\ IsTreeWith(file', root, d, h) /\ IsOrderedWith(file', d)
  BY DEF Edits
<1>2. /\ h \in Nat /\ h <= MaxDepth /\ Frees(freelist, DOMAIN c) /\ root # 0
  BY AtTree DEF HasTree
<1>3. DOMAIN d = DOMAIN c
  BY <1>1 DEF SamePlaces
<1>4. StreamOK' /\ CallOK(d, h)'
  BY NoClaim
<1>5. TreeInvariantWith(d, h)'
  BY <1>1, <1>2, <1>3, <1>4, TreeNow
<1> QED
  BY <1>2, <1>3, <1>5 DEF Continues

-----------------------------------------------------------------------------
\* The copies made after items have changed.

LEMMA CopiesAfter ==
  ASSUME NEW c, NEW h, HasTree(c, h), pc \in {"find", "insert", "remove", "predecessor", "verify"},
         NEW w, IsAt(c, w), NEW g, SameChildren(file, g, DOMAIN c), DOMAIN c \subseteq DOMAIN g,
         NEW t, t = get_nodes(g, root, path)
  PROVE  /\ t \in Seq(Nodes) /\ Len(t) = Len(path) + 1 /\ Len(path) \in Nat
         /\ \A i \in 1 .. Len(path) + 1 :
              /\ w[i] \in DOMAIN c
              /\ t[i] = get_node(g, w[i]) /\ Copied[i] = get_node(file, w[i])
         /\ \A i, j \in 1 .. Len(path) + 1 : w[i] = w[j] => i = j
         /\ w[Len(path) + 1] = page
<1>1. /\ DOMAIN c \subseteq Nat /\ IsTreeWith(file, root, c, h) /\ DOMAIN c \subseteq DOMAIN file
      /\ path \in Seq(Nat) /\ Len(path) \in Nat
  BY AtTree, AtPage
<1>2. IsRoute(file, root, c, path, w) /\ w[Len(path) + 1] = page
  BY DEF IsAt
<1>3. IsRoute(g, root, c, path, w)
  BY <1>1, <1>2, RouteKept
<1>4. StoredIn(file, DOMAIN c, DOMAIN c) /\ StoredIn(g, DOMAIN c, DOMAIN c)
  BY <1>1 DEF IsTreeWith, StoredIn, SameChildren
<1>5. \A i \in 1 .. Len(path) + 1 : Copied[i] = get_node(file, w[i])
  BY <1>1, <1>2, <1>4, CopiesOfRoute DEF Copied
<1>6. /\ t \in Seq(Nodes) /\ Len(t) = Len(path) + 1
      /\ \A i \in 1 .. Len(path) + 1 : t[i] = get_node(g, w[i])
  BY <1>1, <1>3, <1>4, CopiesOfRoute
<1>7. \A i \in 1 .. Len(path) + 1 : w[i] \in DOMAIN c /\ c[w[i]].depth = i - 1
  BY <1>2 DEF IsRoute
<1>8. \A i, j \in 1 .. Len(path) + 1 : w[i] = w[j] => i = j
  BY <1>1, <1>7
<1> QED
  BY <1>1, <1>2, <1>5, <1>6, <1>7, <1>8

\* A page that has not changed is read as before.
LEMMA ReadAgain ==
  ASSUME NEW f, NEW g, NEW q, g[q] = f[q]
  PROVE  get_node(g, q) = get_node(f, q)
BY DEF get_node

\* The trail of a call that has come to a leaf.
LEMMA TrailIsPath ==
  ASSUME NEW c, NEW h, HasTree(c, h), pc \in {"insert", "remove", "predecessor"},
         stream = "good", is_leaf(get_node(file, page))
  PROVE  Trail(op.key) = Copied
<1>1. Trails(op.key)[Len(path)] = Copied
  BY AtDescent
<1>2. /\ Copied \in Seq(Nodes) /\ Last(Copied) = get_node(file, page)
      /\ Len(path) \in Nat /\ Len(path) <= h
  BY AtPage
<1>3. h \in Nat /\ h <= MaxDepth /\ MaxDepth \in Nat
  BY AtTree, CollectionAssumption
<1>4. Len(path) \in 0 .. MaxDepth
  BY <1>2, <1>3
<1> QED
  BY <1>1, <1>2, <1>4, TrailSteps

-----------------------------------------------------------------------------
\* Inserting.

LEMMA InsertedItems ==
  ASSUME NEW m, NEW n, n.items \in Seq(Item), NEW i \in 1 .. Len(n.items) + 1, NEW x \in Item,
         m.items = InsertAt(n.items, i, x), NEW y
  PROVE  HasItem(m, y) <=> HasItem(n, y) \/ y = x
<1> DEFINE s == n.items  t == m.items
<1>1. HasInserted(t, s, i, x) /\ Len(s) \in Nat
  BY InsertAtHasInserted, LenProperties
<1> HIDE DEF s, t
<1>2. /\ Len(t) = Len(s) + 1 /\ t[i] = x /\ i \in 1 .. Len(s) + 1
      /\ \A j \in 1 .. i - 1 : t[j] = s[j]
      /\ \A j \in i + 1 .. Len(s) + 1 : t[j] = s[j - 1]
  BY <1>1 DEF HasInserted, s
<1>3. \A j \in 1 .. Len(t) : j = i \/ j \in 1 .. i - 1 \/ j \in i + 1 .. Len(s) + 1
  BY <1>1, <1>2
<1>4. ASSUME NEW j \in 1 .. Len(t) PROVE t[j] = x \/ \E l \in 1 .. Len(s) : s[l] = t[j]
  <2>1. CASE j = i
    BY <2>1, <1>2
  <2>2. CASE j \in 1 .. i - 1
    BY <2>2, <1>1, <1>2
  <2>3. CASE j \in i + 1 .. Len(s) + 1
    <3>1. j - 1 \in 1 .. Len(s)
      BY <2>3, <1>1, <1>2
    <3> QED
      BY <2>3, <3>1, <1>2
  <2> QED
    BY <2>1, <2>2, <2>3, <1>3
<1>5. ASSUME NEW l \in 1 .. Len(s) PROVE \E j \in 1 .. Len(t) : t[j] = s[l]
  <2>1. CASE l < i
    <3>1. l \in 1 .. i - 1 /\ l \in 1 .. Len(t)
      BY <2>1, <1>1, <1>2
    <3> QED
      BY <3>1, <1>2
  <2>2. CASE l >= i
    <3> DEFINE j == l + 1
    <3>1. j \in i + 1 .. Len(s) + 1 /\ j \in 1 .. Len(t) /\ j - 1 = l
      BY <2>2, <1>1, <1>2
    <3> HIDE DEF j
    <3>2. t[j] = s[l]
      BY <3>1, <1>2
    <3> QED
      BY <3>1, <3>2
  <2> QED
    BY <2>1, <2>2, <1>1, <1>2
<1>6. i \in 1 .. Len(t)
  BY <1>1, <1>2
<1>7. (\E j \in 1 .. Len(t) : t[j] = y) <=> (\E l \in 1 .. Len(s) : s[l] = y) \/ y = x
  BY <1>2, <1>4, <1>5, <1>6
<1> QED
  BY <1>7 DEF HasItem, s, t

\* The leaf and the item that goes into it.
LEMMA AtInsert ==
  ASSUME NEW c, NEW h, HasTree(c, h), pc = "insert"
  PROVE  /\ stream = "good" /\ node = get_node(file, page) /\ is_leaf(node)
         /\ page \in DOMAIN c /\ c[page].depth = h /\ Trail(op.key) = Copied
         /\ NewItem \in Item /\ NewItem.key = op.key /\ op.key \in Key
         /\ index = KeyPosition(node, op.key) /\ index \in 1 .. Len(file[page].items) + 1
         /\ ~KeyHeld(file, c, op.key) /\ SplitsApart(TrailAfterPut(Copied, NewItem))
         /\ h < MaxDepth
<1>1. /\ stream = "good" /\ op.kind = "put" /\ op \in Operation /\ node = get_node(file, page)
      /\ h < MaxDepth
  BY Running DEF HasTree, TreeInvariantWith, StreamOK, StepOK, SearchOK, CallOK
<1>2. SafeCall(op) /\ DescentOK /\ op.key \in Key
  BY <1>1, AtDescent
<1>3. is_leaf(node) /\ index = KeyPosition(node, op.key)
  BY <1>2 DEF DescentOK
<1>4. page \in DOMAIN c
  BY AtPage
<1>5. IsTreeOf(c, h) /\ root # 0
  BY AtTree DEF HasTree
<1>6. node.items = file[page].items /\ node.items \in Seq(Item) /\ c[page].depth = h
  BY <1>1, <1>3, <1>4, <1>5, NodeOfCollection
<1>7. index \in 1 .. Len(file[page].items) + 1
  BY <1>3, <1>6, KeyPositionInRange
<1>8. NewItem \in Item /\ NewItem.key = op.key
  <2>1. op.value \in Value
    BY <1>1, OperationKinds
  <2> QED
    BY <1>2, <2>1 DEF NewItem, Item
<1>9. Trail(op.key) = Copied
  BY <1>1, <1>3, TrailIsPath
<1>10. ~IsPresent(op.key) /\ SplitsApart(TrailAfterPut(Copied, NewItem))
  <2>1. SafePut([key |-> op.key, value |-> op.value])
    BY <1>1, <1>2 DEF SafeCall
  <2>2. NewItem = [key |-> op.key, value |-> op.value]
    BY DEF NewItem
  <2>3. SafePut(NewItem)
    BY <2>1, <2>2
  <2> QED
    BY <1>5, <1>8, <1>9, <2>3 DEF SafePut
<1>11. ~KeyHeld(file, c, op.key)
  BY <1>5, <1>10, PresentIsHeld
<1> QED
  BY <1>1, <1>2, <1>3, <1>4, <1>6, <1>7, <1>8, <1>9, <1>10, <1>11

\* What a key that is not in the tree does not find in a node of it.
LEMMA NotFoundAt ==
  ASSUME NEW c, NEW h, HasTree(c, h), NEW k \in Key, ~KeyHeld(file, c, k), NEW q \in DOMAIN c
  PROVE  Parts(file[q].items, KeyPosition(get_node(file, q), k), k)
<1> DEFINE n == get_node(file, q)
<1>1. IsTreeOf(c, h)
  BY AtTree
<1>2. n.items = file[q].items /\ n.items \in Seq(Item) /\ Ordered(n.items)
  BY <1>1, NodeOfCollection
<1> HIDE DEF n
<1>3. ~find_key_in_node(n, k).found
  <2>1. SUFFICES ASSUME find_key_in_node(n, k).found PROVE FALSE
    OBVIOUS
  <2>2. KeyPosition(n, k) \in 1 .. Len(n.items) /\ n.items[KeyPosition(n, k)].key = k
    BY <1>2, <2>1, KeyFound
  <2> QED
    BY <1>2, <2>2 DEF KeyHeld
<1>4. Parts(n.items, KeyPosition(n, k), k)
  BY <1>2, <1>3, KeyNotFound
<1> QED
  BY <1>2, <1>4 DEF n

\* The pages of the path.
OnRoute(w) == {w[i] : i \in 1 .. Len(path) + 1}

LEMMA RouteIsOnTheWay ==
  ASSUME NEW c, NEW h, HasTree(c, h), pc = "insert", NEW w, IsAt(c, w)
  PROVE  OnTheWay(file, root, c, OnRoute(w), op.key) /\ page \in OnRoute(w)
<1>1. /\ op.key \in Key /\ ~KeyHeld(file, c, op.key) /\ stream = "good"
  BY AtInsert
<1>2. DescentOK /\ Len(path) \in Nat
  BY <1>1, AtDescent, AtPage
<1>3. \A i \in 1 .. Len(path) : path[i] = KeyPosition(Copied[i], op.key)
  BY <1>2 DEF DescentOK
<1>4. /\ w \in [1 .. Len(path) + 1 -> DOMAIN c] /\ w[1] = root /\ w[Len(path) + 1] = page
      /\ \A i \in 1 .. Len(path) : c[w[i + 1]].up = w[i] /\ c[w[i + 1]].at = path[i]
  BY DEF IsAt, IsRoute
<1>5. \A i \in 1 .. Len(path) + 1 : Copied[i] = get_node(file, w[i])
  <2>1. SameChildren(file, file, DOMAIN c) /\ DOMAIN c \subseteq DOMAIN file
    BY AtTree DEF IsTreeWith, SameChildren
  <2> QED
    BY <2>1, CopiesAfter
<1>6. ASSUME NEW i \in 1 .. Len(path)
      PROVE  /\ c[w[i + 1]].up \in OnRoute(w)
             /\ Parts(file[c[w[i + 1]].up].items, c[w[i + 1]].at, op.key)
  <2>1. i \in 1 .. Len(path) + 1
    BY <1>2
  <2>2. w[i] \in DOMAIN c /\ w[i] \in OnRoute(w)
    BY <1>4, <2>1 DEF OnRoute
  <2>3. Parts(file[w[i]].items, KeyPosition(get_node(file, w[i]), op.key), op.key)
    BY <1>1, <2>2, NotFoundAt
  <2>4. path[i] = KeyPosition(get_node(file, w[i]), op.key)
    BY <1>3, <1>5, <2>1
  <2> QED
    BY <1>4, <2>2, <2>3, <2>4
<1>7. ASSUME NEW q \in OnRoute(w) \ {root}
      PROVE  c[q].up \in OnRoute(w) /\ Parts(file[c[q].up].items, c[q].at, op.key)
  <2>1. PICK j \in 1 .. Len(path) + 1 : q = w[j]
    BY <1>7 DEF OnRoute
  <2>2. j # 1
    BY <1>4, <1>7, <2>1
  <2> DEFINE i == j - 1
  <2>3. i \in 1 .. Len(path) /\ j = i + 1
    BY <1>2, <2>2
  <2> HIDE DEF i
  <2>4. q = w[i + 1]
    BY <2>1, <2>3
  <2> QED
    BY <1>6, <2>3, <2>4
<1>8. OnRoute(w) \subseteq DOMAIN c /\ page \in OnRoute(w)
  <2>1. Len(path) + 1 \in 1 .. Len(path) + 1
    BY <1>2
  <2> QED
    BY <1>4, <2>1 DEF OnRoute
<1> QED
  BY <1>7, <1>8 DEF OnTheWay

\* Node n is written, on page a, which keeps its children.
Rewrites(f, T, n, a, g) ==
  /\ FileOK(f, T) /\ T \subseteq DOMAIN f
  /\ n \in NodesOver(T, T) /\ IsShaped(n) /\ a \in T /\ n.page = a
  /\ n.children = f[a].children /\ g = Written(f, <<n>>)

LEMMA NodeRewritten ==
  ASSUME NEW f, NEW T, NEW n, NEW a, NEW g, Rewrites(f, T, n, a, g)
  PROVE  /\ ChangesOnly(f, g, T, a) /\ g[a].items = n.items /\ get_node(g, a) = n
         /\ T \subseteq DOMAIN g
  BY WrittenAlone DEF Rewrites

\* The copies made after the leaf has changed.
LEMMA CopiesWithLeaf ==
  ASSUME NEW c, NEW h, HasTree(c, h), pc \in {"insert", "remove", "predecessor"},
         NEW n, NEW g, Rewrites(file, DOMAIN c, n, page, g)
  PROVE  get_nodes(g, root, path) = Append(Front(Copied), n)
<1> DEFINE t == get_nodes(g, root, path)
<1>1. /\ ChangesOnly(file, g, DOMAIN c, page) /\ get_node(g, page) = n
      /\ DOMAIN c \subseteq DOMAIN g
  BY NodeRewritten
<1>2. SameChildren(file, g, DOMAIN c)
  BY <1>1, AtTree, ChangingKeepsChildren
<1>3. PICK w : IsAt(c, w)
  BY AtPage
<1>4. /\ t \in Seq(Nodes) /\ Len(t) = Len(path) + 1 /\ Len(path) \in Nat
      /\ \A i \in 1 .. Len(path) + 1 :
            /\ w[i] \in DOMAIN c
            /\ t[i] = get_node(g, w[i]) /\ Copied[i] = get_node(file, w[i])
      /\ \A i, j \in 1 .. Len(path) + 1 : w[i] = w[j] => i = j
      /\ w[Len(path) + 1] = page
  BY <1>1, <1>2, <1>3, CopiesAfter
<1>5. Copied \in Seq(Nodes) /\ Copied # <<>> /\ Len(Copied) = Len(path) + 1
  BY AtPage
<1> DEFINE u == Append(Front(Copied), n)
<1>6. /\ Front(Copied) \in Seq(Nodes) /\ Len(Front(Copied)) = Len(path)
      /\ \A i \in 1 .. Len(path) : Front(Copied)[i] = Copied[i]
  <2> DEFINE m == Copied
  <2>1. m \in Seq(Nodes) /\ m # <<>>
    BY <1>5
  <2> HIDE DEF m
  <2>2. /\ Front(m) \in Seq(Nodes) /\ Len(Front(m)) = Len(m) - 1
        /\ \A i \in 1 .. Len(m) - 1 : Front(m)[i] = m[i]
    BY <2>1, FrontProperties
  <2>3. Len(m) - 1 = Len(path)
    BY <1>4, <1>5 DEF m
  <2>4. /\ Front(m) \in Seq(Nodes) /\ Len(Front(m)) = Len(path)
        /\ \A i \in 1 .. Len(path) : Front(m)[i] = m[i]
    BY <2>2, <2>3
  <2> QED
    BY <2>4 DEF m
<1>7. Len(path) + 1 \in 1 .. Len(path) + 1 /\ t[Len(path) + 1] = n
  BY <1>1, <1>4
<1>8. n \in Nodes
  BY <1>4, <1>7, ElementOfSeq
<1>9. /\ u \in Seq(Nodes) /\ Len(u) = Len(path) + 1 /\ u[Len(path) + 1] = n
      /\ \A i \in 1 .. Len(path) : u[i] = Front(Copied)[i]
  BY <1>6, <1>8, AppendProperties
<1> HIDE DEF t, u
<1>10. ASSUME NEW i \in 1 .. Len(path) + 1 PROVE t[i] = u[i]
  <2>1. CASE i = Len(path) + 1
    BY <2>1, <1>7, <1>9
  <2>2. CASE i # Len(path) + 1
    <3>1. i \in 1 .. Len(path)
      BY <2>2, <1>4
    <3>2. w[i] # page /\ w[i] \in DOMAIN c
      BY <2>2, <1>4, <1>7
    <3>3. g[w[i]] = file[w[i]]
      BY <3>2, <1>1 DEF ChangesOnly
    <3>4. t[i] = Copied[i]
      BY <3>3, <1>4, ReadAgain
    <3> QED
      BY <3>1, <3>4, <1>6, <1>9
  <2> QED
    BY <2>1, <2>2
<1>11. t = u
  BY <1>4, <1>9, <1>10, SameSeq
<1> QED
  BY <1>11 DEF t, u

LEMMA InsertEdits ==
  ASSUME NEW c, NEW h, HasTree(c, h), pc = "insert",
         NEW g, g = Written(file, <<InsertedNode>>)
  PROVE  /\ Edits(c, h, g, ItemsOf(file, c) \union {NewItem})
         /\ SplitsApart(get_nodes(g, root, path))
<1> DEFINE n == InsertedNode  I == ItemsOf(file, c) \union {NewItem}
           t == get_nodes(g, root, path)
<1>1. /\ node = get_node(file, page) /\ is_leaf(node)
      /\ page \in DOMAIN c /\ c[page].depth = h
      /\ NewItem \in Item /\ NewItem.key = op.key /\ op.key \in Key
      /\ index = KeyPosition(node, op.key) /\ index \in 1 .. Len(file[page].items) + 1
      /\ ~KeyHeld(file, c, op.key) /\ SplitsApart(TrailAfterPut(Copied, NewItem))
  BY AtInsert
<1>2. /\ IsTreeWith(file, root, c, h) /\ IsOrderedWith(file, c) /\ h \in Nat
      /\ DOMAIN c \subseteq DOMAIN file /\ FileOK(file, DOMAIN c)
  BY AtTree
<1>3. /\ node \in NodesOver(DOMAIN c, DOMAIN c) /\ node.page = page
      /\ node.items = file[page].items /\ node.children = file[page].children
      /\ node.children = <<>>
  BY <1>1, <1>2, NodesOfTree DEF is_leaf
<1>4. /\ n \in NodesOver(DOMAIN c, DOMAIN c) /\ n.page = page
      /\ n.children = file[page].children /\ n.items = InsertAt(file[page].items, index, NewItem)
      /\ IsShaped(n)
  <2>1. node.items \in Seq(Item) /\ index \in 1 .. Len(node.items) + 1
    BY <1>1, <1>3 DEF NodesOver
  <2>2. /\ n \in NodesOver(DOMAIN c, DOMAIN c)
        /\ n.page = node.page /\ n.children = node.children
        /\ n.items = InsertAt(node.items, index, NewItem)
    BY <1>1, <1>3, <2>1, AddItemType DEF InsertedNode, add_item, NodesOver
  <2>3. IsShaped(n)
    BY <1>3, <2>2 DEF IsShaped, is_leaf
  <2> QED
    BY <1>3, <2>2, <2>3
<1> HIDE DEF n
<1>5. /\ ChangesOnly(file, g, DOMAIN c, page) /\ g[page].items = n.items /\ get_node(g, page) = n
      /\ DOMAIN c \subseteq DOMAIN g
  <2> DEFINE T == DOMAIN c  a == page
  <2>1. Rewrites(file, DOMAIN c, n, page, g)
    BY <1>1, <1>2, <1>4 DEF Rewrites, n
  <2> QED
    BY <2>1, NodeRewritten
<1>6. SameChildren(file, g, DOMAIN c)
  BY <1>2, <1>5, ChangingKeepsChildren
<1>7. PICK w : IsAt(c, w)
  BY AtPage
<1> DEFINE A == OnRoute(w)  d == WithKey(c, A, op.key)
<1>8. OnTheWay(file, root, c, A, op.key) /\ page \in A
  BY <1>7, RouteIsOnTheWay
<1> HIDE DEF A
<1>9. IsTreeWith(g, root, d, h)
  BY <1>2, <1>5, InsertKeepsTree
<1>10. IsOrderedWith(g, d)
  <2>1. Parts(file[page].items, index, op.key)
    BY <1>1, NotFoundAt
  <2>2. g[page].items = InsertAt(file[page].items, index, NewItem)
    BY <1>4, <1>5
  <2>3. IsOrderedWith(g, WithKey(c, A, NewItem.key))
    <3> DEFINE x == NewItem  i == index
    <3>1. /\ x \in Item /\ x.key = op.key /\ i \in 1 .. Len(file[page].items) + 1
          /\ OnTheWay(file, root, c, A, x.key) /\ Parts(file[page].items, i, x.key)
          /\ g[page].items = InsertAt(file[page].items, i, x)
      BY <1>1, <1>8, <2>1, <2>2
    <3> HIDE DEF x, i
    <3>2. IsOrderedWith(g, WithKey(c, A, x.key))
      BY <1>1, <1>2, <1>5, <1>8, <3>1, InsertKeepsTreeOrder
    <3> QED
      BY <3>2 DEF x
  <2> QED
    BY <1>1, <2>3
<1>11. SamePlaces(c, d)
  BY DEF SamePlaces, WithKey
<1> HIDE DEF d
<1>12. ItemsOf(g, d) = I
  <2>1. DOMAIN d = DOMAIN c /\ \A q \in DOMAIN c \ {page} : g[q] = file[q]
    BY <1>5, <1>11 DEF SamePlaces, ChangesOnly
  <2>2. ASSUME NEW y PROVE HoldsItem(g, d, y) <=> HoldsItem(file, c, y) \/ y = NewItem
    <3>1. HoldsItem(g, d, y) <=>
            HasItem(g[page], y) \/ \E q \in DOMAIN c \ {page} : HasItem(file[q], y)
      BY <1>1, <2>1, ItemsWithChange
    <3>2. HasItem(g[page], y) <=> HasItem(file[page], y) \/ y = NewItem
      <4>1. g[page].items = InsertAt(file[page].items, index, NewItem)
        BY <1>4, <1>5
      <4>2. file[page].items \in Seq(Item)
        BY <1>1, <1>2, NodeOfTree
      <4> QED
        BY <1>1, <4>1, <4>2, InsertedItems
    <3>3. HoldsItem(file, c, y) <=>
            HasItem(file[page], y) \/ \E q \in DOMAIN c \ {page} : HasItem(file[q], y)
      BY <1>1 DEF HoldsItem
    <3> QED
      BY <3>1, <3>2, <3>3
  <2> QED
    BY <1>1, <2>2 DEF ItemsOf
<1>13. Edits(c, h, g, I)
  BY <1>5, <1>6, <1>9, <1>10, <1>11, <1>12 DEF Edits
<1>14. SplitsApart(t)
  <2>1. Rewrites(file, DOMAIN c, n, page, g)
    BY <1>1, <1>2, <1>4 DEF Rewrites, n
  <2>2. t = Append(Front(Copied), n)
    BY <2>1, CopiesWithLeaf
  <2>3. Last(Copied) = node
    BY <1>1, AtPage
  <2>4. TrailAfterPut(Copied, NewItem) = Append(Front(Copied), n)
    BY <1>1, <2>3 DEF TrailAfterPut, n, InsertedNode
  <2> QED
    BY <1>1, <2>2, <2>4
<1> QED
  BY <1>13, <1>14 DEF t, I

LEMMA InsertContinues ==
  ASSUME NEW c, NEW h, HasTree(c, h), InsertItem
  PROVE  Continues(c, ItemsOf(file, c) \union {NewItem})
<1> DEFINE I == ItemsOf(file, c) \union {NewItem}
<1>1. /\ pc = "insert" /\ pc' = "split" /\ stream = "good" /\ file' = Written(file, <<InsertedNode>>)
      /\ ancestors' = get_nodes(file', root, path) /\ level' = Len(path)
      /\ UNCHANGED <<freelist, root, path, stream>>
  BY DEF InsertItem, Write, At
<1>2. Edits(c, h, file', I) /\ SplitsApart(get_nodes(file', root, path))
  BY <1>1, InsertEdits
<1>3. IsApart(pc', ancestors', h)
  <2>1. h < MaxDepth
    BY <1>1, AtInsert
  <2> QED
    BY <1>1, <1>2, <2>1 DEF IsApart
<1> HIDE DEF I
<1>4. Continues(c, I)
  BY <1>1, <1>2, <1>3, EditContinues
<1> QED
  BY <1>4 DEF I
-----------------------------------------------------------------------------
\* Removing.

\* A key is in the tree once.
LEMMA OneItemWithKey ==
  ASSUME NEW c, NEW h, HasTree(c, h),
         NEW p \in DOMAIN c, NEW i \in 1 .. Len(file[p].items),
         NEW q \in DOMAIN c, NEW j \in 1 .. Len(file[q].items),
         file[p].items[i].key = file[q].items[j].key
  PROVE  p = q /\ i = j
<1> DEFINE k == file[p].items[i].key  m == file[q].items[j].key
<1>1. IsTreeOf(c, h)
  BY AtTree
<1>2. k = m
  OBVIOUS
<1> HIDE DEF k, m
<1>3. SearchEnd(k) = get_node(file, p) /\ KeyPosition(get_node(file, p), k) = i
  <2>1. k = file[p].items[i].key
    BY DEF k
  <2> QED
    BY <1>1, <2>1, SearchEnds
<1>4. SearchEnd(m) = get_node(file, q) /\ KeyPosition(get_node(file, q), m) = j
  <2>1. m = file[q].items[j].key
    BY DEF m
  <2> QED
    BY <1>1, <2>1, SearchEnds
<1>5. get_node(file, p).page = p /\ get_node(file, q).page = q
  BY <1>1, NodeOfCollection
<1>6. get_node(file, p) = get_node(file, q)
  BY <1>2, <1>3, <1>4
<1>7. p = q
  BY <1>5, <1>6
<1> QED
  BY <1>2, <1>3, <1>4, <1>6, <1>7

\* The items of a node that has lost item i.
LEMMA RemovedItems ==
  ASSUME NEW n, n.items \in Seq(Item), Ordered(n.items), NEW i \in 1 .. Len(n.items),
         NEW m, HasRemoved(m.items, n.items, i), NEW y
  PROVE  HasItem(m, y) <=> HasItem(n, y) /\ y.key # n.items[i].key
<1> DEFINE s == n.items  t == m.items
<1>1. s \in Seq(Item) /\ Ordered(s) /\ i \in 1 .. Len(s) /\ HasRemoved(t, s, i)
  OBVIOUS
<1>2. HasItem(m, y) <=> \E j \in 1 .. Len(t) : t[j] = y
  BY DEF HasItem
<1>3. HasItem(n, y) <=> \E j \in 1 .. Len(s) : s[j] = y
  BY DEF HasItem
<1>4. s[i] = n.items[i]
  OBVIOUS
<1> HIDE DEF s, t
<1>5. /\ \A j \in 1 .. Len(t) : \E l \in 1 .. Len(s) : l # i /\ t[j] = s[l]
      /\ \A l \in 1 .. Len(s) : l # i => \E j \in 1 .. Len(t) : t[j] = s[l]
  BY <1>1, RemovedInOrder
<1>6. \A l \in 1 .. Len(s) : l # i => s[l].key # s[i].key
  <2>1. TAKE l \in 1 .. Len(s)
  <2>2. Len(s) \in Nat /\ s[l].key \in Int /\ s[i].key \in Int
    BY <1>1, ItemKeysAreInts DEF IntKeys
  <2>3. (l < i => s[l].key < s[i].key) /\ (i < l => s[i].key < s[l].key)
    BY <1>1 DEF Ordered
  <2> QED
    BY <2>2, <2>3
<1>7. (\E j \in 1 .. Len(t) : t[j] = y) <=> (\E l \in 1 .. Len(s) : l # i /\ s[l] = y)
  BY <1>5
<1>8. (\E l \in 1 .. Len(s) : l # i /\ s[l] = y)
        <=> (\E l \in 1 .. Len(s) : s[l] = y) /\ y.key # s[i].key
  BY <1>6
<1> QED
  BY <1>2, <1>3, <1>4, <1>7, <1>8

\* A leaf that loses an item.
LosesItem(c, h, n, a, i, g) ==
  /\ Rewrites(file, DOMAIN c, n, a, g) /\ c[a].depth = h
  /\ i \in 1 .. Len(file[a].items) /\ HasRemoved(n.items, file[a].items, i)

LEMMA LeafLosesItem ==
  ASSUME NEW c, NEW h, HasTree(c, h), NEW n, NEW a, NEW i, NEW g, LosesItem(c, h, n, a, i, g)
  PROVE  Edits(c, h, g, ItemsOf(g, c))
<1>1. /\ IsTreeWith(file, root, c, h) /\ IsOrderedWith(file, c) /\ h \in Nat
  BY AtTree
<1>2. /\ a \in DOMAIN c /\ c[a].depth = h /\ i \in 1 .. Len(file[a].items)
      /\ HasRemoved(n.items, file[a].items, i) /\ Rewrites(file, DOMAIN c, n, a, g)
  BY DEF LosesItem, Rewrites
<1>3. /\ ChangesOnly(file, g, DOMAIN c, a) /\ g[a].items = n.items
      /\ DOMAIN c \subseteq DOMAIN g
  BY <1>2, NodeRewritten
<1>4. HasRemoved(g[a].items, file[a].items, i)
  BY <1>2, <1>3
<1>5. IsTreeWith(g, root, c, h) /\ IsOrderedWith(g, c)
  BY <1>1, <1>2, <1>3, <1>4, RemoveKeepsTree
<1>6. SameChildren(file, g, DOMAIN c)
  BY <1>1, <1>3, ChangingKeepsChildren
<1>7. SamePlaces(c, c)
  BY DEF SamePlaces
<1> QED
  BY <1>3, <1>5, <1>6, <1>7 DEF Edits

\* The call that is removing an item.
LEMMA AtRemoval ==
  ASSUME NEW c, NEW h, HasTree(c, h), pc \in {"remove", "predecessor"}
  PROVE  /\ stream = "good" /\ SafeRemove(op.key) /\ DescentOK /\ op.key \in Key
         /\ index = KeyPosition(node, op.key) /\ FoundIn(node)
         /\ TypeOK /\ Session \subseteq Nat /\ root # 0
<1>1. /\ stream = "good" /\ op.kind = "remove" /\ op \in Operation
      /\ TypeOK /\ Session \subseteq Nat
  BY Running DEF HasTree, TreeInvariantWith, StreamOK, StepOK
<1>2. SafeCall(op) /\ DescentOK /\ op.key \in Key
  BY <1>1, AtDescent
<1>3. SafeRemove(op.key)
  BY <1>1, <1>2 DEF SafeCall
<1>4. FoundIn(node) /\ index = KeyPosition(node, op.key)
  BY <1>2 DEF DescentOK
<1> QED
  BY <1>1, <1>2, <1>3, <1>4 DEF HasTree

LEMMA AtRemove ==
  ASSUME NEW c, NEW h, HasTree(c, h), pc = "remove"
  PROVE  /\ node = get_node(file, page) /\ is_leaf(node)
         /\ page \in DOMAIN c /\ c[page].depth = h
         /\ index \in 1 .. Len(file[page].items) /\ file[page].items[index].key = op.key
         /\ RebalancesApart(TrailAfterRemove(Copied, op.key))
         /\ TrailAfterRemove(Copied, op.key)
              = Append(Front(Copied), without_item(node, index))
<1>1. node = get_node(file, page) /\ is_leaf(node)
  BY Running DEF HasTree, SearchOK
<1>2. /\ stream = "good" /\ SafeRemove(op.key) /\ DescentOK /\ op.key \in Key
      /\ index = KeyPosition(node, op.key) /\ FoundIn(node) /\ root # 0
  BY AtRemoval
<1>3. page \in DOMAIN c
  BY AtPage
<1>4. IsTreeOf(c, h)
  BY AtTree
<1>5. /\ node.items = file[page].items /\ node.items \in Seq(Item)
      /\ c[page].depth = h
  BY <1>1, <1>3, <1>4, NodeOfCollection
<1>6. index \in 1 .. Len(node.items) /\ node.items[index].key = op.key
  BY <1>2, <1>5, KeyFound DEF FoundIn
<1>7. IsPresent(op.key)
  <2>1. KeyHeld(file, c, op.key)
    BY <1>3, <1>5, <1>6 DEF KeyHeld
  <2> QED
    BY <1>2, <1>4, <2>1, PresentIsHeld
<1>8. Trail(op.key) = Copied
  BY <1>1, <1>2, TrailIsPath
<1>9. RebalancesApart(TrailAfterRemove(Copied, op.key))
  BY <1>2, <1>7, <1>8 DEF SafeRemove
<1>10. /\ Len(Copied) = Len(path) + 1 /\ Len(path) \in Nat /\ Last(Copied) = node
       /\ Copied[Len(path) + 1] = node
  <2>1. /\ Copied \in Seq(Nodes) /\ Copied # <<>> /\ Len(Copied) = Len(path) + 1
        /\ Len(path) \in Nat /\ Last(Copied) = node
    BY <1>1, AtPage
  <2>2. Last(Copied) = Copied[Len(Copied)]
    BY <2>1, FrontProperties
  <2> QED
    BY <2>1, <2>2
<1>11. Min({n \in 1 .. Len(Copied) : FoundIn(Copied[n])}) = Len(Copied)
  <2> DEFINE T == {n \in 1 .. Len(Copied) : FoundIn(Copied[n])}
  <2>1. \A n \in 1 .. Len(path) : ~FoundIn(Copied[n])
    BY <1>2 DEF DescentOK
  <2>2. T = {Len(path) + 1}
    BY <1>2, <1>10, <2>1
  <2> HIDE DEF T
  <2>3. Min(T) \in T
    BY <1>10, <2>2, MinNat
  <2>4. Min(T) = Len(Copied)
    BY <1>10, <2>2, <2>3
  <2> QED
    BY <2>4 DEF T
<1>12. TrailAfterRemove(Copied, op.key) = Append(Front(Copied), without_item(node, index))
  BY <1>2, <1>10, <1>11 DEF TrailAfterRemove, FoundIn
<1> QED
  BY <1>1, <1>3, <1>5, <1>6, <1>9, <1>12

\* The items that stay.
Others(c, k) == {y \in ItemsOf(file, c) : y.key # k}

LEMMA RemoveEdits ==
  ASSUME NEW c, NEW h, HasTree(c, h), pc = "remove",
         NEW g, g = Written(file, PendingWrites)
  PROVE  /\ Edits(c, h, g, Others(c, op.key))
         /\ RebalancesApart(get_nodes(g, root, path))
<1> DEFINE n == without_item(node, index)
<1>1. /\ node = get_node(file, page) /\ is_leaf(node)
      /\ page \in DOMAIN c /\ c[page].depth = h
      /\ index \in 1 .. Len(file[page].items) /\ file[page].items[index].key = op.key
      /\ RebalancesApart(TrailAfterRemove(Copied, op.key))
      /\ TrailAfterRemove(Copied, op.key) = Append(Front(Copied), n)
  BY AtRemove
<1>2. /\ IsTreeWith(file, root, c, h) /\ IsOrderedWith(file, c) /\ h \in Nat
      /\ DOMAIN c \subseteq DOMAIN file /\ FileOK(file, DOMAIN c) /\ IsTreeOf(c, h)
  BY AtTree
<1>3. /\ node \in NodesOver(DOMAIN c, DOMAIN c) /\ node.page = page
      /\ node.items = file[page].items /\ node.children = file[page].children
      /\ node.children = <<>>
  BY <1>1, <1>2, NodesOfTree DEF is_leaf
<1>4. file[page].items \in Seq(Item) /\ Ordered(file[page].items)
  BY <1>1, <1>2, NodeOfCollection
<1>5. /\ n \in NodesOver(DOMAIN c, DOMAIN c) /\ n.page = page
      /\ n.children = file[page].children /\ n.items = RemoveAt(file[page].items, index)
      /\ IsShaped(n)
  <2>1. node.items \in Seq(Item) /\ index \in 1 .. Len(node.items)
    BY <1>1, <1>3, <1>4
  <2>2. n \in NodesOver(DOMAIN c, DOMAIN c)
    BY <1>3, <2>1, WithoutItemType
  <2>3. /\ n.page = node.page /\ n.children = node.children
        /\ n.items = RemoveAt(node.items, index)
    BY <1>3 DEF without_item, NodesOver
  <2>4. IsShaped(n)
    BY <1>3, <2>3 DEF IsShaped, is_leaf
  <2> QED
    BY <1>3, <2>2, <2>3, <2>4
<1>6. PendingWrites = <<n>>
  BY DEF PendingWrites
<1> HIDE DEF n
<1>7. Rewrites(file, DOMAIN c, n, page, g)
  BY <1>1, <1>2, <1>5, <1>6 DEF Rewrites
<1>8. HasRemoved(n.items, file[page].items, index)
  BY <1>1, <1>4, <1>5, RemoveAtHasRemoved
<1>9. Edits(c, h, g, ItemsOf(g, c))
  <2>1. LosesItem(c, h, n, page, index, g)
    BY <1>1, <1>7, <1>8 DEF LosesItem
  <2> QED
    BY <2>1, LeafLosesItem
<1>10. ItemsOf(g, c) = Others(c, op.key)
  <2>1. ChangesOnly(file, g, DOMAIN c, page) /\ g[page].items = n.items
    BY <1>7, NodeRewritten
  <2>2. ASSUME NEW y PROVE HoldsItem(g, c, y) <=> HoldsItem(file, c, y) /\ y.key # op.key
    <3>1. HoldsItem(g, c, y) <=>
            HasItem(g[page], y) \/ \E q \in DOMAIN c \ {page} : HasItem(file[q], y)
      <4>1. DOMAIN c = DOMAIN c /\ page \in DOMAIN c /\ \A q \in DOMAIN c \ {page} : g[q] = file[q]
        BY <1>1, <2>1 DEF ChangesOnly
      <4> QED
        BY <4>1, ItemsWithChange
    <3>2. HasItem(g[page], y) <=> HasItem(file[page], y) /\ y.key # op.key
      <4>1. HasRemoved(g[page].items, file[page].items, index)
        BY <1>8, <2>1
      <4> QED
        BY <1>1, <1>4, <4>1, RemovedItems
    <3>3. HoldsItem(file, c, y) <=>
            HasItem(file[page], y) \/ \E q \in DOMAIN c \ {page} : HasItem(file[q], y)
      BY <1>1 DEF HoldsItem
    <3>4. \A q \in DOMAIN c \ {page} : HasItem(file[q], y) => y.key # op.key
      BY <1>1, OneItemWithKey DEF HasItem
    <3> QED
      BY <3>1, <3>2, <3>3, <3>4
  <2> QED
    BY <2>2 DEF ItemsOf, Others
<1>11. get_nodes(g, root, path) = Append(Front(Copied), n)
  BY <1>7, CopiesWithLeaf
<1> QED
  BY <1>1, <1>9, <1>10, <1>11

LEMMA RemoveContinues ==
  ASSUME NEW c, NEW h, HasTree(c, h), RemoveFromLeaf
  PROVE  Continues(c, Others(c, op.key))
<1> DEFINE I == Others(c, op.key)
<1>1. /\ pc = "remove" /\ pc' = "rebalance" /\ stream = "good"
      /\ file' = Written(file, PendingWrites)
      /\ ancestors' = get_nodes(file', root, path) /\ level' = Len(path)
      /\ UNCHANGED <<freelist, root, path, stream>>
  BY DEF RemoveFromLeaf, Write, At
<1>2. Edits(c, h, file', I) /\ RebalancesApart(get_nodes(file', root, path))
  BY <1>1, RemoveEdits
<1>3. IsApart(pc', ancestors', h)
  BY <1>1, <1>2 DEF IsApart
<1> HIDE DEF I
<1>4. Continues(c, I)
  BY <1>1, <1>2, <1>3, EditContinues
<1> QED
  BY <1>4 DEF I
-----------------------------------------------------------------------------
\* Taking the predecessor.

\* Two nodes are written, on pages a and w.
RewritesBoth(f, T, m, a, n, w, g) ==
  /\ FileOK(f, T) /\ T \subseteq DOMAIN f
  /\ m \in NodesOver(T, T) /\ IsShaped(m) /\ a \in T /\ m.page = a
  /\ n \in NodesOver(T, T) /\ IsShaped(n) /\ w \in T /\ n.page = w /\ w # a
  /\ g = Written(f, <<m, n>>)

LEMMA NodesRewritten ==
  ASSUME NEW f, NEW T, NEW m, NEW a, NEW n, NEW w, NEW g, RewritesBoth(f, T, m, a, n, w, g)
  PROVE  /\ \A q \in T \ {a, w} : g[q] = f[q]
         /\ Alike(g[a], m) /\ get_node(g, a) = m /\ g[a] \in StoredNodes(T)
         /\ Alike(g[w], n) /\ get_node(g, w) = n /\ g[w] \in StoredNodes(T)
         /\ T \subseteq DOMAIN g
  BY WrittenBoth DEF RewritesBoth

\* A key that may be at the end of a route may be anywhere on it.
LEMMA KeyGoesUp ==
  ASSUME NEW f, NEW c, IsOrderedWith(f, c), NEW r, NEW slots \in Seq(Nat),
         NEW w, IsRoute(f, r, c, slots, w), NEW k \in c[w[Len(slots) + 1]].keys
  PROVE  \A m \in 1 .. Len(slots) + 1 : k \in c[w[m]].keys
<1> DEFINE l == Len(slots)
           T == {j \in Nat : j <= l => k \in c[w[l + 1 - j]].keys}
<1>1. /\ w \in [1 .. l + 1 -> DOMAIN c]
      /\ \A i \in 1 .. l : /\ slots[i] \in 1 .. Len(f[w[i]].children)
                           /\ f[w[i]].children[slots[i]] = w[i + 1]
  BY DEF IsRoute
<1>2. l \in Nat /\ k \in c[w[l + 1]].keys
  BY LenProperties
<1> HIDE DEF l
<1>3. 0 \in T
  BY <1>2
<1>4. ASSUME NEW j \in Nat, j \in T PROVE j + 1 \in T
  <2> SUFFICES ASSUME j + 1 <= l PROVE k \in c[w[l + 1 - (j + 1)]].keys
    OBVIOUS
  <2> DEFINE i == l - j
  <2>1. i \in 1 .. l /\ l + 1 - (j + 1) = i /\ l + 1 - j = i + 1 /\ j <= l
    BY <1>2
  <2>2. k \in c[w[i + 1]].keys
    BY <1>4, <2>1
  <2> HIDE DEF i
  <2>3. /\ w[i] \in DOMAIN c /\ slots[i] \in 1 .. Len(f[w[i]].children)
        /\ f[w[i]].children[slots[i]] = w[i + 1]
    <3>1. i \in 1 .. l + 1
      BY <1>2, <2>1
    <3> QED
      BY <1>1, <2>1, <3>1
  <2>4. k \in c[w[i]].keys
    BY <2>2, <2>3, KeyOfChild
  <2> QED
    BY <2>1, <2>4
<1>5. Nat \subseteq T
  <2> HIDE DEF T
  <2> QED
    BY <1>3, <1>4, Induction
<1>6. ASSUME NEW m \in 1 .. l + 1 PROVE k \in c[w[m]].keys
  <2>1. l + 1 - m \in Nat /\ l + 1 - m <= l /\ l + 1 - (l + 1 - m) = m
    BY <1>2
  <2>2. l + 1 - m \in T
    BY <1>5, <2>1
  <2>3. k \in c[w[l + 1 - (l + 1 - m)]].keys
    BY <2>1, <2>2
  <2> QED
    BY <2>1, <2>3
<1> QED
  BY <1>6 DEF l

\* The way down from the node of the key, page n of the route, to the leaf.
WayDown(c, w, n) ==
  /\ IsAt(c, w) /\ n \in 1 .. Len(path) /\ Copied[n] = node /\ node.page = w[n]
  /\ node.items = file[w[n]].items /\ node.children = file[w[n]].children
  /\ path[n] = index /\ index \in 1 .. Len(file[w[n]].items)
  /\ file[w[n]].items[index].key = op.key
  /\ \A m \in 1 .. n - 1 : ~FoundIn(Copied[m])
  /\ \A m \in n + 1 .. Len(path) : path[m] = Len(file[w[m]].children)

Below(w, n) == {w[m] : m \in n + 1 .. Len(path) + 1}

LEMMA AtPredecessor ==
  ASSUME NEW c, NEW h, HasTree(c, h), pc = "predecessor"
  PROVE  \E w, n : WayDown(c, w, n)
<1>1. DescentOK /\ index = KeyPosition(node, op.key) /\ FoundIn(node)
  BY AtRemoval
<1>2. PICK w : IsAt(c, w)
  BY AtPage
<1>3. PICK n \in 1 .. Len(path) :
        /\ Copied[n] = node /\ path[n] = index
        /\ \A m \in 1 .. n - 1 : ~FoundIn(Copied[m])
        /\ \A m \in n + 1 .. Len(path) : path[m] = Len(Copied[m].children)
  BY <1>1 DEF DescentOK
<1>4. IsTreeOf(c, h) /\ DOMAIN c \subseteq DOMAIN file /\ IsTreeWith(file, root, c, h)
  BY AtTree
<1>5. /\ Len(path) \in Nat
      /\ \A i \in 1 .. Len(path) + 1 : w[i] \in DOMAIN c /\ Copied[i] = get_node(file, w[i])
  <2>1. SameChildren(file, file, DOMAIN c)
    BY <1>4 DEF IsTreeWith, SameChildren
  <2> QED
    BY <1>2, <1>4, <2>1, CopiesAfter
<1>6. ASSUME NEW i \in 1 .. Len(path)
      PROVE  /\ Copied[i].items = file[w[i]].items /\ Copied[i].children = file[w[i]].children
             /\ Copied[i].page = w[i] /\ Copied[i].items \in Seq(Item)
  <2>1. i \in 1 .. Len(path) + 1
    BY <1>5
  <2>2. w[i] \in DOMAIN c /\ Copied[i] = get_node(file, w[i])
    BY <1>5, <2>1
  <2> QED
    BY <1>4, <2>2, NodeOfCollection
<1>7. index \in 1 .. Len(node.items) /\ node.items[index].key = op.key
  <2>1. node.items \in Seq(Item)
    BY <1>3, <1>6
  <2> QED
    BY <1>1, <2>1, KeyFound DEF FoundIn
<1>8. \A m \in n + 1 .. Len(path) : path[m] = Len(file[w[m]].children)
  <2>1. TAKE m \in n + 1 .. Len(path)
  <2>2. m \in 1 .. Len(path)
    BY <1>5
  <2> QED
    BY <1>3, <1>6, <2>2
<1>9. WayDown(c, w, n)
  BY <1>2, <1>3, <1>6, <1>7, <1>8 DEF WayDown
<1> QED
  BY <1>9

LEMMA WayLeadsRight ==
  ASSUME NEW c, NEW h, HasTree(c, h), pc = "predecessor", NEW w, NEW n, WayDown(c, w, n)
  PROVE  LeadsRight(file, c, Below(w, n), w[n], index, page)
<1> DEFINE A == Below(w, n)  l == Len(path)
<1>1. /\ IsAt(c, w) /\ n \in 1 .. l
      /\ path[n] = index /\ index \in 1 .. Len(file[w[n]].items)
      /\ \A m \in n + 1 .. l : path[m] = Len(file[w[m]].children)
  BY DEF WayDown
<1>2. /\ w \in [1 .. l + 1 -> DOMAIN c] /\ w[l + 1] = page
      /\ \A i \in 1 .. l + 1 : c[w[i]].depth = i - 1
      /\ \A i \in 1 .. l :
           /\ path[i] \in 1 .. Len(file[w[i]].children)
           /\ file[w[i]].children[path[i]] = w[i + 1]
           /\ c[w[i + 1]].up = w[i] /\ c[w[i + 1]].at = path[i]
  BY <1>1 DEF IsAt, IsRoute
<1>3. l \in Nat
  BY AtPage
<1>4. A = {w[m] : m \in n + 1 .. l + 1}
  BY DEF Below
<1> HIDE DEF A, l
<1>5. A \subseteq DOMAIN c
  BY <1>1, <1>2, <1>3, <1>4
<1>6. w[n] \in DOMAIN c \ A
  <2>1. n \in 1 .. l + 1 /\ \A m \in n + 1 .. l + 1 : m \in 1 .. l + 1 /\ m # n
    BY <1>1, <1>3
  <2>2. c[w[n]].depth = n - 1 /\ \A m \in n + 1 .. l + 1 : c[w[m]].depth = m - 1
    BY <1>2, <2>1
  <2>3. \A m \in n + 1 .. l + 1 : w[m] # w[n]
    BY <2>1, <2>2
  <2> QED
    BY <1>2, <1>4, <2>1, <2>3
<1>7. page \in A
  <2>1. l + 1 \in n + 1 .. l + 1
    BY <1>1, <1>3
  <2> QED
    BY <1>2, <1>4, <2>1
<1>8. Len(file[w[n]].children) # 0 /\ file[w[n]].children[index] \in A
  <2>1. n + 1 \in n + 1 .. l + 1
    BY <1>1, <1>3
  <2>2. index \in 1 .. Len(file[w[n]].children) /\ file[w[n]].children[index] = w[n + 1]
    BY <1>1, <1>2
  <2> QED
    BY <1>4, <2>1, <2>2
<1>9. ASSUME NEW q \in A \ {page}
      PROVE  Len(file[q].children) # 0 /\ file[q].children[Len(file[q].children)] \in A
  <2>1. PICK m \in n + 1 .. l + 1 : q = w[m]
    BY <1>4
  <2>2. m # l + 1
    BY <1>2, <1>9, <2>1
  <2>3. m \in n + 1 .. l /\ m \in 1 .. l /\ m + 1 \in n + 1 .. l + 1
    BY <1>1, <1>3, <2>1, <2>2
  <2>4. /\ path[m] = Len(file[w[m]].children) /\ path[m] \in 1 .. Len(file[w[m]].children)
        /\ file[w[m]].children[path[m]] = w[m + 1]
    BY <1>1, <1>2, <2>3
  <2>5. w[m + 1] \in A
    BY <1>4, <2>3
  <2> QED
    BY <2>1, <2>4, <2>5
<1>10. ASSUME NEW q \in A
       PROVE  \/ c[q].up = w[n] /\ c[q].at = index
              \/ c[q].up \in A /\ c[q].at = Len(file[c[q].up].children)
  <2>1. PICK m \in n + 1 .. l + 1 : q = w[m]
    BY <1>4
  <2> DEFINE i == m - 1
  <2>2. i \in 1 .. l /\ m = i + 1 /\ (i = n \/ i \in n + 1 .. l)
    BY <1>1, <1>3
  <2> HIDE DEF i
  <2>3. c[q].up = w[i] /\ c[q].at = path[i]
    BY <1>2, <2>1, <2>2
  <2>4. CASE i = n
    BY <1>1, <2>3, <2>4
  <2>5. CASE i \in n + 1 .. l
    <3>1. i \in n + 1 .. l + 1
      BY <1>3, <2>5
    <3>2. w[i] \in A
      BY <1>4, <3>1
    <3>3. path[i] = Len(file[w[i]].children)
      BY <1>1, <2>5
    <3> QED
      BY <2>3, <3>2, <3>3
  <2> QED
    BY <2>2, <2>4, <2>5
<1> QED
  BY <1>1, <1>5, <1>6, <1>7, <1>8, <1>9, <1>10 DEF LeadsRight, A

\* The leaf, and the two nodes as they are written.
LeafWithout == [get_node(file, page) EXCEPT !.items = Front(@)]
NodeWith == [node EXCEPT !.items[index] = Last(get_node(file, page).items)]

LEMMA AtTaking ==
  ASSUME NEW c, NEW h, HasTree(c, h), pc = "predecessor", is_leaf(get_node(file, page)),
         NEW w, NEW n, WayDown(c, w, n)
  PROVE  /\ page \in DOMAIN c /\ c[page].depth = h /\ file[page].items # <<>>
         /\ Len(file[page].items) \in 1 .. Len(file[page].items)
         /\ file[page].items \in Seq(Item) /\ get_node(file, page).items = file[page].items
         /\ w[n] \in DOMAIN c /\ w[n] # page
         /\ PendingWrites = <<LeafWithout, NodeWith>>
         /\ Trail(op.key) = Copied /\ RebalancesApart(TrailAfterRemove(Copied, op.key))
<1>1. /\ stream = "good" /\ SafeRemove(op.key) /\ root # 0
  BY AtRemoval
<1>2. IsTreeOf(c, h)
  BY AtTree
<1>3. page \in DOMAIN c /\ Last(Copied) = get_node(file, page)
  BY AtPage
<1>4. /\ c[page].depth = h /\ file[page].items \in Seq(Item)
      /\ get_node(file, page).items = file[page].items
  BY <1>2, <1>3, NodeOfCollection
<1>5. LeadsRight(file, c, Below(w, n), w[n], index, page)
  BY WayLeadsRight
<1>6. w[n] \in DOMAIN c /\ w[n] # page /\ index \in 1 .. Len(file[w[n]].items)
      /\ file[w[n]].items[index].key = op.key
  BY <1>5 DEF LeadsRight, WayDown
<1>7. IsPresent(op.key)
  <2>1. KeyHeld(file, c, op.key)
    BY <1>6 DEF KeyHeld
  <2> QED
    BY <1>1, <1>2, <2>1, PresentIsHeld
<1>8. Trail(op.key) = Copied
  BY <1>1, TrailIsPath
<1>9. RebalancesApart(TrailAfterRemove(Copied, op.key)) /\ Last(Copied).items # <<>>
  BY <1>1, <1>7, <1>8 DEF SafeRemove
<1>10. file[page].items # <<>>
  BY <1>3, <1>4, <1>9
<1>11. Len(file[page].items) \in 1 .. Len(file[page].items)
  BY <1>4, <1>10, FrontProperties
<1>12. PendingWrites = <<LeafWithout, NodeWith>>
  BY DEF PendingWrites, TakePredecessorWrites, LeafWithout, NodeWith
<1> QED
  BY <1>3, <1>4, <1>6, <1>8, <1>9, <1>10, <1>11, <1>12

\* They are nodes of the tree, with the children they had.
LEMMA TakingWrites ==
  ASSUME NEW c, NEW h, HasTree(c, h), pc = "predecessor", is_leaf(get_node(file, page)),
         NEW w, NEW n, WayDown(c, w, n)
  PROVE  /\ LeafWithout \in NodesOver(DOMAIN c, DOMAIN c) /\ IsShaped(LeafWithout)
         /\ LeafWithout.page = page /\ LeafWithout.children = file[page].children
         /\ LeafWithout.items = Front(file[page].items)
         /\ NodeWith \in NodesOver(DOMAIN c, DOMAIN c) /\ IsShaped(NodeWith)
         /\ NodeWith.page = w[n] /\ NodeWith.children = file[w[n]].children
         /\ NodeWith.items = [file[w[n]].items EXCEPT ![index] = Last(file[page].items)]
<1> DEFINE leaf == get_node(file, page)  x == LeafWithout  z == NodeWith
           items == [node.items EXCEPT ![index] = Last(leaf.items)]
<1>1. /\ page \in DOMAIN c /\ file[page].items # <<>> /\ file[page].items \in Seq(Item)
      /\ w[n] \in DOMAIN c
  BY AtTaking
<1>2. /\ IsTreeWith(file, root, c, h) /\ IsTreeOf(c, h)
  BY AtTree
<1>3. /\ leaf \in NodesOver(DOMAIN c, DOMAIN c) /\ IsShaped(leaf) /\ leaf.page = page
      /\ leaf.items = file[page].items /\ leaf.children = file[page].children
  BY <1>1, <1>2, NodesOfTree
<1>4. /\ node.page = w[n] /\ node.items = file[w[n]].items /\ node.children = file[w[n]].children
      /\ index \in 1 .. Len(file[w[n]].items) /\ node = Copied[n] /\ n \in 1 .. Len(path)
      /\ IsAt(c, w)
  BY DEF WayDown
<1>5. node = get_node(file, w[n])
  <2>1. DOMAIN c \subseteq DOMAIN file
    BY AtTree
  <2>2. SameChildren(file, file, DOMAIN c)
    BY <1>2 DEF IsTreeWith, SameChildren
  <2>3. \A i \in 1 .. Len(path) + 1 : Copied[i] = get_node(file, w[i])
    BY <1>4, <2>1, <2>2, CopiesAfter
  <2>4. n \in 1 .. Len(path) + 1
    BY <1>4, AtPage
  <2> QED
    BY <1>4, <2>3, <2>4
<1>6. node \in NodesOver(DOMAIN c, DOMAIN c) /\ IsShaped(node)
  BY <1>1, <1>2, <1>5, NodesOfTree
<1> HIDE DEF leaf
<1>7. /\ Front(leaf.items) \in Seq(Item) /\ Last(leaf.items) \in Item
  BY <1>1, <1>3, FrontProperties
<1>8. /\ x.page = leaf.page /\ x.children = leaf.children /\ x.items = Front(leaf.items)
      /\ x \in NodesOver(DOMAIN c, DOMAIN c)
  BY <1>3, <1>7 DEF NodesOver, LeafWithout, leaf
<1>9. IsShaped(x)
  BY <1>8 DEF IsShaped, is_leaf, leaf
<1>10. items \in Seq(Item) /\ Len(items) = Len(node.items)
  <2>1. node.items \in Seq(Item)
    BY <1>6 DEF NodesOver
  <2> QED
    BY <1>4, <1>7, <2>1, ExceptSeq
<1>11. /\ z.page = node.page /\ z.children = node.children /\ z.items = items
       /\ z = [node EXCEPT !.items = items]
  BY <1>6 DEF NodesOver, NodeWith, leaf
<1> HIDE DEF items
<1>12. z \in NodesOver(DOMAIN c, DOMAIN c)
  BY <1>6, <1>10, <1>11 DEF NodesOver
<1>13. IsShaped(z)
  BY <1>6, <1>10, <1>11 DEF IsShaped, is_leaf
<1> QED
  BY <1>3, <1>4, <1>8, <1>9, <1>11, <1>12, <1>13 DEF items

LEMMA PredecessorEdits ==
  ASSUME NEW c, NEW h, HasTree(c, h), pc = "predecessor", is_leaf(get_node(file, page)),
         NEW w, NEW n, WayDown(c, w, n), NEW g, g = Written(file, PendingWrites)
  PROVE  /\ Edits(c, h, g, Others(c, op.key))
         /\ RewritesBoth(file, DOMAIN c, LeafWithout, page, NodeWith, w[n], g)
<1> DEFINE a == page  v == w[n]  y == Last(file[page].items)  A == Below(w, n)
           d == Cut(c, A, y.key)  last == Len(file[page].items)
<1>1. /\ a \in DOMAIN c /\ c[a].depth = h /\ file[a].items # <<>>
      /\ last \in 1 .. last /\ file[a].items \in Seq(Item)
      /\ v \in DOMAIN c /\ v # a /\ PendingWrites = <<LeafWithout, NodeWith>>
  BY AtTaking
<1>2. /\ IsTreeWith(file, root, c, h) /\ IsOrderedWith(file, c) /\ h \in Nat
      /\ DOMAIN c \subseteq DOMAIN file /\ FileOK(file, DOMAIN c) /\ IsTreeOf(c, h)
  BY AtTree
<1>3. /\ LeafWithout \in NodesOver(DOMAIN c, DOMAIN c) /\ IsShaped(LeafWithout)
      /\ LeafWithout.page = a /\ LeafWithout.children = file[a].children
      /\ LeafWithout.items = Front(file[a].items)
      /\ NodeWith \in NodesOver(DOMAIN c, DOMAIN c) /\ IsShaped(NodeWith)
      /\ NodeWith.page = v /\ NodeWith.children = file[v].children
      /\ NodeWith.items = [file[v].items EXCEPT ![index] = y]
  BY TakingWrites
<1>4. RewritesBoth(file, DOMAIN c, LeafWithout, a, NodeWith, v, g)
  BY <1>1, <1>2, <1>3 DEF RewritesBoth
<1>5. /\ \A q \in DOMAIN c \ {a, v} : g[q] = file[q]
      /\ Alike(g[a], LeafWithout) /\ g[a] \in StoredNodes(DOMAIN c)
      /\ Alike(g[v], NodeWith) /\ g[v] \in StoredNodes(DOMAIN c)
      /\ DOMAIN c \subseteq DOMAIN g
  BY <1>4, NodesRewritten
<1>6. /\ index \in 1 .. Len(file[v].items) /\ file[v].items[index].key = op.key
      /\ IsAt(c, w)
  BY DEF WayDown
<1>7. LeadsRight(file, c, A, v, index, a)
  BY WayLeadsRight
<1>8. /\ y = file[a].items[last] /\ y \in Item
      /\ HasRemoved(Front(file[a].items), file[a].items, last)
  BY <1>1, FrontProperties, FrontHasRemoved
<1>9. file[v].items \in Seq(Item) /\ Ordered(file[v].items) /\ Ordered(file[a].items)
  BY <1>1, <1>2, NodeOfCollection
<1> HIDE DEF A, y, v, a, last
<1>10. /\ Len(NodeWith.items) = Len(file[v].items) /\ NodeWith.items[index] = y
       /\ \A j \in 1 .. Len(file[v].items) : j # index => NodeWith.items[j] = file[v].items[j]
  BY <1>3, <1>6, <1>8, <1>9, ExceptSeq
<1>11. TakesLast(file, g, DOMAIN c, v, index, a)
  BY <1>3, <1>5, <1>8, <1>10 DEF TakesLast, Alike, last, a, y
<1>12. \A q \in A : y.key \in c[q].keys
  <2>1. y.key \in c[a].keys
    BY <1>1, <1>2, <1>8, KeyOfItem DEF last, a
  <2>2. /\ IsRoute(file, root, c, path, w) /\ w[Len(path) + 1] = a /\ path \in Seq(Nat)
    BY <1>6, AtPage DEF IsAt, a
  <2>3. \A m \in 1 .. Len(path) + 1 : y.key \in c[w[m]].keys
    BY <1>2, <2>1, <2>2, KeyGoesUp
  <2>4. Len(path) \in Nat /\ n \in 1 .. Len(path)
    BY AtPage DEF WayDown
  <2>5. \A m \in n + 1 .. Len(path) + 1 : m \in 1 .. Len(path) + 1
    BY <2>4
  <2> QED
    BY <2>3, <2>5 DEF A, Below
<1>13. IsOrderedWith(g, d)
  BY <1>1, <1>2, <1>7, <1>8, <1>11, <1>12, PredecessorKeepsOrder DEF last, a
<1>14. IsTreeWith(g, root, d, h)
  BY <1>2, <1>11, PredecessorKeepsTree
<1>15. SamePlaces(c, d)
  BY DEF SamePlaces, Cut
<1> HIDE DEF d
<1>16. SameChildren(file, g, DOMAIN c)
  BY <1>2, <1>3, <1>5 DEF SameChildren, Alike, IsTreeWith
<1>17. ItemsOf(g, d) = Others(c, op.key)
  <2>1. DOMAIN d = DOMAIN c
    BY <1>15 DEF SamePlaces
  <2>2. ASSUME NEW z PROVE HoldsItem(g, d, z) <=> HoldsItem(file, c, z) /\ z.key # op.key
    <3> DEFINE rest == \E q \in DOMAIN c \ {a, v} : HasItem(file[q], z)
    <3>1. HoldsItem(g, d, z) <=> HasItem(g[a], z) \/ HasItem(g[v], z) \/ rest
      BY <1>1, <1>5, <2>1 DEF HoldsItem
    <3>2. HoldsItem(file, c, z) <=> HasItem(file[a], z) \/ HasItem(file[v], z) \/ rest
      BY <1>1 DEF HoldsItem
    <3>3. HasItem(g[a], z) <=> HasItem(file[a], z) /\ z.key # y.key
      <4>1. HasRemoved(g[a].items, file[a].items, last)
        BY <1>3, <1>5, <1>8 DEF Alike
      <4>2. last \in 1 .. Len(file[a].items) /\ file[a].items[last] = y
        BY <1>1, <1>8 DEF last, a
      <4> QED
        BY <1>1, <1>9, <4>1, <4>2, RemovedItems
    <3>4. HasItem(g[v], z) <=> z = y \/ \E j \in 1 .. Len(file[v].items) :
                                            j # index /\ file[v].items[j] = z
      <4>1. g[v].items = NodeWith.items
        BY <1>5 DEF Alike
      <4> QED
        BY <1>6, <1>10, <4>1 DEF HasItem
    <3>5. HasItem(file[a], y)
      BY <1>1, <1>8 DEF HasItem, last, a
    <3>6. y.key # op.key
      BY <1>1, <1>6, <1>8, OneItemWithKey DEF last, a
    <3>7. \A j \in 1 .. Len(file[v].items) : file[v].items[j].key = op.key => j = index
      BY <1>1, <1>6, OneItemWithKey
    <3>8. \A q \in DOMAIN c \ {v} : HasItem(file[q], z) => z.key # op.key
      BY <1>1, <1>6, OneItemWithKey DEF HasItem
    <3>9. HasItem(file[a], z) /\ z.key = y.key => z = y
      BY <1>1, <1>8, OneItemWithKey DEF HasItem, last, a
    <3>10. (\E j \in 1 .. Len(file[v].items) : j # index /\ file[v].items[j] = z)
             <=> HasItem(file[v], z) /\ z.key # op.key
      BY <1>6, <3>7 DEF HasItem
    <3>11. rest => z.key # op.key
      BY <3>8
    <3>12. HasItem(file[a], z) => z.key # op.key
      BY <1>1, <3>8
    <3> HIDE DEF rest
    <3> QED
      BY <3>1, <3>2, <3>3, <3>4, <3>5, <3>6, <3>9, <3>10, <3>11, <3>12
  <2> QED
    BY <2>2 DEF ItemsOf, Others
<1>18. Edits(c, h, g, Others(c, op.key))
  BY <1>5, <1>13, <1>14, <1>15, <1>16, <1>17 DEF Edits
<1> QED
  BY <1>4, <1>18 DEF a, v

LEMMA CopiesWithPredecessor ==
  ASSUME NEW c, NEW h, HasTree(c, h), pc = "predecessor", is_leaf(get_node(file, page)),
         NEW w, NEW n, WayDown(c, w, n), NEW g,
         RewritesBoth(file, DOMAIN c, LeafWithout, page, NodeWith, w[n], g)
  PROVE  get_nodes(g, root, path) = TrailAfterRemove(Copied, op.key)
<1> DEFINE t == get_nodes(g, root, path)  v == w[n]
           f == [Front(Copied) EXCEPT ![n] = NodeWith]
           u == Append(f, LeafWithout)
<1>1. /\ \A q \in DOMAIN c \ {page, v} : g[q] = file[q]
      /\ get_node(g, page) = LeafWithout /\ get_node(g, v) = NodeWith
      /\ Alike(g[page], LeafWithout) /\ g[page] \in StoredNodes(DOMAIN c)
      /\ Alike(g[v], NodeWith) /\ g[v] \in StoredNodes(DOMAIN c)
      /\ DOMAIN c \subseteq DOMAIN g
  BY NodesRewritten
<1>2. LeafWithout.children = file[page].children /\ NodeWith.children = file[w[n]].children
  <2>1. /\ LeafWithout \in NodesOver(DOMAIN c, DOMAIN c) /\ IsShaped(LeafWithout)
        /\ LeafWithout.page = page /\ LeafWithout.children = file[page].children
        /\ LeafWithout.items = Front(file[page].items)
        /\ NodeWith \in NodesOver(DOMAIN c, DOMAIN c) /\ IsShaped(NodeWith)
        /\ NodeWith.page = w[n] /\ NodeWith.children = file[w[n]].children
        /\ NodeWith.items = [file[w[n]].items EXCEPT ![index] = Last(file[page].items)]
    BY TakingWrites, Zenon
  <2> QED
    BY <2>1
<1>3. SameChildren(file, g, DOMAIN c)
  BY <1>1, <1>2, AtTree DEF SameChildren, Alike, IsTreeWith
<1>4. /\ IsAt(c, w) /\ n \in 1 .. Len(path) /\ Copied[n] = node /\ path[n] = index
      /\ \A m \in 1 .. n - 1 : ~FoundIn(Copied[m])
  BY DEF WayDown
<1>5. /\ t \in Seq(Nodes) /\ Len(t) = Len(path) + 1 /\ Len(path) \in Nat
      /\ \A i \in 1 .. Len(path) + 1 :
            /\ w[i] \in DOMAIN c
            /\ t[i] = get_node(g, w[i]) /\ Copied[i] = get_node(file, w[i])
      /\ \A i, j \in 1 .. Len(path) + 1 : w[i] = w[j] => i = j
      /\ w[Len(path) + 1] = page
  BY <1>1, <1>3, <1>4, CopiesAfter
<1>6. /\ Copied \in Seq(Nodes) /\ Copied # <<>> /\ Len(Copied) = Len(path) + 1
      /\ Last(Copied) = get_node(file, page)
  BY AtPage
<1>7. /\ Front(Copied) \in Seq(Nodes) /\ Len(Front(Copied)) = Len(path)
      /\ \A i \in 1 .. Len(path) : Front(Copied)[i] = Copied[i]
  <2> DEFINE m == Copied
  <2>1. m \in Seq(Nodes) /\ m # <<>>
    BY <1>6
  <2> HIDE DEF m
  <2>2. /\ Front(m) \in Seq(Nodes) /\ Len(Front(m)) = Len(m) - 1
        /\ \A i \in 1 .. Len(m) - 1 : Front(m)[i] = m[i]
    BY <2>1, FrontProperties
  <2>3. Len(m) - 1 = Len(path)
    BY <1>5, <1>6 DEF m
  <2>4. /\ Front(m) \in Seq(Nodes) /\ Len(Front(m)) = Len(path)
        /\ \A i \in 1 .. Len(path) : Front(m)[i] = m[i]
    BY <2>2, <2>3
  <2> QED
    BY <2>4 DEF m
<1>8. Len(path) + 1 \in 1 .. Len(path) + 1 /\ t[Len(path) + 1] = LeafWithout
  BY <1>1, <1>5
<1>9. n \in 1 .. Len(path) + 1 /\ t[n] = NodeWith
  BY <1>1, <1>4, <1>5
<1>10. LeafWithout \in Nodes /\ NodeWith \in Nodes
  BY <1>5, <1>8, <1>9, ElementOfSeq
<1>11. /\ f \in Seq(Nodes) /\ Len(f) = Len(path) /\ f[n] = NodeWith
       /\ \A i \in 1 .. Len(path) : i # n => f[i] = Front(Copied)[i]
  BY <1>4, <1>7, <1>10, ExceptSeq
<1> HIDE DEF f
<1>12. /\ u \in Seq(Nodes) /\ Len(u) = Len(path) + 1 /\ u[Len(path) + 1] = LeafWithout
       /\ \A i \in 1 .. Len(path) : u[i] = f[i]
  BY <1>10, <1>11, AppendProperties
<1> HIDE DEF t, u
<1>13. ASSUME NEW i \in 1 .. Len(path) + 1 PROVE t[i] = u[i]
  <2>1. CASE i = Len(path) + 1
    BY <2>1, <1>8, <1>12
  <2>2. CASE i = n
    <3>1. u[n] = f[n]
      BY <1>4, <1>12
    <3> QED
      BY <2>2, <3>1, <1>9, <1>11
  <2>3. CASE i # Len(path) + 1 /\ i # n
    <3>1. i \in 1 .. Len(path)
      BY <2>3, <1>5
    <3>2. w[i] # page /\ w[i] # v /\ w[i] \in DOMAIN c
      BY <2>3, <1>5, <1>8, <1>9
    <3>3. g[w[i]] = file[w[i]]
      BY <3>2, <1>1
    <3>4. t[i] = Copied[i]
      BY <3>3, <1>5, ReadAgain
    <3>5. u[i] = Front(Copied)[i]
      BY <2>3, <3>1, <1>11, <1>12
    <3> QED
      BY <3>1, <3>4, <3>5, <1>7
  <2> QED
    BY <2>1, <2>2, <2>3
<1>14. t = u
  BY <1>5, <1>12, <1>13, SameSeq
<1>15. Min({m \in 1 .. Len(Copied) : FoundIn(Copied[m])}) = n
  <2> DEFINE T == {m \in 1 .. Len(Copied) : FoundIn(Copied[m])}
  <2>1. FoundIn(Copied[n])
    BY <1>4, AtRemoval
  <2>2. n \in T /\ T \subseteq Nat
    BY <1>4, <1>5, <1>6, <2>1
  <2>3. \A m \in T : m >= n
    <3>1. \A m \in 1 .. Len(Copied) : m < n => m \in 1 .. n - 1
      BY <1>4, <1>5, <1>6
    <3> QED
      BY <1>4, <1>5, <1>6, <3>1
  <2> HIDE DEF T
  <2>4. Min(T) \in T /\ Min(T) <= n
    BY <2>2, MinNat
  <2> DEFINE l == Min(T)
  <2>5. l \in Nat /\ l >= n /\ l <= n /\ n \in Nat
    BY <2>2, <2>3, <2>4
  <2> HIDE DEF l
  <2>6. l = n
    BY <2>5
  <2> QED
    BY <2>6 DEF T, l
<1>16. TrailAfterRemove(Copied, op.key) = u
  <2> DEFINE leaf == Last(Copied)  k == op.key  F == Front(Copied)
  <2>1. n # Len(Copied)
    BY <1>4, <1>5, <1>6
  <2>2. TrailAfterRemove(Copied, k)
          = Append([F EXCEPT ![n].items[KeyPosition(Copied[n], k)] = Last(leaf.items)],
                   [leaf EXCEPT !.items = Front(@)])
    BY <1>15, <2>1 DEF TrailAfterRemove, FoundIn
  <2>3. [leaf EXCEPT !.items = Front(@)] = LeafWithout
    BY <1>6 DEF LeafWithout
  <2>4. KeyPosition(Copied[n], k) = index
    BY <1>4, AtRemoval
  <2>5. F[n] = node
    BY <1>4, <1>7
  <2>6. Last(leaf.items) = Last(get_node(file, page).items)
    BY <1>6
  <2> HIDE DEF F, leaf
  <2>7. [F EXCEPT ![n].items[index] = Last(leaf.items)]
          = [F EXCEPT ![n] = [F[n] EXCEPT !.items[index] = Last(leaf.items)]]
    OBVIOUS
  <2>8. [F[n] EXCEPT !.items[index] = Last(leaf.items)] = NodeWith
    BY <2>5, <2>6 DEF NodeWith
  <2> QED
    BY <2>2, <2>3, <2>4, <2>7, <2>8 DEF u, f, F
<1> QED
  BY <1>14, <1>16 DEF t

LEMMA TakePredecessorContinues ==
  ASSUME NEW c, NEW h, HasTree(c, h), TakePredecessor
  PROVE  Continues(c, Others(c, op.key))
<1> DEFINE I == Others(c, op.key)
<1>1. /\ pc = "predecessor" /\ pc' = "rebalance" /\ stream = "good"
      /\ is_leaf(get_node(file, page)) /\ file' = Written(file, PendingWrites)
      /\ ancestors' = get_nodes(file', root, path) /\ level' = Len(path)
      /\ UNCHANGED <<freelist, root, path, stream>>
  BY DEF TakePredecessor, Write, At
<1>2. PICK w, n : WayDown(c, w, n)
  BY <1>1, AtPredecessor
<1>3. /\ Edits(c, h, file', I)
      /\ RewritesBoth(file, DOMAIN c, LeafWithout, page, NodeWith, w[n], file')
  BY <1>1, <1>2, PredecessorEdits
<1>4. get_nodes(file', root, path) = TrailAfterRemove(Copied, op.key)
  BY <1>1, <1>2, <1>3, CopiesWithPredecessor
<1>5. RebalancesApart(TrailAfterRemove(Copied, op.key))
  BY <1>1, <1>2, AtTaking
<1>6. IsApart(pc', ancestors', h)
  BY <1>1, <1>4, <1>5 DEF IsApart
<1> HIDE DEF I
<1>7. Continues(c, I)
  BY <1>1, <1>3, <1>6, EditContinues
<1> QED
  BY <1>7 DEF I
-----------------------------------------------------------------------------
\* The disk fails.

\* The part of the predecessor's writes that a fault lets through.
LEMMA PartOfTaking ==
  ASSUME NEW c, NEW h, HasTree(c, h), pc = "predecessor",
         NEW done \in Prefixes(PendingWrites), done # <<>>, NEW g, g = Written(file, done)
  PROVE  \E I : Edits(c, h, g, I)
<1> DEFINE X == NodesOver(DOMAIN c, DOMAIN c)
<1>1. PICK w, n : WayDown(c, w, n)
  BY AtPredecessor
<1>2. is_leaf(get_node(file, page))
  <2> SUFFICES ASSUME ~is_leaf(get_node(file, page)) PROVE FALSE
    OBVIOUS
  <2>1. PendingWrites = <<>>
    BY DEF PendingWrites
  <2>2. <<>> \in Seq(X) /\ Len(<<>>) = 0
    OBVIOUS
  <2>3. done \in Seq(X) /\ Len(done) \in 0 .. 0
    BY <2>1, <2>2, PrefixProperties
  <2> QED
    BY <2>3, EmptySeq
<1>3. /\ page \in DOMAIN c /\ c[page].depth = h /\ file[page].items # <<>>
      /\ Len(file[page].items) \in 1 .. Len(file[page].items)
      /\ file[page].items \in Seq(Item)
      /\ PendingWrites = <<LeafWithout, NodeWith>>
  BY <1>1, <1>2, AtTaking
<1>4. /\ LeafWithout \in X /\ IsShaped(LeafWithout)
      /\ LeafWithout.page = page /\ LeafWithout.children = file[page].children
      /\ LeafWithout.items = Front(file[page].items)
      /\ NodeWith \in X
  <2>1. /\ LeafWithout \in NodesOver(DOMAIN c, DOMAIN c) /\ IsShaped(LeafWithout)
        /\ LeafWithout.page = page /\ LeafWithout.children = file[page].children
        /\ LeafWithout.items = Front(file[page].items)
        /\ NodeWith \in NodesOver(DOMAIN c, DOMAIN c) /\ IsShaped(NodeWith)
        /\ NodeWith.page = w[n] /\ NodeWith.children = file[w[n]].children
        /\ NodeWith.items = [file[w[n]].items EXCEPT ![index] = Last(file[page].items)]
    BY <1>1, <1>2, TakingWrites, Zenon
  <2> QED
    BY <2>1
<1> HIDE DEF X
<1>5. done = <<LeafWithout>> \/ done = PendingWrites
  <2> DEFINE s == PendingWrites
  <2>1. s \in Seq(X) /\ Len(s) = 2 /\ s[1] = LeafWithout
    BY <1>3, <1>4
  <2> HIDE DEF s
  <2>2. done \in Prefixes(s)
    BY DEF s
  <2>3. /\ done \in Seq(X) /\ Len(done) \in 0 .. Len(s)
        /\ \A i \in 1 .. Len(done) : i \in 1 .. Len(s) /\ done[i] = s[i]
    BY <2>1, <2>2, PrefixProperties
  <2>4. Len(done) # 0
    BY <2>3, EmptySeq
  <2>5. CASE Len(done) = 1
    <3>1. <<LeafWithout>> \in Seq(X) /\ Len(<<LeafWithout>>) = 1 /\ <<LeafWithout>>[1] = LeafWithout
      BY <1>4
    <3>2. \A i \in 1 .. Len(done) : done[i] = <<LeafWithout>>[i]
      <4>1. done[1] = LeafWithout
        BY <2>1, <2>3, <2>5
      <4>2. \A i \in 1 .. Len(done) : i = 1
        BY <2>5
      <4> QED
        BY <3>1, <4>1, <4>2
    <3> QED
      BY <2>3, <2>5, <3>1, <3>2, SameSeq
  <2>6. CASE Len(done) = 2
    <3>1. done = s
      BY <2>1, <2>3, <2>6, SameSeq
    <3> QED
      BY <3>1 DEF s
  <2> QED
    BY <2>1, <2>3, <2>4, <2>5, <2>6
<1>6. CASE done = PendingWrites
  BY <1>1, <1>2, <1>6, PredecessorEdits
<1>7. CASE done = <<LeafWithout>>
  <2>1. FileOK(file, DOMAIN c) /\ DOMAIN c \subseteq DOMAIN file
    BY AtTree
  <2>2. Rewrites(file, DOMAIN c, LeafWithout, page, g)
    BY <1>3, <1>4, <1>7, <2>1 DEF Rewrites, X
  <2>3. HasRemoved(LeafWithout.items, file[page].items, Len(file[page].items))
    BY <1>3, <1>4, FrontHasRemoved
  <2>4. LosesItem(c, h, LeafWithout, page, Len(file[page].items), g)
    BY <1>3, <2>2, <2>3 DEF LosesItem
  <2> QED
    BY <2>4, LeafLosesItem
<1> QED
  BY <1>5, <1>6, <1>7

LEMMA FaultContinues ==
  ASSUME NEW c, NEW h, HasTree(c, h), DiskFault
  PROVE  Continues(c, ItemsOf(file, c))
<1>1. PICK done \in Prefixes(PendingWrites) :
        \/ Quit(Written(file, done))
        \/ /\ ReturnsError(done) /\ file' = Written(file, done) /\ stream' = "failed"
           /\ freelist' = IF pc = "create" THEN get_next_page(freelist) ELSE freelist
           /\ pc' = "return" /\ UNCHANGED root
  BY DEF DiskFault, ReturnWith
<1>2. CASE Quit(Written(file, done))
  BY <1>2, EndsProcess DEF Quit, Stop
<1>3. CASE ~Quit(Written(file, done))
  <2>1. pc # "create"
    BY Running DEF HasTree, StepOK
  <2>2. /\ ReturnsError(done) /\ file' = Written(file, done) /\ stream' = "failed"
        /\ pc' = "return" /\ UNCHANGED <<freelist, root>>
    BY <1>1, <1>3, <2>1
  <2>3. CASE pc \in {"find", "verify"}
    <3>1. PendingWrites = <<>>
      BY <2>3 DEF PendingWrites
    <3>2. <<>> \in Seq({0}) /\ Len(<<>>) = 0
      OBVIOUS
    <3>3. done \in Seq({0}) /\ Len(done) \in 0 .. 0
      BY <3>1, <3>2, PrefixProperties
    <3>4. done = <<>>
      BY <3>3, EmptySeq
    <3>5. file' = file
      BY <2>2, <3>4, NothingWritten
    <3> QED
      BY <2>2, <3>5, QuietStep
  <2>4. CASE \E I : Edits(c, h, file', I)
    BY <2>2, <2>4, EditCutShort
  <2>5. CASE pc \notin {"find", "verify"}
    <3>1. CASE pc = "insert" /\ done = PendingWrites
      <4>1. PendingWrites = <<InsertedNode>>
        BY <3>1 DEF PendingWrites
      <4>2. file' = Written(file, <<InsertedNode>>)
        BY <2>2, <3>1, <4>1
      <4>3. Edits(c, h, file', ItemsOf(file, c) \union {NewItem})
        BY <3>1, <4>2, InsertEdits
      <4> QED
        BY <2>4, <4>3
    <3>2. CASE pc = "remove" /\ done = PendingWrites
      <4>1. file' = Written(file, PendingWrites)
        BY <2>2, <3>2
      <4>2. Edits(c, h, file', Others(c, op.key))
        BY <3>2, <4>1, RemoveEdits
      <4> QED
        BY <2>4, <4>2
    <3>3. CASE pc = "predecessor" /\ done # <<>>
      BY <2>2, <2>4, <3>3, PartOfTaking
    <3> QED
      BY <2>1, <2>2, <2>5, <3>1, <3>2, <3>3 DEF ReturnsError
  <2> QED
    BY <2>3, <2>5
<1> QED
  BY <1>2, <1>3

-----------------------------------------------------------------------------
\* Steps of the loops that write.

\* They change the tree at and below the node the loop has decided on, and the
\* copies it has still to come to are of the nodes above.
LEMMA CopiesRemain ==
  ASSUME NEW c, NEW h \in Nat, IsTreeWith(file, root, c, h), CopiesOf(c),
         Len(path) \in Nat, level \in 1 .. Len(path), Len(ancestors) = Len(path) + 1,
         Unbalanced(ancestors[level + 1]),
         UNCHANGED <<root, pc, path, ancestors>>, level' = level - 1,
         NEW d, Reworks(file, root, c, h, file', d, ancestors[level].page)
  PROVE  CopiesOf(d)'
<1>1. /\ ancestors[1].page = root
      /\ \A n \in 1 .. Len(path) : ancestors[n].children[path[n]] = ancestors[n + 1].page
      /\ \A n \in 1 .. level + 1 :
           ancestors[n].page \in DOMAIN c /\ c[ancestors[n].page].depth = n - 1
  BY DEF CopiesOf
<1>2. c[ancestors[level].page].depth = level - 1
  BY <1>1
<1>3. ASSUME NEW n \in 1 .. level
      PROVE  /\ ancestors[n].page \in DOMAIN d /\ d[ancestors[n].page].depth = n - 1
             /\ n # level => get_node(file', ancestors[n].page) = ancestors[n]
  <2>0. n \in 1 .. level + 1
    OBVIOUS
  <2>1. ancestors[n].page \in DOMAIN c /\ c[ancestors[n].page].depth = n - 1
    BY <1>1, <2>0
  <2>2. n - 1 <= level - 1 /\ (n # level => n - 1 < level - 1)
    OBVIOUS
  <2>3. ancestors[n].page \in DOMAIN d /\ d[ancestors[n].page].depth = n - 1
    BY <1>2, <2>1, <2>2 DEF Reworks
  <2>4. ASSUME n # level
        PROVE  get_node(file', ancestors[n].page) = ancestors[n]
    <3>1. file'[ancestors[n].page] = file[ancestors[n].page]
      BY <1>2, <2>1, <2>2, <2>4 DEF Reworks
    <3>2. n \in 1 .. level + 1 /\ n <= level
      OBVIOUS
    <3>3. get_node(file, ancestors[n].page) = ancestors[n]
      BY <3>2, FreshAbove
    <3> QED
      BY <3>1, <3>3, ReadAgain
  <2> QED
    BY <2>3, <2>4
<1>4. ASSUME NEW n \in 1 .. level' + 1
      PROVE  /\ ancestors'[n].page \in DOMAIN d /\ d[ancestors'[n].page].depth = n - 1
             /\ IsFresh(n)' => ancestors'[n] = get_node(file', ancestors'[n].page)
  <2>1. n \in 1 .. level
    OBVIOUS
  <2>2. n = level => ~IsFresh(n)'
    BY <2>1 DEF IsFresh, Unbalanced
  <2> QED
    BY <1>3, <2>1, <2>2
<1> QED
  BY <1>1, <1>4 DEF CopiesOf

LEMMA LoopContinues ==
  ASSUME NEW c, NEW h, HasTree(c, h), pc \in {"split", "rebalance"}, level > 0,
         Unbalanced(ancestors[level + 1]),
         UNCHANGED <<root, pc, op, path, ancestors, stream>>, level' = level - 1,
         NEW D, Remade(file, root, c, h, file', D, ancestors[level].page),
         Frees(freelist', D), DOMAIN c \ D \subseteq Released'
  PROVE  Continues(c, ItemsOf(file, c))
<1>1. PICK d : DOMAIN d = D /\ Reworks(file, root, c, h, file', d, ancestors[level].page)
  BY DEF Remade
<1>2. StreamOK /\ CallOK(c, h) /\ h \in Nat /\ IInv /\ proc = "running" /\ root # 0
  BY DEF HasTree, TreeInvariantWith
<1>3. CopiesOf(c) /\ IsTreeWith(file, root, c, h) /\ h <= MaxDepth
  BY <1>2, AtTree DEF CallOK
<1>4. Len(path) \in Nat /\ level \in 1 .. Len(path) /\ Len(ancestors) = Len(path) + 1
  BY <1>2, AtCopies, Running
<1>5. CopiesOf(d)'
  BY <1>1, <1>2, <1>3, <1>4, CopiesRemain
<1>6. StreamOK' /\ CallOK(d, h)'
  <2>1. GuardOK' /\ DescentOK'
    BY DEF GuardOK, DescentOK
  <2>2. pc = "split" => h < MaxDepth /\ SplitsApart(ancestors)'
    BY <1>2 DEF CallOK, SplitsApart
  <2>3. pc = "rebalance" => RebalancesApart(ancestors)'
    BY <1>2 DEF CallOK, RebalancesApart
  <2> QED
    BY <1>2, <1>5, <2>1, <2>2, <2>3 DEF StreamOK, CallOK
<1>7. IsTreeWith(file', root', d, h) /\ IsOrderedWith(file', d)
  BY <1>1 DEF Reworks
<1>8. TreeInvariantWith(d, h)'
  BY <1>1, <1>2, <1>3, <1>6, <1>7, TreeNow
<1>9. ItemsOf(file', d) = ItemsOf(file, c)
  BY <1>1 DEF Reworks, ItemsOf
<1> QED
  BY <1>1, <1>2, <1>8, <1>9 DEF Continues

\* The copies of the node the loop is at and of its parent are what the file says.
LEMMA AtLoop ==
  ASSUME NEW c, NEW h, HasTree(c, h), pc \in {"split", "rebalance"}, level > 0, IsFresh(level + 1),
         NEW p, p = Parent.page, NEW a, a = Child.page
  PROVE  /\ p \in DOMAIN c /\ a \in DOMAIN c /\ ancestors[level].page = p
         /\ Parent = get_node(file, p) /\ Child = get_node(file, a)
         /\ Slot \in 1 .. Len(file[p].children) /\ file[p].children[Slot] = a
         /\ Child = ancestors[level + 1] /\ level \in 1 .. Len(path)
<1>1. CallOK(c, h) /\ h \in Nat /\ IInv /\ proc = "running" /\ root # 0
  BY DEF HasTree, TreeInvariantWith
<1>2. CopiesOf(c) /\ IsTreeWith(file, root, c, h)
  BY <1>1, AtTree DEF CallOK
<1>3. Len(path) \in Nat /\ level \in 1 .. Len(path) /\ Slot \in 1 .. Len(Parent.children)
  BY <1>1, AtCopies, Running
<1>4. level \in 1 .. level + 1 /\ level + 1 \in 1 .. level + 1 /\ level <= level
  BY <1>3
<1>5. /\ Parent = ancestors[level] /\ Child = ancestors[level + 1] /\ Slot = path[level]
  BY DEF Parent, Child, Slot
<1>6. p \in DOMAIN c /\ a \in DOMAIN c /\ Parent.children[Slot] = a
  BY <1>2, <1>3, <1>4, <1>5 DEF CopiesOf
<1>7. Child = get_node(file, a)
  BY <1>2, <1>4, <1>5 DEF CopiesOf
<1>8. Parent = get_node(file, p)
  BY <1>2, <1>4, <1>5, FreshAbove
<1>9. get_node(file, p).children = file[p].children
  BY <1>2, <1>6, NodesOfTree
<1> QED
  BY <1>3, <1>5, <1>6, <1>7, <1>8, <1>9

\* Pages past the header can be given to nodes.
LEMMA PagesForNodes ==
  ASSUME IInv, proc = "running", NEW T, T \subseteq meta.freelist_page + 1 .. PageBound
  PROVE  FileOK(file, T)
<1>1. PagesOK(file) /\ HeaderOK(file) /\ HeaderLoaded /\ TypeOK
  BY Running
<1>2. META_PAGE \in DOMAIN file /\ meta.freelist_page \in Nat /\ PageBound \in Nat
  BY <1>1, PageBoundNat DEF HeaderLoaded, TypeOK
<1>3. T \subseteq 1 .. PageBound
  BY <1>2
<1>4. ASSUME file[META_PAGE] # Hole
      PROVE  1 \notin T
  <2>1. meta.freelist_page = 1
    BY <1>1, <1>4 DEF HeaderLoaded, FirstMeta
  <2> QED
    BY <2>1
<1> QED
  BY <1>1, <1>2, <1>3, <1>4 DEF FileOK, NodePages

\* The nodes of a split, each on its page.
Splits(S, T, a, b, e, A, P, s, sp) ==
  /\ S \subseteq T /\ e \in T /\ A \in NodesOver({a}, S) /\ can_spare_an_element(A)
  /\ is_leaf(A) \/ Len(A.children) = Len(A.items) + 1
  /\ P \in NodesOver({b}, T)
  /\ s \in Nat \ {0} /\ s <= Len(P.items) + 1 /\ s <= Len(P.children)
  /\ sp = split(P, A, s, e)

LEMMA SplitTypesAlone ==
  ASSUME NEW S, NEW T, NEW a, NEW b, NEW e, NEW A, NEW P, NEW s, NEW sp,
         Splits(S, T, a, b, e, A, P, s, sp)
  PROVE  /\ sp.left \in NodesOver({a}, S) /\ sp.right \in NodesOver({e}, S)
         /\ sp.parent \in NodesOver({b}, T)
<1> DEFINE w == split(P, A, s, e)
<1>1. /\ w.left \in NodesOver({a}, S) /\ w.right \in NodesOver({e}, S)
      /\ w.parent \in NodesOver({b}, T)
  BY SplitTypes DEF Splits
<1> QED
  BY <1>1 DEF Splits

\* The three nodes of a split, written to a file.
LEMMA SplitWritten ==
  ASSUME NEW f, NEW r, NEW c, NEW h \in Nat, IsTreeWith(f, r, c, h), IsOrderedWith(f, c),
         DOMAIN c \subseteq DOMAIN f, NEW b, b \notin DOMAIN c,
         NEW T, T = DOMAIN c \union {b}, FileOK(f, T),
         NEW p \in DOMAIN c, NEW s \in 1 .. Len(f[p].children), NEW a, f[p].children[s] = a,
         can_spare_an_element(get_node(f, a)),
         NEW sp, sp = split(get_node(f, p), get_node(f, a), s, b),
         NEW g, g = Written(f, <<sp.right, sp.parent, sp.left>>)
  PROVE  Remade(f, r, c, h, g, T, p)
<1>1. a \in DOMAIN c /\ c[a].depth = c[p].depth + 1 /\ c[p].depth \in 0 .. h
  <2>1. IsChild(c, r, p, s, a)
    BY ChildAt
  <2>2. c[p].depth \in 0 .. h
    BY NodeOfTree
  <2> QED
    BY <2>1, <2>2 DEF IsChild
<1>2. a # p /\ DOMAIN c \subseteq T /\ b \in T /\ {b} \subseteq T
  BY <1>1
<1> DEFINE A == get_node(f, a)
           P == get_node(f, p)
<1>3. /\ A \in NodesOver(DOMAIN c, DOMAIN c) /\ IsShaped(A) /\ A.page = a
      /\ P \in NodesOver(DOMAIN c, DOMAIN c) /\ IsShaped(P) /\ P.page = p
      /\ P.items = f[p].items /\ P.children = f[p].children
  BY <1>1, NodesOfTree
<1> HIDE DEF A, P
<1>4. /\ f[p].items \in Seq(Item) /\ Len(f[p].items) \in Nat /\ Len(f[p].children) \in Nat
      /\ Len(f[p].children) # 0 => Len(f[p].children) = Len(f[p].items) + 1
  BY NodeOfTree
<1>5. s \in Nat \ {0} /\ s <= Len(P.items) + 1 /\ s <= Len(P.children)
  BY <1>3, <1>4
<1>6. A \in NodesOver({a}, DOMAIN c) /\ P \in NodesOver({p}, DOMAIN c)
  BY <1>3 DEF NodesOver
<1>7. P \in NodesOver({p}, T)
  BY <1>2, <1>6, NodesOverMonotonic
<1>8. is_leaf(A) \/ Len(A.children) = Len(A.items) + 1
  BY <1>3 DEF IsShaped
<1>9. can_spare_an_element(A) /\ sp = split(P, A, s, b)
  BY DEF A, P
<1>10. /\ sp.left \in NodesOver({a}, DOMAIN c) /\ sp.right \in NodesOver({b}, DOMAIN c)
       /\ sp.parent \in NodesOver({p}, T)
  <2>1. Splits(DOMAIN c, T, a, p, b, A, P, s, sp)
    BY <1>2, <1>5, <1>6, <1>7, <1>8, <1>9 DEF Splits
  <2> QED
    BY <2>1, SplitTypesAlone
<1> DEFINE x == sp.right
           y == sp.parent
           z == sp.left
           nodes == <<x, y, z>>
<1>11. x.page = b /\ y.page = p /\ z.page = a
  BY <1>10 DEF NodesOver
<1>12. {a} \subseteq T /\ {p} \subseteq T
  BY <1>1, <1>2
<1>13. x \in NodesOver(T, T) /\ y \in NodesOver(T, T) /\ z \in NodesOver(T, T)
  BY <1>2, <1>10, <1>12, NodesOverMonotonic
<1> HIDE DEF x, y, z
<1>14. /\ nodes \in Seq(NodesOver(T, T)) /\ Len(nodes) = 3
       /\ nodes[1] = x /\ nodes[2] = y /\ nodes[3] = z
  BY <1>13
<1>15. g = Written(f, nodes)
  BY DEF x, y, z
<1> HIDE DEF nodes
<1>16. \A i, j \in 1 .. Len(nodes) : nodes[i].page = nodes[j].page => nodes[i] = nodes[j]
  <2>1. b # p /\ b # a
    BY <1>1
  <2>2. \A i \in 1 .. Len(nodes) : i = 1 \/ i = 2 \/ i = 3
    BY <1>14
  <2> QED
    BY <1>2, <1>11, <1>14, <2>1, <2>2
<1>17. HasWritten(f, nodes, g)
  BY <1>14, <1>15, <1>16, NodesAreWritten
<1>18. Holds(g, b, x) /\ Holds(g, p, y) /\ Holds(g, a, z)
  <2>1. 1 \in 1 .. Len(nodes) /\ 2 \in 1 .. Len(nodes) /\ 3 \in 1 .. Len(nodes)
    BY <1>14
  <2> QED
    BY <1>11, <1>14, <1>17, <2>1 DEF HasWritten
<1>19. \A q \in DOMAIN c \ {p, a} : g[q] = f[q]
  <2>1. ASSUME NEW q \in DOMAIN c \ {p, a}
        PROVE  g[q] = f[q]
    <3>1. q \in DOMAIN f /\ q # b /\ q # p /\ q # a
      OBVIOUS
    <3>2. \A i \in 1 .. Len(nodes) : nodes[i].page # q
      BY <1>11, <1>14, <3>1
    <3> QED
      BY <1>17, <3>1, <3>2 DEF HasWritten
  <2> QED
    BY <2>1
<1>20. Holds(g, p, sp.parent) /\ Holds(g, a, sp.left) /\ Holds(g, b, sp.right)
  BY <1>18 DEF x, y, z
<1> QED
  BY <1>19, <1>20, SplitRemakes, ZenonT(30)

LEMMA SplitChildContinues ==
  ASSUME NEW c, NEW h, HasTree(c, h), SplitChild
  PROVE  Continues(c, ItemsOf(file, c))
<1> DEFINE b == next_page(freelist)
           fl == get_next_page(freelist)
           T == DOMAIN c \union {b}
           p == Parent.page
           a == Child.page
           sp == split(get_node(file, p), get_node(file, a), Slot, b)
<1>1. /\ proc = "running" /\ pc = "split" /\ level > 0 /\ is_over_populated(Child)
      /\ ~StepGoesAstray
      /\ file' = Written(file, SplitWrites)
      /\ UNCHANGED <<root, pc, op, path, ancestors, stream>>
      /\ freelist' = fl /\ level' = level - 1
  BY DEF SplitChild, Write, At, Proceeds
<1>2. can_spare_an_element(Child) /\ Unbalanced(ancestors[level + 1])
  BY <1>1 DEF StepGoesAstray, ElementIsMissing, Unbalanced, Child
<1>3. /\ CallOK(c, h) /\ IInv /\ Len(path) \in Nat /\ freelist.max_page \in Nat
      /\ level \in 0 .. Len(path) /\ Len(ancestors) = Len(path) + 1
      /\ StepOK /\ BoundsOK
  BY <1>1, Running, AtCopies DEF HasTree, TreeInvariantWith
<1>4. SplitsApart(ancestors)
  BY <1>1, <1>3 DEF CallOK
<1>5. IsFresh(level + 1)
  <2>1. CASE level + 1 = Len(ancestors)
    BY <2>1 DEF IsFresh
  <2>2. CASE level + 1 # Len(ancestors)
    <3> DEFINE m == level + 2
    <3>1. m \in 1 .. Len(ancestors) /\ m > 1 /\ m - 1 = level + 1
      BY <1>1, <1>3, <2>2
    <3>2. ~is_over_populated(ancestors[level + 2])
      <4> HIDE DEF m
      <4>1. is_over_populated(ancestors[m]) => ~is_over_populated(ancestors[m - 1])
        BY <1>4, <3>1 DEF SplitsApart
      <4>2. is_over_populated(ancestors[m - 1])
        BY <1>1, <3>1 DEF Child
      <4>3. ~is_over_populated(ancestors[m])
        BY <4>1, <4>2
      <4> QED
        BY <4>3 DEF m
    <3>3. (level + 1) + 1 = level + 2
      BY <1>3
    <3> QED
      BY <1>1, <3>2, <3>3 DEF IsFresh, Unbalanced
  <2> QED
    BY <2>1, <2>2
<1>6. /\ p \in DOMAIN c /\ a \in DOMAIN c /\ ancestors[level].page = p
      /\ Parent = get_node(file, p) /\ Child = get_node(file, a)
      /\ Slot \in 1 .. Len(file[p].children) /\ file[p].children[Slot] = a
  BY <1>1, <1>5, AtLoop
<1>7. /\ IsTreeWith(file, root, c, h) /\ IsOrderedWith(file, c) /\ h \in Nat
      /\ DOMAIN c \subseteq DOMAIN file /\ DOMAIN c \subseteq Session
      /\ Frees(freelist, DOMAIN c)
  BY AtTree
<1>8. b \notin DOMAIN c /\ Frees(fl, T)
  BY <1>7, GivesPage
<1>9. FileOK(file, T)
  <2>1. /\ Session \union {b} \subseteq meta.freelist_page + 1 .. fl.max_page
        /\ fl.max_page \in freelist.max_page .. freelist.max_page + 1
    BY <1>1, <1>3, NextPageGiven
  <2>2. op.kind = "put" /\ Len(path) <= MaxDepth /\ freelist.max_page + level < MaxPages + Len(path)
    BY <1>1, <1>3 DEF StepOK, BoundsOK
  <2> HIDE DEF fl, b
  <2>3. fl.max_page <= PageBound /\ fl.max_page \in Nat /\ PageBound \in Nat
    BY <1>1, <1>3, <2>1, <2>2, PageBoundNat, CollectionAssumption DEF PageBound
  <2>4. meta.freelist_page \in Nat
    BY <1>1, <1>3, Running DEF TypeOK
  <2>5. Session \union {b} \subseteq meta.freelist_page + 1 .. PageBound
    BY <2>1, <2>3, <2>4
  <2>6. T \subseteq meta.freelist_page + 1 .. PageBound
    BY <1>7, <2>5
  <2> HIDE DEF T
  <2> QED
    BY <1>1, <1>3, <2>6, PagesForNodes
<1>10. SplitWrites = <<sp.right, sp.parent, sp.left>>
  BY <1>6, Zenon DEF SplitWrites
<1>11. can_spare_an_element(get_node(file, a))
  BY <1>2, <1>6, Zenon
<1>12. file' = Written(file, <<sp.right, sp.parent, sp.left>>)
  BY <1>1, <1>10, Zenon
<1> HIDE DEF sp, T, p, a, fl, b
<1>13. Remade(file, root, c, h, file', T, p)
  <2>1. sp = split(get_node(file, p), get_node(file, a), Slot, b)
    BY DEF sp
  <2>2. T = DOMAIN c \union {b}
    BY DEF T
  <2> QED
    BY <1>6, <1>7, <1>8, <1>9, <1>11, <1>12, <2>1, <2>2, SplitWritten
<1>14. Remade(file, root, c, h, file', T, ancestors[level].page)
  BY <1>6, <1>13
<1>15. Frees(freelist', T) /\ DOMAIN c \ T \subseteq Released'
  BY <1>1, <1>8 DEF T
<1>16. pc \in {"split", "rebalance"}
  BY <1>1
<1> QED
  BY <1>1, <1>2, <1>14, <1>15, <1>16, LoopContinues

\* The four writes of a split of the root: the nodes of a split, and the new root
\* once more.
LEMMA SplitRootWritten ==
  ASSUME NEW f, NEW r, NEW c, NEW h \in Nat, IsTreeWith(f, r, c, h), IsOrderedWith(f, c),
         DOMAIN c \subseteq DOMAIN f, NEW b, b \notin DOMAIN c, NEW e, e \notin DOMAIN c, e # b,
         NEW T, T = DOMAIN c \union {b, e}, FileOK(f, T),
         can_spare_an_element(get_node(f, r)),
         NEW nd, nd = [page |-> b, items |-> <<>>, children |-> <<r>>],
         NEW sp, sp = split(nd, get_node(f, r), 1, e),
         NEW g, g = Written(f, <<sp.right, sp.parent, sp.left, sp.parent>>)
  PROVE  Replants(f, c, g, b, h + 1, T)
<1> DEFINE A == get_node(f, r)
<1>1. r \in DOMAIN c /\ r # b /\ r # e
  BY DEF IsTreeWith
<1>2. DOMAIN c \subseteq T /\ b \in T /\ e \in T /\ {b} \subseteq T /\ {e} \subseteq T /\ {r} \subseteq T
  BY <1>1
<1>3. A \in NodesOver(DOMAIN c, DOMAIN c) /\ IsShaped(A) /\ A.page = r
  BY <1>1, NodesOfTree
<1> HIDE DEF A
<1>4. A \in NodesOver({r}, DOMAIN c) /\ nd \in NodesOver({b}, T)
  BY <1>1, <1>2, <1>3 DEF NodesOver
<1>5. 1 \in Nat \ {0} /\ 1 <= Len(nd.items) + 1 /\ 1 <= Len(nd.children)
  OBVIOUS
<1>6. is_leaf(A) \/ Len(A.children) = Len(A.items) + 1
  BY <1>3 DEF IsShaped
<1>7. can_spare_an_element(A) /\ sp = split(nd, A, 1, e)
  BY DEF A
<1>8. /\ sp.left \in NodesOver({r}, DOMAIN c) /\ sp.right \in NodesOver({e}, DOMAIN c)
      /\ sp.parent \in NodesOver({b}, T)
  <2>1. Splits(DOMAIN c, T, r, b, e, A, nd, 1, sp)
    BY <1>2, <1>4, <1>5, <1>6, <1>7 DEF Splits
  <2> QED
    BY <2>1, SplitTypesAlone
<1> DEFINE x == sp.right
           y == sp.parent
           z == sp.left
           nodes == <<x, y, z, y>>
<1>9. x.page = e /\ y.page = b /\ z.page = r
  BY <1>8 DEF NodesOver
<1>10. x \in NodesOver(T, T) /\ y \in NodesOver(T, T) /\ z \in NodesOver(T, T)
  BY <1>2, <1>8, NodesOverMonotonic
<1> HIDE DEF x, y, z
<1>11. /\ nodes \in Seq(NodesOver(T, T)) /\ Len(nodes) = 4
       /\ nodes[1] = x /\ nodes[2] = y /\ nodes[3] = z /\ nodes[4] = y
  BY <1>10
<1>12. g = Written(f, nodes)
  BY DEF x, y, z
<1> HIDE DEF nodes
<1>13. \A i \in 1 .. Len(nodes) : i = 1 \/ i = 2 \/ i = 3 \/ i = 4
  BY <1>11
<1>14. \A i, j \in 1 .. Len(nodes) : nodes[i].page = nodes[j].page => nodes[i] = nodes[j]
  BY <1>1, <1>9, <1>11, <1>13
<1>15. HasWritten(f, nodes, g)
  BY <1>11, <1>12, <1>14, NodesAreWritten
<1>16. Holds(g, e, x) /\ Holds(g, b, y) /\ Holds(g, r, z)
  <2>1. 1 \in 1 .. Len(nodes) /\ 2 \in 1 .. Len(nodes) /\ 3 \in 1 .. Len(nodes)
    BY <1>11
  <2> QED
    BY <1>9, <1>11, <1>15, <2>1 DEF HasWritten
<1>17. \A q \in DOMAIN c \ {r} : g[q] = f[q]
  <2>1. ASSUME NEW q \in DOMAIN c \ {r}
        PROVE  g[q] = f[q]
    <3>1. q \in DOMAIN f /\ q # b /\ q # e /\ q # r
      OBVIOUS
    <3>2. \A i \in 1 .. Len(nodes) : nodes[i].page # q
      BY <1>9, <1>11, <1>13, <3>1
    <3> QED
      BY <1>15, <3>1, <3>2 DEF HasWritten
  <2> QED
    BY <2>1
<1>18. Holds(g, b, sp.parent) /\ Holds(g, r, sp.left) /\ Holds(g, e, sp.right)
  BY <1>16 DEF x, y, z
<1> QED
  BY <1>17, <1>18, GrowReplants

LEMMA SplitRootContinues ==
  ASSUME NEW c, NEW h, HasTree(c, h), SplitRoot
  PROVE  Continues(c, ItemsOf(file, c))
<1> DEFINE b == next_page(freelist)
           fl == get_next_page(freelist)
           e == next_page(fl)
           fm == get_next_page(fl)
           T == DOMAIN c \union {b, e}
           nd == [page |-> b, items |-> <<>>, children |-> <<root>>]
           sp == split(nd, get_node(file, root), 1, e)
<1>1. /\ proc = "running" /\ pc = "split" /\ level = 0 /\ is_over_populated(ancestors[1])
      /\ ~StepGoesAstray
      /\ file' = Written(file, SplitRootWrites)
      /\ stream' = stream /\ proc' = proc /\ pc' = "return"
      /\ freelist' = fm /\ root' = b
  BY DEF SplitRoot, Write, At, Proceeds, ReturnWith, NewRoot
<1>2. can_spare_an_element(ancestors[1])
  BY <1>1 DEF StepGoesAstray, ElementIsMissing
<1>3. /\ CallOK(c, h) /\ IInv /\ Len(path) \in Nat /\ freelist.max_page \in Nat
      /\ Len(ancestors) = Len(path) + 1 /\ StepOK /\ BoundsOK /\ TypeOK /\ PagesHeld
  BY <1>1, Running, AtCopies DEF HasTree, TreeInvariantWith
<1>4. SplitsApart(ancestors) /\ CopiesOf(c) /\ h < MaxDepth
  BY <1>1, <1>3 DEF CallOK
<1>5. IsFresh(1)
  <2>1. CASE Len(ancestors) = 1
    BY <2>1 DEF IsFresh
  <2>2. CASE Len(ancestors) # 1
    <3> DEFINE m == 2
    <3>1. m \in 1 .. Len(ancestors) /\ m > 1 /\ m - 1 = 1
      BY <1>3, <2>2
    <3>2. ~is_over_populated(ancestors[2])
      <4> HIDE DEF m
      <4>1. is_over_populated(ancestors[m]) => ~is_over_populated(ancestors[m - 1])
        BY <1>4, <3>1 DEF SplitsApart
      <4>2. is_over_populated(ancestors[m - 1])
        BY <1>1, <3>1
      <4>3. ~is_over_populated(ancestors[m])
        BY <4>1, <4>2
      <4> QED
        BY <4>3 DEF m
    <3> QED
      BY <1>1, <3>2 DEF IsFresh, Unbalanced
  <2> QED
    BY <2>1, <2>2
<1>6. ancestors[1].page = root /\ ancestors[1] = get_node(file, root)
  BY <1>1, <1>4, <1>5 DEF CopiesOf
<1>7. /\ IsTreeWith(file, root, c, h) /\ IsOrderedWith(file, c) /\ h \in Nat /\ h <= MaxDepth
      /\ DOMAIN c \subseteq DOMAIN file /\ DOMAIN c \subseteq Session
      /\ Frees(freelist, DOMAIN c)
  BY AtTree
<1>8. b \notin DOMAIN c /\ e \notin DOMAIN c /\ e # b /\ Frees(fm, T)
  <2>1. b \notin DOMAIN c /\ Frees(fl, DOMAIN c \union {b})
    BY <1>7, GivesPage
  <2> HIDE DEF fl, b
  <2>2. e \notin DOMAIN c \union {b} /\ Frees(fm, (DOMAIN c \union {b}) \union {e})
    BY <2>1, GivesPage
  <2>3. (DOMAIN c \union {b}) \union {e} = T
    OBVIOUS
  <2> HIDE DEF fm, e, T
  <2> QED
    BY <2>1, <2>2, <2>3
<1>9. FileOK(file, T)
  <2>1. /\ fl \in Freelists /\ fl.max_page \in freelist.max_page .. freelist.max_page + 1
        /\ Session \union {b} \subseteq meta.freelist_page + 1 .. fl.max_page
        /\ ToSet(fl.released_pages) \subseteq Session \union {b}
    BY <1>1, <1>3, NextPageGiven
  <2>2. meta.freelist_page \in Nat /\ meta.freelist_page <= freelist.max_page
    BY <1>3 DEF TypeOK, PagesHeld
  <2> HIDE DEF fl, b
  <2>3. meta.freelist_page <= fl.max_page
    BY <1>3, <2>1, <2>2
  <2>4. /\ fm \in Freelists /\ fm.max_page \in fl.max_page .. fl.max_page + 1
        /\ e \in meta.freelist_page + 1 .. fm.max_page
        /\ Session \union {b} \subseteq meta.freelist_page + 1 .. fm.max_page
    BY <2>1, <2>2, <2>3, PageGiven
  <2> HIDE DEF fm, e
  <2>5. op.kind = "put" /\ Len(path) <= MaxDepth /\ freelist.max_page < MaxPages + Len(path)
    BY <1>1, <1>3 DEF StepOK, BoundsOK
  <2>6. fm.max_page <= PageBound
    <3>1. fl.max_page \in Nat /\ fm.max_page \in Nat
      BY <2>1, <2>4 DEF Freelists
    <3> QED
      BY <1>3, <2>1, <2>4, <2>5, <3>1, CollectionAssumption DEF PageBound
  <2>7. fm.max_page \in Nat /\ PageBound \in Nat
    BY <2>4, PageBoundNat DEF Freelists
  <2>8. T \subseteq meta.freelist_page + 1 .. PageBound
    BY <1>7, <2>2, <2>4, <2>6, <2>7
  <2> HIDE DEF T
  <2> QED
    BY <1>1, <1>3, <2>8, PagesForNodes
<1>10. NewRoot = nd
  BY <1>6 DEF NewRoot
<1>11. SplitRootWrites = <<sp.right, sp.parent, sp.left, sp.parent>>
  BY <1>6, <1>10, Zenon DEF SplitRootWrites
<1>12. can_spare_an_element(get_node(file, root))
  BY <1>2, <1>6, Zenon
<1>13. file' = Written(file, <<sp.right, sp.parent, sp.left, sp.parent>>)
  BY <1>1, <1>11, Zenon
<1>14. b # 0
  <2>1. b \in T
    OBVIOUS
  <2>2. T \subseteq 1 .. PageBound
    BY <1>9, Zenon DEF FileOK, NodePages
  <2> HIDE DEF b, T
  <2> QED
    BY <2>1, <2>2, PageBoundNat
<1> HIDE DEF sp, T, nd, fl, b, fm, e
<1>15. Replants(file, c, file', b, h + 1, T)
  <2>1. sp = split(nd, get_node(file, root), 1, e)
    BY DEF sp
  <2>2. T = DOMAIN c \union {b, e}
    BY DEF T
  <2>3. nd = [page |-> b, items |-> <<>>, children |-> <<root>>]
    BY DEF nd
  <2> QED
    BY <1>7, <1>8, <1>9, <1>12, <1>13, <2>1, <2>2, <2>3, SplitRootWritten
<1>16. PICK d : /\ DOMAIN d = T
                /\ IsTreeWith(file', b, d, h + 1) /\ IsOrderedWith(file', d)
                /\ \A y : HoldsItem(file, c, y) <=> HoldsItem(file', d, y)
  BY <1>15 DEF Replants
<1>17. h + 1 \in Nat /\ h + 1 <= MaxDepth
  BY <1>4, <1>7, CollectionAssumption
<1>18. StreamOK' /\ CallOK(d, h + 1)'
  BY <1>1, NoClaim
<1>19. IsTreeWith(file', root', d, h + 1) /\ Frees(freelist', DOMAIN d) /\ root' # 0
  BY <1>1, <1>8, <1>14, <1>16
<1>20. TreeInvariantWith(d, h + 1)'
  BY <1>16, <1>17, <1>18, <1>19, TreeNow
<1>21. ItemsOf(file', d) = ItemsOf(file, c)
  BY <1>16 DEF ItemsOf
<1>22. DOMAIN c \ DOMAIN d \subseteq Released' \union {root}
  BY <1>16 DEF T
<1> QED
  BY <1>17, <1>20, <1>21, <1>22 DEF Continues

\* A child that is to be rebalanced has a sibling, and is not stale; so the
\* rotations and the merge work on the nodes the file has.
LEMMA AtRebalancing ==
  ASSUME NEW c, NEW h, HasTree(c, h), pc = "rebalance", level > 0, is_under_populated(Child)
  PROVE  /\ Len(Parent.children) > 1 /\ ancestors[level].page = Parent.page
         /\ Parent.page \in DOMAIN c
         /\ MergesAway(file, root, c, h, Parent.page, Rebalanced)
<1> DEFINE p == Parent.page
           a == Child.page
<1>1. /\ proc = "running" /\ CallOK(c, h) /\ IInv /\ Len(path) \in Nat
      /\ level \in 0 .. Len(path) /\ Len(ancestors) = Len(path) + 1
  BY Running, AtCopies DEF HasTree, TreeInvariantWith
<1>2. RebalancesApart(ancestors)
  BY <1>1 DEF CallOK
<1>3. Len(Parent.children) > 1
  <2> DEFINE m == level + 1
  <2>1. m \in 2 .. Len(ancestors) /\ m - 1 = level
    BY <1>1
  <2>2. is_under_populated(ancestors[m])
    BY DEF Child
  <2> HIDE DEF m
  <2>3. Len(ancestors[m - 1].children) > 1
    BY <1>2, <2>1, <2>2 DEF RebalancesApart
  <2> QED
    BY <2>1, <2>3 DEF Parent
<1>4. IsFresh(level + 1)
  <2>1. CASE level + 1 = Len(ancestors)
    BY <2>1 DEF IsFresh
  <2>2. CASE level + 1 # Len(ancestors)
    <3> DEFINE m == level + 2
    <3>1. m \in 2 .. Len(ancestors) /\ m > 2 /\ m - 1 = level + 1
      BY <1>1, <2>2
    <3>2. ~is_under_populated(ancestors[level + 2])
      <4> HIDE DEF m
      <4>1. is_under_populated(ancestors[m]) => ~is_under_populated(ancestors[m - 1])
        BY <1>2, <3>1 DEF RebalancesApart
      <4>2. is_under_populated(ancestors[m - 1])
        BY <3>1 DEF Child
      <4>3. ~is_under_populated(ancestors[m])
        BY <4>1, <4>2
      <4> QED
        BY <4>3 DEF m
    <3>3. (level + 1) + 1 = level + 2
      BY <1>1
    <3> QED
      BY <3>2, <3>3 DEF IsFresh, Unbalanced
  <2> QED
    BY <2>1, <2>2
<1>5. /\ p \in DOMAIN c /\ a \in DOMAIN c /\ ancestors[level].page = p
      /\ Parent = get_node(file, p) /\ Child = get_node(file, a)
      /\ Slot \in 1 .. Len(file[p].children) /\ file[p].children[Slot] = a
  BY <1>4, AtLoop
<1>6. /\ IsTreeWith(file, root, c, h) /\ IsOrderedWith(file, c) /\ h \in Nat
      /\ DOMAIN c \subseteq DOMAIN file /\ FileOK(file, DOMAIN c)
  BY AtTree
<1> HIDE DEF p, a
<1>7. Len(file[p].children) > 1
  <2>1. get_node(file, p).children = file[p].children
    BY <1>5, <1>6, NodesOfTree
  <2>2. Parent.children = file[p].children
    BY <1>5, <2>1
  <2> QED
    BY <1>3, <2>2
<1>8. HasSibling(file, root, c, h, p, a, Slot)
  BY <1>5, <1>6, <1>7 DEF HasSibling
<1>9. MergesAway(file, root, c, h, p, Rebalanced)
  BY <1>5, <1>8, RebalancedMergesAway
<1> QED
  BY <1>3, <1>5, <1>9 DEF p

LEMMA RebalanceChildContinues ==
  ASSUME NEW c, NEW h, HasTree(c, h), RebalanceChild
  PROVE  Continues(c, ItemsOf(file, c))
<1> DEFINE p == Parent.page
           x == Rebalanced.released
           fl == release_page(freelist, x)
           D == DOMAIN c \ {x}
<1>1. /\ proc = "running" /\ pc = "rebalance" /\ level > 0 /\ is_under_populated(Child)
      /\ file' = Written(file, PendingWrites)
      /\ UNCHANGED <<root, pc, op, path, ancestors, stream>>
      /\ freelist' = fl /\ level' = level - 1
  BY DEF RebalanceChild, Write, At
<1>2. PendingWrites = Rebalanced.writes
  BY <1>1 DEF PendingWrites
<1>3. Unbalanced(ancestors[level + 1])
  BY <1>1 DEF Unbalanced, Child
<1>4. ancestors[level].page = p /\ MergesAway(file, root, c, h, p, Rebalanced)
  BY <1>1, AtRebalancing
<1>5. Frees(freelist, DOMAIN c)
  BY AtTree
<1> HIDE DEF p
<1>6. /\ x \in DOMAIN c
      /\ Remade(file, root, c, h, Written(file, Rebalanced.writes), D, p)
  BY <1>4 DEF MergesAway
<1> HIDE DEF x, D, fl
<1>7. Remade(file, root, c, h, file', D, ancestors[level].page)
  BY <1>1, <1>2, <1>4, <1>6
<1>8. Frees(freelist', D) /\ DOMAIN c \ D \subseteq Released'
  <2>1. Frees(fl, D) /\ ToSet(fl.released_pages) = ToSet(freelist.released_pages) \union {x}
    BY <1>5, <1>6, TakesPageBack DEF fl, D
  <2> QED
    BY <1>1, <2>1 DEF Released, D
<1>9. pc \in {"split", "rebalance"}
  BY <1>1
<1> QED
  BY <1>1, <1>3, <1>7, <1>8, <1>9, LoopContinues

\* An empty root gives way to its only child, and is lost.
LEMMA ShrinkRootContinues ==
  ASSUME NEW c, NEW h, HasTree(c, h), ShrinkRoot
  PROVE  Continues(c, ItemsOf(file, c))
<1>1. /\ proc = "running" /\ pc = "rebalance" /\ level = 0 /\ pc' = "verify"
      /\ root' = IF ancestors[1].items = <<>> /\ ~is_leaf(ancestors[1])
                 THEN ancestors[2].page ELSE root
      /\ UNCHANGED <<file, freelist, stream, proc>>
  BY DEF ShrinkRoot, At, dal_vars
<1>2. CASE ~(ancestors[1].items = <<>> /\ ~is_leaf(ancestors[1]))
  <2>1. root' = root /\ pc' \in {"idle", "return", "verify"}
    BY <1>1, <1>2
  <2> QED
    BY <1>1, <2>1, QuietStep
<1>3. CASE ancestors[1].items = <<>> /\ ~is_leaf(ancestors[1])
  <2>1. /\ CallOK(c, h) /\ IInv /\ Len(path) \in Nat /\ CopiesOK
        /\ Len(ancestors) = Len(path) + 1 /\ ancestors[1] \in NodesOf(Session)
    BY <1>1, Running, AtCopies DEF HasTree, TreeInvariantWith
  <2>2. RebalancesApart(ancestors) /\ CopiesOf(c)
    BY <1>1, <2>1 DEF CallOK
  <2>3. Len(path) # 0
    <3>1. path # <<>>
      BY <1>1, <1>3, <2>1 DEF CopiesOK
    <3>2. path \in Seq(Nat)
      BY <1>1, <2>1, Running
    <3> QED
      BY <3>1, <3>2
  <2>4. Len(ancestors[1].children) = 1
    <3>1. IsShaped(ancestors[1]) /\ ancestors[1].items = <<>>
      BY <1>3, <2>1, NodesOfTypes
    <3>2. Len(ancestors[1].children) = Len(ancestors[1].items) + 1
      BY <1>3, <3>1 DEF IsShaped
    <3>3. Len(ancestors[1].items) = 0
      BY <1>3
    <3> QED
      BY <3>2, <3>3
  <2>5. IsFresh(1)
    <3> DEFINE m == 2
    <3>1. m \in 2 .. Len(ancestors) /\ m - 1 = 1
      BY <2>1, <2>3
    <3>2. ~is_under_populated(ancestors[2])
      <4> HIDE DEF m
      <4>1. is_under_populated(ancestors[m]) => Len(ancestors[m - 1].children) > 1
        BY <2>2, <3>1 DEF RebalancesApart
      <4>2. Len(ancestors[m - 1].children) = 1
        BY <2>4, <3>1
      <4>3. ~is_under_populated(ancestors[m])
        BY <4>1, <4>2
      <4> QED
        BY <4>3 DEF m
    <3> QED
      BY <1>1, <3>2 DEF IsFresh, Unbalanced
  <2>6. /\ ancestors[1] = get_node(file, root)
        /\ ancestors[1].children[path[1]] = ancestors[2].page
    BY <1>1, <2>1, <2>2, <2>3, <2>5 DEF CopiesOf
  <2>7. /\ IsTreeWith(file, root, c, h) /\ IsOrderedWith(file, c) /\ h \in Nat /\ h <= MaxDepth
        /\ root \in DOMAIN c /\ Frees(freelist, DOMAIN c) /\ DOMAIN c \subseteq Session
    BY AtTree
  <2>8. /\ file[root].items = <<>> /\ file[root].children = ancestors[1].children
    <3>1. /\ get_node(file, root).items = file[root].items
          /\ get_node(file, root).children = file[root].children
      BY <2>7, NodesOfTree
    <3> QED
      BY <1>3, <2>6, <3>1
  <2>9. path[1] = 1
    <3>1. path[1] \in 1 .. Len(ancestors[1].children)
      BY <1>1, <2>1, <2>3 DEF CopiesOK
    <3> QED
      BY <2>4, <3>1
  <2> DEFINE e == ancestors[2].page
             D == DOMAIN c \ {root}
  <2>10. file[root].children[1] = e /\ file[root].children # <<>>
    <3>1. ancestors[1].children # <<>>
      BY <1>3 DEF is_leaf
    <3> QED
      BY <2>6, <2>8, <2>9, <3>1
  <2> HIDE DEF e
  <2>11. h - 1 \in Nat /\ Replants(file, c, file, e, h - 1, D)
    BY <2>7, <2>8, <2>10, ShrinkReplants
  <2>12. PICK d : /\ DOMAIN d = D
                  /\ IsTreeWith(file, e, d, h - 1) /\ IsOrderedWith(file, d)
                  /\ \A y : HoldsItem(file, c, y) <=> HoldsItem(file, d, y)
    BY <2>11 DEF Replants
  <2>13. root' = e
    BY <1>1, <1>3 DEF e
  <2>14. e # 0
    <3>1. e \in DOMAIN d
      BY <2>12 DEF IsTreeWith
    <3>2. e \in Session
      BY <2>7, <2>12, <3>1
    <3>3. Session \subseteq Nat \ {0}
      BY <1>1, <2>1, Running
    <3> QED
      BY <3>2, <3>3
  <2>15. Frees(freelist', DOMAIN d)
    BY <1>1, <2>7, <2>12 DEF Frees
  <2>16. StreamOK' /\ CallOK(d, h - 1)'
    BY <1>1, NoClaim
  <2>17. h - 1 <= MaxDepth
    BY <2>7, CollectionAssumption
  <2>18. IsTreeWith(file', root', d, h - 1) /\ IsOrderedWith(file', d) /\ root' # 0
    BY <1>1, <2>12, <2>13, <2>14
  <2>19. TreeInvariantWith(d, h - 1)'
    BY <2>11, <2>15, <2>16, <2>17, <2>18, TreeNow
  <2>20. ItemsOf(file', d) = ItemsOf(file, c)
    BY <1>1, <2>12 DEF ItemsOf
  <2>21. DOMAIN c \ DOMAIN d \subseteq Released' \union {root}
    BY <2>12
  <2> QED
    BY <2>11, <2>19, <2>20, <2>21 DEF Continues
<1> QED
  BY <1>2, <1>3

-----------------------------------------------------------------------------
\* Without a tree.

\* Of a collection with no tree the invariant says only that no page is free.
LEMMA NoTreeThen ==
  ASSUME IInv', proc' = "running" => root' = 0 /\ freelist'.released_pages = <<>>, NEW d, NEW g
  PROVE  TreeInvariantWith(d, g)'
<1> SUFFICES ASSUME proc' = "running"
             PROVE  (StreamOK /\ ReleasedOK)' /\ root' = 0
  BY DEF TreeInvariantWith
<1>1. root' = 0 /\ freelist'.released_pages = <<>>
  OBVIOUS
<1>2. StepOK'
  BY DEF IInv, SessionOK
<1>3. pc' \notin {"insert", "split", "remove", "predecessor", "rebalance"}
  BY <1>1, <1>2 DEF StepOK
<1>4. StreamOK'
  BY <1>3 DEF StreamOK
<1>5. Len(freelist'.released_pages) = 0
  BY <1>1
<1>6. ReleasedOK'
  BY <1>1, <1>5 DEF ReleasedOK
<1> QED
  BY <1>1, <1>4, <1>6

\* A process starts without one: neither root nor freelist have been saved.
LEMMA StartsEmpty ==
  ASSUME IInv, Open \/ Initialize, proc' = "running"
  PROVE  root' = 0 /\ freelist'.released_pages = <<>>
<1>1. HeaderOK(file) /\ ProcessOK
  BY DEF IInv
<1>2. CASE Open
  <2>1. /\ META_PAGE \in DOMAIN file /\ root' = meta'.root
        /\ meta' = read_meta(file, META_PAGE)
        /\ freelist' = read_freelist(file, meta'.freelist_page)
    BY <1>2 DEF Open, CreateFile, LoadDatabase
  <2>2. CASE file[META_PAGE] = Hole
    <3>1. Hole.kind # "meta" /\ Hole.kind # "freelist"
      BY DEF Hole
    <3>2. meta' = NoMeta
      BY <2>1, <2>2, <3>1 DEF read_meta
    <3>3. meta'.freelist_page = META_PAGE
      BY <3>2 DEF NoMeta, META_PAGE
    <3>4. freelist' = EmptyFreelist
      BY <2>1, <2>2, <3>1, <3>3 DEF read_freelist
    <3> QED
      BY <2>1, <3>2, <3>4 DEF NoMeta, EmptyFreelist
  <2>3. CASE file[META_PAGE] # Hole
    <3>1. file[META_PAGE] = MetaPage(FirstMeta) /\ file[1] = FirstFreelistPage
      BY <1>1, <2>1, <2>3 DEF HeaderOK
    <3>2. meta' = FirstMeta
      BY <2>1, <3>1 DEF read_meta, MetaPage, FirstMeta
    <3>3. freelist' = FirstFreelist
      BY <2>1, <3>1, <3>2 DEF read_freelist, FirstMeta, FirstFreelistPage, FirstFreelist
    <3> QED
      BY <2>1, <3>2, <3>3 DEF FirstMeta, FirstFreelist
  <2> QED
    BY <2>2, <2>3
<1>3. CASE Initialize
  <2>1. WriteMeta /\ root' = meta'.root
    BY <1>3 DEF Initialize, WriteFreelist, InitRootNode
  <2>2. /\ meta = FirstMeta /\ freelist = [FirstFreelist EXCEPT !.max_page = 2]
        /\ meta' = meta /\ freelist' = freelist
    BY <1>1, <2>1 DEF WriteMeta, ProcessOK
  <2> QED
    BY <2>1, <2>2 DEF FirstMeta, FirstFreelist
<1> QED
  BY <1>2, <1>3

\* The first put makes the root.
LEMMA CreateRootPlants ==
  ASSUME IInv, proc = "running", root = 0, freelist.released_pages = <<>>, CreateRoot
  PROVE  Continues(<<>>, {NewItem})
<1> DEFINE b == next_page(freelist)
           fl == get_next_page(freelist)
           leaf == [page |-> b, items |-> <<NewItem>>, children |-> <<>>]
           nodes == <<leaf>>
           T == {b}
<1>1. /\ pc = "create" /\ file' = Written(file, PendingWrites) /\ freelist' = fl /\ root' = b
      /\ pc' = "return"
  BY DEF CreateRoot, At, Write, ReturnWith
<1>2. PendingWrites = nodes
  BY <1>1 DEF PendingWrites
<1>3. /\ StepOK /\ BoundsOK /\ freelist \in Freelists /\ freelist.max_page \in Nat /\ TypeOK
  BY Running
<1>4. op \in Operation /\ op.kind = "put" /\ freelist.max_page < MaxPages
  BY <1>1, <1>3 DEF StepOK, BoundsOK
<1>5. NewItem \in Item
  BY <1>4, OperationKinds DEF NewItem, Item
<1>6. Frees(fl, T) /\ b # 0
  <2>1. ToSet(freelist.released_pages) = {} /\ Len(freelist.released_pages) = 0
    BY DEF ToSet
  <2>2. Frees(freelist, {})
    BY <1>3, <2>1 DEF Frees
  <2>3. {} \union {b} = T
    OBVIOUS
  <2>4. b = freelist.max_page + 1
    BY DEF next_page
  <2> HIDE DEF b, fl, T
  <2>5. Frees(fl, {} \union {b})
    BY <2>2, GivesPage DEF b, fl
  <2>6. Frees(fl, T)
    BY <2>3, <2>5, Zenon
  <2>7. b # 0
    BY <1>3, <2>4
  <2> QED
    BY <2>6, <2>7
<1>7. FileOK(file, T)
  <2>1. /\ Session \union {b} \subseteq meta.freelist_page + 1 .. fl.max_page
        /\ fl.max_page \in freelist.max_page .. freelist.max_page + 1
    BY NextPageGiven
  <2> HIDE DEF fl, b
  <2>2. fl.max_page <= PageBound /\ fl.max_page \in Nat /\ PageBound \in Nat
    BY <1>3, <1>4, <2>1, PageBoundNat, CollectionAssumption DEF PageBound
  <2>3. meta.freelist_page \in Nat
    BY <1>3 DEF TypeOK
  <2>4. T \subseteq meta.freelist_page + 1 .. PageBound
    BY <2>1, <2>2, <2>3
  <2> HIDE DEF T
  <2> QED
    BY <2>4, PagesForNodes
<1> HIDE DEF b, fl
<1>8. /\ leaf \in NodesOver(T, T) /\ IsShaped(leaf) /\ leaf.page = b
      /\ leaf.items = <<NewItem>> /\ leaf.children = <<>>
  BY <1>5 DEF NodesOver, IsShaped, is_leaf
<1> HIDE DEF leaf, T
<1>9. nodes \in Seq(NodesOver(T, T)) /\ Len(nodes) = 1 /\ nodes[1] = leaf
  BY <1>8, OneElement
<1>10. file' = Written(file, nodes)
  BY <1>1, <1>2
<1> HIDE DEF nodes
<1>11. \A i, j \in 1 .. Len(nodes) : nodes[i].page = nodes[j].page => nodes[i] = nodes[j]
  BY <1>9
<1>12. HasWritten(file, nodes, file')
  BY <1>7, <1>9, <1>10, <1>11, NodesAreWritten
<1>13. Holds(file', b, leaf)
  BY <1>8, <1>9, <1>12 DEF HasWritten
<1>14. Alike(file'[b], leaf) /\ file'[b] \in StoredNodes(T)
  BY <1>8, <1>13, HeldAlike
<1>15. /\ file'[b] \in StoredNodes({b}) /\ file'[b].items = <<NewItem>>
       /\ file'[b].children = <<>>
  BY <1>8, <1>14 DEF Alike, T
<1>16. PICK d : /\ IsTreeWith(file', b, d, 0) /\ IsOrderedWith(file', d) /\ DOMAIN d = {b}
                /\ \A y : HoldsItem(file', d, y) <=> y = NewItem
  <2> DEFINE pl == Planted(b)
  <2>1. /\ IsTreeWith(file', b, pl, 0) /\ IsOrderedWith(file', pl) /\ DOMAIN pl = {b}
        /\ \A y : HoldsItem(file', pl, y) <=> y = NewItem
    BY <1>5, <1>15, PlantedTree
  <2> HIDE DEF pl
  <2> QED
    BY <2>1
<1>17. StreamOK' /\ CallOK(d, 0)'
  BY <1>1, NoClaim
<1> DEFINE g == 0
<1>18. g \in Nat /\ g <= MaxDepth
  BY CollectionAssumption
<1>19. IsTreeWith(file', root', d, g) /\ CallOK(d, g)'
  BY <1>1, <1>16, <1>17
<1> HIDE DEF g
<1>20. Frees(freelist', DOMAIN d) /\ root' # 0
  BY <1>1, <1>6, <1>16 DEF T
<1>21. TreeInvariantWith(d, g)'
  BY <1>16, <1>17, <1>18, <1>19, <1>20, TreeNow
<1>22. ItemsOf(file', d) = {NewItem}
  BY <1>5, <1>16 DEF ItemsOf
<1>23. DOMAIN <<>> \ DOMAIN d \subseteq Released' \union {root}
  OBVIOUS
<1> QED
  BY <1>18, <1>21, <1>22, <1>23 DEF Continues

LEMMA NoTreeContinues ==
  ASSUME IInv', proc' = "running" => root' = 0 /\ freelist'.released_pages = <<>>
  PROVE  Continues(<<>>, {})
<1> DEFINE d == <<>>
           g == 0
<1>1. g \in Nat /\ DOMAIN d = {}
  OBVIOUS
<1>2. ItemsOf(file', d) = {}
  BY <1>1 DEF ItemsOf, HoldsItem
<1> HIDE DEF d, g
<1>3. TreeInvariantWith(d, g)'
  BY NoTreeThen
<1>4. DOMAIN <<>> \ DOMAIN d \subseteq Released' \union {root}
  OBVIOUS
<1> QED
  BY <1>1, <1>2, <1>3, <1>4 DEF Continues

\* Every other step of a collection with no tree leaves it without one.
LEMMA EmptyStays ==
  ASSUME IInv, IInv', proc = "running" => root = 0 /\ freelist.released_pages = <<>>,
         FaultyNext, ~CreateRoot
  PROVE  Continues(<<>>, {})
<1> SUFFICES ASSUME proc' = "running"
             PROVE  root' = 0 /\ freelist'.released_pages = <<>>
  BY NoTreeContinues
<1>1. CASE Open \/ Initialize
  BY <1>1, StartsEmpty
<1>2. CASE Exit
  BY <1>2 DEF Exit, Quit, Stop
<1>3. CASE /\ proc = "running"
           /\ \/ Close \/ \E o \in Operation : Call(o)
              \/ Progress \/ GoAstray \/ DiskFault
  <2>1. root = 0 /\ freelist.released_pages = <<>> /\ StepOK
    BY <1>3, Running
  <2>2. get_next_page(freelist).released_pages = <<>>
    BY <2>1 DEF get_next_page
  <2>3. pc \notin {"insert", "split", "remove", "predecessor", "rebalance"}
    BY <2>1 DEF StepOK
  <2>4. CASE Close
    BY <2>1, <2>4 DEF Close
  <2>5. CASE \E o \in Operation : Call(o)
    BY <2>1, <2>5 DEF Call, dal_vars
  <2>6. CASE GoDown
    BY <2>1, <2>6 DEF GoDown, dal_vars
  <2>7. CASE StopSearch
    BY <2>1, <2>7 DEF StopSearch, dal_vars
  <2>8. CASE ReadFails
    BY <2>1, <2>8 DEF ReadFails, Quit, Stop
  <2>9. CASE CreateRootFails
    BY <2>1, <2>2, <2>9 DEF CreateRootFails
  <2>10. CASE InsertItem \/ SplitChild \/ SplitRoot \/ KeepRoot
    BY <2>3, <2>10 DEF InsertItem, SplitChild, SplitRoot, KeepRoot, At
  <2>11. CASE RemoveFromLeaf \/ DescendToPredecessor \/ TakePredecessor
    BY <2>3, <2>11 DEF RemoveFromLeaf, DescendToPredecessor, TakePredecessor, At
  <2>12. CASE RebalanceChild \/ KeepChild \/ ShrinkRoot
    BY <2>3, <2>12 DEF RebalanceChild, KeepChild, ShrinkRoot, At
  <2>13. CASE Return
    BY <2>1, <2>13 DEF Return, dal_vars
  <2>14. CASE GoAstray
    BY <2>14 DEF GoAstray
  <2>15. CASE DiskFault
    BY <2>1, <2>2, <2>15 DEF DiskFault, Quit, Stop
  <2> QED
    BY <1>3, <2>4, <2>5, <2>6, <2>7, <2>8, <2>9, <2>10, <2>11, <2>12, <2>13, <2>14, <2>15
       DEF Progress
<1>4. (Close \/ Progress \/ GoAstray \/ DiskFault \/ \E o \in Operation : Call(o))
      => proc = "running"
  <2>1. (Close \/ GoAstray \/ DiskFault \/ \E o \in Operation : Call(o)) => proc = "running"
    BY DEF Close, GoAstray, DiskFault, Call, At
  <2>2. (GoDown \/ StopSearch \/ ReadFails \/ Return \/ CreateRoot \/ CreateRootFails)
        => proc = "running"
    BY DEF GoDown, StopSearch, Searching, ReadFails, Return, CreateRoot, CreateRootFails, At
  <2>3. (InsertItem \/ SplitChild \/ SplitRoot \/ KeepRoot) => proc = "running"
    BY DEF InsertItem, SplitChild, SplitRoot, KeepRoot, At
  <2>4. (RemoveFromLeaf \/ DescendToPredecessor \/ TakePredecessor) => proc = "running"
    BY DEF RemoveFromLeaf, DescendToPredecessor, TakePredecessor, At
  <2>5. (RebalanceChild \/ KeepChild \/ ShrinkRoot) => proc = "running"
    BY DEF RebalanceChild, KeepChild, ShrinkRoot, At
  <2> QED
    BY <2>1, <2>2, <2>3, <2>4, <2>5 DEF Progress
<1> QED
  BY <1>1, <1>2, <1>3, <1>4 DEF FaultyNext, SafeNext, Step

-----------------------------------------------------------------------------
\* All steps.

\* A collection that has a tree goes on to have one.
LEMMA TreeContinues ==
  ASSUME NEW c, NEW h, HasTree(c, h), [FaultyNext]_vars
  PROVE  \E I : Continues(c, I)
<1>1. /\ IInv /\ proc = "running" /\ root # 0
  BY DEF HasTree
<1>2. CASE UNCHANGED vars
  <2>1. UNCHANGED <<file, freelist, root, stream, pc, op, page, path, node, index, ancestors, level>>
    BY <1>2 DEF vars, dal_vars, call_vars
  <2> QED
    BY <2>1, CallStays
<1>3. ~Open /\ ~Initialize
  BY <1>1 DEF Open, CreateFile, LoadDatabase, Initialize, WriteFreelist, InitRootNode, WriteMeta
<1>4. ~CreateRoot /\ ~CreateRootFails
  <2>1. pc # "create"
    BY <1>1, Running DEF StepOK
  <2> QED
    BY <2>1 DEF CreateRoot, CreateRootFails, At
<1>5. CASE ReadFails \/ Close \/ Exit \/ Return \/ KeepRoot \/ GoAstray
  BY <1>5, SimpleStepContinues
<1>6. ASSUME NEW o \in Operation, Call(o), stream = "good" => SafeCall(o)
      PROVE  \E I : Continues(c, I)
  BY <1>6, CallContinues
<1>7. CASE GoDown \/ StopSearch \/ DescendToPredecessor \/ KeepChild
  <2>1. Continues(c, ItemsOf(file, c))
    BY <1>7, GoDownContinues, StopSearchContinues, DescendContinues, KeepChildContinues
  <2> QED
    BY <2>1
<1>8. CASE InsertItem
  BY <1>8, InsertContinues
<1>9. CASE RemoveFromLeaf \/ TakePredecessor
  BY <1>9, RemoveContinues, TakePredecessorContinues
<1>10. CASE SplitChild \/ SplitRoot \/ RebalanceChild \/ ShrinkRoot
  <2>1. Continues(c, ItemsOf(file, c))
    BY <1>10, SplitChildContinues, SplitRootContinues, RebalanceChildContinues, ShrinkRootContinues
  <2> QED
    BY <2>1
<1>11. CASE DiskFault
  BY <1>11, FaultContinues
<1>12. FaultyNext => \/ Open \/ Close \/ Exit \/ DiskFault \/ Step
                     \/ \E o \in Operation : Call(o) /\ (stream = "good" => SafeCall(o))
  BY DEF FaultyNext, SafeNext
<1>13. Step => \/ Initialize \/ GoAstray \/ CreateRoot \/ CreateRootFails
               \/ GoDown \/ StopSearch \/ ReadFails \/ InsertItem \/ SplitChild \/ SplitRoot
               \/ KeepRoot \/ RemoveFromLeaf \/ DescendToPredecessor \/ TakePredecessor
               \/ RebalanceChild \/ KeepChild \/ ShrinkRoot \/ Return
  BY DEF Step, Progress
<1> QED
  BY <1>2, <1>3, <1>4, <1>5, <1>6, <1>7, <1>8, <1>9, <1>10, <1>11, <1>12, <1>13

\* The file of a collection with a tree holds a B-tree.
TreeInv == \E c : \E h \in Nat : TreeInvariantWith(c, h)

LEMMA TreeInvOfStep ==
  ASSUME NEW c, NEW I, Continues(c, I)
  PROVE  TreeInv'
<1>1. PICK d : \E g \in Nat : TreeInvariantWith(d, g)'
  BY DEF Continues
<1>2. PICK g \in Nat : TreeInvariantWith(d, g)'
  BY <1>1
<1> QED
  BY <1>2 DEF TreeInv

LEMMA TreeInvStep ==
  ASSUME IInv, IInv', TreeInv, [FaultyNext]_vars
  PROVE  TreeInv'
<1>1. PICK c : \E h \in Nat : TreeInvariantWith(c, h)
  BY DEF TreeInv
<1>2. PICK h \in Nat : TreeInvariantWith(c, h)
  BY <1>1
<1>3. CASE proc = "running" /\ root # 0
  <2>1. HasTree(c, h)
    BY <1>2, <1>3 DEF HasTree
  <2> QED
    BY <2>1, TreeContinues, TreeInvOfStep
<1>4. CASE ~(proc = "running" /\ root # 0)
  <2>1. proc = "running" => root = 0 /\ freelist.released_pages = <<>>
    BY <1>2, <1>4 DEF TreeInvariantWith, ReleasedOK
  <2>2. CASE CreateRoot
    <3>1. proc = "running"
      BY <2>2 DEF CreateRoot, At
    <3> QED
      BY <2>1, <2>2, <3>1, CreateRootPlants, TreeInvOfStep
  <2>3. CASE FaultyNext /\ ~CreateRoot
    BY <2>1, <2>3, EmptyStays, TreeInvOfStep
  <2>4. CASE UNCHANGED vars
    <3>1. proc' = "running" => root' = 0 /\ freelist'.released_pages = <<>>
      BY <2>1, <2>4 DEF vars, dal_vars
    <3> QED
      BY <3>1, NoTreeContinues, TreeInvOfStep
  <2> QED
    BY <2>2, <2>3, <2>4
<1> QED
  BY <1>3, <1>4

LEMMA TreeInvInit ==
  ASSUME Init
  PROVE  TreeInv
<1>1. proc # "running"
  BY DEF Init, DalInit
<1>2. 0 \in Nat
  OBVIOUS
<1>3. TreeInvariantWith(0, 0)
  BY <1>1 DEF TreeInvariantWith
<1> QED
  BY <1>2, <1>3 DEF TreeInv

\* A session does not lose its root.
LEMMA RootStays ==
  ASSUME IInv, proc = "running", root # 0, [FaultyNext]_vars, proc' = "running"
  PROVE  root' # 0
<1>1. /\ StepOK /\ CopiesOK /\ Session \subseteq Nat \ {0} /\ meta \in [root : Nat, freelist_page : Nat]
  BY Running DEF TypeOK
<1>2. CASE UNCHANGED root
  BY <1>2
<1>3. ~Open /\ ~Initialize
  BY DEF Open, CreateFile, LoadDatabase, Initialize, WriteFreelist, InitRootNode, WriteMeta
<1>4. ~CreateRoot
  BY <1>1 DEF CreateRoot, At, StepOK
<1>5. CASE SplitRoot
  <2>1. root' = next_page(freelist)
    BY <1>5 DEF SplitRoot, NewRoot
  <2>2. next_page(freelist) \in meta.freelist_page + 1 .. get_next_page(freelist).max_page
    BY NextPageGiven
  <2> DEFINE b == next_page(freelist)
             m == meta.freelist_page
             n == get_next_page(freelist).max_page
  <2>3. b \in m + 1 .. n /\ m \in Nat
    BY <1>1, <2>2
  <2> HIDE DEF b, m, n
  <2>4. b # 0
    BY <2>3
  <2> QED
    BY <2>1, <2>4 DEF b
<1>6. CASE ShrinkRoot
  <2>1. pc = "rebalance"
    BY <1>6 DEF ShrinkRoot, At
  <2>2. /\ ancestors \in Seq(NodesOf(Session)) /\ Len(ancestors) = Len(path) + 1
        /\ path = <<>> => is_leaf(ancestors[1])
    BY <1>1, <2>1 DEF CopiesOK
  <2>3. CASE ancestors[1].items = <<>> /\ ~is_leaf(ancestors[1])
    <3>1. path # <<>> /\ path \in Seq(Nat)
      BY <2>2, <2>3, Running
    <3>2. 2 \in 1 .. Len(ancestors)
      BY <2>2, <3>1
    <3>3. ancestors[2] \in NodesOf(Session)
      BY <2>2, <3>2
    <3>4. ancestors[2].page \in Session
      BY <3>3 DEF NodesOf, NodesOver
    <3> QED
      BY <1>1, <1>6, <2>3, <3>4 DEF ShrinkRoot
  <2> QED
    BY <1>6, <2>3 DEF ShrinkRoot
<1>7. CASE UNCHANGED vars
  BY <1>7 DEF vars
<1>8. (Close \/ Exit \/ DiskFault \/ GoAstray \/ \E o \in Operation : Call(o)) => UNCHANGED root
  BY DEF Close, Exit, Quit, Stop, DiskFault, GoAstray, Call
<1>9. (CreateRootFails \/ GoDown \/ StopSearch \/ ReadFails \/ InsertItem \/ SplitChild \/ KeepRoot)
      => UNCHANGED root
  BY DEF CreateRootFails, GoDown, StopSearch, ReadFails, Quit, Stop, InsertItem, SplitChild, KeepRoot
<1>10. (RemoveFromLeaf \/ DescendToPredecessor \/ TakePredecessor \/ RebalanceChild \/ KeepChild
        \/ Return) => UNCHANGED root
  BY DEF RemoveFromLeaf, DescendToPredecessor, TakePredecessor, RebalanceChild, KeepChild, Return
<1>11. FaultyNext => \/ Open \/ Close \/ Exit \/ DiskFault \/ Step \/ \E o \in Operation : Call(o)
  BY DEF FaultyNext, SafeNext
<1>12. Step => \/ Initialize \/ GoAstray \/ CreateRoot \/ CreateRootFails
               \/ GoDown \/ StopSearch \/ ReadFails \/ InsertItem \/ SplitChild \/ SplitRoot
               \/ KeepRoot \/ RemoveFromLeaf \/ DescendToPredecessor \/ TakePredecessor
               \/ RebalanceChild \/ KeepChild \/ ShrinkRoot \/ Return
  BY DEF Step, Progress
<1> QED
  BY <1>2, <1>3, <1>4, <1>5, <1>6, <1>7, <1>8, <1>9, <1>10, <1>11, <1>12

-----------------------------------------------------------------------------
\* The invariant, and what it says of every safe call.

\* The steps of FaultySpec; those of SafeSpec are some of them.
FaultySteps == Init /\ [][FaultyNext]_vars

LEMMA FaultyIsNext ==
  ASSUME [FaultyNext]_vars
  PROVE  [Next]_vars
BY DEF FaultyNext, SafeNext, Next

LEMMA TreeIsKept == FaultySteps => [](IInv /\ TreeInv)
<1>1. Init => IInv /\ TreeInv
  BY IInvInit, TreeInvInit
<1>2. IInv /\ TreeInv /\ [FaultyNext]_vars => IInv' /\ TreeInv'
  <2> SUFFICES ASSUME IInv, TreeInv, [FaultyNext]_vars
               PROVE  IInv' /\ TreeInv'
    OBVIOUS
  <2>1. IInv'
    BY FaultyIsNext, IInvStep
  <2> QED
    BY <2>1, TreeInvStep
<1> QED
  BY <1>1, <1>2, PTL DEF FaultySteps

LEMMA SafeIsFaulty == SafeSpec => FaultySteps
<1>1. [SafeNext]_vars => [FaultyNext]_vars
  BY DEF FaultyNext
<1> QED
  BY <1>1, PTL DEF SafeSpec, FaultySteps

LEMMA FaultyHasSteps == FaultySpec => FaultySteps
BY PTL DEF FaultySpec, FaultySteps

LEMMA QuietHasTree ==
  ASSUME IInv, TreeInv, Quiet
  PROVE  \E c, h : HasTree(c, h)
<1>1. PICK c : \E h \in Nat : TreeInvariantWith(c, h)
  BY DEF TreeInv
<1>2. PICK h \in Nat : TreeInvariantWith(c, h)
  BY <1>1
<1>3. HasTree(c, h)
  BY <1>2 DEF HasTree, Quiet
<1> QED
  BY <1>3

\* Whatever safe calls are made, and wherever the process ends or the disk fails,
\* the file holds a tree: every page is the child of one place, no subtree is
\* lost or shared by the splits and merges of collection.cpp, and all leaves are
\* at one depth.
THEOREM FileHoldsATree == FaultySteps => []IsTree
<1>1. IInv /\ TreeInv => IsTree
  <2> SUFFICES ASSUME IInv, TreeInv, Quiet
               PROVE  IsTree
    BY DEF IsTree
  <2>1. PICK c, h : HasTree(c, h)
    BY QuietHasTree
  <2> QED
    BY <2>1, ItIsATree DEF IsTree
<1> QED
  BY <1>1, TreeIsKept, PTL

\* Every item is where the search of find_key (collection.cpp) ends for its key,
\* at the position the item has: none is out of order or there twice.
THEOREM SearchFindsEveryItem == FaultySteps => []EveryItemIsFound
<1>1. IInv /\ TreeInv => EveryItemIsFound
  <2> SUFFICES ASSUME IInv, TreeInv, Quiet
               PROVE  \A p \in Reachable : \A i \in 1 .. Len(ItemsAt(p)) :
                        /\ SearchEnd(ItemsAt(p)[i].key).page = p
                        /\ find_key_in_node(SearchEnd(ItemsAt(p)[i].key),
                                            ItemsAt(p)[i].key).position = i
    BY DEF EveryItemIsFound
  <2>1. PICK c, h : HasTree(c, h)
    BY QuietHasTree
  <2> QED
    BY <2>1, SearchesFindItems
<1> QED
  BY <1>1, TreeIsKept, PTL

\* No page of the tree is on the free list, and none is there twice: no put gets
\* a page that holds items (freelist.h, collection.cpp).
THEOREM NoPageOfTheTreeIsFree == FaultySteps => []FreePagesAreFree
<1>1. IInv /\ TreeInv => FreePagesAreFree
  <2> SUFFICES ASSUME IInv, TreeInv, Quiet
               PROVE  FreePagesAreFree
    BY DEF FreePagesAreFree
  <2>1. PICK c, h : HasTree(c, h)
    BY QuietHasTree
  <2> QED
    BY <2>1, NoPageIsFree DEF FreePagesAreFree
<1> QED
  BY <1>1, TreeIsKept, PTL

\* The pages of a collection with a tree are those that have a place in it.
PagesHavePlaces == \A c, h : HasTree(c, h) => Reachable = DOMAIN c

LEMMA OnlyRootsAreLost ==
  ASSUME IInv, IInv', TreeInv, PagesHavePlaces, PagesHavePlaces', [FaultyNext]_vars,
         proc = "running", proc' = "running"
  PROVE  Reachable \ Reachable' \subseteq Released' \union {root}
<1>1. CASE root = 0
  BY <1>1 DEF Reachable
<1>2. CASE root # 0
  <2>1. PICK c : \E h \in Nat : TreeInvariantWith(c, h)
    BY DEF TreeInv
  <2>2. PICK h \in Nat : TreeInvariantWith(c, h)
    BY <2>1
  <2>3. HasTree(c, h)
    BY <1>2, <2>2 DEF HasTree
  <2>4. Reachable = DOMAIN c
    BY <2>3 DEF PagesHavePlaces
  <2>5. PICK d : \E g \in Nat : TreeInvariantWith(d, g)'
                   /\ DOMAIN c \ DOMAIN d \subseteq Released' \union {root}
    <3>1. PICK I : Continues(c, I)
      BY <2>3, TreeContinues
    <3> QED
      BY <3>1 DEF Continues
  <2>6. PICK g \in Nat : TreeInvariantWith(d, g)'
    BY <2>5
  <2>7. root' # 0
    BY <1>2, RootStays
  <2>8. HasTree(d, g)'
    BY <2>6, <2>7 DEF HasTree
  <2>9. Reachable' = DOMAIN d
    BY <2>8 DEF PagesHavePlaces
  <2> QED
    BY <2>4, <2>5, <2>9
<1> QED
  BY <1>1, <1>2

\* A page leaves the tree only to the free list: the right node of a merge goes
\* there.  The one that is lost is the root a remove gives up
\* (collection.cpp:170-171).
THEOREM NoOtherPageLeaks == FaultySteps => OnlyOldRootsLeak
<1>1. PagesHavePlaces
  <2> SUFFICES ASSUME NEW c, NEW h, HasTree(c, h)
               PROVE  Reachable = DOMAIN c
    BY DEF PagesHavePlaces
  <2> QED
    BY AtTree, PagesOfCollection DEF HasTree
<1>2. /\ IInv /\ TreeInv /\ PagesHavePlaces /\ [FaultyNext]_vars
      /\ IInv' /\ TreeInv' /\ PagesHavePlaces'
      => [proc = "running" /\ proc' = "running"
            => Reachable \ Reachable' \subseteq Released' \union {root}]_vars
  BY OnlyRootsAreLost
<1> QED
  BY <1>1, <1>2, TreeIsKept, PTL DEF FaultySteps, OnlyOldRootsLeak

-----------------------------------------------------------------------------
\* What is defined.

\* The sizes leave room: no search comes to MaxDepth levels below the root, and a
\* node about to be written goes into its page.  Neither a threshold nor a bound in
\* the code sees to either (node.h:226-269).
RoomEnough ==
  proc = "running" =>
    /\ pc \in {"find", "verify"} => Len(path) < MaxDepth
    /\ \A w \in ToSet(PendingWrites) : FitsPage(w)

LEMMA ShapedHasChildren ==
  ASSUME NEW n, n.items \in Seq(Item), IsShaped(n)
  PROVE  HasChildren(n)
<1>1. Len(n.items) \in Nat
  BY LenProperties
<1> QED
  BY <1>1 DEF IsShaped, HasChildren

LEMMA SplitShapes ==
  ASSUME NEW P, NEW S, NEW nd \in NodesOver(P, S), can_spare_an_element(nd), IsShaped(nd),
         NEW Q, NEW T, NEW parent \in NodesOver(Q, T),
         Len(parent.children) = Len(parent.items) + 1,
         NEW slot \in 1 .. Len(parent.children), NEW new_page \in T,
         NEW s, s = split(parent, nd, slot, new_page)
  PROVE  IsShaped(s.left) /\ IsShaped(s.right) /\ IsShaped(s.parent)
<1> DEFINE m == get_split_index(nd)  l == Len(nd.items)
<1>1. /\ nd.items \in Seq(Item) /\ nd.children \in Seq(S)
      /\ parent.items \in Seq(Item) /\ parent.children \in Seq(T)
  BY DEF NodesOver
<1>2. l \in Nat /\ Len(parent.items) \in Nat
  BY <1>1, LenProperties
<1>3. m \in 2 .. l
  BY <1>1, SplitIndexInRange
<1>4. /\ s.left.items = SubSeq(nd.items, 1, m - 1)
      /\ s.left.children = IF is_leaf(nd) THEN nd.children
                           ELSE SubSeq(nd.children, 1, m)
  BY DEF split, NodesOver
<1>5. /\ s.right.items = SubSeq(nd.items, m + 1, l)
      /\ s.right.children = SubSeq(nd.children, m + 1, Len(nd.children))
  BY DEF split
<1>6. /\ s.parent.items = InsertAt(parent.items, slot, nd.items[m])
      /\ s.parent.children = InsertAt(parent.children, slot + 1, new_page)
  BY DEF split, add_item, NodesOver
<1> HIDE DEF m
<1> DEFINE i == m - 1  j == m + 1
<1>7. /\ 1 \in Nat \ {0} /\ i \in 0 .. l /\ 1 <= i + 1 /\ i - 1 + 1 = i
      /\ j \in Nat \ {0} /\ l \in 0 .. l /\ j <= l + 1 /\ l - j + 1 = l - m
  BY <1>2, <1>3
<1> HIDE DEF i, j, l
<1>8. Len(s.left.items) = i
  <2>1. Len(SubSeq(nd.items, 1, i)) = i - 1 + 1
    BY <1>1, <1>7, Slice DEF l
  <2> QED
    BY <1>4, <1>7, <2>1 DEF i
<1>9. Len(s.right.items) = l - m
  <2> DEFINE all == nd.items
  <2>1. all \in Seq(Item) /\ l = Len(all)
    BY <1>1 DEF l
  <2> HIDE DEF all
  <2>2. j \in Nat \ {0} /\ l \in 0 .. Len(all) /\ j <= l + 1
    BY <1>7, <2>1
  <2>3. Len(SubSeq(all, j, l)) = l - j + 1
    BY <2>1, <2>2, Slice
  <2>4. s.right.items = SubSeq(all, j, l)
    BY <1>5 DEF all, j, l
  <2> QED
    BY <1>7, <2>3, <2>4
<1>10. IsShaped(s.left) /\ IsShaped(s.right)
  <2>1. CASE is_leaf(nd)
    <3>1. nd.children = <<>> /\ Len(nd.children) = 0
      BY <2>1, EmptySeq DEF is_leaf
    <3>2. s.left.children = <<>>
      BY <1>4, <2>1, <3>1
    <3>3. s.right.children = <<>>
      <4>1. j \in Int /\ 0 \in Int /\ 0 < j
        BY <1>7
      <4>2. SubSeq(nd.children, j, 0) = <<>>
        BY <4>1, SubSeqEmpty
      <4> QED
        BY <1>5, <3>1, <4>2 DEF j
    <3> QED
      BY <3>2, <3>3 DEF IsShaped, is_leaf
  <2>2. CASE ~is_leaf(nd)
    <3> DEFINE n == Len(nd.children)
    <3>1. n = l + 1
      BY <2>2 DEF IsShaped, l
    <3> HIDE DEF n
    <3>2. /\ m \in 0 .. n /\ 1 <= m + 1 /\ m - 1 + 1 = m
          /\ n \in 0 .. n /\ j <= n + 1 /\ n - j + 1 = n - m
      BY <1>2, <1>3, <1>7, <3>1 DEF j
    <3>3. Len(SubSeq(nd.children, 1, m)) = m - 1 + 1
      BY <1>1, <1>7, <3>2, Slice DEF n
    <3>4. Len(s.left.children) = m
      BY <1>4, <2>2, <3>2, <3>3
    <3>5. Len(SubSeq(nd.children, j, n)) = n - j + 1
      BY <1>1, <1>7, <3>2, Slice DEF n
    <3>6. Len(s.right.children) = n - m
      BY <1>5, <3>2, <3>5 DEF j, n
    <3>7. Len(s.left.children) = Len(s.left.items) + 1
      BY <1>3, <1>8, <3>4 DEF i
    <3>8. Len(s.right.children) = Len(s.right.items) + 1
      BY <1>2, <1>3, <1>9, <3>1, <3>6
    <3> QED
      BY <3>7, <3>8 DEF IsShaped
  <2> QED
    BY <2>1, <2>2
<1>11. IsShaped(s.parent)
  <2> DEFINE e == nd.items[m]  k == slot + 1
  <2>1. /\ m \in 1 .. Len(nd.items) /\ slot \in 1 .. Len(parent.items) + 1
        /\ k \in 1 .. Len(parent.children) + 1
    BY <1>2, <1>3 DEF l
  <2>2. e \in Item
    BY <1>1, <2>1, ElementOfSeq
  <2>3. /\ s.parent.items = InsertAt(parent.items, slot, e)
        /\ s.parent.children = InsertAt(parent.children, k, new_page)
    BY <1>6
  <2> HIDE DEF e, k
  <2>4. Len(s.parent.items) = Len(parent.items) + 1
    BY <1>1, <2>1, <2>2, <2>3, InsertAtProperties
  <2>5. Len(s.parent.children) = Len(parent.children) + 1
    <3>1. /\ parent.children \in Seq(T) /\ k \in 1 .. Len(parent.children) + 1
          /\ new_page \in T
      BY <1>1, <2>1
    <3> DEFINE cs == parent.children
    <3>2. cs \in Seq(T) /\ k \in 1 .. Len(cs) + 1
      BY <3>1
    <3> HIDE DEF cs
    <3>3. Len(InsertAt(cs, k, new_page)) = Len(cs) + 1
      BY <3>1, <3>2, InsertAtProperties
    <3> QED
      BY <2>3, <3>3, Zenon DEF cs
  <2>6. Len(s.parent.children) = Len(s.parent.items) + 1
    BY <2>4, <2>5
  <2> QED
    BY <2>6 DEF IsShaped
<1> QED
  BY <1>10, <1>11

\* The nodes a step is about to write have a child for each item.
LEMMA SplitsHaveChildren ==
  ASSUME IInv, proc = "running", pc = "split", NEW w \in ToSet(PendingWrites),
         level > 0 => (is_over_populated(Child) => can_spare_an_element(Child)),
         level = 0 => (is_over_populated(ancestors[1]) => can_spare_an_element(ancestors[1]))
  PROVE  HasChildren(w)
<1>1. /\ ancestors[1] \in NodesOf(Session) /\ level \in Nat
      /\ level > 0 => /\ Parent \in NodesOf(Session) /\ Child \in NodesOf(Session)
                      /\ Slot \in 1 .. Len(Parent.children)
                      /\ Len(Parent.children) = Len(Parent.items) + 1
  BY AtCopies DEF TypeOK, IInv
<1>2. CASE level > 0 /\ is_over_populated(Child)
  <2> DEFINE b == next_page(freelist)  T == Session \union {b}  s == split(Parent, Child, Slot, b)
  <2>1. PendingWrites = <<s.right, s.parent, s.left>>
    BY <1>2 DEF PendingWrites, SplitWrites
  <2>2. /\ Child \in NodesOver(Session, Session) /\ IsShaped(Child)
        /\ Parent \in NodesOver(Session, Session)
    BY <1>1, <1>2 DEF NodesOf
  <2>3. Parent \in NodesOver(Session, T) /\ b \in T /\ Session \subseteq T
    BY <2>2, NodesOverMonotonic
  <2>4. can_spare_an_element(Child) /\ Slot \in 1 .. Len(Parent.children)
        /\ Len(Parent.children) = Len(Parent.items) + 1
    BY <1>1, <1>2
  <2>5. IsShaped(s.left) /\ IsShaped(s.right) /\ IsShaped(s.parent)
    <3> HIDE DEF b, T
    <3> QED
      BY <2>2, <2>3, <2>4, SplitShapes
  <2>6. /\ s.left.items \in Seq(Item) /\ s.right.items \in Seq(Item)
        /\ s.parent.items \in Seq(Item)
    <3> HIDE DEF b, T
    <3>1. Slot \in Nat \ {0} /\ Slot <= Len(Parent.items) + 1 /\ Slot <= Len(Parent.children)
      <4>1. Len(Parent.items) \in Nat
        BY <2>2, LenProperties DEF NodesOver
      <4> QED
        BY <2>4, <4>1
    <3>2. Parent.page \in Session
      BY <2>2 DEF NodesOver
    <3>3. is_leaf(Child) \/ Len(Child.children) = Len(Child.items) + 1
      BY <2>2 DEF IsShaped
    <3>4. /\ s.left \in NodesOver(Session, Session) /\ s.right \in NodesOver({b}, Session)
          /\ s.parent \in NodesOver(Session, T)
      BY <2>2, <2>3, <2>4, <3>1, <3>3, SplitTypes
    <3> QED
      BY <3>4 DEF NodesOver
  <2> HIDE DEF s
  <2>7. w = s.right \/ w = s.parent \/ w = s.left
    BY <2>1 DEF ToSet
  <2> QED
    BY <2>5, <2>6, <2>7, ShapedHasChildren
<1>3. CASE level = 0 /\ is_over_populated(ancestors[1])
  <2> DEFINE b == next_page(freelist)  e == next_page(get_next_page(freelist))
             A == ancestors[1]  R == {A.page}  T == Session \union {e}
             P == [page |-> b, items |-> <<>>, children |-> <<A.page>>]
             s == split(P, A, 1, e)
  <2>1. PendingWrites = <<s.right, s.parent, s.left, s.parent>>
    <3>1. PendingWrites = SplitRootWrites
      BY <1>3 DEF PendingWrites
    <3> QED
      BY <3>1, Zenon DEF SplitRootWrites, NewRoot
  <2>2. A \in NodesOver(Session, Session) /\ IsShaped(A) /\ A.page \in Session
    BY <1>1 DEF NodesOf, NodesOver
  <2> HIDE DEF A
  <2>3. P \in NodesOver({b}, T) /\ e \in T /\ Session \subseteq T
        /\ Len(P.children) = Len(P.items) + 1 /\ 1 \in 1 .. Len(P.children)
        /\ 1 \in Nat \ {0} /\ 1 <= Len(P.items) + 1 /\ 1 <= Len(P.children)
    BY <2>2 DEF NodesOver
  <2>4. can_spare_an_element(A)
    BY <1>3 DEF A
  <2> HIDE DEF P, T, b, e
  <2>5. IsShaped(s.left) /\ IsShaped(s.right) /\ IsShaped(s.parent)
    BY <2>2, <2>3, <2>4, SplitShapes
  <2>6. /\ s.left.items \in Seq(Item) /\ s.right.items \in Seq(Item)
        /\ s.parent.items \in Seq(Item)
    <3>1. is_leaf(A) \/ Len(A.children) = Len(A.items) + 1
      BY <2>2 DEF IsShaped
    <3>2. /\ s.left \in NodesOver(Session, Session) /\ s.right \in NodesOver({e}, Session)
          /\ s.parent \in NodesOver({b}, T)
      BY <2>2, <2>3, <2>4, <3>1, SplitTypes
    <3> QED
      BY <3>2 DEF NodesOver
  <2> HIDE DEF s
  <2>7. w = s.right \/ w = s.parent \/ w = s.left
    BY <2>1 DEF ToSet
  <2> QED
    BY <2>5, <2>6, <2>7, ShapedHasChildren
<1>4. CASE /\ ~(level > 0 /\ is_over_populated(Child))
           /\ ~(level = 0 /\ is_over_populated(ancestors[1]))
  <2>1. PendingWrites = <<>>
    BY <1>4 DEF PendingWrites
  <2> QED
    BY <2>1 DEF ToSet
<1> QED
  BY <1>2, <1>3, <1>4

\* The step of the call in progress finds the elements it uses, and writes no node
\* that lacks a child.
ElementsAreThere ==
  proc = "running" => /\ ~ElementIsMissing
                      /\ \A w \in ToSet(PendingWrites) : HasChildren(w)

\* The steps of a safe call do, on whatever copies they decide.
LEMMA SafeStepsFindElements ==
  ASSUME IInv, TreeInv
  PROVE  ElementsAreThere
<1> SUFFICES ASSUME proc = "running"
             PROVE  ElementsAreThere
  BY DEF ElementsAreThere
<1>1. StepOK /\ CopiesOK /\ SearchOK
  BY Running
<1>2. CASE root = 0
  <2>1. pc \in {"idle", "create", "find", "return"}
    BY <1>1, <1>2, Running DEF StepOK, TypeOK
  <2>2. ~ElementIsMissing
    BY <2>1 DEF ElementIsMissing
  <2>3. ASSUME NEW w \in ToSet(PendingWrites)
        PROVE  HasChildren(w)
    <3>1. CASE pc = "create"
      <4> DEFINE x == [page |-> next_page(freelist), items |-> <<NewItem>>, children |-> <<>>]
      <4>1. PendingWrites = <<x>>
        BY <3>1 DEF PendingWrites
      <4>2. w = x
        BY <4>1 DEF ToSet
      <4> QED
        BY <4>2 DEF HasChildren, is_leaf
    <3>2. CASE pc # "create"
      <4>1. PendingWrites = <<>>
        BY <2>1, <3>2 DEF PendingWrites
      <4> QED
        BY <4>1 DEF ToSet
    <3> QED
      BY <3>1, <3>2
  <2> QED
    BY <2>2, <2>3 DEF ElementsAreThere
<1>3. CASE root # 0
  <2>1. PICK c : \E h \in Nat : TreeInvariantWith(c, h)
    BY DEF TreeInv
  <2>2. PICK h \in Nat : TreeInvariantWith(c, h)
    BY <2>1
  <2>3. HasTree(c, h)
    BY <1>3, <2>2 DEF HasTree
  <2>4. CASE pc \in {"idle", "find", "verify", "return"}
    <3>1. PendingWrites = <<>> /\ ~ElementIsMissing
      BY <2>4 DEF PendingWrites, ElementIsMissing
    <3> QED
      BY <3>1 DEF ElementsAreThere, ToSet
  <2>5. CASE pc = "insert"
    <3>1. is_leaf(node)
      BY <2>3, <2>5, AtInsert
    <3>2. PendingWrites = <<InsertedNode>> /\ ~ElementIsMissing
      BY <2>5 DEF PendingWrites, ElementIsMissing
    <3>3. InsertedNode.children = node.children
      BY Running DEF InsertedNode, add_item, TypeOK, Nodes
    <3>4. HasChildren(InsertedNode)
      BY <3>1, <3>3 DEF HasChildren, is_leaf
    <3>5. \A w \in ToSet(PendingWrites) : w = InsertedNode
      BY <3>2 DEF ToSet
    <3> QED
      BY <3>2, <3>4, <3>5 DEF ElementsAreThere
  <2>6. CASE pc = "remove"
    <3> DEFINE x == without_item(node, index)
    <3>1. is_leaf(node)
      BY <2>3, <2>6, AtRemove
    <3>2. PendingWrites = <<x>> /\ ~ElementIsMissing
      BY <2>6 DEF PendingWrites, ElementIsMissing
    <3>3. x.children = node.children
      BY Running DEF without_item, TypeOK, Nodes
    <3> HIDE DEF x
    <3>4. HasChildren(x)
      BY <3>1, <3>3 DEF HasChildren, is_leaf
    <3>5. \A w \in ToSet(PendingWrites) : w = x
      BY <3>2 DEF ToSet
    <3> QED
      BY <3>2, <3>4, <3>5 DEF ElementsAreThere
  <2>7. CASE pc = "predecessor"
    <3>1. CASE is_leaf(get_node(file, page))
      <4>1. PICK v, n : WayDown(c, v, n)
        BY <2>3, <2>7, AtPredecessor
      <4>2. /\ file[page].items # <<>> /\ get_node(file, page).items = file[page].items
            /\ PendingWrites = <<LeafWithout, NodeWith>>
        BY <2>3, <2>7, <3>1, <4>1, AtTaking
      <4>3. /\ LeafWithout \in NodesOver(DOMAIN c, DOMAIN c) /\ IsShaped(LeafWithout)
            /\ NodeWith \in NodesOver(DOMAIN c, DOMAIN c) /\ IsShaped(NodeWith)
        BY <2>3, <2>7, <3>1, <4>1, TakingWrites
      <4>4. LeafWithout.items \in Seq(Item) /\ NodeWith.items \in Seq(Item)
        BY <4>3 DEF NodesOver
      <4>5. HasChildren(LeafWithout) /\ HasChildren(NodeWith)
        BY <4>3, <4>4, ShapedHasChildren
      <4>6. \A w \in ToSet(PendingWrites) : w = LeafWithout \/ w = NodeWith
        BY <4>2 DEF ToSet
      <4>7. ~ElementIsMissing
        BY <2>7, <4>2 DEF ElementIsMissing
      <4> QED
        BY <4>5, <4>6, <4>7 DEF ElementsAreThere
    <3>2. CASE ~is_leaf(get_node(file, page))
      <4>1. PendingWrites = <<>> /\ ~ElementIsMissing
        BY <2>7, <3>2 DEF PendingWrites, ElementIsMissing
      <4> QED
        BY <4>1 DEF ElementsAreThere, ToSet
    <3> QED
      BY <3>1, <3>2
  <2>8. CASE pc = "split"
    <3>1. /\ SplitsApart(ancestors) /\ Len(path) \in Nat
          /\ level \in 0 .. Len(path) /\ Len(ancestors) = Len(path) + 1
      BY <1>3, <2>2, <2>8, Running, AtCopies DEF TreeInvariantWith, CallOK
    <3>2. \A n \in 1 .. Len(ancestors) :
            is_over_populated(ancestors[n]) => can_spare_an_element(ancestors[n])
      BY <3>1 DEF SplitsApart
    <3>3. level + 1 \in 1 .. Len(ancestors) /\ 1 \in 1 .. Len(ancestors)
      BY <3>1
    <3>4. /\ is_over_populated(Child) => can_spare_an_element(Child)
          /\ is_over_populated(ancestors[1]) => can_spare_an_element(ancestors[1])
      BY <3>2, <3>3 DEF Child
    <3>5. ~ElementIsMissing
      BY <2>8, <3>4 DEF ElementIsMissing
    <3>6. \A w \in ToSet(PendingWrites) : HasChildren(w)
      BY <2>8, <3>4, SplitsHaveChildren
    <3> QED
      BY <3>5, <3>6 DEF ElementsAreThere
  <2>9. CASE pc = "rebalance"
    <3>1. CASE level > 0 /\ is_under_populated(Child)
      <4>1. /\ Len(Parent.children) > 1
            /\ MergesAway(file, root, c, h, Parent.page, Rebalanced)
        BY <2>3, <2>9, <3>1, AtRebalancing
      <4> DEFINE ws == Rebalanced.writes
      <4>2. ws \in Seq(NodesOver(DOMAIN c, DOMAIN c)) /\ AllShaped(ws)
        BY <4>1 DEF MergesAway
      <4>3. PendingWrites = ws
        BY <2>9, <3>1 DEF PendingWrites
      <4> HIDE DEF ws
      <4>4. ASSUME NEW i \in 1 .. Len(ws)
            PROVE  HasChildren(ws[i])
        <5>1. ws[i] \in NodesOver(DOMAIN c, DOMAIN c)
          BY <4>2, ElementOfSeq
        <5>2. ws[i].items \in Seq(Item) /\ IsShaped(ws[i])
          BY <4>2, <5>1 DEF NodesOver, AllShaped
        <5> QED
          BY <5>2, ShapedHasChildren
      <4>5. \A w \in ToSet(ws) : HasChildren(w)
        <5>1. DOMAIN ws = 1 .. Len(ws)
          BY <4>2, LenProperties
        <5> QED
          BY <4>4, <5>1 DEF ToSet
      <4>6. ~ElementIsMissing
        <5>1. Len(Parent.children) # 1
          <6> DEFINE n == Len(Parent.children)
          <6>1. n > 1
            BY <4>1
          <6> HIDE DEF n
          <6>2. n # 1
            BY <6>1
          <6> QED
            BY <6>2 DEF n
        <5> QED
          BY <2>9, <5>1 DEF ElementIsMissing
      <4> QED
        BY <4>3, <4>5, <4>6 DEF ElementsAreThere
    <3>2. CASE ~(level > 0 /\ is_under_populated(Child))
      <4>1. PendingWrites = <<>> /\ ~ElementIsMissing
        BY <2>9, <3>2 DEF PendingWrites, ElementIsMissing
      <4> QED
        BY <4>1 DEF ElementsAreThere, ToSet
    <3> QED
      BY <3>1, <3>2
  <2>10. pc \in {"idle", "create", "find", "insert", "split", "remove",
                 "predecessor", "rebalance", "verify", "return"} /\ pc # "create"
    BY <1>1, <1>3, Running DEF TypeOK, StepOK
  <2> QED
    BY <2>4, <2>5, <2>6, <2>7, <2>8, <2>9, <2>10
<1> QED
  BY <1>2, <1>3

\* With room for what it writes and for its search, such a step has an outcome.
LEMMA SafeStepsProceed ==
  ASSUME IInv, TreeInv, RoomEnough, proc = "running"
  PROVE  Proceeds
<1>1. ElementsAreThere
  BY SafeStepsFindElements
<1>2. Len(path) \in Nat /\ MaxDepth \in Nat
  BY Running, CollectionAssumption, LenProperties DEF TypeOK
<1>3. ~StackIsExhausted
  BY <1>2 DEF RoomEnough, StackIsExhausted
<1> QED
  BY <1>1, <1>3 DEF RoomEnough, ElementsAreThere, Proceeds, StepGoesAstray, Overruns

\* No other step makes the process go astray.
LEMMA AstrayOnlySo ==
  ASSUME NeverAstray, [Next]_vars, ~GoAstray
  PROVE  NeverAstray'
<1>1. CASE UNCHANGED proc
  BY <1>1 DEF NeverAstray
<1>2. (Open \/ Initialize \/ Exit) => NeverAstray'
  BY DEF Open, CreateFile, LoadDatabase, Initialize, WriteFreelist, InitRootNode, WriteMeta,
         Exit, Quit, Stop, NeverAstray
<1>3. (Close \/ \E o \in Operation : Call(o)) => UNCHANGED proc
  BY DEF Close, Call, dal_vars
<1>4. DiskFault => proc' = proc \/ proc' = "down"
  BY DEF DiskFault, Quit, Stop
<1>5. ReadFails => proc' = proc \/ proc' = "down"
  BY DEF ReadFails, Quit, Stop
<1>6. /\ (GoDown \/ StopSearch \/ CreateRootFails \/ KeepRoot) => UNCHANGED proc
      /\ (DescendToPredecessor \/ KeepChild \/ ShrinkRoot \/ Return) => UNCHANGED proc
  BY DEF GoDown, StopSearch, CreateRootFails, KeepRoot, DescendToPredecessor, KeepChild,
         ShrinkRoot, Return, dal_vars
<1>7. /\ (CreateRoot \/ InsertItem \/ SplitChild \/ SplitRoot) => UNCHANGED proc
      /\ (RemoveFromLeaf \/ TakePredecessor \/ RebalanceChild) => UNCHANGED proc
  BY DEF CreateRoot, InsertItem, SplitChild, SplitRoot, RemoveFromLeaf, TakePredecessor,
         RebalanceChild, Write
<1>8. CASE UNCHANGED vars
  BY <1>1, <1>8 DEF vars, dal_vars
<1>9. Next => \/ Open \/ Close \/ Exit \/ DiskFault \/ Step \/ \E o \in Operation : Call(o)
  BY DEF Next
<1>10. Step => \/ Initialize \/ CreateRoot \/ CreateRootFails
               \/ GoDown \/ StopSearch \/ ReadFails \/ InsertItem \/ SplitChild \/ SplitRoot
               \/ KeepRoot \/ RemoveFromLeaf \/ DescendToPredecessor \/ TakePredecessor
               \/ RebalanceChild \/ KeepChild \/ ShrinkRoot \/ Return
  BY DEF Step, Progress
<1> QED
  BY <1>1, <1>2, <1>3, <1>4, <1>5, <1>6, <1>7, <1>8, <1>9, <1>10 DEF NeverAstray

\* At every step of a safe call, whatever it has changed since the call was judged
\* safe: no split uses the index -1 (node.cpp:183), no predecessor is taken from an
\* empty leaf (node.cpp:241), no child that is rebalanced lacks a sibling
\* (node.cpp:374), and no node is written with a child missing (node.h:234).
THEOREM SafeCallsFindElements == FaultySteps => []ElementsAreThere
<1>1. IInv /\ TreeInv => ElementsAreThere
  BY SafeStepsFindElements
<1> QED
  BY <1>1, TreeIsKept, PTL

\* So only the sizes can make a safe call go astray: a node larger than its page, or
\* a search deeper than the stack.
THEOREM RoomIsEnough == FaultySteps /\ []RoomEnough => []NeverAstray
<1>1. Init => NeverAstray
  BY DEF Init, DalInit, NeverAstray
<1>2. IInv /\ TreeInv /\ RoomEnough /\ NeverAstray /\ [FaultyNext]_vars => NeverAstray'
  <2> SUFFICES ASSUME IInv, TreeInv, RoomEnough, NeverAstray, [FaultyNext]_vars
               PROVE  NeverAstray'
    OBVIOUS
  <2>1. ~GoAstray
    BY SafeStepsProceed DEF GoAstray
  <2>2. [Next]_vars
    BY FaultyIsNext
  <2> QED
    BY <2>1, <2>2, AstrayOnlySo
<1> QED
  BY <1>1, <1>2, TreeIsKept, PTL DEF FaultySteps

-----------------------------------------------------------------------------
\* The map a collection is.

\* Function m maps the key of each item in I to its value.
MapsTo(m, I) ==
  /\ m = [k \in DOMAIN m |-> m[k]] /\ DOMAIN m = {y.key : y \in I}
  /\ \A y \in I : m[y.key] = y.value

\* Map n is m with item x, or without key k.
IsWith(n, m, x) == n = [k \in DOMAIN m \union {x.key} |-> IF k = x.key THEN x.value ELSE m[k]]
IsWithout(n, m, k) == n = [j \in DOMAIN m \ {k} |-> m[j]]

Without(I, k) == {y \in I : y.key # k}

LEMMA MapsAgree ==
  ASSUME NEW m, NEW n, NEW I, MapsTo(m, I), MapsTo(n, I)
  PROVE  m = n
<1>1. DOMAIN m = DOMAIN n
  BY DEF MapsTo
<1>2. \A k \in DOMAIN m : m[k] = n[k]
  BY DEF MapsTo
<1> QED
  BY <1>1, <1>2 DEF MapsTo

LEMMA MapAfterPut ==
  ASSUME NEW m, NEW n, NEW I, MapsTo(m, I), NEW x, x.key \notin DOMAIN m, MapsTo(n, I \union {x})
  PROVE  IsWith(n, m, x)
<1>1. DOMAIN n = DOMAIN m \union {x.key}
  BY DEF MapsTo
<1>2. ASSUME NEW k \in DOMAIN n
      PROVE  n[k] = IF k = x.key THEN x.value ELSE m[k]
  <2>1. CASE k = x.key
    BY <2>1 DEF MapsTo
  <2>2. CASE k # x.key
    <3>1. PICK y \in I : y.key = k
      BY <1>1, <1>2, <2>2 DEF MapsTo
    <3>2. m[y.key] = y.value /\ n[y.key] = y.value
      BY DEF MapsTo
    <3> QED
      BY <2>2, <3>1, <3>2
  <2> QED
    BY <2>1, <2>2
<1> QED
  BY <1>1, <1>2 DEF MapsTo, IsWith

LEMMA MapAfterRemove ==
  ASSUME NEW m, NEW n, NEW I, MapsTo(m, I), NEW k, MapsTo(n, Without(I, k))
  PROVE  IsWithout(n, m, k)
<1>1. DOMAIN n = DOMAIN m \ {k}
  BY DEF MapsTo, Without
<1>2. ASSUME NEW j \in DOMAIN n
      PROVE  n[j] = m[j]
  <2>1. PICK y \in I : y.key = j /\ y.key # k
    BY <1>1, <1>2 DEF MapsTo, Without
  <2>2. m[y.key] = y.value /\ n[y.key] = y.value
    BY <2>1 DEF MapsTo, Without
  <2> QED
    BY <2>1, <2>2
<1> QED
  BY <1>1, <1>2 DEF MapsTo, IsWithout

\* What the collection holds is the items of its tree.
LEMMA ItemsAreContents ==
  ASSUME NEW c, NEW h, HasTree(c, h), stream = "good"
  PROVE  MapsTo(Contents, ItemsOf(file, c))
<1>1. IsTreeOf(c, h) /\ root # 0 /\ proc = "running"
  BY AtTree DEF HasTree
<1>2. Contents = [k \in {j \in Key : IsPresent(j)} |-> ItemFrom(root, k).value]
  BY <1>1 DEF Contents, ContentsFrom, IsPresent
<1>3. ASSUME NEW p \in DOMAIN c, NEW i \in 1 .. Len(file[p].items), NEW y, y = file[p].items[i]
      PROVE  /\ y \in Item /\ y \in ItemsOf(file, c) /\ IsPresent(y.key)
             /\ ItemFrom(root, y.key) = y
  <2>1. file[p].items \in Seq(Item) /\ get_node(file, p).items = file[p].items
    BY <1>1, NodeOfCollection
  <2>2. y \in Item
    BY <1>3, <2>1, ElementOfSeq
  <2>3. y \in ItemsOf(file, c)
    BY <1>3, <2>2 DEF ItemsOf, HoldsItem, HasItem
  <2>4. IsPresent(y.key)
    <3>1. KeyHeld(file, c, y.key)
      BY <1>3 DEF KeyHeld
    <3> QED
      BY <1>1, <3>1, PresentIsHeld
  <2>5. SearchEnd(y.key) = get_node(file, p) /\ KeyPosition(get_node(file, p), y.key) = i
    BY <1>1, <1>3, SearchEnds
  <2>6. ItemFrom(root, y.key) = y
    BY <1>3, <2>1, <2>5 DEF ItemFrom, SearchEnd
  <2> QED
    BY <2>2, <2>3, <2>4, <2>6
<1>4. ASSUME NEW y \in ItemsOf(file, c)
      PROVE  y.key \in Key /\ IsPresent(y.key) /\ ItemFrom(root, y.key) = y
  <2>1. PICK p \in DOMAIN c : \E i \in 1 .. Len(file[p].items) : file[p].items[i] = y
    BY <1>4 DEF ItemsOf, HoldsItem, HasItem
  <2>2. y \in Item /\ IsPresent(y.key) /\ ItemFrom(root, y.key) = y
    BY <1>3, <2>1
  <2> QED
    BY <2>2 DEF Item
<1>5. ASSUME NEW k \in Key, IsPresent(k)
      PROVE  \E y \in ItemsOf(file, c) : y.key = k
  <2>1. KeyHeld(file, c, k)
    BY <1>1, <1>5, PresentIsHeld
  <2>2. PICK p \in DOMAIN c : \E i \in 1 .. Len(file[p].items) : file[p].items[i].key = k
    BY <2>1 DEF KeyHeld
  <2> QED
    BY <1>3, <2>2
<1>6. DOMAIN Contents = {y.key : y \in ItemsOf(file, c)}
  BY <1>2, <1>4, <1>5
<1>7. \A y \in ItemsOf(file, c) : Contents[y.key] = y.value
  BY <1>2, <1>4
<1> QED
  BY <1>2, <1>6, <1>7 DEF MapsTo

\* Without a tree, or on a stream that no longer works, it holds nothing.
LEMMA NoContents ==
  ASSUME ~(proc = "running" /\ stream = "good" /\ root # 0)
  PROVE  Contents = KV!EmptyMap
<1>1. Contents = ContentsFrom(0)
  BY DEF Contents
<1>2. \A k : ~IsPresentFrom(0, k)
  BY DEF IsPresentFrom
<1> QED
  BY <1>1, <1>2 DEF ContentsFrom, KV!EmptyMap

\* A call about to return has its reply; and only a search for which there is a tree,
\* or whose stream is lost, is under way.
ReplyOK ==
  /\ proc \in {"freelist", "root", "meta"} => stream = "good"
  /\ proc = "running" =>
       /\ pc = "return" => result # NoResult
       /\ pc = "verify" => stream = "good"
       /\ pc = "find" /\ stream = "good" => root # 0

LEMMA ReplyOKStep ==
  ASSUME IInv, TreeInv, ReplyOK, [FaultyNext]_vars
  PROVE  ReplyOK'
<1>a. proc' \in {"freelist", "root", "meta"} => stream' = "good"
  <2>1. CASE Open \/ Initialize
    BY <2>1 DEF Open, CreateFile, LoadDatabase, Initialize, WriteFreelist, InitRootNode, WriteMeta,
                ReplyOK
  <2>2. CASE UNCHANGED vars
    BY <2>2 DEF vars, dal_vars, ReplyOK
  <2>3. (Close \/ Exit \/ DiskFault \/ GoAstray \/ \E o \in Operation : Call(o))
        => proc' \in {"running", "down", "astray"}
    BY DEF Close, At, Exit, Quit, Stop, DiskFault, GoAstray, Call, dal_vars
  <2>4. (GoDown \/ StopSearch \/ ReadFails \/ Return \/ KeepRoot \/ KeepChild \/ ShrinkRoot)
        => proc' \in {"running", "down"}
    BY DEF GoDown, StopSearch, Searching, ReadFails, Return, KeepRoot, KeepChild, ShrinkRoot, At, Quit,
           Stop, dal_vars
  <2>5. (CreateRoot \/ CreateRootFails \/ InsertItem \/ SplitChild \/ SplitRoot) => proc' = "running"
    BY DEF CreateRoot, CreateRootFails, InsertItem, SplitChild, SplitRoot, Write, At
  <2>6. (RemoveFromLeaf \/ DescendToPredecessor \/ TakePredecessor \/ RebalanceChild)
        => proc' = "running"
    BY DEF RemoveFromLeaf, DescendToPredecessor, TakePredecessor, RebalanceChild, Write, At, dal_vars
  <2> QED
    BY <2>1, <2>2, <2>3, <2>4, <2>5, <2>6 DEF FaultyNext, SafeNext, Step, Progress
<1> SUFFICES ASSUME proc' = "running"
             PROVE  ReplyOK'
  BY <1>a DEF ReplyOK
<1>0. /\ Ok # NoResult /\ Absent # NoResult /\ Missing # NoResult /\ Error # NoResult
      /\ \A v : Found(v) # NoResult
  BY DEF Ok, Absent, Missing, Error, Found, NoResult
<1>1. CASE Open \/ Initialize
  <2>1. pc' = "idle"
    <3>1. proc \notin {"running", "astray"}
      BY <1>1 DEF Open, CreateFile, LoadDatabase, Initialize, WriteFreelist, InitRootNode, WriteMeta
    <3>2. pc = "idle"
      BY <3>1 DEF IInv, ProcessOK
    <3> QED
      BY <1>1, <3>2 DEF Open, Initialize
  <2> QED
    BY <2>1 DEF ReplyOK
<1>2. CASE Close \/ Exit \/ Return
  BY <1>2 DEF Close, Exit, Quit, Stop, Return, ReplyOK, At
<1>3. CASE \E o \in Operation : Call(o) /\ (stream = "good" => SafeCall(o))
  <2>1. PICK o \in Operation : Call(o) /\ (stream = "good" => SafeCall(o))
    BY <1>3
  <2>2. /\ UNCHANGED <<root, stream>>
        /\ pc' = IF o.kind = "put" /\ root = 0 THEN "create" ELSE "find"
    BY <2>1 DEF Call, dal_vars
  <2>3. o.kind \in {"put", "find", "remove"}
    BY OperationKinds
  <2>4. stream = "good" /\ root = 0 => o.kind = "put"
    BY <2>1, <2>3 DEF SafeCall, SafeRemove
  <2> QED
    BY <2>2, <2>4 DEF ReplyOK
<1>4. CASE GoDown
  BY <1>4 DEF GoDown, Searching, At, dal_vars, ReplyOK
<1>5. CASE StopSearch
  <2>1. pc' # "return" \/ result' \in {Ok, Absent, Missing} \/ \E v : result' = Found(v)
    BY <1>5 DEF StopSearch, ReturnWith, At
  <2>2. pc' = "return" => result' # NoResult
    BY <1>0, <2>1
  <2>3. pc' \notin {"find", "verify"}
    BY <1>5 DEF StopSearch, ReturnWith, At
  <2> QED
    BY <2>2, <2>3 DEF ReplyOK
<1>6. CASE ReadFails
  <2>1. pc' = "return" /\ result' = Error
    BY <1>6 DEF ReadFails, Quit, Stop, ReturnWith
  <2> QED
    BY <1>0, <2>1 DEF ReplyOK
<1>7. CASE CreateRoot \/ CreateRootFails \/ SplitRoot \/ KeepRoot
  <2>1. pc' = "return" /\ result' \in {Ok, Error}
    BY <1>7 DEF CreateRoot, CreateRootFails, SplitRoot, KeepRoot, ReturnWith
  <2> QED
    BY <1>0, <2>1 DEF ReplyOK
<1>8. CASE InsertItem \/ SplitChild \/ RemoveFromLeaf \/ DescendToPredecessor \/ TakePredecessor
  <2>1. pc' \in {"split", "rebalance", "predecessor"}
    BY <1>8 DEF InsertItem, SplitChild, RemoveFromLeaf, DescendToPredecessor, TakePredecessor, At
  <2> QED
    BY <2>1 DEF ReplyOK
<1>9. CASE RebalanceChild \/ KeepChild
  <2>1. pc' \in {"split", "rebalance"}
    BY <1>9 DEF RebalanceChild, KeepChild, At
  <2> QED
    BY <2>1 DEF ReplyOK
<1>10. CASE ShrinkRoot
  <2>1. pc = "rebalance" /\ pc' = "verify" /\ stream' = stream /\ proc = "running"
    BY <1>10 DEF ShrinkRoot, At, dal_vars
  <2>2. StreamOK
    BY <2>1 DEF TreeInv, TreeInvariantWith
  <2> QED
    BY <2>1, <2>2 DEF StreamOK, ReplyOK
<1>11. CASE DiskFault \/ GoAstray
  <2>1. pc' = "return" /\ result' = Error
    BY <1>11 DEF DiskFault, GoAstray, Quit, Stop, ReturnWith
  <2> QED
    BY <1>0, <2>1 DEF ReplyOK
<1>12. CASE UNCHANGED vars
  BY <1>12 DEF vars, dal_vars, call_vars, ReplyOK
<1>13. FaultyNext => \/ Open \/ Close \/ Exit \/ DiskFault \/ Step
                     \/ \E o \in Operation : Call(o) /\ (stream = "good" => SafeCall(o))
  BY DEF FaultyNext, SafeNext
<1>14. Step => \/ Initialize \/ GoAstray \/ CreateRoot \/ CreateRootFails
               \/ GoDown \/ StopSearch \/ ReadFails \/ InsertItem \/ SplitChild \/ SplitRoot
               \/ KeepRoot \/ RemoveFromLeaf \/ DescendToPredecessor \/ TakePredecessor
               \/ RebalanceChild \/ KeepChild \/ ShrinkRoot \/ Return
  BY DEF Step, Progress
<1> QED
  BY <1>1, <1>2, <1>3, <1>4, <1>5, <1>6, <1>7, <1>8, <1>9, <1>10, <1>11, <1>12, <1>13, <1>14

-----------------------------------------------------------------------------
\* Every step is one of the map, or none.

MapKnown ==
  /\ \A c, h : HasTree(c, h) /\ stream = "good" => MapsTo(Contents, ItemsOf(file, c))
  /\ ~(proc = "running" /\ stream = "good" /\ root # 0) => Contents = KV!EmptyMap

LEMMA MapIsKnown == MapKnown
BY ItemsAreContents, NoContents DEF MapKnown

MapNow == IInv /\ TreeInv /\ ReplyOK /\ MapKnown

MapStutters == UNCHANGED <<MapSession, Contents, op, MapReply>>

\* What a step does to the map: on a stream that works, that of a map on a healthy
\* disk, or a failure of the disk.
MapMoves ==
  \/ KV!Next \/ MapStutters
  \/ DiskFault /\ KV!Fail
  \/ stream # "good" /\ KV!Refuse
  \/ stream # "good" /\ \E o \in KV!Operation : KV!InvokeInVain(o)

LEMMA ContentsStay ==
  ASSUME UNCHANGED <<file, root, proc, stream>>
  PROVE  Contents' = Contents /\ MapSession' = MapSession
<1>1. \A r : ContentsFrom(r)' = ContentsFrom(r)
  <2> TAKE r
  <2>1. \A k : Walk(r, k)' = Walk(r, k)
    BY DEF Walk, Iteration
  <2>2. \A k : SearchEndFrom(r, k)' = SearchEndFrom(r, k)
    BY <2>1 DEF SearchEndFrom
  <2> QED
    BY <2>2 DEF ContentsFrom, IsPresentFrom, ItemFrom
<1> QED
  BY <1>1 DEF Contents, MapSession

LEMMA CallUnderWay ==
  ASSUME IInv, proc = "running", pc # "idle"
  PROVE  op \in Operation /\ op # KV!NoCall /\ op.kind \in {"put", "find", "remove"}
         /\ op.key \in Key
<1>1. op \in Operation
  BY Running DEF StepOK
<1>2. op.kind \in {"put", "find", "remove"} /\ op.key \in Key
  BY <1>1, OperationKinds
<1>3. KV!NoCall.kind = "none"
  BY DEF KV!NoCall
<1> QED
  BY <1>1, <1>2, <1>3

LEMMA NewContents ==
  ASSUME MapNow, MapNow', NEW c, NEW h, HasTree(c, h), [FaultyNext]_vars, NEW I, Continues(c, I),
         proc' = "running", stream' = "good"
  PROVE  MapsTo(Contents', I)
<1>1. PICK d : \E g \in Nat : TreeInvariantWith(d, g)' /\ ItemsOf(file', d) = I
  BY DEF Continues
<1>2. PICK g \in Nat : TreeInvariantWith(d, g)'
  BY <1>1
<1>3. root' # 0
  BY RootStays DEF HasTree
<1>4. HasTree(d, g)'
  BY <1>2, <1>3 DEF HasTree, MapNow
<1> QED
  BY <1>1, <1>4 DEF MapNow, MapKnown

LEMMA SameContents ==
  ASSUME MapNow, MapNow', NEW c, NEW h, HasTree(c, h), [FaultyNext]_vars,
         Continues(c, ItemsOf(file, c)), proc' = "running", stream = "good", stream' = "good"
  PROVE  Contents' = Contents /\ MapSession' = MapSession
<1>1. MapsTo(Contents', ItemsOf(file, c))
  BY NewContents
<1>2. MapsTo(Contents, ItemsOf(file, c))
  BY DEF MapNow, MapKnown
<1>3. MapSession' = MapSession
  BY DEF MapSession, HasTree
<1> QED
  BY <1>1, <1>2, <1>3, MapsAgree

\* The process.
LEMMA EndMoves ==
  ASSUME MapNow, MapNow', NEW f, Quit(f)
  PROVE  MapMoves
<1>1. proc' = "down" /\ pc' = "idle" /\ op' = NoOperation
  BY DEF Quit, Stop, ForgetCall
<1>2. Contents' = KV!EmptyMap
  BY <1>1 DEF MapNow, MapKnown
<1>3. MapSession' = "down" /\ MapReply' = NoResult
  BY <1>1 DEF MapSession, MapReply
<1> QED
  BY <1>1, <1>2, <1>3 DEF MapMoves, KV!Next, KV!Stop, KV!NoCall, KV!NoReply, NoOperation, NoResult

LEMMA StartMoves ==
  ASSUME MapNow, MapNow', Open \/ Initialize
  PROVE  MapMoves
<1>1. /\ proc \notin {"running", "astray"} /\ UNCHANGED <<pc, op>>
      /\ proc' # "astray" /\ (proc' = "running" => stream' = "good")
  BY DEF Open, CreateFile, LoadDatabase, Initialize, WriteFreelist, InitRootNode, WriteMeta,
         call_vars, MapNow, ReplyOK
<1>2. pc = "idle" /\ MapReply = NoResult /\ MapReply' = NoResult
  <2>1. pc = "idle"
    BY <1>1 DEF MapNow, IInv, ProcessOK
  <2> QED
    BY <1>1, <2>1 DEF MapReply
<1>3. MapSession = "down" /\ Contents = KV!EmptyMap
  BY <1>1 DEF MapSession, MapNow, MapKnown
<1>4. proc' = "running" => root' = 0
  BY StartsEmpty DEF MapNow
<1>5. Contents' = KV!EmptyMap
  BY <1>4 DEF MapNow, MapKnown
<1> QED
  BY <1>1, <1>2, <1>3, <1>5 DEF MapMoves, MapStutters, KV!Next, KV!Start, MapSession

\* Calls and returns.
LEMMA CallMoves ==
  ASSUME MapNow, MapNow', NEW o \in Operation, Call(o)
  PROVE  MapMoves
<1>1. /\ proc = "running" /\ pc = "idle" /\ op' = o /\ pc' \in {"create", "find"}
      /\ UNCHANGED <<file, root, proc, stream>>
  BY DEF Call, At, dal_vars
<1>2. IdleCall
  BY <1>1, Running DEF MapNow, StepOK
<1>3. op = KV!NoCall
  BY <1>2 DEF IdleCall, NoOperation, KV!NoCall
<1>4. MapReply = NoResult /\ MapReply' = NoResult
  BY <1>1 DEF MapReply
<1>5. Contents' = Contents /\ MapSession' = MapSession
  BY <1>1, ContentsStay
<1>6. o \in KV!Operation
  BY DEF Operation, KV!Operation
<1>7. MapSession = stream /\ stream \in {"good", "failed", "closed"}
  BY <1>1, Running DEF MapSession, MapNow, TypeOK
<1>8. CASE stream = "good"
  <2>1. KV!Invoke(o)
    BY <1>1, <1>3, <1>4, <1>5, <1>7, <1>8 DEF KV!Invoke
  <2> QED
    BY <1>6, <2>1 DEF MapMoves, KV!Next
<1>9. CASE stream # "good"
  <2>1. KV!InvokeInVain(o)
    BY <1>1, <1>3, <1>4, <1>5, <1>7, <1>9 DEF KV!InvokeInVain
  <2> QED
    BY <1>6, <1>9, <2>1 DEF MapMoves
<1> QED
  BY <1>8, <1>9

LEMMA ReturnMoves ==
  ASSUME MapNow, MapNow', Return
  PROVE  MapMoves
<1>1. /\ proc = "running" /\ pc = "return" /\ pc' = "idle" /\ op' = NoOperation
      /\ UNCHANGED <<file, root, proc, stream>>
  BY DEF Return, At, ForgetCall, dal_vars
<1>2. Contents' = Contents /\ MapSession' = MapSession
  BY <1>1, ContentsStay
<1>3. MapReply = result /\ result # NoResult /\ MapReply' = NoResult
  BY <1>1 DEF MapReply, MapNow, ReplyOK
<1>4. KV!Return
  BY <1>1, <1>2, <1>3 DEF KV!Return, KV!NoCall, KV!NoReply, NoOperation, NoResult
<1> QED
  BY <1>4 DEF MapMoves, KV!Next

LEMMA CloseMoves ==
  ASSUME MapNow, MapNow', Close
  PROVE  MapMoves
<1>1. /\ proc = "running" /\ pc = "idle" /\ stream # "closed" /\ stream' = "closed"
      /\ proc' = proc /\ pc' = pc /\ op' = op
  BY DEF Close, At, call_vars
<1>2. IdleCall
  BY <1>1, Running DEF MapNow, StepOK
<1>3. op = KV!NoCall
  BY <1>2 DEF IdleCall, NoOperation, KV!NoCall
<1>4. MapReply = NoResult /\ MapReply' = NoResult
  BY <1>1 DEF MapReply
<1>5. Contents' = KV!EmptyMap
  BY <1>1 DEF MapNow, MapKnown
<1>6. MapSession \in {"good", "failed"} /\ MapSession' = "closed"
  BY <1>1, Running DEF MapSession, MapNow, TypeOK
<1>7. KV!Close
  BY <1>1, <1>3, <1>4, <1>5, <1>6 DEF KV!Close
<1> QED
  BY <1>7 DEF MapMoves, KV!Next

\* Steps that change no more than where the call is.
LEMMA QuietMoves ==
  ASSUME MapNow, MapNow', GoDown \/ DescendToPredecessor \/ KeepRoot \/ KeepChild
  PROVE  MapMoves
<1>1. UNCHANGED <<file, root, proc, stream, op>>
  BY DEF GoDown, DescendToPredecessor, KeepRoot, KeepChild, dal_vars
<1>2. Contents' = Contents /\ MapSession' = MapSession
  BY <1>1, ContentsStay
<1>3. MapReply' = MapReply
  <2>1. CASE GoDown \/ DescendToPredecessor \/ KeepChild
    <3>1. pc \in {"find", "verify", "predecessor", "split", "rebalance"} /\ pc' = pc
      BY <2>1 DEF GoDown, Searching, DescendToPredecessor, KeepChild, At
    <3> QED
      BY <3>1 DEF MapReply
  <2>2. CASE KeepRoot
    <3>1. pc = "split" /\ pc' = "return" /\ result' = Ok
      BY <2>2 DEF KeepRoot, At, ReturnWith
    <3> QED
      BY <3>1 DEF MapReply
  <2> QED
    BY <2>1, <2>2
<1> QED
  BY <1>1, <1>2, <1>3 DEF MapMoves, MapStutters

\* A call is refused on a stream that does not work.
LEMMA RefusalMoves ==
  ASSUME MapNow, MapNow', proc = "running", proc' = "running", stream # "good", stream' = stream,
         pc \in {"find", "create"}, pc' = "return", result' = Error, op' = op
  PROVE  MapMoves
<1>1. MapReply = NoResult /\ MapReply' = Error
  BY DEF MapReply
<1>2. Contents = KV!EmptyMap /\ Contents' = KV!EmptyMap
  BY DEF MapNow, MapKnown
<1>3. op # KV!NoCall
  BY CallUnderWay DEF MapNow
<1>4. MapSession = stream /\ MapSession' = stream /\ stream \in {"failed", "closed"}
  BY Running DEF MapSession, MapNow, TypeOK
<1>5. KV!Refuse
  BY <1>1, <1>2, <1>3, <1>4 DEF KV!Refuse, KV!NoReply, KV!Failure, NoResult, Error
<1> QED
  BY <1>5 DEF MapMoves

\* On one that does, a search reads every page it comes to.
LEMMA SearchReads ==
  ASSUME MapNow, proc = "running", pc \in {"find", "verify"}, stream = "good"
  PROVE  Readable(page)
<1>1. root # 0
  BY Running DEF MapNow, ReplyOK, StepOK
<1>2. page \in Session
  <2>1. PathOK
    BY <1>1, Running DEF MapNow, SearchOK
  <2> QED
    BY <2>1 DEF PathOK, LeadsTo
<1>3. page \in DOMAIN file
  BY <1>2, Running DEF MapNow, StoredIn
<1> QED
  BY <1>3 DEF Readable

LEMMA ReadFailsMoves ==
  ASSUME MapNow, MapNow', ReadFails
  PROVE  MapMoves
<1>1. /\ proc = "running" /\ pc \in {"find", "verify"} /\ ~Readable(page)
      /\ \/ Quit(file)
         \/ /\ stream' = IF stream = "closed" THEN "closed" ELSE "failed"
            /\ pc' = "return" /\ result' = Error /\ UNCHANGED <<file, proc, root, op>>
  BY DEF ReadFails, At, ReturnWith
<1>2. CASE Quit(file)
  BY <1>2, EndMoves
<1>3. CASE ~Quit(file)
  <2>1. stream # "good"
    BY <1>1, SearchReads
  <2>2. pc = "find"
    BY <1>1, <2>1 DEF MapNow, ReplyOK
  <2>3. stream' = stream
    BY <1>1, <1>3, <2>1, Running DEF MapNow, TypeOK
  <2> QED
    BY <1>1, <1>3, <2>1, <2>2, <2>3, RefusalMoves
<1> QED
  BY <1>2, <1>3

LEMMA CreateRootFailsMoves ==
  ASSUME MapNow, MapNow', CreateRootFails
  PROVE  MapMoves
<1>1. /\ proc = "running" /\ pc = "create" /\ stream # "good"
      /\ pc' = "return" /\ result' = Error /\ UNCHANGED <<proc, stream, op>>
  BY DEF CreateRootFails, At, ReturnWith
<1> QED
  BY <1>1, RefusalMoves

LEMMA FaultMoves ==
  ASSUME MapNow, MapNow', DiskFault
  PROVE  MapMoves
<1>1. PICK done \in Prefixes(PendingWrites) :
        \/ Quit(Written(file, done))
        \/ /\ stream' = "failed" /\ pc' = "return" /\ result' = Error /\ UNCHANGED <<proc, op>>
  BY DEF DiskFault, ReturnWith
<1>2. CASE Quit(Written(file, done))
  BY <1>2, EndMoves
<1>3. CASE ~Quit(Written(file, done))
  <2>1. proc = "running" /\ stream = "good" /\ pc # "idle"
    BY DEF DiskFault, PendingWrites
  <2>2. op # KV!NoCall
    BY <2>1, CallUnderWay DEF MapNow
  <2>3. MapSession = "good" /\ MapSession' = "failed" /\ MapReply' = Error
    BY <1>1, <1>3, <2>1 DEF MapSession, MapReply
  <2>4. Contents' = KV!EmptyMap
    BY <1>1, <1>3 DEF MapNow, MapKnown
  <2>5. KV!Fail
    BY <1>1, <1>3, <2>2, <2>3, <2>4 DEF KV!Fail, KV!Failure, Error
  <2> QED
    BY <2>5 DEF MapMoves
<1> QED
  BY <1>2, <1>3

\* Steps at which a call takes effect.
TakesEffect(r, m) ==
  /\ MapSession = "good" /\ op # KV!NoCall /\ MapReply = NoResult
  /\ MapReply' = r /\ Contents' = m /\ MapSession' = MapSession /\ op' = op

LEMMA FindTakesEffect ==
  ASSUME MapNow, op.kind = "find", NEW r, TakesEffect(r, Contents),
         op.key \in DOMAIN Contents => r = Found(Contents[op.key]),
         op.key \notin DOMAIN Contents => r = Absent
  PROVE  MapMoves
<1>1. KV!Reply(op, Contents) = r
  BY DEF KV!Reply, Found, Absent
<1>2. KV!After(op, Contents) = Contents
  BY DEF KV!After
<1>3. KV!Effect
  BY <1>1, <1>2 DEF TakesEffect, KV!Effect, KV!NoReply, NoResult
<1> QED
  BY <1>3 DEF MapMoves, KV!Next

LEMMA PutTakesEffect ==
  ASSUME MapNow, op.kind = "put", NEW m, TakesEffect(Ok, m),
         m = [k \in DOMAIN Contents \union {op.key} |-> IF k = op.key THEN op.value ELSE Contents[k]]
  PROVE  MapMoves
<1>1. KV!Reply(op, Contents) = Ok
  BY DEF KV!Reply, Ok
<1>2. KV!After(op, Contents) = m
  BY DEF KV!After
<1>3. KV!Effect
  BY <1>1, <1>2 DEF TakesEffect, KV!Effect, KV!NoReply, NoResult
<1> QED
  BY <1>3 DEF MapMoves, KV!Next

LEMMA RemoveTakesEffect ==
  ASSUME MapNow, op.kind = "remove", NEW m, NEW r, TakesEffect(r, m),
         m = [k \in DOMAIN Contents \ {op.key} |-> Contents[k]],
         r = IF op.key \in DOMAIN Contents THEN Ok ELSE Missing
  PROVE  MapMoves
<1>1. KV!Reply(op, Contents) = r
  BY DEF KV!Reply, Ok, Missing
<1>2. KV!After(op, Contents) = m
  BY DEF KV!After
<1>3. KV!Effect
  BY <1>1, <1>2 DEF TakesEffect, KV!Effect, KV!NoReply, NoResult
<1> QED
  BY <1>3 DEF MapMoves, KV!Next

LEMMA KeyOfContents ==
  ASSUME MapNow, NEW c, NEW h, HasTree(c, h), stream = "good"
  PROVE  /\ MapsTo(Contents, ItemsOf(file, c)) /\ MapSession = "good"
         /\ \A k : k \in DOMAIN Contents <=> k \in Key /\ IsPresent(k)
<1>1. MapsTo(Contents, ItemsOf(file, c)) /\ MapSession = "good"
  BY DEF MapNow, MapKnown, MapSession, HasTree
<1>2. DOMAIN Contents = {k \in Key : IsPresent(k)}
  BY DEF Contents, ContentsFrom, IsPresent, HasTree
<1> QED
  BY <1>1, <1>2

\* The item at which the search for its key ends.
LEMMA ItemFoundInMap ==
  ASSUME NEW c, NEW h, HasTree(c, h), MapsTo(Contents, ItemsOf(file, c)), NEW q \in DOMAIN c,
         NEW n, n = get_node(file, q), NEW k, find_key_in_node(n, k).found
  PROVE  Contents[k] = n.items[find_key_in_node(n, k).position].value
<1>1. IsTreeOf(c, h)
  BY AtTree
<1>2. n.items = file[q].items /\ file[q].items \in Seq(Item)
  BY <1>1, NodeOfCollection
<1> DEFINE i == KeyPosition(n, k)
<1>3. i \in 1 .. Len(n.items) /\ n.items[i].key = k
  BY <1>2, KeyFound
<1>4. find_key_in_node(n, k).position = i
  BY DEF find_key_in_node
<1> HIDE DEF i
<1> DEFINE y == n.items[i]
<1>5. y \in Item
  BY <1>2, <1>3, ElementOfSeq
<1>6. y \in ItemsOf(file, c)
  BY <1>2, <1>3, <1>5 DEF ItemsOf, HoldsItem, HasItem
<1>7. y.key = k
  BY <1>3
<1> HIDE DEF y
<1>8. Contents[y.key] = y.value
  BY <1>6 DEF MapsTo
<1> QED
  BY <1>4, <1>7, <1>8 DEF y

LEMMA StopSearchMoves ==
  ASSUME MapNow, MapNow', StopSearch
  PROVE  MapMoves
<1> DEFINE n == get_node(file, page)
           hit == find_key_in_node(n, op.key)
<1>1. /\ proc = "running" /\ stream = "good" /\ pc \in {"find", "verify"}
      /\ UNCHANGED <<file, root, proc, stream, op>>
  BY DEF StopSearch, Searching, Readable, At, dal_vars
<1>2. root # 0
  BY <1>1, Running DEF MapNow, ReplyOK, StepOK
<1>3. PICK c : \E h \in Nat : TreeInvariantWith(c, h)
  BY DEF MapNow, TreeInv
<1>4. PICK h \in Nat : TreeInvariantWith(c, h)
  BY <1>3
<1>5. HasTree(c, h)
  BY <1>1, <1>2, <1>4 DEF HasTree, MapNow
<1>6. Contents' = Contents /\ MapSession' = MapSession
  BY <1>1, ContentsStay
<1>7. op # KV!NoCall /\ op.key \in Key /\ op.kind \in {"put", "find", "remove"}
  BY <1>1, CallUnderWay DEF MapNow
<1>8. /\ MapsTo(Contents, ItemsOf(file, c)) /\ MapSession = "good"
      /\ op.key \in DOMAIN Contents <=> IsPresent(op.key)
  BY <1>1, <1>5, <1>7, KeyOfContents
<1>9. CASE pc = "verify"
  <2>1. pc' = "return" /\ result' = Ok
    <3>1. op.kind = "remove"
      BY <1>1, <1>9, Running DEF MapNow, StepOK
    <3> QED
      BY <1>9, <3>1 DEF StopSearch, At, ReturnWith
  <2>2. MapReply' = MapReply
    BY <1>9, <2>1 DEF MapReply
  <2> QED
    BY <1>1, <1>6, <2>2 DEF MapMoves, MapStutters
<1>10. CASE pc = "find"
  <2>1. IsPresent(op.key) <=> hit.found
    BY <1>5, <1>10, SearchIsOver
  <2>2. MapReply = NoResult
    BY <1>10 DEF MapReply
  <2>3. CASE op.kind = "find"
    <3> DEFINE r == IF hit.found THEN Found(n.items[hit.position].value) ELSE Absent
    <3>1. pc' = "return" /\ result' = r
      BY <1>10, <2>3 DEF StopSearch, At, ReturnWith
    <3>2. MapReply' = r
      BY <3>1 DEF MapReply
    <3>3. hit.found => r = Found(Contents[op.key])
      <4> SUFFICES ASSUME hit.found PROVE r = Found(Contents[op.key])
        OBVIOUS
      <4>1. page \in DOMAIN c
        BY <1>1, <1>5, AtPage
      <4>2. Contents[op.key] = n.items[hit.position].value
        BY <1>5, <1>8, <4>1, ItemFoundInMap
      <4> QED
        BY <4>2
    <3>4. ~hit.found => r = Absent
      OBVIOUS
    <3> HIDE DEF r
    <3>5. TakesEffect(r, Contents)
      BY <1>1, <1>6, <1>7, <1>8, <2>2, <3>2 DEF TakesEffect
    <3> QED
      BY <1>8, <2>1, <2>3, <3>3, <3>4, <3>5, FindTakesEffect
  <2>4. CASE op.kind = "remove" /\ ~hit.found
    <3>1. pc' = "return" /\ result' = Missing
      BY <1>10, <2>4 DEF StopSearch, At, ReturnWith
    <3>2. MapReply' = Missing
      BY <3>1 DEF MapReply
    <3>3. op.key \notin DOMAIN Contents
      BY <1>8, <2>1, <2>4
    <3>4. Contents = [k \in DOMAIN Contents \ {op.key} |-> Contents[k]]
      BY <1>8, <3>3 DEF MapsTo
    <3>5. TakesEffect(Missing, Contents)
      BY <1>1, <1>6, <1>7, <1>8, <2>2, <3>2 DEF TakesEffect
    <3> QED
      BY <2>4, <3>3, <3>4, <3>5, RemoveTakesEffect, SMTT(30)
  <2>5. CASE op.kind = "put" \/ (op.kind = "remove" /\ hit.found)
    <3>1. pc' \in {"insert", "remove", "predecessor"}
      BY <1>10, <2>5 DEF StopSearch, At
    <3>2. MapReply' = NoResult
      BY <3>1 DEF MapReply
    <3> QED
      BY <1>1, <1>6, <2>2, <3>2 DEF MapMoves, MapStutters
  <2>6. op.kind = "put" \/ op.kind = "find" \/ op.kind = "remove"
    BY <1>7
  <2> HIDE DEF hit
  <2> QED
    BY <2>3, <2>4, <2>5, <2>6, Zenon
<1> QED
  BY <1>1, <1>9, <1>10

\* Writing steps that come after the call has taken effect.
LEMMA LoopMoves ==
  ASSUME MapNow, MapNow', NEW c, NEW h, HasTree(c, h), [FaultyNext]_vars,
         SplitChild \/ SplitRoot \/ RebalanceChild \/ ShrinkRoot
  PROVE  MapMoves
<1>1. /\ proc = "running" /\ UNCHANGED <<proc, stream, op>>
      /\ pc \in {"split", "rebalance"} /\ pc' \in {"split", "rebalance", "verify", "return"}
      /\ pc' = "return" => result' = Ok
  BY DEF SplitChild, SplitRoot, RebalanceChild, ShrinkRoot, At, Write, ReturnWith, dal_vars
<1>2. stream = "good"
  BY <1>1 DEF HasTree, TreeInvariantWith, StreamOK
<1>3. Continues(c, ItemsOf(file, c))
  BY SplitChildContinues, SplitRootContinues, RebalanceChildContinues, ShrinkRootContinues
<1>4. Contents' = Contents /\ MapSession' = MapSession
  BY <1>1, <1>2, <1>3, SameContents
<1>5. MapReply = Ok /\ MapReply' = Ok
  BY <1>1 DEF MapReply
<1> QED
  BY <1>1, <1>4, <1>5 DEF MapMoves, MapStutters

\* put takes effect when it writes the item.
LEMMA InsertMoves ==
  ASSUME MapNow, MapNow', NEW c, NEW h, HasTree(c, h), [FaultyNext]_vars, InsertItem
  PROVE  MapMoves
<1>1. /\ proc = "running" /\ pc = "insert" /\ pc' = "split" /\ UNCHANGED <<proc, stream, op>>
  BY DEF InsertItem, At, Write
<1>2. /\ stream = "good" /\ NewItem.key = op.key /\ NewItem.value = op.value
      /\ ~KeyHeld(file, c, op.key) /\ op.kind = "put"
  BY <1>1, AtInsert, Running DEF MapNow, StepOK, NewItem
<1>3. /\ MapsTo(Contents, ItemsOf(file, c)) /\ MapSession = "good"
      /\ op.key \in DOMAIN Contents => IsPresent(op.key)
  BY <1>2, KeyOfContents
<1>4. op.key \notin DOMAIN Contents
  <2>1. IsTreeOf(c, h) /\ root # 0
    BY AtTree DEF HasTree
  <2>2. ~IsPresent(op.key)
    BY <1>2, <2>1, PresentIsHeld
  <2> QED
    BY <1>3, <2>2
<1>5. MapsTo(Contents', ItemsOf(file, c) \union {NewItem})
  BY <1>1, <1>2, InsertContinues, NewContents
<1> DEFINE m == [k \in DOMAIN Contents \union {op.key} |-> IF k = op.key THEN op.value ELSE Contents[k]]
<1>6. Contents' = m
  <2> DEFINE x == NewItem
             before == Contents
             after == Contents'
             I == ItemsOf(file, c)
  <2>1. /\ x.key = op.key /\ x.value = op.value /\ MapsTo(before, I) /\ MapsTo(after, I \union {x})
        /\ x.key \notin DOMAIN before
    BY <1>2, <1>3, <1>4, <1>5
  <2> HIDE DEF x, before, after, I
  <2>2. IsWith(after, before, x)
    BY <2>1, MapAfterPut
  <2> QED
    BY <2>1, <2>2 DEF after, before, IsWith
<1>7. MapReply = NoResult /\ MapReply' = Ok /\ op # KV!NoCall
  BY <1>1, CallUnderWay DEF MapReply, MapNow
<1>8. MapSession' = MapSession
  BY <1>1 DEF MapSession
<1> HIDE DEF m
<1>9. TakesEffect(Ok, m)
  BY <1>1, <1>3, <1>6, <1>7, <1>8 DEF TakesEffect
<1> QED
  BY <1>2, <1>9, PutTakesEffect DEF m

\* The key that remove takes out is in the tree.
LEMMA KeyIsThere ==
  ASSUME NEW c, NEW h, HasTree(c, h), pc \in {"remove", "predecessor"}
  PROVE  KeyHeld(file, c, op.key)
<1>1. CASE pc = "remove"
  <2>1. page \in DOMAIN c /\ index \in 1 .. Len(file[page].items) /\ file[page].items[index].key = op.key
    BY <1>1, AtRemove
  <2> QED
    BY <2>1 DEF KeyHeld
<1>2. CASE pc = "predecessor"
  <2>1. PICK w, n : WayDown(c, w, n)
    BY <1>2, AtPredecessor
  <2>2. /\ index \in 1 .. Len(file[w[n]].items) /\ file[w[n]].items[index].key = op.key
        /\ IsAt(c, w) /\ n \in 1 .. Len(path)
    BY <2>1 DEF WayDown
  <2>3. w[n] \in DOMAIN c
    <3>1. Len(path) \in Nat
      BY Running DEF HasTree
    <3>2. n \in 1 .. Len(path) + 1
      BY <2>2, <3>1
    <3> QED
      BY <2>2, <3>2 DEF IsAt, IsRoute
  <2> QED
    BY <2>2, <2>3 DEF KeyHeld
<1> QED
  BY <1>1, <1>2

\* remove takes effect when it writes the nodes that lose the item.
LEMMA RemoveMoves ==
  ASSUME MapNow, MapNow', NEW c, NEW h, HasTree(c, h), [FaultyNext]_vars,
         RemoveFromLeaf \/ TakePredecessor
  PROVE  MapMoves
<1>1. /\ proc = "running" /\ pc \in {"remove", "predecessor"} /\ pc' = "rebalance"
      /\ UNCHANGED <<proc, stream, op>>
  BY DEF RemoveFromLeaf, TakePredecessor, At, Write
<1>2. stream = "good" /\ op.kind = "remove" /\ op.key \in Key
  BY <1>1, CallUnderWay, Running DEF MapNow, StepOK, HasTree, TreeInvariantWith, StreamOK
<1>3. /\ MapsTo(Contents, ItemsOf(file, c)) /\ MapSession = "good"
      /\ op.key \in DOMAIN Contents <=> IsPresent(op.key)
  BY <1>2, KeyOfContents
<1>4. op.key \in DOMAIN Contents
  <2>1. IsTreeOf(c, h) /\ root # 0
    BY AtTree DEF HasTree
  <2>2. IsPresent(op.key)
    BY <1>1, <2>1, KeyIsThere, PresentIsHeld
  <2> QED
    BY <1>3, <2>2
<1>5. MapsTo(Contents', Others(c, op.key))
  BY <1>1, <1>2, RemoveContinues, TakePredecessorContinues, NewContents
<1> DEFINE m == [j \in DOMAIN Contents \ {op.key} |-> Contents[j]]
<1>6. Contents' = m
  <2> DEFINE k == op.key
             before == Contents
             after == Contents'
             I == ItemsOf(file, c)
  <2>1. MapsTo(before, I) /\ MapsTo(after, Without(I, k))
    BY <1>3, <1>5 DEF Others, Without
  <2> HIDE DEF k, before, after, I
  <2>2. IsWithout(after, before, k)
    BY <2>1, MapAfterRemove
  <2> QED
    BY <2>2 DEF after, before, k, IsWithout
<1>7. MapReply = NoResult /\ MapReply' = Ok /\ op # KV!NoCall
  BY <1>1, CallUnderWay DEF MapReply, MapNow
<1>8. MapSession' = MapSession
  BY <1>1 DEF MapSession
<1> HIDE DEF m
<1>9. TakesEffect(Ok, m)
  BY <1>1, <1>3, <1>6, <1>7, <1>8 DEF TakesEffect
<1> QED
  BY <1>2, <1>4, <1>9, RemoveTakesEffect DEF m

\* The first put takes effect when it makes the root.
LEMMA CreateRootMoves ==
  ASSUME MapNow, MapNow', CreateRoot
  PROVE  MapMoves
<1>1. /\ proc = "running" /\ pc = "create" /\ stream = "good" /\ root' = next_page(freelist)
      /\ pc' = "return" /\ result' = Ok /\ UNCHANGED <<proc, stream, op>>
  BY DEF CreateRoot, At, Write, ReturnWith
<1>2. root = 0 /\ op.kind = "put"
  BY <1>1, Running DEF MapNow, StepOK
<1>3. freelist.released_pages = <<>>
  BY <1>1, <1>2 DEF MapNow, TreeInv, TreeInvariantWith, ReleasedOK
<1>4. PICK d : \E g \in Nat : TreeInvariantWith(d, g)' /\ ItemsOf(file', d) = {NewItem}
  <2>1. Continues(<<>>, {NewItem})
    BY <1>1, <1>2, <1>3, CreateRootPlants DEF MapNow
  <2> QED
    BY <1>1, <2>1 DEF Continues
<1>5. PICK g \in Nat : TreeInvariantWith(d, g)'
  BY <1>4
<1>6. root' # 0
  <2>1. freelist.max_page \in Nat
    BY <1>1, Running DEF MapNow
  <2> QED
    BY <1>1, <1>3, <2>1 DEF next_page
<1>7. HasTree(d, g)'
  BY <1>1, <1>5, <1>6 DEF HasTree, MapNow
<1>8. MapsTo(Contents', {NewItem})
  BY <1>1, <1>4, <1>7 DEF MapNow, MapKnown
<1>9. Contents = KV!EmptyMap
  BY <1>2 DEF MapNow, MapKnown
<1> DEFINE m == [k \in DOMAIN Contents \union {op.key} |-> IF k = op.key THEN op.value ELSE Contents[k]]
<1>10. Contents' = m
  <2> DEFINE x == NewItem
             before == Contents
             after == Contents'
  <2>1. /\ x.key = op.key /\ x.value = op.value /\ MapsTo(after, {x})
        /\ DOMAIN before = {} /\ before = [k \in {} |-> k]
    BY <1>8, <1>9 DEF NewItem, KV!EmptyMap
  <2> HIDE DEF x, before, after
  <2>2. x.key \notin DOMAIN before /\ MapsTo(before, {}) /\ MapsTo(after, {} \union {x})
    BY <2>1 DEF MapsTo
  <2>3. IsWith(after, before, x)
    BY <2>2, MapAfterPut
  <2> QED
    BY <2>1, <2>3 DEF after, before, IsWith
<1>11. MapReply = NoResult /\ MapReply' = Ok /\ op # KV!NoCall
  BY <1>1, CallUnderWay DEF MapReply, MapNow
<1>12. MapSession = "good" /\ MapSession' = MapSession
  BY <1>1 DEF MapSession
<1> HIDE DEF m
<1>13. TakesEffect(Ok, m)
  BY <1>1, <1>10, <1>11, <1>12 DEF TakesEffect
<1> QED
  BY <1>2, <1>13, PutTakesEffect DEF m

LEMMA StepMoves ==
  ASSUME MapNow, MapNow', FaultyNext, proc' # "astray"
  PROVE  MapMoves
<1>1. CASE Open \/ Initialize
  BY <1>1, StartMoves
<1>2. CASE Exit
  BY <1>2, EndMoves DEF Exit
<1>3. CASE Close
  BY <1>3, CloseMoves
<1>4. CASE \E o \in Operation : Call(o)
  BY <1>4, CallMoves
<1>5. CASE Return
  BY <1>5, ReturnMoves
<1>6. CASE GoDown \/ DescendToPredecessor \/ KeepRoot \/ KeepChild
  BY <1>6, QuietMoves
<1>7. CASE StopSearch
  BY <1>7, StopSearchMoves
<1>8. CASE ReadFails \/ CreateRootFails \/ DiskFault
  BY <1>8, ReadFailsMoves, CreateRootFailsMoves, FaultMoves
<1>9. CASE CreateRoot
  BY <1>9, CreateRootMoves
<1>10. CASE \/ InsertItem \/ RemoveFromLeaf \/ TakePredecessor
            \/ SplitChild \/ SplitRoot \/ RebalanceChild \/ ShrinkRoot
  <2>1. proc = "running" /\ pc \in {"insert", "remove", "predecessor", "split", "rebalance"}
    BY <1>10 DEF InsertItem, RemoveFromLeaf, TakePredecessor, SplitChild, SplitRoot, RebalanceChild,
                 ShrinkRoot, At
  <2>2. root # 0
    BY <2>1, Running DEF MapNow, StepOK
  <2>3. PICK c : \E h \in Nat : TreeInvariantWith(c, h)
    BY DEF MapNow, TreeInv
  <2>4. PICK h \in Nat : TreeInvariantWith(c, h)
    BY <2>3
  <2>5. HasTree(c, h)
    BY <2>1, <2>2, <2>4 DEF HasTree, MapNow
  <2> QED
    BY <1>10, <2>5, InsertMoves, RemoveMoves, LoopMoves
<1>11. CASE GoAstray
  BY <1>11 DEF GoAstray
<1>12. FaultyNext => \/ Open \/ Close \/ Exit \/ DiskFault \/ Step \/ \E o \in Operation : Call(o)
  BY DEF FaultyNext, SafeNext
<1>13. Step => \/ Initialize \/ GoAstray \/ CreateRoot \/ CreateRootFails
               \/ GoDown \/ StopSearch \/ ReadFails \/ InsertItem \/ SplitChild \/ SplitRoot
               \/ KeepRoot \/ RemoveFromLeaf \/ DescendToPredecessor \/ TakePredecessor
               \/ RebalanceChild \/ KeepChild \/ ShrinkRoot \/ Return
  BY DEF Step, Progress
<1> QED
  BY <1>1, <1>2, <1>3, <1>4, <1>5, <1>6, <1>7, <1>8, <1>9, <1>10, <1>11, <1>12, <1>13

LEMMA MapMovesOn ==
  ASSUME MapNow, MapNow', [FaultyNext]_vars, proc' # "astray"
  PROVE  [KV!FaultyNext]_(KV!vars)
<1>1. CASE FaultyNext
  <2>1. MapMoves
    BY <1>1, StepMoves
  <2> QED
    BY <2>1 DEF MapMoves, MapStutters, KV!FaultyNext, KV!vars
<1>2. CASE UNCHANGED vars
  <2>1. UNCHANGED <<file, root, proc, stream, op, pc, result>>
    BY <1>2 DEF vars, dal_vars, call_vars
  <2>2. Contents' = Contents /\ MapSession' = MapSession
    BY <2>1, ContentsStay
  <2>3. MapReply' = MapReply
    BY <2>1 DEF MapReply
  <2> QED
    BY <2>1, <2>2, <2>3 DEF KV!vars
<1> QED
  BY <1>1, <1>2

LEMMA MapStarts ==
  ASSUME Init, MapKnown
  PROVE  KV!Init
<1>1. proc = "down" /\ pc = "idle" /\ op = NoOperation
  BY DEF Init, DalInit, IdleCall
<1>2. Contents = KV!EmptyMap /\ MapSession = "down" /\ MapReply = NoResult
  BY <1>1 DEF MapKnown, MapSession, MapReply
<1> QED
  BY <1>1, <1>2 DEF KV!Init, KV!NoCall, KV!NoReply, NoOperation, NoResult

LEMMA RepliesAreKept == FaultySteps => []MapNow
<1>1. Init => ReplyOK
  BY DEF Init, DalInit, ReplyOK
<1>2. IInv /\ TreeInv /\ ReplyOK /\ [FaultyNext]_vars => ReplyOK'
  BY ReplyOKStep
<1>3. MapKnown
  BY MapIsKnown
<1> QED
  BY <1>1, <1>2, <1>3, TreeIsKept, PTL DEF FaultySteps, MapNow

\* On a disk that may fail the collection answers every safe call as the map does, or
\* with an error and from then on with errors only (collection.cpp), for as long as
\* its nodes go into their pages and its searches onto the stack.
THEOREM FaultyCollectionIsAMap == FaultySteps /\ []RoomEnough => ImplementsFaultyMap
<1>1. Init /\ MapKnown => KV!Init
  BY MapStarts
<1>2. MapNow /\ MapNow' /\ [FaultyNext]_vars /\ NeverAstray' => [KV!FaultyNext]_(KV!vars)
  BY MapMovesOn DEF NeverAstray
<1>3. MapKnown
  BY MapIsKnown
<1> QED
  BY <1>1, <1>2, <1>3, RepliesAreKept, RoomIsEnough,
     PTL DEF FaultySteps, ImplementsFaultyMap, KV!FaultySpec

\* Without faults, calls are under way on a stream that works only.
StreamWorks == proc = "running" /\ pc # "idle" => stream = "good"

LEMMA StreamGoesOn ==
  ASSUME MapNow, StreamWorks, [SafeNext]_vars
  PROVE  StreamWorks'
<1> SUFFICES ASSUME proc' = "running", pc' # "idle"
             PROVE  stream' = "good"
  BY DEF StreamWorks
<1>1. CASE Open \/ Initialize
  <2>1. proc \notin {"running", "astray"} /\ pc' = pc
    BY <1>1 DEF Open, CreateFile, LoadDatabase, Initialize, WriteFreelist, InitRootNode, WriteMeta
  <2>2. pc = "idle"
    BY <2>1 DEF MapNow, IInv, ProcessOK
  <2> QED
    BY <2>1, <2>2
<1>2. CASE Close \/ Exit \/ Return \/ GoAstray
  BY <1>2 DEF Close, At, Exit, Quit, Stop, Return, GoAstray
<1>3. CASE \E o \in Operation : Call(o) /\ SafeCall(o)
  BY <1>3 DEF Call, SafeCall, dal_vars
<1>4. CASE ReadFails
  <2>1. proc = "running" /\ pc \in {"find", "verify"} /\ ~Readable(page)
    BY <1>4 DEF ReadFails, At
  <2>2. stream = "good"
    BY <2>1 DEF StreamWorks
  <2> QED
    BY <2>1, <2>2, SearchReads
<1>5. CASE GoDown \/ StopSearch \/ KeepRoot \/ KeepChild \/ ShrinkRoot \/ DescendToPredecessor
  <2>1. proc = "running" /\ pc # "idle" /\ stream' = stream
    BY <1>5 DEF GoDown, StopSearch, Searching, KeepRoot, KeepChild, ShrinkRoot, DescendToPredecessor,
                At, dal_vars
  <2> QED
    BY <2>1 DEF StreamWorks
<1>6. CASE \/ CreateRoot \/ InsertItem \/ SplitChild \/ SplitRoot
           \/ RemoveFromLeaf \/ TakePredecessor \/ RebalanceChild
  BY <1>6 DEF CreateRoot, InsertItem, SplitChild, SplitRoot, RemoveFromLeaf, TakePredecessor,
              RebalanceChild, Write
<1>7. CASE CreateRootFails
  <2>1. proc = "running" /\ pc # "idle" /\ stream # "good"
    BY <1>7 DEF CreateRootFails, At
  <2> QED
    BY <2>1 DEF StreamWorks
<1>8. CASE UNCHANGED vars
  BY <1>8 DEF vars, dal_vars, StreamWorks
<1>9. SafeNext => Open \/ Close \/ Exit \/ Step \/ \E o \in Operation : Call(o) /\ SafeCall(o)
  BY DEF SafeNext
<1>10. Step => \/ Initialize \/ GoAstray \/ CreateRoot \/ CreateRootFails
               \/ GoDown \/ StopSearch \/ ReadFails \/ InsertItem \/ SplitChild \/ SplitRoot
               \/ KeepRoot \/ RemoveFromLeaf \/ DescendToPredecessor \/ TakePredecessor
               \/ RebalanceChild \/ KeepChild \/ ShrinkRoot \/ Return
  BY DEF Step, Progress
<1> QED
  BY <1>1, <1>2, <1>3, <1>4, <1>5, <1>6, <1>7, <1>8, <1>9, <1>10

\* So no call fails, and none is refused.
LEMMA SafeMovesOn ==
  ASSUME MapNow, MapNow', StreamWorks, StreamWorks', [SafeNext]_vars, proc' # "astray"
  PROVE  [KV!Next]_(KV!vars)
<1>1. [FaultyNext]_vars
  BY DEF FaultyNext
<1>2. CASE UNCHANGED vars
  <2>1. UNCHANGED <<file, root, proc, stream, op, pc, result>>
    BY <1>2 DEF vars, dal_vars, call_vars
  <2>2. Contents' = Contents /\ MapSession' = MapSession
    BY <2>1, ContentsStay
  <2>3. MapReply' = MapReply
    BY <2>1 DEF MapReply
  <2> QED
    BY <2>1, <2>2, <2>3 DEF KV!vars
<1>3. CASE FaultyNext
  <2>1. MapMoves
    BY <1>3, StepMoves
  <2>2. CASE KV!Next \/ MapStutters
    BY <2>2 DEF MapStutters, KV!vars
  <2>3. ~KV!Fail
    <3> SUFFICES ASSUME KV!Fail PROVE FALSE
      OBVIOUS
    <3>1. MapSession' = "failed" /\ MapReply' = Error
      BY DEF KV!Fail, KV!Failure, Error
    <3>2. proc' = "running" /\ stream' = "failed"
      BY <3>1 DEF MapSession
    <3>3. pc' # "idle"
      BY <3>1 DEF MapReply, Error, NoResult
    <3> QED
      BY <3>2, <3>3 DEF StreamWorks
  <2>4. ~(stream # "good" /\ KV!Refuse)
    <3> SUFFICES ASSUME stream # "good", KV!Refuse PROVE FALSE
      OBVIOUS
    <3>1. MapSession \in {"failed", "closed"} /\ op # KV!NoCall
      BY DEF KV!Refuse
    <3>2. proc = "running"
      BY <3>1 DEF MapSession
    <3>3. pc # "idle"
      BY <3>1, <3>2, Running DEF MapNow, StepOK, IdleCall, NoOperation, KV!NoCall
    <3> QED
      BY <3>2, <3>3 DEF StreamWorks
  <2>5. ~(stream # "good" /\ \E o \in KV!Operation : KV!InvokeInVain(o))
    <3> SUFFICES ASSUME NEW o \in KV!Operation, stream # "good", KV!InvokeInVain(o) PROVE FALSE
      OBVIOUS
    <3>1. MapSession \in {"failed", "closed"} /\ op' = o /\ MapSession' = MapSession
      BY DEF KV!InvokeInVain
    <3>2. proc' = "running" /\ stream' # "good"
      BY <3>1 DEF MapSession
    <3>3. pc' # "idle"
      <4>1. o.kind # "none"
        BY DEF KV!Operation
      <4>2. op' # NoOperation
        BY <3>1, <4>1 DEF NoOperation
      <4>3. StepOK'
        BY <3>2 DEF MapNow, IInv, SessionOK
      <4> QED
        BY <4>2, <4>3 DEF StepOK, IdleCall
    <3> QED
      BY <3>2, <3>3 DEF StreamWorks
  <2> QED
    BY <2>1, <2>2, <2>3, <2>4, <2>5 DEF MapMoves
<1> QED
  BY <1>1, <1>2, <1>3

\* On a healthy disk the collection answers every safe call as the map does, and the
\* items of its tree are the map (find, put and remove of collection.cpp), for as long
\* as its nodes go into their pages and its searches onto the stack.
THEOREM CollectionIsAMap == SafeSpec /\ []RoomEnough => ImplementsMap
<1>1. Init /\ MapKnown => KV!Init
  BY MapStarts
<1>2. Init => StreamWorks
  BY DEF Init, DalInit, StreamWorks
<1>3. MapNow /\ StreamWorks /\ [SafeNext]_vars => StreamWorks'
  BY StreamGoesOn
<1>4. /\ MapNow /\ MapNow' /\ StreamWorks /\ StreamWorks' /\ [SafeNext]_vars /\ NeverAstray'
      => [KV!Next]_(KV!vars)
  BY SafeMovesOn DEF NeverAstray
<1>5. MapKnown
  BY MapIsKnown
<1> QED
  BY <1>1, <1>2, <1>3, <1>4, <1>5, SafeIsFaulty, RepliesAreKept, RoomIsEnough,
     PTL DEF SafeSpec, ImplementsMap, KV!Spec
=============================================================================
