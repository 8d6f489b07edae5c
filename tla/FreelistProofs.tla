--------------------------- MODULE FreelistProofs ---------------------------
(***************************************************************************)
(* Proofs about the freelist and its client, for every PageLimit: the      *)
(* invariants FreelistClient.cfg checks, the action property, and that the *)
(* client implements PageAllocator.                                        *)
(***************************************************************************)
EXTENDS FreelistClient, SequenceTheorems, FiniteSetTheorems, TLAPS

\* What holds of a freelist whatever the client does with the pages: the
\* shape of the record and the range of the pages on the stack.
Shape == /\ freelist \in Freelists
         /\ freelist.max_page <= PageLimit
         /\ in_use \in SUBSET (1 .. PageLimit)

\* The inductive invariant.  NoPageLost bounds every released page by
\* max_page, so the page that extends the file is new; ReleasedNotInUse and
\* ReleasedOnce are each needed to preserve the other.
Accounts == Shape /\ ReleasedNotInUse /\ ReleasedOnce /\ NoPageLost

IInv == Accounts /\ OneNodePerPage

-----------------------------------------------------------------------------
\* Taking the last page off the stack: what is left, and that the page taken
\* is gone from it when no page was there twice (freelist.cpp:8-13).
LEMMA PopLemma ==
  ASSUME NEW s \in Seq(Nat), s # <<>>,
         NEW t, t = SubSeq(s, 1, Len(s) - 1)
  PROVE  /\ t \in Seq(Nat)
         /\ Len(s) \in Nat \ {0}
         /\ Len(t) = Len(s) - 1
         /\ \A i \in 1 .. Len(t) : t[i] = s[i]
         /\ s[Len(s)] \in Nat
<1>1. Len(s) \in Nat \ {0}
  BY EmptySeq, LenProperties
<1> DEFINE n == Len(s) - 1
<1>2. n \in Nat /\ 1 \in Int /\ n \in Int
  BY <1>1
<1>3. \A i \in 1 .. n : s[i] \in Nat
  BY <1>1, ElementOfSeq
<1>4. /\ t \in Seq(Nat)
      /\ Len(t) = n
      /\ \A i \in 1 .. Len(t) : t[i] = s[i]
  <2> HIDE DEF n
  <2>1. /\ SubSeq(s, 1, n) \in Seq(Nat)
        /\ Len(SubSeq(s, 1, n)) = IF 1 <= n THEN n - 1 + 1 ELSE 0
        /\ \A i \in 1 .. n - 1 + 1 : SubSeq(s, 1, n)[i] = s[1 + i - 1]
    BY <1>2, <1>3, SubSeqProperties
  <2>2. t = SubSeq(s, 1, n)
    BY DEF n
  <2> QED
    BY <1>2, <2>1, <2>2
<1>5. s[Len(s)] \in Nat
  BY <1>1, ElementOfSeq
<1> QED
  BY <1>1, <1>4, <1>5

\* The set of released pages loses exactly the page that is popped.
LEMMA ReleasedAfterPop ==
  ASSUME freelist \in Freelists, ReleasedOnce,
         freelist.released_pages # <<>>,
         freelist'.released_pages =
           SubSeq(freelist.released_pages, 1, Len(freelist.released_pages) - 1)
  PROVE  /\ next_page(freelist) \in Released
         /\ Released' = Released \ {next_page(freelist)}
         /\ ReleasedOnce'
<1> DEFINE s == freelist.released_pages
           t == freelist'.released_pages
<1>1. s \in Seq(Nat)
  BY DEF Freelists
<1>2. /\ t \in Seq(Nat)
      /\ Len(s) \in Nat \ {0}
      /\ Len(t) = Len(s) - 1
      /\ \A i \in 1 .. Len(t) : t[i] = s[i]
  BY <1>1, PopLemma
<1>3. next_page(freelist) = s[Len(s)]
  BY DEF next_page
<1>4. next_page(freelist) \in Released
  BY <1>2, <1>3 DEF Released
<1>5. \A i \in 1 .. Len(t) : s[i] # s[Len(s)]
  BY <1>2 DEF ReleasedOnce
<1>6. Released' = {t[i] : i \in 1 .. Len(t)}
  BY DEF Released
<1>7. {t[i] : i \in 1 .. Len(t)} = {s[i] : i \in 1 .. Len(s)} \ {s[Len(s)]}
  <2>1. \A i \in 1 .. Len(s) : i \in 1 .. Len(t) \/ i = Len(s)
    BY <1>2
  <2>2. 1 .. Len(t) \subseteq 1 .. Len(s)
    BY <1>2
  <2> QED
    BY <1>2, <1>5, <2>1, <2>2
<1>8. ReleasedOnce'
  <2>1. 1 .. Len(t) \subseteq 1 .. Len(s)
    BY <1>2
  <2> QED
    BY <1>2, <2>1 DEF ReleasedOnce
<1> QED
  BY <1>3, <1>4, <1>6, <1>7, <1>8 DEF Released

\* Pushing a page adds it to the set of released pages, and keeps the stack
\* free of duplicates when the page was not on it (freelist.cpp:18-21).
LEMMA ReleasedAfterPush ==
  ASSUME freelist \in Freelists, ReleasedOnce,
         NEW p \in Nat, p \notin Released,
         freelist'.released_pages = Append(freelist.released_pages, p)
  PROVE  /\ Released' = Released \union {p}
         /\ ReleasedOnce'
<1> DEFINE s == freelist.released_pages
           t == freelist'.released_pages
<1>1. s \in Seq(Nat) /\ Len(s) \in Nat
  BY LenProperties DEF Freelists
<1>2. /\ Len(t) = Len(s) + 1
      /\ \A i \in 1 .. Len(s) : t[i] = s[i]
      /\ t[Len(s) + 1] = p
  BY <1>1, AppendProperties
<1>3. \A i \in 1 .. Len(t) : i \in 1 .. Len(s) \/ i = Len(s) + 1
  BY <1>1, <1>2
<1>4. 1 .. Len(s) \subseteq 1 .. Len(t) /\ Len(s) + 1 \in 1 .. Len(t)
  BY <1>1, <1>2
<1>5. Released' = Released \union {p}
  <2>1. Released' = {t[i] : i \in 1 .. Len(t)}
    BY DEF Released
  <2>2. {t[i] : i \in 1 .. Len(t)} = {s[i] : i \in 1 .. Len(s)} \union {p}
    BY <1>2, <1>3, <1>4
  <2> QED
    BY <2>1, <2>2 DEF Released
<1>6. \A i \in 1 .. Len(s) : s[i] # p
  BY DEF Released
<1>7. ReleasedOnce'
  BY <1>1, <1>2, <1>3, <1>6 DEF ReleasedOnce
<1> QED
  BY <1>5, <1>7
-----------------------------------------------------------------------------
LEMMA InitAccounts == Init => Accounts
<1> SUFFICES ASSUME Init PROVE Accounts
  OBVIOUS
<1>1. freelist = [max_page |-> 0, released_pages |-> <<>>] /\ in_use = {}
  BY DEF Init, EmptyFreelist
<1>2. freelist.released_pages = <<>> /\ Len(freelist.released_pages) = 0
  BY <1>1
<1>3. Released = {}
  BY <1>2 DEF Released
<1>4. Shape
  BY <1>1, PageLimitAssumption, EmptySeq DEF Shape, Freelists
<1>5. ReleasedNotInUse /\ ReleasedOnce /\ NoPageLost
  BY <1>1, <1>2, <1>3 DEF ReleasedNotInUse, ReleasedOnce, NoPageLost
<1> QED
  BY <1>4, <1>5 DEF Accounts

\* What new_node does to the freelist: it reuses the page released last, or
\* extends the file by the page after max_page.
LEMMA NewNode ==
  ASSUME Accounts, new_node
  PROVE  /\ next_page(freelist) \in 1 .. PageLimit
         /\ next_page(freelist) \notin in_use
         /\ Accounts'
<1> DEFINE p == next_page(freelist)
<1> USE PageLimitAssumption
<1>1. /\ freelist \in Freelists /\ freelist.max_page \in Nat
      /\ in_use' = in_use \union {p} /\ p <= PageLimit
      /\ freelist' = get_next_page(freelist)
  BY DEF Accounts, Shape, Freelists, new_node
<1>2. CASE freelist.released_pages = <<>>
  <2>1. /\ p = freelist.max_page + 1
        /\ freelist' = [freelist EXCEPT !.max_page = freelist.max_page + 1]
    BY <1>1, <1>2 DEF next_page, get_next_page
  <2>2. /\ freelist'.max_page = freelist.max_page + 1
        /\ freelist'.released_pages = freelist.released_pages
        /\ freelist' \in Freelists
    BY <1>1, <2>1 DEF Freelists
  <2>3. Released' = Released /\ ReleasedOnce'
    BY <2>2 DEF Released, Accounts, ReleasedOnce
  <2>4. p \notin in_use /\ p \notin Released
    BY <1>1, <2>1 DEF Accounts, NoPageLost
  <2>5. Shape'
    BY <1>1, <2>1, <2>2 DEF Accounts, Shape
  <2>6. ReleasedNotInUse'
    BY <1>1, <2>3, <2>4 DEF Accounts, ReleasedNotInUse
  <2>7. NoPageLost'
    <3>1. in_use' \union Released' = (1 .. freelist.max_page) \union {p}
      BY <1>1, <2>3 DEF Accounts, NoPageLost
    <3> QED
      BY <1>1, <2>1, <2>2, <3>1 DEF NoPageLost
  <2> QED
    BY <1>1, <2>1, <2>3, <2>4, <2>5, <2>6, <2>7 DEF Accounts
<1>3. CASE freelist.released_pages # <<>>
  <2>1. freelist' = [freelist EXCEPT !.released_pages =
          SubSeq(freelist.released_pages, 1, Len(freelist.released_pages) - 1)]
    BY <1>1, <1>3 DEF get_next_page
  <2>2. /\ freelist'.max_page = freelist.max_page
        /\ freelist'.released_pages =
             SubSeq(freelist.released_pages, 1, Len(freelist.released_pages) - 1)
    BY <1>1, <2>1 DEF Freelists
  <2>3. freelist.released_pages \in Seq(Nat)
    BY <1>1 DEF Freelists
  <2>4. freelist' \in Freelists
    <3>1. freelist'.released_pages \in Seq(Nat)
      BY <1>3, <2>2, <2>3, PopLemma
    <3> QED
      BY <1>1, <2>1, <2>2, <3>1 DEF Freelists
  <2>5. p \in Released /\ Released' = Released \ {p} /\ ReleasedOnce'
    BY <1>1, <1>3, <2>2, ReleasedAfterPop DEF Accounts
  <2>6. p \notin in_use /\ p \in 1 .. freelist.max_page
    BY <2>5 DEF Accounts, ReleasedNotInUse, NoPageLost
  <2>7. p \in 1 .. PageLimit
    BY <1>1, <2>6
  <2>8. Shape'
    BY <1>1, <2>2, <2>4, <2>7 DEF Accounts, Shape
  <2>9. ReleasedNotInUse' /\ NoPageLost'
    BY <1>1, <2>2, <2>5, <2>6 DEF Accounts, ReleasedNotInUse, NoPageLost
  <2> QED
    BY <2>5, <2>6, <2>7, <2>8, <2>9 DEF Accounts
<1> QED
  BY <1>2, <1>3

LEMMA DeleteNode ==
  ASSUME Accounts, NEW p \in in_use, delete_node(p)
  PROVE  Accounts'
<1> USE PageLimitAssumption
<1>1. /\ freelist \in Freelists
      /\ in_use' = in_use \ {p}
      /\ freelist' = [freelist EXCEPT !.released_pages =
                        Append(freelist.released_pages, p)]
      /\ p \in 1 .. PageLimit /\ p \in Nat
  BY DEF Accounts, Shape, delete_node, release_page
<1>2. /\ freelist'.max_page = freelist.max_page
      /\ freelist'.released_pages = Append(freelist.released_pages, p)
  BY <1>1 DEF Freelists
<1>3. freelist' \in Freelists
  <2>1. Append(freelist.released_pages, p) \in Seq(Nat)
    BY <1>1, AppendProperties DEF Freelists
  <2> QED
    BY <1>1, <1>2, <2>1 DEF Freelists
<1>4. p \notin Released
  BY DEF Accounts, ReleasedNotInUse
<1>5. Released' = Released \union {p} /\ ReleasedOnce'
  BY <1>1, <1>2, <1>4, ReleasedAfterPush DEF Accounts
<1>6. Shape'
  BY <1>1, <1>2, <1>3 DEF Accounts, Shape
<1>7. ReleasedNotInUse' /\ NoPageLost'
  BY <1>1, <1>2, <1>5 DEF Accounts, ReleasedNotInUse, NoPageLost
<1> QED
  BY <1>5, <1>6, <1>7 DEF Accounts

\* Sets of page numbers are finite, so that their cardinality counts.
LEMMA PagesFinite ==
  ASSUME Shape
  PROVE  IsFiniteSet(in_use) /\ Cardinality(in_use) \in Nat
<1>1. PageLimit \in Int /\ 1 \in Int
  BY PageLimitAssumption
<1>2. IsFiniteSet(1 .. PageLimit)
  BY <1>1, FS_Interval
<1>3. IsFiniteSet(in_use)
  BY <1>2, FS_Subset DEF Shape
<1> QED
  BY <1>3, FS_CardinalityType

LEMMA InitIInv == Init => IInv
<1> SUFFICES ASSUME Init PROVE IInv
  OBVIOUS
<1>1. OneNodePerPage
  BY FS_EmptySet DEF Init, OneNodePerPage
<1> QED
  BY <1>1, InitAccounts DEF IInv

LEMMA NextIInv == IInv /\ [Next]_vars => IInv'
<1> SUFFICES ASSUME IInv, [Next]_vars PROVE IInv'
  OBVIOUS
<1>1. Shape /\ IsFiniteSet(in_use)
  BY PagesFinite DEF IInv, Accounts
<1>2. CASE new_node
  <2>1. Accounts' /\ next_page(freelist) \notin in_use
    BY <1>2, NewNode DEF IInv
  <2>2. Cardinality(in_use \union {next_page(freelist)}) = Cardinality(in_use) + 1
    BY <1>1, <2>1, FS_AddElement
  <2>3. OneNodePerPage'
    BY <1>2, <2>2 DEF new_node, IInv, OneNodePerPage
  <2> QED
    BY <2>1, <2>3 DEF IInv
<1>3. CASE \E p \in in_use : delete_node(p)
  <2>1. PICK p \in in_use : delete_node(p)
    BY <1>3
  <2>2. Cardinality(in_use \ {p}) = Cardinality(in_use) - 1
    BY <1>1, FS_RemoveElement
  <2>3. OneNodePerPage'
    BY <2>1, <2>2 DEF delete_node, IInv, OneNodePerPage
  <2> QED
    BY <2>1, <2>3, DeleteNode DEF IInv
<1>4. CASE UNCHANGED vars
  BY <1>4 DEF vars, IInv, Accounts, Shape, ReleasedNotInUse, ReleasedOnce,
              NoPageLost, OneNodePerPage, Released
<1> QED
  BY <1>2, <1>3, <1>4 DEF Next

LEMMA Invariance == Spec => []IInv
  BY InitIInv, NextIInv, PTL DEF Spec

\* Type correctness of the freelist and of the set of pages in use.
THEOREM TypeCorrect == Spec => []TypeOK
<1>1. IInv => TypeOK
  BY PagesFinite DEF IInv, Accounts, Shape, OneNodePerPage, TypeOK
<1> QED
  BY <1>1, Invariance, PTL

\* No page is both released and in use, none is released twice, and every
\* page up to max_page is one or the other: the freelist never hands out a
\* page that a node still has, and never loses one.
THEOREM PagesAccountedFor ==
  Spec => [](ReleasedNotInUse /\ ReleasedOnce /\ NoPageLost)
<1>1. IInv => ReleasedNotInUse /\ ReleasedOnce /\ NoPageLost
  BY DEF IInv, Accounts
<1> QED
  BY <1>1, Invariance, PTL

\* Every node has a page of its own.
THEOREM PagesAreNotShared == Spec => []OneNodePerPage
<1>1. IInv => OneNodePerPage
  BY DEF IInv
<1> QED
  BY <1>1, Invariance, PTL

\* The file grows only when every page it has is in use (freelist.h:28-31).
THEOREM GrowthTheorem == Spec => GrowsOnlyWhenFull
<1>1. ASSUME IInv, [Next]_vars, freelist'.max_page # freelist.max_page
      PROVE  in_use = 1 .. freelist.max_page
  <2>1. CASE new_node
    <3>1. freelist.released_pages = <<>>
      BY <1>1, <2>1 DEF new_node, get_next_page, IInv, Accounts, Shape, Freelists
    <3>2. Released = {}
      BY <3>1 DEF Released
    <3> QED
      BY <1>1, <3>2 DEF IInv, Accounts, NoPageLost
  <2>2. CASE \E p \in in_use : delete_node(p)
    BY <1>1, <2>2 DEF delete_node, release_page, IInv, Accounts, Shape, Freelists
  <2>3. CASE UNCHANGED vars
    BY <1>1, <2>3 DEF vars
  <2> QED
    BY <1>1, <2>1, <2>2, <2>3 DEF Next
<1>2. IInv /\ [Next]_vars =>
        [freelist'.max_page # freelist.max_page => in_use = 1 .. freelist.max_page]_vars
  BY <1>1
<1> QED
  BY <1>2, Invariance, PTL DEF Spec, GrowsOnlyWhenFull

\* The freelist and its client implement PageAllocator: every page handed out
\* is one the client does not hold.
THEOREM Refinement == Spec => AllocatorSpec
<1>1. Init => PA!Init
  BY DEF Init, PA!Init
<1>2. IInv /\ [Next]_vars => [PA!Next]_(PA!vars)
  <2> SUFFICES ASSUME IInv, [Next]_vars PROVE [PA!Next]_(PA!vars)
    OBVIOUS
  <2>1. CASE new_node
    <3>1. PA!Allocate(next_page(freelist)) /\ next_page(freelist) \in 1 .. PageLimit
      BY <2>1, NewNode DEF new_node, PA!Allocate, IInv
    <3> QED
      BY <3>1 DEF PA!Next
  <2>2. CASE \E p \in in_use : delete_node(p)
    <3>1. PICK p \in in_use : delete_node(p)
      BY <2>2
    <3>2. PA!Release(p) /\ p \in 1 .. PageLimit
      BY <3>1 DEF delete_node, PA!Release, IInv, Accounts, Shape
    <3> QED
      BY <3>2 DEF PA!Next
  <2>3. CASE UNCHANGED vars
    BY <2>3 DEF vars, PA!vars
  <2> QED
    BY <2>1, <2>2, <2>3 DEF Next
<1> QED
  BY <1>1, <1>2, Invariance, PTL DEF Spec, AllocatorSpec, PA!Spec
=============================================================================
