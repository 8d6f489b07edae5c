----------------------------- MODULE TreeProofs -----------------------------
(***************************************************************************)
(* Lemmas about trees of pages: what the ways in which the code changes    *)
(* the nodes of a file do to the tree, its order and its items.            *)
(***************************************************************************)
EXTENDS TreeInvariant, PageProofs, FiniteSetTheorems

-----------------------------------------------------------------------------
\* The nodes of a tree.

LEMMA NodeOfTree ==
  ASSUME NEW f, NEW r, NEW c, NEW h \in Nat, IsTreeWith(f, r, c, h), NEW p \in DOMAIN c
  PROVE  /\ f[p].items \in Seq(Item) /\ f[p].children \in Seq(DOMAIN c)
         /\ Len(f[p].items) \in Nat /\ Len(f[p].children) \in Nat
         /\ Len(f[p].children) # 0 => Len(f[p].children) = Len(f[p].items) + 1
         /\ c[p].depth \in 0 .. h
         /\ Len(f[p].children) = 0 <=> c[p].depth = h
         /\ is_leaf(f[p]) <=> Len(f[p].children) = 0
<1>1. f[p] \in StoredNodes(DOMAIN c) /\ c[p].depth \in 0 .. h
  BY DEF IsTreeWith
<1>2. f[p].items \in Seq(Item) /\ f[p].children \in Seq(DOMAIN c) /\ IsShaped(f[p])
  BY <1>1 DEF StoredNodes
<1>3. Len(f[p].items) \in Nat /\ Len(f[p].children) \in Nat
  BY <1>2, LenProperties
<1>4. is_leaf(f[p]) <=> Len(f[p].children) = 0
  BY <1>2, EmptySeq DEF is_leaf
<1>5. Len(f[p].children) = 0 <=> c[p].depth = h
  BY <1>4 DEF IsTreeWith
<1> QED
  BY <1>1, <1>2, <1>3, <1>4, <1>5 DEF IsShaped

LEMMA ChildOfTree ==
  ASSUME NEW f, NEW r, NEW c, NEW h \in Nat, IsTreeWith(f, r, c, h), NEW p \in DOMAIN c,
         NEW i \in 1 .. Len(f[p].children), NEW q, f[p].children[i] = q
  PROVE  /\ q \in DOMAIN c \ {r} /\ c[q].up = p /\ c[q].at = i
         /\ c[q].depth = c[p].depth + 1
<1>1. f[p].children \in Seq(DOMAIN c) /\ c[p].depth \in 0 .. h
  BY DEF IsTreeWith, StoredNodes
<1>2. q \in DOMAIN c
  BY <1>1, ElementOfSeq
<1>3. c[q].up = p /\ c[q].at = i /\ c[q].depth = c[p].depth + 1
  BY DEF IsTreeWith
<1>4. c[r].depth = 0
  BY DEF IsTreeWith
<1>5. c[q].depth # 0
  BY <1>1, <1>3
<1> QED
  BY <1>2, <1>3, <1>4, <1>5

\* Page q is child i of page p.
IsChild(c, r, p, i, q) ==
  /\ q \in DOMAIN c \ {r} /\ c[q].up = p /\ c[q].at = i
  /\ c[q].depth = c[p].depth + 1

LEMMA ChildAt ==
  ASSUME NEW f, NEW r, NEW c, NEW h \in Nat, IsTreeWith(f, r, c, h), NEW p \in DOMAIN c,
         NEW i \in 1 .. Len(f[p].children), NEW q, f[p].children[i] = q
  PROVE  IsChild(c, r, p, i, q)
  BY ChildOfTree DEF IsChild

\* What makes one page of a tree, apart from the others.
IsPageWith(f, c, h, p) ==
  /\ f[p] \in StoredNodes(DOMAIN c)
  /\ c[p].depth \in 0 .. h
  /\ is_leaf(f[p]) <=> c[p].depth = h
  /\ \A i \in 1 .. Len(f[p].children) :
       /\ c[f[p].children[i]].up = p /\ c[f[p].children[i]].at = i
       /\ c[f[p].children[i]].depth = c[p].depth + 1

HasParent(f, c, q) ==
  /\ c[q].up \in DOMAIN c
  /\ c[q].at \in 1 .. Len(f[c[q].up].children)
  /\ f[c[q].up].children[c[q].at] = q

LEMMA TreeOfPages ==
  ASSUME NEW f, NEW r, NEW c, NEW h,
         r \in DOMAIN c, c[r].depth = 0,
         \A p \in DOMAIN c : IsPageWith(f, c, h, p),
         \A q \in DOMAIN c \ {r} : HasParent(f, c, q)
  PROVE  IsTreeWith(f, r, c, h)
  BY DEF IsTreeWith, IsPageWith, HasParent
-----------------------------------------------------------------------------
\* Two nodes and the item between them, apart and as one.

\* Node n is a, item x and b in a row.
Joins(n, a, x, b) ==
  /\ Len(n.items) = Len(a.items) + 1 + Len(b.items)
  /\ \A i \in 1 .. Len(a.items) : n.items[i] = a.items[i]
  /\ n.items[Len(a.items) + 1] = x
  /\ \A i \in 1 .. Len(b.items) : n.items[Len(a.items) + 1 + i] = b.items[i]
  /\ Len(n.children) = Len(a.children) + Len(b.children)
  /\ Len(a.children) # 0 <=> Len(b.children) # 0
  /\ \A i \in 1 .. Len(a.children) : n.children[i] = a.children[i]
  /\ \A i \in 1 .. Len(b.children) : n.children[Len(a.children) + i] = b.children[i]

\* Node m is n with item x at s and child b after it.
Names(m, n, s, x, b) ==
  /\ Len(m.items) = Len(n.items) + 1
  /\ \A i \in 1 .. s - 1 : m.items[i] = n.items[i]
  /\ m.items[s] = x
  /\ \A i \in s + 1 .. Len(m.items) : m.items[i] = n.items[i - 1]
  /\ Len(m.children) = Len(n.children) + 1
  /\ \A i \in 1 .. s : m.children[i] = n.children[i]
  /\ m.children[s + 1] = b
  /\ \A i \in s + 2 .. Len(m.children) : m.children[i] = n.children[i - 1]

\* In g the node j has at page a, child s of page p, is two: at a and at b.
Divides(j, g, p, a, b, s, x) ==
  /\ Joins(j[a], g[a], x, g[b])
  /\ Names(g[p], j[p], s, x, b)

\* The certificate after page a is divided: b takes the children after the
\* first n, and the keys after k.
Divided(c, r, p, a, b, s, n, k) ==
  LET moves(q) == q # r /\ c[q].up = a /\ c[q].at > n
      after(q) == q # r /\ c[q].up = p /\ c[q].at > s
  IN  [q \in DOMAIN c \union {b} |->
         [depth |-> IF q = b THEN c[a].depth ELSE c[q].depth,
          up |-> IF q = b THEN p ELSE IF moves(q) THEN b ELSE c[q].up,
          at |-> IF q = b THEN s + 1
                 ELSE IF moves(q) THEN c[q].at - n
                 ELSE IF after(q) THEN c[q].at + 1 ELSE c[q].at,
          keys |-> IF q = b THEN {l \in c[a].keys : k < l}
                   ELSE IF q = a THEN {l \in c[a].keys : l < k} ELSE c[q].keys]]

LEMMA DividedTree ==
  ASSUME NEW j, NEW r, NEW c, NEW h \in Nat, IsTreeWith(j, r, c, h),
         NEW p \in DOMAIN c, NEW s \in 1 .. Len(j[p].children),
         NEW a, j[p].children[s] = a, NEW b, b \notin DOMAIN c,
         NEW g, \A q \in DOMAIN c \ {p, a} : g[q] = j[q],
         \A q \in {p, a, b} : g[q] \in StoredNodes(DOMAIN c \union {b}),
         NEW x, Divides(j, g, p, a, b, s, x), NEW k
  PROVE  IsTreeWith(g, r, Divided(c, r, p, a, b, s, Len(g[a].children), k), h)
<1> DEFINE n == Len(g[a].children)
           d == Divided(c, r, p, a, b, s, n, k)
           T == DOMAIN c
           moves(q) == q # r /\ c[q].up = a /\ c[q].at > n
           after(q) == q # r /\ c[q].up = p /\ c[q].at > s
<1>1. /\ DOMAIN d = T \union {b}
      /\ d[b].depth = c[a].depth /\ d[b].up = p /\ d[b].at = s + 1
      /\ \A q \in T :
           /\ d[q].depth = c[q].depth
           /\ d[q].up = IF moves(q) THEN b ELSE c[q].up
           /\ d[q].at = IF moves(q) THEN c[q].at - n
                        ELSE IF after(q) THEN c[q].at + 1 ELSE c[q].at
  BY DEF Divided
<1> HIDE DEF d
<1>2. /\ a \in T \ {r} /\ c[a].up = p /\ c[a].at = s /\ c[a].depth = c[p].depth + 1
      /\ a # b /\ p # b
  BY ChildOfTree
<1>3. a # p
  <2>1. c[p].depth \in Int
    BY NodeOfTree
  <2> QED
    BY <1>2, <2>1
<1>4. /\ n \in Nat /\ Len(g[b].children) \in Nat /\ Len(g[p].children) \in Nat
      /\ Len(j[a].children) = n + Len(g[b].children)
      /\ n # 0 <=> Len(g[b].children) # 0
      /\ \A i \in 1 .. n : j[a].children[i] = g[a].children[i]
      /\ \A i \in 1 .. Len(g[b].children) : j[a].children[n + i] = g[b].children[i]
      /\ Len(j[p].children) \in Nat
      /\ Len(g[p].children) = Len(j[p].children) + 1
      /\ \A i \in 1 .. s : g[p].children[i] = j[p].children[i]
      /\ g[p].children[s + 1] = b
      /\ \A i \in s + 2 .. Len(g[p].children) : g[p].children[i] = j[p].children[i - 1]
  <2>1. \A q \in {p, a, b} : g[q].children \in Seq(T \union {b})
    BY DEF StoredNodes
  <2>2. \A q \in {p, a, b} : Len(g[q].children) \in Nat
    BY <2>1, LenProperties
  <2> QED
    BY <2>2, NodeOfTree DEF Divides, Joins, Names
<1>5. \A q \in {p, a, b} : is_leaf(g[q]) <=> Len(g[q].children) = 0
  <2>1. \A q \in {p, a, b} : g[q].children \in Seq(T \union {b})
    BY DEF StoredNodes
  <2> QED
    BY <2>1, EmptySeq DEF is_leaf
<1>6. s \in Nat \ {0} /\ s <= Len(j[p].children)
  BY <1>4
<1> HIDE DEF n
<1>61. a \in T /\ a # b /\ c[a].depth = c[p].depth + 1
  BY <1>2
<1>62. n \in Nat /\ Len(g[b].children) \in Nat /\ Len(j[a].children) = n + Len(g[b].children)
  BY <1>4
<1>63. \A i \in 1 .. n : j[a].children[i] = g[a].children[i]
  BY <1>4
<1>64. \A i \in 1 .. Len(g[b].children) : j[a].children[n + i] = g[b].children[i]
  BY <1>4
<1>65. Len(j[p].children) \in Nat /\ Len(g[p].children) = Len(j[p].children) + 1
  BY <1>4
<1>66. \A i \in 1 .. s : g[p].children[i] = j[p].children[i]
  BY <1>4
<1>67. \A i \in s + 2 .. Len(g[p].children) : g[p].children[i] = j[p].children[i - 1]
  BY <1>4
<1>68. p \in DOMAIN d /\ a \in DOMAIN d /\ b \in DOMAIN d
  BY <1>1, <1>61
<1>7. r \in DOMAIN d /\ d[r].depth = 0
  BY <1>1 DEF IsTreeWith
<1>8. ASSUME NEW q \in T, q # a, q # p
      PROVE  IsPageWith(g, d, h, q)
  <2>1. g[q] = j[q]
    BY <1>8
  <2>2. g[q] \in StoredNodes(T \union {b})
    <3>1. j[q] \in StoredNodes(T)
      BY DEF IsTreeWith
    <3>2. j[q].children \in Seq(T \union {b})
      BY <3>1, SeqMonotonic DEF StoredNodes
    <3> QED
      BY <2>1, <3>1, <3>2 DEF StoredNodes
  <2>3. /\ c[q].depth \in 0 .. h /\ (is_leaf(g[q]) <=> c[q].depth = h)
    BY <2>1 DEF IsTreeWith
  <2>4. ASSUME NEW i \in 1 .. Len(g[q].children)
        PROVE  /\ d[g[q].children[i]].up = q /\ d[g[q].children[i]].at = i
               /\ d[g[q].children[i]].depth = d[q].depth + 1
    <3>1. /\ g[q].children[i] \in T \ {r} /\ c[g[q].children[i]].up = q
          /\ c[g[q].children[i]].at = i /\ c[g[q].children[i]].depth = c[q].depth + 1
      BY <2>1, ChildOfTree
    <3> QED
      BY <1>1, <1>8, <3>1
  <2>5. DOMAIN d = T \union {b} /\ d[q].depth = c[q].depth
    BY <1>1
  <2>6. g[q] \in StoredNodes(DOMAIN d)
    BY <2>2, <2>5
  <2>7. d[q].depth \in 0 .. h /\ (is_leaf(g[q]) <=> d[q].depth = h)
    BY <2>3, <2>5
  <2> QED
    BY <2>4, <2>6, <2>7 DEF IsPageWith
<1>9. IsPageWith(g, d, h, a)
  <2>1. c[a].depth \in 0 .. h /\ (Len(j[a].children) = 0 <=> c[a].depth = h)
    BY <1>61, NodeOfTree
  <2>2. is_leaf(g[a]) <=> d[a].depth = h
    <3>1. Len(j[a].children) = 0 <=> n = 0
      BY <1>4
    <3>2. is_leaf(g[a]) <=> n = 0
      BY <1>5 DEF n
    <3>3. d[a].depth = c[a].depth
      BY <1>1, <1>61
    <3> QED
      BY <2>1, <3>1, <3>2, <3>3
  <2>3. ASSUME NEW i \in 1 .. n
        PROVE  /\ d[g[a].children[i]].up = a /\ d[g[a].children[i]].at = i
               /\ d[g[a].children[i]].depth = d[a].depth + 1
    <3>1. i \in 1 .. Len(j[a].children) /\ ~(i > n)
      BY <1>62
    <3>2. j[a].children[i] = g[a].children[i] /\ a \in T
      BY <1>61, <1>63
    <3>3. /\ g[a].children[i] \in T \ {r} /\ c[g[a].children[i]].up = a
          /\ c[g[a].children[i]].at = i /\ c[g[a].children[i]].depth = c[a].depth + 1
      BY <3>1, <3>2, ChildOfTree
    <3> QED
      BY <1>1, <1>2, <1>3, <3>1, <3>3
  <2> QED
    BY <1>1, <1>2, <2>1, <2>2, <2>3 DEF IsPageWith, n
<1>10. IsPageWith(g, d, h, b)
  <2>1. c[a].depth \in 0 .. h /\ (Len(j[a].children) = 0 <=> c[a].depth = h)
    BY <1>61, NodeOfTree
  <2>2. is_leaf(g[b]) <=> d[b].depth = h
    <3>1. Len(j[a].children) = 0 <=> Len(g[b].children) = 0
      BY <1>4
    <3>2. is_leaf(g[b]) <=> Len(g[b].children) = 0
      BY <1>5
    <3>3. d[b].depth = c[a].depth
      BY <1>1
    <3> QED
      BY <2>1, <3>1, <3>2, <3>3
  <2>3. ASSUME NEW i \in 1 .. Len(g[b].children)
        PROVE  /\ d[g[b].children[i]].up = b /\ d[g[b].children[i]].at = i
               /\ d[g[b].children[i]].depth = d[b].depth + 1
    <3> DEFINE m == n + i
    <3>1. m \in 1 .. Len(j[a].children) /\ m > n /\ m - n = i
      BY <1>62
    <3>2. j[a].children[m] = g[b].children[i] /\ a \in T
      BY <1>61, <1>64
    <3> HIDE DEF m
    <3>4. m \in 1 .. Len(j[a].children)
      BY <3>1
    <3>3. /\ g[b].children[i] \in T \ {r} /\ c[g[b].children[i]].up = a
          /\ c[g[b].children[i]].at = m /\ c[g[b].children[i]].depth = c[a].depth + 1
      BY <3>2, <3>4, ChildOfTree
    <3> QED
      BY <1>1, <1>2, <3>1, <3>3
  <2> QED
    BY <1>1, <2>1, <2>2, <2>3 DEF IsPageWith
<1>11. IsPageWith(g, d, h, p)
  <2>1. c[p].depth \in 0 .. h /\ (Len(j[p].children) = 0 <=> c[p].depth = h)
    BY NodeOfTree
  <2>2. is_leaf(g[p]) <=> d[p].depth = h
    <3>1. Len(j[p].children) # 0 /\ Len(g[p].children) # 0
      BY <1>6, <1>65
    <3>2. is_leaf(g[p]) <=> Len(g[p].children) = 0
      BY <1>5
    <3>3. d[p].depth = c[p].depth
      BY <1>1
    <3> QED
      BY <2>1, <3>1, <3>2, <3>3
  <2>3. ASSUME NEW i \in 1 .. Len(g[p].children)
        PROVE  /\ d[g[p].children[i]].up = p /\ d[g[p].children[i]].at = i
               /\ d[g[p].children[i]].depth = d[p].depth + 1
    <3>1. CASE i <= s
      <4>1. i \in 1 .. Len(j[p].children) /\ i \in 1 .. s /\ ~(i > s)
        BY <1>6, <1>65, <3>1
      <4>2. j[p].children[i] = g[p].children[i]
        BY <1>66, <4>1
      <4>3. /\ g[p].children[i] \in T \ {r} /\ c[g[p].children[i]].up = p
            /\ c[g[p].children[i]].at = i /\ c[g[p].children[i]].depth = c[p].depth + 1
        BY <4>1, <4>2, ChildOfTree
      <4> QED
        BY <1>1, <1>3, <4>1, <4>3
    <3>2. CASE i = s + 1
      BY <1>1, <1>2, <1>4, <3>2
    <3>3. CASE i > s + 1
      <4> DEFINE m == i - 1
      <4>1. /\ m \in 1 .. Len(j[p].children) /\ i \in s + 2 .. Len(g[p].children)
            /\ m > s /\ m + 1 = i
        BY <1>6, <1>65, <3>3
      <4>2. j[p].children[m] = g[p].children[i]
        BY <1>67, <4>1
      <4> HIDE DEF m
      <4>4. m \in 1 .. Len(j[p].children)
        BY <4>1
      <4>3. /\ g[p].children[i] \in T \ {r} /\ c[g[p].children[i]].up = p
            /\ c[g[p].children[i]].at = m /\ c[g[p].children[i]].depth = c[p].depth + 1
        BY <4>2, <4>4, ChildOfTree
      <4> QED
        BY <1>1, <1>3, <4>1, <4>3
    <3> QED
      BY <1>4, <1>6, <3>1, <3>2, <3>3
  <2> QED
    BY <1>1, <2>1, <2>2, <2>3 DEF IsPageWith
<1>12. \A q \in DOMAIN d : IsPageWith(g, d, h, q)
  BY <1>1, <1>8, <1>9, <1>10, <1>11
<1>13. ASSUME NEW q \in DOMAIN d \ {r} PROVE HasParent(g, d, q)
  <2>1. CASE q = b
    <3>1. s + 1 \in 1 .. Len(g[p].children)
      BY <1>6, <1>65
    <3>2. g[p].children[s + 1] = b
      BY <1>4
    <3> QED
      BY <1>1, <1>68, <2>1, <3>1, <3>2 DEF HasParent
  <2>2. CASE q # b
    <3>1. /\ q \in T \ {r} /\ c[q].up \in T
          /\ c[q].at \in 1 .. Len(j[c[q].up].children)
          /\ j[c[q].up].children[c[q].at] = q
      BY <1>1, <1>13, <2>2 DEF IsTreeWith
    <3>2. CASE moves(q)
      <4> DEFINE i == c[q].at
                 m == i - n
      <4>0. i \in 1 .. Len(j[a].children) /\ j[a].children[i] = q /\ i > n
        BY <3>1, <3>2
      <4>2. d[q].up = b /\ d[q].at = m
        BY <1>1, <3>1, <3>2
      <4> HIDE DEF i
      <4>1. m \in 1 .. Len(g[b].children) /\ n + m = i
        BY <1>62, <4>0
      <4> HIDE DEF m
      <4>3. j[a].children[n + m] = g[b].children[m]
        BY <1>64, <4>1
      <4>4. g[b].children[m] = q
        BY <4>0, <4>1, <4>3
      <4> QED
        BY <1>68, <4>1, <4>2, <4>4 DEF HasParent
    <3>3. CASE after(q)
      <4> DEFINE i == c[q].at
      <4>0. i \in 1 .. Len(j[p].children) /\ j[p].children[i] = q /\ i > s
        BY <3>1, <3>3
      <4>2. d[q].up = p /\ d[q].at = i + 1
        BY <1>1, <1>3, <3>1, <3>3
      <4> HIDE DEF i
      <4>1. i + 1 \in s + 2 .. Len(g[p].children) /\ (i + 1) - 1 = i
            /\ i + 1 \in 1 .. Len(g[p].children)
        BY <1>6, <1>65, <4>0
      <4>3. g[p].children[i + 1] = q
        BY <1>67, <4>0, <4>1
      <4> QED
        BY <1>68, <4>1, <4>2, <4>3 DEF HasParent
    <3>4. CASE ~moves(q) /\ ~after(q)
      <4>1. d[q].up = c[q].up /\ d[q].at = c[q].at
        BY <1>1, <3>1, <3>4
      <4>2. CASE c[q].up = a
        <5>1. c[q].at \in 1 .. n
          BY <1>62, <3>1, <3>4, <4>2
        <5>2. g[a].children[c[q].at] = q
          BY <1>63, <3>1, <4>2, <5>1
        <5> QED
          BY <1>68, <4>1, <4>2, <5>1, <5>2 DEF HasParent, n
      <4>3. CASE c[q].up = p
        <5>0. c[q].at \in 1 .. Len(j[p].children) /\ j[p].children[c[q].at] = q /\ ~(c[q].at > s)
          BY <3>1, <3>4, <4>3
        <5>1. c[q].at \in 1 .. s /\ c[q].at \in 1 .. Len(g[p].children)
          BY <1>6, <1>65, <5>0
        <5>2. g[p].children[c[q].at] = q
          BY <1>66, <5>0, <5>1
        <5> QED
          BY <1>68, <4>1, <4>3, <5>1, <5>2 DEF HasParent
      <4>4. CASE c[q].up # a /\ c[q].up # p
        BY <1>1, <3>1, <4>1, <4>4 DEF HasParent
      <4> QED
        BY <4>2, <4>3, <4>4
    <3> QED
      BY <3>2, <3>3, <3>4
  <2> QED
    BY <2>1, <2>2
<1>14. IsTreeWith(g, r, d, h)
  BY <1>7, <1>12, <1>13, TreeOfPages
<1> QED
  BY <1>14 DEF d, n

\* The certificate after page b, child s + 1 of page p, has become part of page a,
\* child s, which had n children of its own; k is the key between them.
Joined(c, r, p, a, b, s, n, k) ==
  LET moves(q) == q # r /\ c[q].up = b
      after(q) == q # r /\ c[q].up = p /\ c[q].at > s
  IN  [q \in DOMAIN c \ {b} |->
         [depth |-> c[q].depth,
          up |-> IF moves(q) THEN a ELSE c[q].up,
          at |-> IF moves(q) THEN c[q].at + n
                 ELSE IF after(q) THEN c[q].at - 1 ELSE c[q].at,
          keys |-> IF q = a THEN c[a].keys \union {k} \union c[b].keys ELSE c[q].keys]]

LEMMA JoinedTree ==
  ASSUME NEW g, NEW r, NEW c, NEW h \in Nat, IsTreeWith(g, r, c, h),
         NEW p \in DOMAIN c, NEW s, s \in 1 .. Len(g[p].children) - 1,
         NEW a, g[p].children[s] = a, NEW b, g[p].children[s + 1] = b,
         NEW j, \A q \in DOMAIN c \ {p, a, b} : j[q] = g[q],
         \A q \in {p, a} : j[q] \in StoredNodes(DOMAIN c \ {b}),
         NEW x, Divides(j, g, p, a, b, s, x), NEW k
  PROVE  IsTreeWith(j, r, Joined(c, r, p, a, b, s, Len(g[a].children), k), h)
<1> DEFINE n == Len(g[a].children)
           d == Joined(c, r, p, a, b, s, n, k)
           T == DOMAIN c
           moves(q) == q # r /\ c[q].up = b
           after(q) == q # r /\ c[q].up = p /\ c[q].at > s
<1>1. /\ DOMAIN d = T \ {b}
      /\ \A q \in T \ {b} :
           /\ d[q].depth = c[q].depth
           /\ d[q].up = IF moves(q) THEN a ELSE c[q].up
           /\ d[q].at = IF moves(q) THEN c[q].at + n
                        ELSE IF after(q) THEN c[q].at - 1 ELSE c[q].at
  BY DEF Joined
<1> HIDE DEF d
<1>2. /\ a \in T \ {r} /\ c[a].up = p /\ c[a].at = s /\ c[a].depth = c[p].depth + 1
      /\ b \in T \ {r} /\ c[b].up = p /\ c[b].at = s + 1 /\ c[b].depth = c[p].depth + 1
      /\ s \in Nat \ {0} /\ s + 1 <= Len(g[p].children)
  <2>1. Len(g[p].children) \in Nat
    BY NodeOfTree
  <2>2. s \in 1 .. Len(g[p].children) /\ s + 1 \in 1 .. Len(g[p].children)
    BY <2>1
  <2>3. a \in T \ {r} /\ c[a].up = p /\ c[a].at = s /\ c[a].depth = c[p].depth + 1
    BY <2>2, ChildOfTree
  <2>4. b \in T \ {r} /\ c[b].up = p /\ c[b].at = s + 1 /\ c[b].depth = c[p].depth + 1
    BY <2>2, ChildOfTree
  <2> QED
    BY <2>1, <2>3, <2>4
<1>3. a # p /\ b # p /\ a # b
  <2>1. c[p].depth \in Int /\ s # s + 1
    BY <1>2, NodeOfTree
  <2> QED
    BY <1>2, <2>1
<1>4. /\ n \in Nat /\ Len(g[b].children) \in Nat /\ Len(g[p].children) \in Nat
      /\ Len(j[p].children) \in Nat
      /\ Len(j[a].children) = n + Len(g[b].children)
      /\ n # 0 <=> Len(g[b].children) # 0
      /\ \A i \in 1 .. n : j[a].children[i] = g[a].children[i]
      /\ \A i \in 1 .. Len(g[b].children) : j[a].children[n + i] = g[b].children[i]
      /\ Len(g[p].children) = Len(j[p].children) + 1
      /\ \A i \in 1 .. s : g[p].children[i] = j[p].children[i]
      /\ \A i \in s + 2 .. Len(g[p].children) : g[p].children[i] = j[p].children[i - 1]
  <2>1. Len(j[p].children) \in Nat
    BY LenProperties DEF StoredNodes
  <2>2. n \in Nat /\ Len(g[b].children) \in Nat /\ Len(g[p].children) \in Nat
    BY <1>2, NodeOfTree
  <2> QED
    BY <1>2, <2>1, <2>2 DEF Divides, Joins, Names
<1>5. \A q \in {p, a} : is_leaf(j[q]) <=> Len(j[q].children) = 0
  <2>1. \A q \in {p, a} : j[q].children \in Seq(T \ {b})
    BY DEF StoredNodes
  <2> QED
    BY <2>1, EmptySeq DEF is_leaf
<1> HIDE DEF n
<1>51. a \in T /\ b \in T /\ a # b
  BY <1>2, <1>3
<1>52. n \in Nat /\ Len(g[b].children) \in Nat /\ Len(j[a].children) = n + Len(g[b].children)
  BY <1>4
<1>53. \A i \in 1 .. n : j[a].children[i] = g[a].children[i]
  BY <1>4
<1>54. \A i \in 1 .. Len(g[b].children) : j[a].children[n + i] = g[b].children[i]
  BY <1>4
<1>55. /\ Len(j[p].children) \in Nat /\ Len(g[p].children) = Len(j[p].children) + 1
       /\ s \in Nat \ {0} /\ s + 1 <= Len(g[p].children)
  BY <1>2, <1>4
<1>56. \A i \in 1 .. s : g[p].children[i] = j[p].children[i]
  BY <1>4
<1>57. \A i \in s + 2 .. Len(g[p].children) : g[p].children[i] = j[p].children[i - 1]
  BY <1>4
<1>58. p \in DOMAIN d /\ a \in DOMAIN d
  BY <1>1, <1>3, <1>51
<1>6. r \in DOMAIN d /\ d[r].depth = 0
  BY <1>1, <1>2 DEF IsTreeWith
<1>7. ASSUME NEW q \in T \ {b}, q # a, q # p
      PROVE  IsPageWith(j, d, h, q)
  <2>1. j[q] = g[q]
    BY <1>7
  <2>2. ASSUME NEW i \in 1 .. Len(j[q].children)
        PROVE  /\ j[q].children[i] \in T \ {b}
               /\ d[j[q].children[i]].up = q /\ d[j[q].children[i]].at = i
               /\ d[j[q].children[i]].depth = d[q].depth + 1
    <3>1. /\ j[q].children[i] \in T \ {r} /\ c[j[q].children[i]].up = q
          /\ c[j[q].children[i]].at = i /\ c[j[q].children[i]].depth = c[q].depth + 1
      BY <2>1, ChildOfTree
    <3> QED
      BY <1>1, <1>2, <1>7, <3>1
  <2>3. j[q] \in StoredNodes(T \ {b})
    <3>1. j[q] \in StoredNodes(T)
      BY <2>1 DEF IsTreeWith
    <3>2. j[q].children \in Seq(T \ {b})
      <4>1. j[q].children \in Seq(T)
        BY <3>1 DEF StoredNodes
      <4> QED
        BY <2>2, <4>1, SeqOver
    <3> QED
      BY <3>1, <3>2 DEF StoredNodes
  <2>4. /\ c[q].depth \in 0 .. h /\ (is_leaf(j[q]) <=> c[q].depth = h)
    BY <2>1 DEF IsTreeWith
  <2>5. DOMAIN d = T \ {b} /\ d[q].depth = c[q].depth
    BY <1>1, <1>7
  <2>6. j[q] \in StoredNodes(DOMAIN d)
    BY <2>3, <2>5
  <2>7. d[q].depth \in 0 .. h /\ (is_leaf(j[q]) <=> d[q].depth = h)
    BY <2>4, <2>5
  <2> QED
    BY <2>2, <2>6, <2>7 DEF IsPageWith
<1>8. IsPageWith(j, d, h, a)
  <2>1. c[a].depth \in 0 .. h /\ (n = 0 <=> c[a].depth = h)
    BY <1>51, NodeOfTree DEF n
  <2>2. is_leaf(j[a]) <=> d[a].depth = h
    <3>1. Len(j[a].children) = 0 <=> n = 0
      BY <1>4
    <3>2. is_leaf(j[a]) <=> Len(j[a].children) = 0
      BY <1>5
    <3>3. d[a].depth = c[a].depth
      BY <1>1, <1>51
    <3> QED
      BY <2>1, <3>1, <3>2, <3>3
  <2>3. ASSUME NEW i \in 1 .. Len(j[a].children)
        PROVE  /\ d[j[a].children[i]].up = a /\ d[j[a].children[i]].at = i
               /\ d[j[a].children[i]].depth = d[a].depth + 1
    <3>1. CASE i <= n
      <4>1. i \in 1 .. n
        BY <1>52, <3>1
      <4>2. /\ j[a].children[i] \in T \ {r} /\ c[j[a].children[i]].up = a
            /\ c[j[a].children[i]].at = i /\ c[j[a].children[i]].depth = c[a].depth + 1
        <5>1. g[a].children[i] = j[a].children[i]
          BY <1>53, <4>1
        <5>2. i \in 1 .. Len(g[a].children)
          BY <4>1 DEF n
        <5> QED
          BY <1>51, <5>1, <5>2, ChildOfTree
      <4> QED
        BY <1>1, <1>2, <1>3, <4>2
    <3>2. CASE i > n
      <4> DEFINE m == i - n
      <4>1. m \in 1 .. Len(g[b].children) /\ n + m = i /\ m + n = i
        BY <1>52, <3>2
      <4> HIDE DEF m
      <4>2. /\ j[a].children[i] \in T \ {r} /\ c[j[a].children[i]].up = b
            /\ c[j[a].children[i]].at = m /\ c[j[a].children[i]].depth = c[b].depth + 1
        <5>1. g[b].children[m] = j[a].children[i]
          BY <1>54, <4>1
        <5>2. m \in 1 .. Len(g[b].children)
          BY <4>1
        <5> QED
          BY <1>51, <5>1, <5>2, ChildOfTree
      <4>3. j[a].children[i] # b
        BY <1>2, <1>3, <4>2
      <4> QED
        BY <1>1, <1>2, <1>3, <4>1, <4>2, <4>3
    <3> QED
      BY <1>4, <3>1, <3>2
  <2> QED
    BY <1>1, <1>2, <1>3, <2>1, <2>2, <2>3 DEF IsPageWith
<1>9. IsPageWith(j, d, h, p)
  <2>1. c[p].depth \in 0 .. h /\ (Len(g[p].children) = 0 <=> c[p].depth = h)
    BY NodeOfTree
  <2>2. is_leaf(j[p]) <=> d[p].depth = h
    BY <1>1, <1>2, <1>3, <1>4, <1>5, <2>1
  <2>3. ASSUME NEW i \in 1 .. Len(j[p].children)
        PROVE  /\ d[j[p].children[i]].up = p /\ d[j[p].children[i]].at = i
               /\ d[j[p].children[i]].depth = d[p].depth + 1
    <3>1. CASE i <= s
      <4>1. i \in 1 .. Len(g[p].children) /\ i \in 1 .. s /\ ~(i > s) /\ i # s + 1
        BY <1>55, <3>1
      <4>2. /\ j[p].children[i] \in T \ {r} /\ c[j[p].children[i]].up = p
            /\ c[j[p].children[i]].at = i /\ c[j[p].children[i]].depth = c[p].depth + 1
        <5>1. g[p].children[i] = j[p].children[i]
          BY <1>56, <4>1
        <5>2. i \in 1 .. Len(g[p].children)
          BY <4>1
        <5> QED
          BY <5>1, <5>2, ChildOfTree
      <4> QED
        BY <1>1, <1>2, <1>3, <4>1, <4>2
    <3>2. CASE i > s
      <4> DEFINE m == i + 1
      <4>1. m \in 1 .. Len(g[p].children) /\ m \in s + 2 .. Len(g[p].children)
            /\ m - 1 = i /\ m > s /\ m # s + 1
        BY <1>55, <3>2
      <4> HIDE DEF m
      <4>2. /\ j[p].children[i] \in T \ {r} /\ c[j[p].children[i]].up = p
            /\ c[j[p].children[i]].at = m /\ c[j[p].children[i]].depth = c[p].depth + 1
        <5>1. g[p].children[m] = j[p].children[i]
          BY <1>57, <4>1
        <5>2. m \in 1 .. Len(g[p].children)
          BY <4>1
        <5> QED
          BY <5>1, <5>2, ChildOfTree
      <4> QED
        BY <1>1, <1>2, <1>3, <4>1, <4>2
    <3> QED
      BY <1>2, <1>4, <3>1, <3>2
  <2> QED
    BY <1>1, <1>3, <2>1, <2>2, <2>3 DEF IsPageWith
<1>10. \A q \in DOMAIN d : IsPageWith(j, d, h, q)
  BY <1>1, <1>7, <1>8, <1>9
<1>11. ASSUME NEW q \in DOMAIN d \ {r} PROVE HasParent(j, d, q)
  <2> DEFINE i == c[q].at
  <2>1. /\ q \in T \ {r} /\ q # b /\ c[q].up \in T
        /\ i \in 1 .. Len(g[c[q].up].children)
        /\ g[c[q].up].children[i] = q
    BY <1>1, <1>11 DEF IsTreeWith
  <2>2. /\ d[q].up = IF moves(q) THEN a ELSE c[q].up
        /\ d[q].at = IF moves(q) THEN i + n ELSE IF after(q) THEN i - 1 ELSE i
    BY <1>1, <2>1
  <2>3. c[q].up = p => i # s + 1
    BY <2>1
  <2>4. CASE moves(q)
    <3>1. i \in 1 .. Len(g[b].children) /\ g[b].children[i] = q
      BY <2>1, <2>4
    <3>2. d[q].up = a /\ d[q].at = i + n
      BY <2>2, <2>4
    <3> HIDE DEF i
    <3>3. i + n = n + i /\ i + n \in 1 .. Len(j[a].children)
      BY <1>52, <3>1
    <3>4. j[a].children[i + n] = q
      BY <1>54, <3>1, <3>3
    <3> QED
      BY <1>58, <3>2, <3>3, <3>4 DEF HasParent
  <2>5. CASE after(q)
    <3>1. i \in 1 .. Len(g[p].children) /\ g[p].children[i] = q /\ i > s /\ i # s + 1
      BY <2>1, <2>3, <2>5
    <3>2. d[q].up = p /\ d[q].at = i - 1
      BY <1>3, <2>2, <2>5
    <3> HIDE DEF i
    <3>3. i \in s + 2 .. Len(g[p].children) /\ i - 1 \in 1 .. Len(j[p].children)
      BY <1>55, <3>1
    <3>4. j[p].children[i - 1] = q
      <4>1. g[p].children[i] = j[p].children[i - 1]
        BY <1>57, <3>3
      <4> QED
        BY <3>1, <4>1
    <3>5. i - 1 \in 1 .. Len(j[p].children)
      BY <3>3
    <3> QED
      BY <1>58, <3>2, <3>4, <3>5 DEF HasParent
  <2>6. CASE ~moves(q) /\ ~after(q)
    <3>1. d[q].up = c[q].up /\ d[q].at = i /\ c[q].up # b
      BY <2>1, <2>2, <2>6
    <3>2. CASE c[q].up = a
      <4>1. i \in 1 .. n /\ g[a].children[i] = q
        BY <2>1, <3>2 DEF n
      <4> HIDE DEF i
      <4>2. i \in 1 .. Len(j[a].children) /\ j[a].children[i] = q
        BY <1>52, <1>53, <4>1, SMTT(30)
      <4> QED
        BY <1>58, <3>1, <3>2, <4>2 DEF HasParent
    <3>3. CASE c[q].up = p
      <4>1. i \in 1 .. Len(g[p].children) /\ g[p].children[i] = q /\ ~(i > s)
        BY <2>1, <2>6, <3>3
      <4> HIDE DEF i
      <4>2. i \in 1 .. s /\ i \in 1 .. Len(j[p].children) /\ j[p].children[i] = q
        <5>1. i \in 1 .. s /\ i \in 1 .. Len(j[p].children)
          BY <1>55, <4>1
        <5> QED
          BY <1>56, <4>1, <5>1
      <4> QED
        BY <1>58, <3>1, <3>3, <4>2 DEF HasParent
    <3>4. CASE c[q].up # a /\ c[q].up # p
      BY <1>1, <2>1, <3>1, <3>4 DEF HasParent
    <3> QED
      BY <3>2, <3>3, <3>4
  <2> QED
    BY <2>4, <2>5, <2>6
<1>12. IsTreeWith(j, r, d, h)
  BY <1>6, <1>10, <1>11, TreeOfPages
<1> QED
  BY <1>12 DEF d, n
-----------------------------------------------------------------------------
\* The order of the keys in two nodes and the item between them.

IntKeys(items) ==
  Len(items) \in Nat /\ \A i \in 1 .. Len(items) : items[i].key \in Int

AllBelow(items, k) == \A i \in 1 .. Len(items) : items[i].key < k

AllAbove(items, k) == \A i \in 1 .. Len(items) : k < items[i].key

LEMMA JoinPositions ==
  ASSUME NEW n, NEW a, NEW x, NEW b, Joins(n, a, x, b),
         IntKeys(n.items), IntKeys(a.items), IntKeys(b.items)
  PROVE  /\ x.key \in Int /\ Len(a.items) + 1 \in 1 .. Len(n.items)
         /\ \A i \in 1 .. Len(a.items) : i \in 1 .. Len(n.items) /\ n.items[i] = a.items[i]
         /\ n.items[Len(a.items) + 1] = x
         /\ \A i \in 1 .. Len(b.items) :
              /\ Len(a.items) + 1 + i \in 1 .. Len(n.items)
              /\ n.items[Len(a.items) + 1 + i] = b.items[i]
         /\ \A i \in 1 .. Len(n.items) :
              \/ i \in 1 .. Len(a.items)
              \/ i = Len(a.items) + 1
              \/ \E m \in 1 .. Len(b.items) : i = Len(a.items) + 1 + m
<1> DEFINE l == Len(a.items)  m == Len(b.items)
<1>1. l \in Nat /\ m \in Nat /\ Len(n.items) = l + 1 + m
  BY DEF Joins, IntKeys
<1>2. \A i \in 1 .. Len(n.items) :
        i \in 1 .. l \/ i = l + 1 \/ \E o \in 1 .. m : i = l + 1 + o
  <2> HIDE DEF l, m
  <2> TAKE i \in 1 .. Len(n.items)
  <2>1. CASE i > l + 1
    <3>1. i - (l + 1) \in 1 .. m /\ i = l + 1 + (i - (l + 1))
      BY <1>1, <2>1
    <3> QED
      BY <3>1
  <2> QED
    BY <1>1, <2>1
<1>3. /\ n.items[l + 1] = x
      /\ \A i \in 1 .. l : n.items[i] = a.items[i]
      /\ \A i \in 1 .. m : n.items[l + 1 + i] = b.items[i]
  BY DEF Joins
<1>4. \A i \in 1 .. Len(n.items) : n.items[i].key \in Int
  BY DEF IntKeys
<1> HIDE DEF l, m
<1>5. l + 1 \in 1 .. Len(n.items)
  BY <1>1
<1>6. x.key \in Int
  BY <1>3, <1>4, <1>5
<1>7. /\ \A i \in 1 .. l : i \in 1 .. Len(n.items)
      /\ \A i \in 1 .. m : l + 1 + i \in 1 .. Len(n.items)
  BY <1>1
<1> QED
  BY <1>2, <1>3, <1>5, <1>6, <1>7 DEF l, m

\* The same in one predicate.
InARow(n, a, x, b) ==
  /\ x.key \in Int /\ Len(a.items) + 1 \in 1 .. Len(n.items)
  /\ \A i \in 1 .. Len(a.items) : i \in 1 .. Len(n.items) /\ n.items[i] = a.items[i]
  /\ n.items[Len(a.items) + 1] = x
  /\ \A i \in 1 .. Len(b.items) :
       /\ Len(a.items) + 1 + i \in 1 .. Len(n.items)
       /\ n.items[Len(a.items) + 1 + i] = b.items[i]
  /\ \A i \in 1 .. Len(n.items) :
       \/ i \in 1 .. Len(a.items)
       \/ i = Len(a.items) + 1
       \/ \E m \in 1 .. Len(b.items) : i = Len(a.items) + 1 + m

LEMMA JoinedInARow ==
  ASSUME NEW n, NEW a, NEW x, NEW b, Joins(n, a, x, b),
         IntKeys(n.items), IntKeys(a.items), IntKeys(b.items)
  PROVE  InARow(n, a, x, b)
<1>1. /\ x.key \in Int /\ Len(a.items) + 1 \in 1 .. Len(n.items)
      /\ \A i \in 1 .. Len(a.items) : i \in 1 .. Len(n.items) /\ n.items[i] = a.items[i]
      /\ n.items[Len(a.items) + 1] = x
  BY JoinPositions
<1>2. \A i \in 1 .. Len(b.items) :
        /\ Len(a.items) + 1 + i \in 1 .. Len(n.items)
        /\ n.items[Len(a.items) + 1 + i] = b.items[i]
  BY JoinPositions
<1>3. \A i \in 1 .. Len(n.items) :
        \/ i \in 1 .. Len(a.items)
        \/ i = Len(a.items) + 1
        \/ \E m \in 1 .. Len(b.items) : i = Len(a.items) + 1 + m
  BY JoinPositions
<1> QED
  BY <1>1, <1>2, <1>3, Zenon DEF InARow

LEMMA ApartInOrder ==
  ASSUME NEW n, NEW a, NEW x, NEW b, Joins(n, a, x, b), Ordered(n.items),
         IntKeys(n.items), IntKeys(a.items), IntKeys(b.items)
  PROVE  /\ Ordered(a.items) /\ Ordered(b.items)
         /\ AllBelow(a.items, x.key) /\ AllAbove(b.items, x.key)
<1> DEFINE l == Len(a.items)
<1>1. l \in Nat
  BY DEF IntKeys
<1>2. Ordered(a.items)
  <2>1. \A i \in 1 .. l : i \in 1 .. Len(n.items) /\ n.items[i] = a.items[i]
    BY JoinPositions
  <2> QED
    BY <2>1 DEF Ordered
<1>3. Ordered(b.items)
  <2> SUFFICES ASSUME NEW i \in 1 .. Len(b.items), NEW m \in 1 .. Len(b.items), i < m
               PROVE  b.items[i].key < b.items[m].key
    BY DEF Ordered
  <2>1. /\ l + 1 + i \in 1 .. Len(n.items) /\ n.items[l + 1 + i] = b.items[i]
        /\ l + 1 + m \in 1 .. Len(n.items) /\ n.items[l + 1 + m] = b.items[m]
    BY JoinPositions
  <2>2. l + 1 + i < l + 1 + m
    BY <1>1
  <2> HIDE DEF l
  <2> QED
    BY <2>1, <2>2 DEF Ordered
<1>4. l + 1 \in 1 .. Len(n.items) /\ n.items[l + 1] = x
  BY JoinPositions
<1>5. AllBelow(a.items, x.key)
  <2> SUFFICES ASSUME NEW i \in 1 .. l PROVE a.items[i].key < x.key
    BY DEF AllBelow
  <2>1. i \in 1 .. Len(n.items) /\ n.items[i] = a.items[i] /\ i < l + 1
    BY <1>1, JoinPositions
  <2> HIDE DEF l
  <2> QED
    BY <1>4, <2>1 DEF Ordered
<1>6. AllAbove(b.items, x.key)
  <2> SUFFICES ASSUME NEW i \in 1 .. Len(b.items) PROVE x.key < b.items[i].key
    BY DEF AllAbove
  <2>1. l + 1 + i \in 1 .. Len(n.items) /\ n.items[l + 1 + i] = b.items[i]
    BY JoinPositions
  <2>2. l + 1 < l + 1 + i
    BY <1>1
  <2> HIDE DEF l
  <2> QED
    BY <1>4, <2>1, <2>2 DEF Ordered
<1> QED
  BY <1>2, <1>3, <1>5, <1>6

LEMMA TogetherInOrder ==
  ASSUME NEW n, NEW a, NEW x, NEW b, Joins(n, a, x, b),
         IntKeys(n.items), IntKeys(a.items), IntKeys(b.items),
         Ordered(a.items), Ordered(b.items),
         AllBelow(a.items, x.key), AllAbove(b.items, x.key)
  PROVE  Ordered(n.items)
<1> DEFINE l == Len(a.items)
<1>1. l \in Nat
  BY DEF IntKeys
<1> SUFFICES ASSUME NEW i \in 1 .. Len(n.items), NEW m \in 1 .. Len(n.items), i < m
             PROVE  n.items[i].key < n.items[m].key
  BY DEF Ordered
<1>2. n.items[i].key \in Int /\ n.items[m].key \in Int /\ x.key \in Int
  BY JoinPositions DEF IntKeys
<1>3. /\ \/ i \in 1 .. l \/ i = l + 1 \/ \E o \in 1 .. Len(b.items) : i = l + 1 + o
      /\ \/ m \in 1 .. l \/ m = l + 1 \/ \E o \in 1 .. Len(b.items) : m = l + 1 + o
  BY JoinPositions
<1>4. n.items[l + 1] = x
  BY JoinPositions
<1>5. \A o \in 1 .. l : n.items[o] = a.items[o] /\ n.items[o].key < x.key
  BY JoinPositions DEF AllBelow
<1>6. \A o \in 1 .. Len(b.items) :
        n.items[l + 1 + o] = b.items[o] /\ x.key < n.items[l + 1 + o].key
  BY JoinPositions DEF AllAbove
<1> HIDE DEF l
<1>7. CASE m \in 1 .. l
  <2>1. i \in 1 .. l
    BY <1>1, <1>7
  <2> QED
    BY <1>5, <1>7, <2>1 DEF Ordered, l
<1>8. CASE m = l + 1
  <2>1. i \in 1 .. l
    BY <1>1, <1>8
  <2> QED
    BY <1>4, <1>5, <1>8, <2>1
<1>9. ASSUME NEW o \in 1 .. Len(b.items), m = l + 1 + o
      PROVE  n.items[i].key < n.items[m].key
  <2>0. x.key < n.items[m].key /\ n.items[m] = b.items[o]
    BY <1>6, <1>9
  <2>1. CASE i \in 1 .. l
    <3>1. n.items[i].key < x.key
      BY <1>5, <2>1
    <3> QED
      BY <1>2, <2>0, <3>1
  <2>2. CASE i = l + 1
    BY <1>4, <2>0, <2>2
  <2>3. ASSUME NEW q \in 1 .. Len(b.items), i = l + 1 + q
        PROVE  n.items[i].key < n.items[m].key
    <3>1. q < o
      BY <1>1, <1>9, <2>3
    <3>2. n.items[i] = b.items[q]
      BY <1>6, <2>3
    <3> QED
      BY <2>0, <3>1, <3>2 DEF Ordered
  <2> QED
    BY <1>3, <2>1, <2>2, <2>3
<1> QED
  BY <1>3, <1>7, <1>8, <1>9

\* A key below the item between the two has its place in the first of them.
LEMMA PlaceApart ==
  ASSUME NEW n, NEW a, NEW x, NEW b, Joins(n, a, x, b),
         IntKeys(n.items), IntKeys(a.items), IntKeys(b.items), NEW k \in Int, NEW i \in Nat
  PROVE  /\ i <= Len(a.items) + 1 /\ Parts(n.items, i, k) =>
              Parts(a.items, i, k) /\ k < x.key
         /\ i # 0 /\ Parts(n.items, Len(a.items) + 1 + i, k) =>
              Parts(b.items, i, k) /\ x.key < k
<1> DEFINE l == Len(a.items)
<1>1. l \in Nat
  BY DEF IntKeys
<1>2. /\ l + 1 \in 1 .. Len(n.items) /\ n.items[l + 1] = x
      /\ \A o \in 1 .. l : o \in 1 .. Len(n.items) /\ n.items[o] = a.items[o]
  BY JoinPositions
<1>3. \A o \in 1 .. Len(b.items) :
        l + 1 + o \in 1 .. Len(n.items) /\ n.items[l + 1 + o] = b.items[o]
  BY JoinPositions
<1>4. ASSUME i <= l + 1, Parts(n.items, i, k)
      PROVE  Parts(a.items, i, k) /\ k < x.key
  <2>1. Parts(a.items, i, k)
    BY <1>2, <1>4 DEF Parts
  <2>2. l + 1 >= i
    BY <1>1, <1>4
  <2> HIDE DEF l
  <2>3. k < n.items[l + 1].key
    BY <1>2, <1>4, <2>2 DEF Parts
  <2> QED
    BY <1>2, <2>1, <2>3
<1>5. ASSUME i # 0, Parts(n.items, l + 1 + i, k)
      PROVE  Parts(b.items, i, k) /\ x.key < k
  <2> HIDE DEF l
  <2>1. ASSUME NEW o \in 1 .. Len(b.items)
        PROVE  /\ o < i => b.items[o].key < k
               /\ o >= i => k < b.items[o].key
    <3>1. /\ o < i => l + 1 + o < l + 1 + i
          /\ o >= i => l + 1 + o >= l + 1 + i
      BY <1>1
    <3>2. l + 1 + o \in 1 .. Len(n.items) /\ n.items[l + 1 + o] = b.items[o]
      BY <1>3
    <3> DEFINE u == l + 1 + o  v == l + 1 + i
    <3>3. Parts(n.items, v, k)
      BY <1>5
    <3>4. /\ o < i => u < v
          /\ o >= i => u >= v
      BY <3>1
    <3>5. u \in 1 .. Len(n.items) /\ n.items[u] = b.items[o]
      BY <3>2
    <3> HIDE DEF u, v
    <3> QED
      BY <3>3, <3>4, <3>5 DEF Parts
  <2>2. l + 1 < l + 1 + i
    BY <1>1, <1>5
  <2> DEFINE u == l + 1  v == l + 1 + i
  <2>3. Parts(n.items, v, k) /\ u < v /\ u \in 1 .. Len(n.items) /\ n.items[u] = x
    BY <1>2, <1>5, <2>2
  <2> HIDE DEF u, v
  <2>4. x.key < k
    BY <2>3 DEF Parts
  <2> QED
    BY <2>1, <2>4 DEF Parts
<1> QED
  BY <1>4, <1>5

LEMMA PlaceAbove ==
  ASSUME NEW n, NEW a, NEW x, NEW b, Joins(n, a, x, b),
         IntKeys(n.items), IntKeys(a.items), IntKeys(b.items), NEW k \in Int, NEW i \in Nat,
         i # 0, Parts(n.items, Len(a.items) + 1 + i, k)
  PROVE  Parts(b.items, i, k) /\ x.key < k
  BY PlaceApart

LEMMA PlaceTogether ==
  ASSUME NEW n, NEW a, NEW x, NEW b, Joins(n, a, x, b),
         IntKeys(n.items), IntKeys(a.items), IntKeys(b.items), NEW k \in Int, NEW i \in Nat,
         AllBelow(a.items, x.key), AllAbove(b.items, x.key)
  PROVE  /\ i <= Len(a.items) + 1 /\ Parts(a.items, i, k) /\ k < x.key => Parts(n.items, i, k)
         /\ i # 0 /\ Parts(b.items, i, k) /\ x.key < k =>
              Parts(n.items, Len(a.items) + 1 + i, k)
<1> DEFINE l == Len(a.items)
<1>1. l \in Nat
  BY DEF IntKeys
<1>2. \A m \in 1 .. Len(n.items) :
        \/ m \in 1 .. l \/ m = l + 1 \/ \E o \in 1 .. Len(b.items) : m = l + 1 + o
  BY JoinPositions
<1>3. n.items[l + 1] = x /\ x.key \in Int
  BY JoinPositions
<1>4. \A o \in 1 .. l : n.items[o] = a.items[o] /\ n.items[o].key < x.key /\ n.items[o].key \in Int
  BY JoinPositions DEF AllBelow, IntKeys
<1>5. \A o \in 1 .. Len(b.items) :
        /\ n.items[l + 1 + o] = b.items[o] /\ x.key < n.items[l + 1 + o].key
        /\ n.items[l + 1 + o].key \in Int
  <2> TAKE o \in 1 .. Len(b.items)
  <2>1. n.items[l + 1 + o] = b.items[o]
    BY JoinPositions
  <2>2. x.key < b.items[o].key /\ b.items[o].key \in Int
    BY DEF AllAbove, IntKeys
  <2> QED
    BY <2>1, <2>2
<1>6. ASSUME i <= l + 1, Parts(a.items, i, k), k < x.key
      PROVE  Parts(n.items, i, k)
  <2>0. \A o \in 1 .. l : /\ o < i => a.items[o].key < k
                          /\ o >= i => k < a.items[o].key
    BY <1>6 DEF Parts
  <2> HIDE DEF l
  <2> SUFFICES ASSUME NEW m \in 1 .. Len(n.items)
               PROVE  /\ m < i => n.items[m].key < k
                      /\ m >= i => k < n.items[m].key
    BY DEF Parts
  <2>1. CASE m \in 1 .. l
    BY <1>4, <2>0, <2>1
  <2>2. CASE m = l + 1
    <3>1. ~(m < i)
      BY <1>1, <1>6, <2>2
    <3> QED
      BY <1>3, <1>6, <2>2, <3>1
  <2>3. ASSUME NEW o \in 1 .. Len(b.items), m = l + 1 + o
        PROVE  k < n.items[m].key /\ ~(m < i)
    <3>1. ~(m < i)
      BY <1>1, <1>6, <2>3
    <3>2. x.key < n.items[m].key /\ n.items[m].key \in Int
      BY <1>5, <2>3
    <3> QED
      BY <1>3, <1>6, <3>1, <3>2
  <2> QED
    BY <1>2, <2>1, <2>2, <2>3
<1>7. ASSUME i # 0, Parts(b.items, i, k), x.key < k
      PROVE  Parts(n.items, l + 1 + i, k)
  <2>0. \A o \in 1 .. Len(b.items) : /\ o < i => b.items[o].key < k
                                     /\ o >= i => k < b.items[o].key
    BY <1>7 DEF Parts
  <2> HIDE DEF l
  <2> SUFFICES ASSUME NEW m \in 1 .. Len(n.items)
               PROVE  /\ m < l + 1 + i => n.items[m].key < k
                      /\ m >= l + 1 + i => k < n.items[m].key
    BY DEF Parts
  <2>1. CASE m \in 1 .. l
    <3>1. m < l + 1 + i /\ n.items[m].key < x.key /\ n.items[m].key \in Int
      BY <1>1, <1>4, <2>1
    <3> QED
      BY <1>1, <1>3, <1>7, <3>1
  <2>2. CASE m = l + 1
    <3>1. m < l + 1 + i
      BY <1>1, <1>7, <2>2
    <3> QED
      BY <1>1, <1>3, <1>7, <2>2, <3>1
  <2>3. ASSUME NEW o \in 1 .. Len(b.items), m = l + 1 + o
        PROVE  /\ m < l + 1 + i => n.items[m].key < k
               /\ m >= l + 1 + i => k < n.items[m].key
    <3>1. m < l + 1 + i <=> o < i
      BY <1>1, <2>3
    <3>2. m >= l + 1 + i <=> o >= i
      BY <1>1, <2>3
    <3>3. n.items[m] = b.items[o]
      BY <1>5, <2>3
    <3> QED
      BY <2>0, <3>1, <3>2, <3>3
  <2> QED
    BY <1>2, <2>1, <2>2, <2>3
<1> QED
  BY <1>6, <1>7

LEMMA PlaceTogetherBelow ==
  ASSUME NEW n, NEW a, NEW x, NEW b, Joins(n, a, x, b),
         IntKeys(n.items), IntKeys(a.items), IntKeys(b.items), NEW k \in Int, NEW i \in Nat,
         AllBelow(a.items, x.key), AllAbove(b.items, x.key),
         i <= Len(a.items) + 1, Parts(a.items, i, k), k < x.key
  PROVE  Parts(n.items, i, k)
  BY PlaceTogether

LEMMA PlaceTogetherAbove ==
  ASSUME NEW n, NEW a, NEW x, NEW b, Joins(n, a, x, b),
         IntKeys(n.items), IntKeys(a.items), IntKeys(b.items), NEW k \in Int, NEW i \in Nat,
         AllBelow(a.items, x.key), AllAbove(b.items, x.key),
         i # 0, Parts(b.items, i, k), x.key < k
  PROVE  Parts(n.items, Len(a.items) + 1 + i, k)
  BY PlaceTogether

\* One item more in a node.
OneItemMore(m, n, s, x) ==
  /\ x.key \in Int /\ s \in 1 .. Len(m.items) /\ m.items[s] = x
  /\ \A i \in 1 .. Len(n.items) :
       /\ i < s => i \in 1 .. Len(m.items) /\ m.items[i] = n.items[i]
       /\ i >= s => i + 1 \in 1 .. Len(m.items) /\ m.items[i + 1] = n.items[i]
  /\ \A i \in 1 .. Len(m.items) :
       \/ i < s /\ i \in 1 .. Len(n.items)
       \/ i = s
       \/ \E o \in 1 .. Len(n.items) : o >= s /\ i = o + 1

LEMMA NamesPositions ==
  ASSUME NEW m, NEW n, NEW s \in Nat \ {0}, NEW x, NEW b, Names(m, n, s, x, b),
         s <= Len(n.items) + 1, IntKeys(m.items), IntKeys(n.items)
  PROVE  OneItemMore(m, n, s, x)
<1> DEFINE l == Len(n.items)
<1>1. l \in Nat /\ Len(m.items) = l + 1
  BY DEF Names, IntKeys
<1>2. /\ m.items[s] = x
      /\ \A i \in 1 .. s - 1 : m.items[i] = n.items[i]
      /\ \A i \in s + 1 .. Len(m.items) : m.items[i] = n.items[i - 1]
  BY DEF Names
<1>3. \A i \in 1 .. Len(m.items) : m.items[i].key \in Int
  BY DEF IntKeys
<1> HIDE DEF l
<1>4. s \in 1 .. Len(m.items)
  BY <1>1 DEF l
<1>5. x.key \in Int
  BY <1>2, <1>3, <1>4
<1>6. ASSUME NEW i \in 1 .. l
      PROVE  /\ i < s => i \in 1 .. Len(m.items) /\ m.items[i] = n.items[i]
             /\ i >= s => i + 1 \in 1 .. Len(m.items) /\ m.items[i + 1] = n.items[i]
  <2>1. ASSUME i < s PROVE i \in 1 .. Len(m.items) /\ m.items[i] = n.items[i]
    <3>1. i \in 1 .. s - 1 /\ i \in 1 .. Len(m.items)
      BY <1>1, <2>1
    <3> QED
      BY <1>2, <3>1
  <2>2. ASSUME i >= s PROVE i + 1 \in 1 .. Len(m.items) /\ m.items[i + 1] = n.items[i]
    <3>1. i + 1 \in s + 1 .. Len(m.items) /\ (i + 1) - 1 = i /\ i + 1 \in 1 .. Len(m.items)
      BY <1>1, <2>2
    <3> QED
      BY <1>2, <3>1
  <2> QED
    BY <2>1, <2>2
<1>7. ASSUME NEW i \in 1 .. Len(m.items)
      PROVE  \/ i < s /\ i \in 1 .. l
             \/ i = s
             \/ \E o \in 1 .. l : o >= s /\ i = o + 1
  <2>1. CASE i > s
    <3>1. i - 1 \in 1 .. l /\ i - 1 >= s /\ i = (i - 1) + 1
      BY <1>1, <2>1
    <3> QED
      BY <3>1
  <2>2. CASE i < s
    BY <1>1, <2>2 DEF l
  <2> QED
    BY <1>1, <2>1, <2>2
<1> QED
  BY <1>2, <1>4, <1>5, <1>6, <1>7 DEF l, OneItemMore

LEMMA NamedInOrder ==
  ASSUME NEW m, NEW n, NEW s \in Nat \ {0}, NEW x, NEW b, Names(m, n, s, x, b),
         s <= Len(n.items) + 1, IntKeys(m.items), IntKeys(n.items)
  PROVE  /\ Ordered(n.items) /\ Parts(n.items, s, x.key) => Ordered(m.items)
         /\ Ordered(m.items) => Ordered(n.items) /\ Parts(n.items, s, x.key)
<1> DEFINE l == Len(n.items)
<1>0. OneItemMore(m, n, s, x)
  BY NamesPositions
<1>1. l \in Nat
  BY DEF IntKeys
<1>2. /\ x.key \in Int /\ s \in 1 .. Len(m.items) /\ m.items[s] = x
      /\ \A i \in 1 .. Len(n.items) :
           /\ i < s => i \in 1 .. Len(m.items) /\ m.items[i] = n.items[i]
           /\ i >= s => i + 1 \in 1 .. Len(m.items) /\ m.items[i + 1] = n.items[i]
  BY <1>0 DEF OneItemMore
<1>3. \A i \in 1 .. Len(m.items) :
        \/ i < s /\ i \in 1 .. Len(n.items)
        \/ i = s
        \/ \E o \in 1 .. Len(n.items) : o >= s /\ i = o + 1
  BY <1>0 DEF OneItemMore
<1>4. /\ \A i \in 1 .. Len(n.items) : n.items[i].key \in Int
      /\ \A i \in 1 .. Len(m.items) : m.items[i].key \in Int
  BY DEF IntKeys
<1> HIDE DEF l
<1>5. ASSUME Ordered(n.items), Parts(n.items, s, x.key) PROVE Ordered(m.items)
  <2> SUFFICES ASSUME NEW i \in 1 .. Len(m.items), NEW o \in 1 .. Len(m.items), i < o
               PROVE  m.items[i].key < m.items[o].key
    BY DEF Ordered
  <2>0. \A q \in 1 .. Len(n.items) : /\ q < s => n.items[q].key < x.key
                                     /\ q >= s => x.key < n.items[q].key
    BY <1>5 DEF Parts
  <2>1. CASE i < s /\ o < s
    <3>1. /\ i \in 1 .. Len(n.items) /\ m.items[i] = n.items[i]
          /\ o \in 1 .. Len(n.items) /\ m.items[o] = n.items[o]
      BY <1>2, <1>3, <2>1
    <3> QED
      BY <1>5, <3>1 DEF Ordered
  <2>2. CASE i < s /\ o = s
    <3>1. i \in 1 .. Len(n.items) /\ m.items[i] = n.items[i]
      BY <1>2, <1>3, <2>2
    <3> QED
      BY <1>2, <2>0, <2>2, <3>1
  <2>3. CASE i < s /\ o > s
    <3>1. i \in 1 .. Len(n.items) /\ m.items[i] = n.items[i]
      BY <1>2, <1>3, <2>3
    <3>2. PICK q \in 1 .. Len(n.items) : q >= s /\ o = q + 1
      BY <1>3, <2>3
    <3>3. m.items[o] = n.items[q]
      BY <1>2, <3>2
    <3>4. i < q
      BY <2>3, <3>2
    <3> QED
      BY <1>5, <3>1, <3>3, <3>4 DEF Ordered
  <2>4. CASE i = s
    <3>2. PICK q \in 1 .. Len(n.items) : q >= s /\ o = q + 1
      BY <1>3, <2>4
    <3>3. m.items[o] = n.items[q]
      BY <1>2, <3>2
    <3> QED
      BY <1>2, <2>0, <2>4, <3>2, <3>3
  <2>5. CASE i > s
    <3>0. ~(i < s) /\ i # s
      BY <1>2, <2>5
    <3>1. PICK p \in 1 .. Len(n.items) : p >= s /\ i = p + 1
      BY <1>3, <3>0
    <3>2. PICK q \in 1 .. Len(n.items) : q >= s /\ o = q + 1
      BY <1>3, <2>5
    <3>3. m.items[o] = n.items[q] /\ m.items[i] = n.items[p] /\ p < q
      BY <1>2, <3>1, <3>2
    <3> QED
      BY <1>5, <3>3 DEF Ordered
  <2> QED
    BY <2>1, <2>2, <2>3, <2>4, <2>5
<1>6. ASSUME Ordered(m.items) PROVE Ordered(n.items)
  <2> SUFFICES ASSUME NEW i \in 1 .. Len(n.items), NEW o \in 1 .. Len(n.items), i < o
               PROVE  n.items[i].key < n.items[o].key
    BY DEF Ordered
  <2>1. CASE o < s
    <3>1. /\ i \in 1 .. Len(m.items) /\ m.items[i] = n.items[i]
          /\ o \in 1 .. Len(m.items) /\ m.items[o] = n.items[o]
      BY <1>2, <2>1
    <3> QED
      BY <1>6, <3>1 DEF Ordered
  <2>2. CASE i < s /\ o >= s
    <3>1. /\ i \in 1 .. Len(m.items) /\ m.items[i] = n.items[i]
          /\ o + 1 \in 1 .. Len(m.items) /\ m.items[o + 1] = n.items[o] /\ i < o + 1
      BY <1>2, <2>2
    <3> QED
      BY <1>6, <3>1 DEF Ordered
  <2>3. CASE i >= s
    <3>1. /\ i + 1 \in 1 .. Len(m.items) /\ m.items[i + 1] = n.items[i]
          /\ o + 1 \in 1 .. Len(m.items) /\ m.items[o + 1] = n.items[o] /\ i + 1 < o + 1
      BY <1>2, <2>3
    <3> QED
      BY <1>6, <3>1 DEF Ordered
  <2> QED
    BY <2>1, <2>2, <2>3
<1>7. ASSUME Ordered(m.items) PROVE Parts(n.items, s, x.key)
  <2> SUFFICES ASSUME NEW i \in 1 .. Len(n.items)
               PROVE  /\ i < s => n.items[i].key < x.key
                      /\ i >= s => x.key < n.items[i].key
    BY DEF Parts
  <2>1. CASE i < s
    BY <1>2, <1>7, <2>1 DEF Ordered
  <2>2. CASE i >= s
    <3>1. i + 1 \in 1 .. Len(m.items) /\ m.items[i + 1] = n.items[i] /\ s < i + 1
      BY <1>2, <2>2
    <3> QED
      BY <1>2, <1>7, <2>2, <3>1 DEF Ordered
  <2> QED
    BY <2>1, <2>2
<1> QED
  BY <1>5, <1>6, <1>7

LEMMA PlaceNamed ==
  ASSUME NEW m, NEW n, NEW s \in Nat \ {0}, NEW x, NEW b, Names(m, n, s, x, b),
         s <= Len(n.items) + 1, IntKeys(m.items), IntKeys(n.items),
         NEW k \in Int, NEW i \in Nat \ {0}
  PROVE  /\ i <= s /\ Parts(n.items, i, k) /\ k < x.key => Parts(m.items, i, k)
         /\ i >= s /\ Parts(n.items, i, k) /\ x.key < k => Parts(m.items, i + 1, k)
         /\ i <= s /\ Parts(m.items, i, k) => Parts(n.items, i, k) /\ k < x.key
         /\ i >= s /\ Parts(m.items, i + 1, k) => Parts(n.items, i, k) /\ x.key < k
<1>0. OneItemMore(m, n, s, x)
  BY NamesPositions
<1>1. /\ x.key \in Int /\ s \in 1 .. Len(m.items) /\ m.items[s] = x
      /\ \A o \in 1 .. Len(n.items) :
           /\ o < s => o \in 1 .. Len(m.items) /\ m.items[o] = n.items[o]
           /\ o >= s => o + 1 \in 1 .. Len(m.items) /\ m.items[o + 1] = n.items[o]
  BY <1>0 DEF OneItemMore
<1>2. \A o \in 1 .. Len(m.items) :
        \/ o < s /\ o \in 1 .. Len(n.items)
        \/ o = s
        \/ \E q \in 1 .. Len(n.items) : q >= s /\ o = q + 1
  BY <1>0 DEF OneItemMore
<1>3. ASSUME i <= s, Parts(n.items, i, k), k < x.key PROVE Parts(m.items, i, k)
  <2> SUFFICES ASSUME NEW o \in 1 .. Len(m.items)
               PROVE  /\ o < i => m.items[o].key < k
                      /\ o >= i => k < m.items[o].key
    BY DEF Parts
  <2>1. CASE o < s /\ o \in 1 .. Len(n.items)
    BY <1>1, <1>3, <2>1 DEF Parts
  <2>2. CASE o = s
    BY <1>1, <1>3, <2>2
  <2>3. ASSUME NEW q \in 1 .. Len(n.items), q >= s, o = q + 1
        PROVE  ~(o < i) /\ k < m.items[o].key
    <3>1. ~(o < i) /\ q >= i /\ m.items[o] = n.items[q]
      BY <1>1, <1>3, <2>3
    <3> QED
      BY <1>3, <3>1 DEF Parts
  <2> QED
    BY <1>2, <2>1, <2>2, <2>3
<1>4. ASSUME i >= s, Parts(n.items, i, k), x.key < k PROVE Parts(m.items, i + 1, k)
  <2> SUFFICES ASSUME NEW o \in 1 .. Len(m.items)
               PROVE  /\ o < i + 1 => m.items[o].key < k
                      /\ o >= i + 1 => k < m.items[o].key
    BY DEF Parts
  <2>1. CASE o < s /\ o \in 1 .. Len(n.items)
    <3>1. o < i /\ o < i + 1 /\ ~(o >= i + 1) /\ m.items[o] = n.items[o]
      BY <1>1, <1>4, <2>1
    <3> QED
      BY <1>4, <2>1, <3>1 DEF Parts
  <2>2. CASE o = s
    BY <1>1, <1>4, <2>2
  <2>3. ASSUME NEW q \in 1 .. Len(n.items), q >= s, o = q + 1
        PROVE  /\ o < i + 1 => m.items[o].key < k
               /\ o >= i + 1 => k < m.items[o].key
    <3>1. (o < i + 1 <=> q < i) /\ (o >= i + 1 <=> q >= i) /\ m.items[o] = n.items[q]
      BY <1>1, <1>4, <2>3
    <3> QED
      BY <1>4, <3>1 DEF Parts
  <2> QED
    BY <1>2, <2>1, <2>2, <2>3
<1>5. ASSUME i <= s, Parts(m.items, i, k) PROVE Parts(n.items, i, k) /\ k < x.key
  <2>1. k < x.key
    BY <1>1, <1>5 DEF Parts
  <2>2. ASSUME NEW o \in 1 .. Len(n.items)
        PROVE  /\ o < i => n.items[o].key < k
               /\ o >= i => k < n.items[o].key
    <3>1. CASE o < s
      BY <1>1, <1>5, <3>1 DEF Parts
    <3>2. CASE o >= s
      <4>1. o + 1 \in 1 .. Len(m.items) /\ m.items[o + 1] = n.items[o] /\ o + 1 >= i /\ ~(o < i)
        BY <1>1, <1>5, <3>2
      <4> QED
        BY <1>5, <4>1 DEF Parts
    <3> QED
      BY <3>1, <3>2
  <2> QED
    BY <2>1, <2>2 DEF Parts
<1>6. ASSUME i >= s, Parts(m.items, i + 1, k) PROVE Parts(n.items, i, k) /\ x.key < k
  <2> DEFINE v == i + 1
  <2>0. v \in Nat /\ Parts(m.items, v, k) /\ s < v /\ v = i + 1
    BY <1>6
  <2> HIDE DEF v
  <2>1. x.key < k
    BY <1>1, <2>0 DEF Parts
  <2>2. ASSUME NEW o \in 1 .. Len(n.items)
        PROVE  /\ o < i => n.items[o].key < k
               /\ o >= i => k < n.items[o].key
    <3>1. CASE o < s
      <4>1. o < v /\ ~(o >= i) /\ o \in 1 .. Len(m.items) /\ m.items[o] = n.items[o]
        BY <1>1, <1>6, <2>0, <3>1
      <4> QED
        BY <2>0, <4>1 DEF Parts
    <3>2. CASE o >= s
      <4> DEFINE u == o + 1
      <4>1. u \in 1 .. Len(m.items) /\ m.items[u] = n.items[o] /\ (u < v <=> o < i) /\ (u >= v <=> o >= i)
        BY <1>1, <2>0, <3>2
      <4> HIDE DEF u
      <4> QED
        BY <2>0, <4>1 DEF Parts
    <3> QED
      BY <3>1, <3>2
  <2> QED
    BY <2>1, <2>2 DEF Parts
<1> QED
  BY <1>3, <1>4, <1>5, <1>6

LEMMA PlaceUnnamedBelow ==
  ASSUME NEW m, NEW n, NEW s \in Nat \ {0}, NEW x, NEW b, Names(m, n, s, x, b),
         s <= Len(n.items) + 1, IntKeys(m.items), IntKeys(n.items),
         NEW k \in Int, NEW i \in Nat \ {0}, i <= s, Parts(m.items, i, k)
  PROVE  Parts(n.items, i, k) /\ k < x.key
  BY PlaceNamed

LEMMA PlaceUnnamedAbove ==
  ASSUME NEW m, NEW n, NEW s \in Nat \ {0}, NEW x, NEW b, Names(m, n, s, x, b),
         s <= Len(n.items) + 1, IntKeys(m.items), IntKeys(n.items),
         NEW k \in Int, NEW i \in Nat \ {0}, i >= s, Parts(m.items, i + 1, k)
  PROVE  Parts(n.items, i, k) /\ x.key < k
  BY PlaceNamed

LEMMA ItemKeysAreInts ==
  ASSUME NEW items \in Seq(Item)
  PROVE  IntKeys(items)
<1>1. Len(items) \in Nat /\ \A i \in 1 .. Len(items) : items[i] \in Item
  BY LenProperties, ElementOfSeq
<1> QED
  BY <1>1, KeysAreInts DEF IntKeys

-----------------------------------------------------------------------------
\* The order of the tree.

IsOrderedAt(f, c, p) ==
  /\ c[p].keys \subseteq Int
  /\ Ordered(f[p].items)
  /\ \A i \in 1 .. Len(f[p].items) : f[p].items[i].key \in c[p].keys
  /\ \A i \in 1 .. Len(f[p].children) : \A k \in c[f[p].children[i]].keys :
       k \in c[p].keys /\ Parts(f[p].items, i, k)

LEMMA OrderOfPages ==
  ASSUME NEW f, NEW c
  PROVE  IsOrderedWith(f, c) <=> \A p \in DOMAIN c : IsOrderedAt(f, c, p)
  BY DEF IsOrderedWith, IsOrderedAt

\* A key in a child is one of its parent's, at the child's place.
LEMMA KeyOfChild ==
  ASSUME NEW f, NEW c, IsOrderedWith(f, c), NEW p \in DOMAIN c,
         NEW i \in 1 .. Len(f[p].children), NEW q, f[p].children[i] = q, NEW k \in c[q].keys
  PROVE  k \in c[p].keys /\ k \in Int /\ Parts(f[p].items, i, k)
  BY DEF IsOrderedWith

\* Key k of page p belongs to its child i.
KeyIsBelow(f, c, p, i, k) ==
  k \in c[p].keys /\ k \in Int /\ Parts(f[p].items, i, k)

LEMMA KeyBelow ==
  ASSUME NEW f, NEW c, IsOrderedWith(f, c), NEW p \in DOMAIN c,
         NEW i \in 1 .. Len(f[p].children), NEW q, f[p].children[i] = q, NEW k \in c[q].keys
  PROVE  KeyIsBelow(f, c, p, i, k)
  BY KeyOfChild DEF KeyIsBelow

LEMMA KeyOfItem ==
  ASSUME NEW f, NEW c, IsOrderedWith(f, c), NEW p \in DOMAIN c,
         NEW i \in 1 .. Len(f[p].items)
  PROVE  f[p].items[i].key \in c[p].keys /\ f[p].items[i].key \in Int
  BY DEF IsOrderedWith

LEMMA DividedOrder ==
  ASSUME NEW j, NEW r, NEW c, NEW h \in Nat, IsTreeWith(j, r, c, h), IsOrderedWith(j, c),
         NEW p \in DOMAIN c, NEW s \in 1 .. Len(j[p].children),
         NEW a, j[p].children[s] = a, NEW b, b \notin DOMAIN c,
         NEW g, \A q \in DOMAIN c \ {p, a} : g[q] = j[q],
         \A q \in {p, a, b} : g[q] \in StoredNodes(DOMAIN c \union {b}),
         NEW x, Divides(j, g, p, a, b, s, x)
  PROVE  IsOrderedWith(g, Divided(c, r, p, a, b, s, Len(g[a].children), x.key))
<1> DEFINE n == Len(g[a].children)
           k == x.key
           d == Divided(c, r, p, a, b, s, n, k)
           T == DOMAIN c
<1>1. /\ DOMAIN d = T \union {b}
      /\ d[b].keys = {l \in c[a].keys : k < l}
      /\ \A q \in T : d[q].keys = IF q = a THEN {l \in c[a].keys : l < k} ELSE c[q].keys
  BY DEF Divided
<1>0. Len(g[a].items) \in Nat /\ Len(g[b].items) \in Nat
  <2>1. g[a].items \in Seq(Item) /\ g[b].items \in Seq(Item)
    BY DEF StoredNodes
  <2> QED
    BY <2>1, LenProperties
<1> HIDE DEF d
<1>2. a \in T \ {r} /\ c[a].depth = c[p].depth + 1 /\ a # b /\ p # b
  BY ChildOfTree
<1>3. a # p
  <2>1. c[p].depth \in Int
    BY NodeOfTree
  <2> QED
    BY <1>2, <2>1
<1>4. /\ Joins(j[a], g[a], x, g[b]) /\ Names(g[p], j[p], s, x, b)
  BY DEF Divides
<1>5. /\ IntKeys(j[a].items) /\ IntKeys(j[p].items)
      /\ IntKeys(g[a].items) /\ IntKeys(g[p].items) /\ IntKeys(g[b].items)
  <2>1. \A q \in {a, p, b} : g[q].items \in Seq(Item)
    BY DEF StoredNodes
  <2>2. j[a].items \in Seq(Item) /\ j[p].items \in Seq(Item)
    BY <1>2, NodeOfTree
  <2> QED
    BY <2>1, <2>2, ItemKeysAreInts
<1>6. /\ s \in Nat \ {0} /\ s <= Len(j[p].items) + 1 /\ Len(j[p].children) \in Nat
      /\ n \in Nat /\ Len(g[b].children) \in Nat
      /\ n # 0 => n = Len(g[a].items) + 1
      /\ n # 0 <=> Len(g[b].children) # 0
      /\ Len(j[a].children) = n + Len(g[b].children)
      /\ Len(g[p].children) = Len(j[p].children) + 1
  <2>1. /\ Len(j[p].children) \in Nat /\ Len(j[p].items) \in Nat
        /\ Len(j[p].children) # 0 => Len(j[p].children) = Len(j[p].items) + 1
    BY NodeOfTree
  <2>2. /\ g[a].children \in Seq(T \union {b}) /\ IsShaped(g[a])
        /\ g[b].children \in Seq(T \union {b})
    BY DEF StoredNodes
  <2>3. /\ Len(g[a].children) \in Nat /\ Len(g[b].children) \in Nat
        /\ is_leaf(g[a]) <=> Len(g[a].children) = 0
    BY <2>2, LenProperties, EmptySeq DEF is_leaf
  <2> QED
    BY <1>4, <2>1, <2>2, <2>3 DEF Joins, Names, IsShaped
<1> HIDE DEF n
<1>7. Ordered(j[a].items) /\ Ordered(j[p].items) /\ c[a].keys \subseteq Int /\ c[p].keys \subseteq Int
  BY <1>2 DEF IsOrderedWith
<1>8. /\ Ordered(g[a].items) /\ Ordered(g[b].items)
      /\ AllBelow(g[a].items, k) /\ AllAbove(g[b].items, k)
  BY <1>4, <1>5, <1>7, ApartInOrder
<1>9. /\ k \in Int /\ k \in c[a].keys
      /\ \A i \in 1 .. Len(g[a].items) : g[a].items[i].key \in c[a].keys
      /\ \A i \in 1 .. Len(g[b].items) : g[b].items[i].key \in c[a].keys
  <2>1. InARow(j[a], g[a], x, g[b])
    BY <1>4, <1>5, JoinedInARow
  <2>2. \A i \in 1 .. Len(j[a].items) : j[a].items[i].key \in c[a].keys
    BY <1>2 DEF IsOrderedWith
  <2> QED
    BY <2>1, <2>2 DEF InARow
<1>10. k \in c[p].keys /\ Parts(j[p].items, s, k)
  BY <1>9, KeyOfChild
<1>11. Ordered(g[p].items)
  BY <1>4, <1>5, <1>6, <1>7, <1>10, NamedInOrder
<1>12. ASSUME NEW q \in T, q # a, q # p PROVE IsOrderedAt(g, d, q)
  <2>1. g[q] = j[q] /\ d[q].keys = c[q].keys
    BY <1>1, <1>12
  <2>2. ASSUME NEW i \in 1 .. Len(g[q].children), NEW l \in d[g[q].children[i]].keys
        PROVE  l \in d[q].keys /\ Parts(g[q].items, i, l)
    <3>1. g[q].children[i] \in T
      BY <2>1, NodeOfTree
    <3>2. l \in c[g[q].children[i]].keys
      BY <1>1, <2>2, <3>1
    <3> QED
      BY <2>1, <3>2, KeyOfChild
  <2> QED
    BY <2>1, <2>2 DEF IsOrderedAt, IsOrderedWith
<1>13. IsOrderedAt(g, d, a)
  <2>1. d[a].keys = {l \in c[a].keys : l < k}
    BY <1>1, <1>2
  <2>2. ASSUME NEW i \in 1 .. n, NEW l \in d[g[a].children[i]].keys
        PROVE  l \in d[a].keys /\ Parts(g[a].items, i, l)
    <3>0. i \in Nat /\ i \in 1 .. Len(j[a].children) /\ i <= Len(g[a].items) + 1
      <4>1. n \in Nat
        BY <1>6
      <4>2. i \in Nat /\ 1 <= i /\ i <= n /\ n # 0
        BY <4>1
      <4>3. i \in 1 .. Len(j[a].children)
        <5>1. Len(g[b].children) \in Nat /\ Len(j[a].children) = n + Len(g[b].children)
          BY <1>6
        <5> QED
          BY <4>1, <4>2, <5>1
      <4>4. n = Len(g[a].items) + 1
        BY <1>6, <4>2
      <4> QED
        BY <4>2, <4>3, <4>4
    <3>1. g[a].children[i] = j[a].children[i]
      BY <1>4 DEF Joins, n
    <3>2. g[a].children[i] \in T /\ c[g[a].children[i]].depth = c[a].depth + 1
      BY <1>2, <3>0, <3>1, ChildOfTree
    <3>3. l \in c[g[a].children[i]].keys
      BY <1>1, <2>2, <3>2
    <3>4. l \in c[a].keys /\ l \in Int /\ Parts(j[a].items, i, l)
      BY <1>2, <3>0, <3>1, <3>3, KeyOfChild
    <3>5. Parts(g[a].items, i, l) /\ l < k
      BY <1>4, <1>5, <3>0, <3>4, PlaceApart
    <3> QED
      BY <2>1, <3>4, <3>5
  <2>3. \A i \in 1 .. Len(g[a].items) : g[a].items[i].key \in d[a].keys
    BY <1>8, <1>9, <2>1 DEF AllBelow
  <2> QED
    BY <1>7, <1>8, <2>1, <2>2, <2>3 DEF IsOrderedAt, n
<1>14. IsOrderedAt(g, d, b)
  <2>2. ASSUME NEW i \in 1 .. Len(g[b].children), NEW l \in d[g[b].children[i]].keys
        PROVE  l \in d[b].keys /\ Parts(g[b].items, i, l)
    <3> DEFINE m == n + i
    <3>7. Len(g[b].children) # 0
      BY <1>6
    <3>0. i \in Nat /\ i # 0 /\ m = Len(g[a].items) + 1 + i
      <4>1. n = Len(g[a].items) + 1
        BY <1>6, <3>7
      <4> QED
        BY <1>6, <4>1
    <3>9. m \in 1 .. Len(j[a].children)
      BY <1>6
    <3>1. g[b].children[i] = j[a].children[m]
      BY <1>4 DEF Joins, n
    <3> HIDE DEF m
    <3>2. g[b].children[i] \in T /\ c[g[b].children[i]].depth = c[a].depth + 1
      BY <1>2, <3>9, <3>1, ChildOfTree
    <3>3. l \in c[g[b].children[i]].keys
      BY <1>1, <2>2, <3>2
    <3>4. l \in c[a].keys /\ l \in Int /\ Parts(j[a].items, m, l)
      BY <1>2, <3>9, <3>1, <3>3, KeyOfChild
    <3>6. Parts(j[a].items, Len(g[a].items) + 1 + i, l)
      BY <3>0, <3>4
    <3>8. /\ Joins(j[a], g[a], x, g[b]) /\ IntKeys(j[a].items)
          /\ IntKeys(g[a].items) /\ IntKeys(g[b].items) /\ l \in Int /\ i \in Nat
      BY <1>4, <1>5, <3>0, <3>4
    <3>5. Parts(g[b].items, i, l) /\ k < l
      BY <3>0, <3>6, <3>8, PlaceAbove
    <3> QED
      BY <1>1, <3>4, <3>5
  <2>3. \A i \in 1 .. Len(g[b].items) : g[b].items[i].key \in d[b].keys
    BY <1>1, <1>8, <1>9 DEF AllAbove
  <2> QED
    BY <1>1, <1>7, <1>8, <2>2, <2>3 DEF IsOrderedAt
<1>15. IsOrderedAt(g, d, p)
  <2>1. d[p].keys = c[p].keys
    BY <1>1, <1>3
  <2>2. ASSUME NEW i \in 1 .. Len(g[p].children), NEW l \in d[g[p].children[i]].keys
        PROVE  l \in d[p].keys /\ Parts(g[p].items, i, l)
    <3>1. CASE i < s
      <4>1. i \in 1 .. Len(j[p].children) /\ i \in 1 .. s /\ i \in Nat \ {0} /\ i <= s
        BY <1>6, <3>1
      <4>2. g[p].children[i] = j[p].children[i]
        BY <1>4, <4>1 DEF Names
      <4>3. g[p].children[i] \in T /\ c[g[p].children[i]].at = i /\ c[a].at = s
        BY <4>1, <4>2, ChildOfTree
      <4>4. l \in c[g[p].children[i]].keys
        BY <1>1, <2>2, <4>3
      <4>5. l \in c[p].keys /\ l \in Int /\ Parts(j[p].items, i, l)
        BY <4>1, <4>2, <4>4, KeyOfChild
      <4>6. l < k
        <5>1. s - 1 \in 1 .. Len(j[p].items) /\ s - 1 >= i /\ s - 1 < s
          BY <1>5, <1>6, <3>1 DEF IntKeys
        <5> DEFINE o == s - 1
        <5>2. o \in 1 .. Len(j[p].items) /\ o >= i /\ o < s
          BY <5>1
        <5> HIDE DEF o
        <5>3. l < j[p].items[o].key /\ j[p].items[o].key < k
          BY <1>10, <4>5, <5>2 DEF Parts
        <5>4. j[p].items[o].key \in Int
          BY <1>5, <5>2 DEF IntKeys
        <5> QED
          BY <1>9, <4>5, <5>3, <5>4
      <4>7. Parts(g[p].items, i, l)
        BY <1>4, <1>5, <1>6, <4>1, <4>5, <4>6, PlaceNamed
      <4> QED
        BY <2>1, <4>5, <4>7
    <3>2. CASE i = s
      <4>0. s \in 1 .. s
        BY <1>6
      <4>1. g[p].children[i] = a
        BY <1>4, <3>2, <4>0 DEF Names
      <4>2. l \in c[a].keys /\ l < k
        BY <1>1, <1>2, <2>2, <4>1
      <4>3. l \in c[p].keys /\ l \in Int /\ Parts(j[p].items, s, l)
        BY <4>2, KeyOfChild
      <4>4. s <= s
        BY <1>6
      <4>5. Parts(g[p].items, s, l)
        BY <1>4, <1>5, <1>6, <4>2, <4>3, <4>4, PlaceNamed
      <4> QED
        BY <2>1, <3>2, <4>3, <4>5
    <3>3. CASE i = s + 1
      <4>1. g[p].children[i] = b
        BY <1>4, <3>3 DEF Names
      <4>2. l \in c[a].keys /\ k < l
        BY <1>1, <2>2, <4>1
      <4>3. l \in c[p].keys /\ l \in Int /\ Parts(j[p].items, s, l)
        BY <4>2, KeyOfChild
      <4>4. s >= s
        BY <1>6
      <4>5. Parts(g[p].items, s + 1, l)
        BY <1>4, <1>5, <1>6, <4>2, <4>3, <4>4, PlaceNamed
      <4> QED
        BY <2>1, <3>3, <4>3, <4>5
    <3>4. CASE i > s + 1
      <4> DEFINE m == i - 1
      <4>1. /\ m \in 1 .. Len(j[p].children) /\ i \in s + 2 .. Len(g[p].children)
            /\ m \in Nat \ {0} /\ m > s /\ m >= s /\ m + 1 = i
        BY <1>6, <3>4
      <4>2. g[p].children[i] = j[p].children[m]
        BY <1>4, <4>1 DEF Names
      <4> HIDE DEF m
      <4>3. g[p].children[i] \in T /\ c[g[p].children[i]].at = m /\ c[a].at = s
        <5>1. IsChild(c, r, p, m, g[p].children[i])
          BY <4>1, <4>2, ChildAt, Zenon
        <5>2. IsChild(c, r, p, s, a)
          BY ChildAt
        <5> QED
          BY <5>1, <5>2 DEF IsChild
      <4>4. l \in c[g[p].children[i]].keys
        BY <1>1, <1>6, <2>2, <4>1, <4>3
      <4>5. l \in c[p].keys /\ l \in Int /\ Parts(j[p].items, m, l)
        <5>1. KeyIsBelow(j, c, p, m, l)
          BY <4>1, <4>2, <4>4, KeyBelow, Zenon
        <5> QED
          BY <5>1 DEF KeyIsBelow
      <4>6. k < l
        <5>1. s \in 1 .. Len(j[p].items)
          <6>1. Len(j[p].children) = Len(j[p].items) + 1 /\ Len(j[p].items) \in Nat
            BY <1>6, NodeOfTree
          <6> QED
            BY <1>6, <4>1, <6>1
        <5>2. s >= s
          BY <1>6
        <5>3. j[p].items[s].key < l /\ k < j[p].items[s].key
          BY <1>10, <4>1, <4>5, <5>1, <5>2 DEF Parts
        <5>4. j[p].items[s].key \in Int
          BY <1>5, <5>1 DEF IntKeys
        <5> QED
          BY <1>9, <4>5, <5>3, <5>4
      <4>7. Parts(g[p].items, m + 1, l)
        BY <1>4, <1>5, <1>6, <4>1, <4>5, <4>6, PlaceNamed
      <4> QED
        BY <2>1, <4>1, <4>5, <4>7
    <3>5. i \in Int /\ s \in Int
      BY <1>6
    <3>6. i < s \/ i = s \/ i = s + 1 \/ i > s + 1
      BY <3>5
    <3> QED
      BY <3>1, <3>2, <3>3, <3>4, <3>6
  <2>3. \A i \in 1 .. Len(g[p].items) : g[p].items[i].key \in c[p].keys
    <3> TAKE i \in 1 .. Len(g[p].items)
    <3>0. OneItemMore(g[p], j[p], s, x)
      BY <1>4, <1>5, <1>6, NamesPositions
    <3>1. \A o \in 1 .. Len(j[p].items) : j[p].items[o].key \in c[p].keys
      BY DEF IsOrderedWith
    <3>2. \/ g[p].items[i] = x
          \/ \E o \in 1 .. Len(j[p].items) : g[p].items[i] = j[p].items[o]
      BY <3>0 DEF OneItemMore
    <3> QED
      BY <1>10, <3>1, <3>2
  <2> QED
    BY <1>7, <1>11, <2>1, <2>2, <2>3 DEF IsOrderedAt
<1>16. \A q \in DOMAIN d : IsOrderedAt(g, d, q)
  BY <1>1, <1>12, <1>13, <1>14, <1>15
<1>17. IsOrderedWith(g, d)
  BY <1>16, OrderOfPages
<1> QED
  BY <1>17 DEF d, n, k

LEMMA JoinedOrder ==
  ASSUME NEW g, NEW r, NEW c, NEW h \in Nat, IsTreeWith(g, r, c, h), IsOrderedWith(g, c),
         NEW p \in DOMAIN c, NEW s, s \in 1 .. Len(g[p].children) - 1,
         NEW a, g[p].children[s] = a, NEW b, g[p].children[s + 1] = b,
         NEW j, \A q \in DOMAIN c \ {p, a, b} : j[q] = g[q],
         \A q \in {p, a} : j[q] \in StoredNodes(DOMAIN c \ {b}),
         NEW x, Divides(j, g, p, a, b, s, x)
  PROVE  IsOrderedWith(j, Joined(c, r, p, a, b, s, Len(g[a].children), x.key))
<1> DEFINE n == Len(g[a].children)
           k == x.key
           d == Joined(c, r, p, a, b, s, n, k)
           T == DOMAIN c
<1>1. /\ DOMAIN d = T \ {b}
      /\ \A q \in T \ {b} :
           d[q].keys = IF q = a THEN c[a].keys \union {k} \union c[b].keys ELSE c[q].keys
  BY DEF Joined
<1> HIDE DEF d
<1>2. /\ s \in Nat \ {0} /\ s + 1 <= Len(g[p].children) /\ s < s + 1 /\ s <= s /\ s >= s
      /\ Len(g[p].children) \in Nat /\ Len(g[p].items) \in Nat
      /\ Len(g[p].children) = Len(g[p].items) + 1
      /\ s \in 1 .. Len(g[p].children) /\ s + 1 \in 1 .. Len(g[p].children)
      /\ s \in 1 .. Len(g[p].items)
  <2>1. /\ Len(g[p].children) \in Nat /\ Len(g[p].items) \in Nat
        /\ Len(g[p].children) # 0 => Len(g[p].children) = Len(g[p].items) + 1
    BY NodeOfTree
  <2> QED
    BY <2>1
<1>3. /\ a \in T \ {r} /\ c[a].up = p /\ c[a].at = s /\ c[a].depth = c[p].depth + 1
      /\ b \in T \ {r} /\ c[b].up = p /\ c[b].at = s + 1 /\ c[b].depth = c[p].depth + 1
  <2>1. a \in T \ {r} /\ c[a].up = p /\ c[a].at = s /\ c[a].depth = c[p].depth + 1
    BY <1>2, ChildOfTree
  <2>2. b \in T \ {r} /\ c[b].up = p /\ c[b].at = s + 1 /\ c[b].depth = c[p].depth + 1
    BY <1>2, ChildOfTree
  <2> QED
    BY <2>1, <2>2
<1>4. a # p /\ b # p /\ a # b /\ p \in T \ {b} /\ a \in T \ {b}
  <2>1. c[p].depth \in Int /\ s # s + 1
    BY <1>2, NodeOfTree
  <2> QED
    BY <1>3, <2>1
<1>5. /\ Joins(j[a], g[a], x, g[b]) /\ Names(g[p], j[p], s, x, b)
  BY DEF Divides
<1>6. /\ IntKeys(j[a].items) /\ IntKeys(j[p].items)
      /\ IntKeys(g[a].items) /\ IntKeys(g[p].items) /\ IntKeys(g[b].items)
  <2>1. \A q \in {a, p} : j[q].items \in Seq(Item)
    BY DEF StoredNodes
  <2>2. g[a].items \in Seq(Item) /\ g[b].items \in Seq(Item) /\ g[p].items \in Seq(Item)
    <3>1. g[a].items \in Seq(Item)
      BY <1>3, NodeOfTree
    <3>2. g[b].items \in Seq(Item)
      BY <1>3, NodeOfTree
    <3>3. g[p].items \in Seq(Item)
      BY NodeOfTree
    <3> QED
      BY <3>1, <3>2, <3>3
  <2> QED
    BY <2>1, <2>2, ItemKeysAreInts
<1>7. /\ n \in Nat /\ Len(g[b].children) \in Nat /\ Len(j[p].children) \in Nat
      /\ Len(g[a].items) \in Nat /\ Len(j[p].items) \in Nat
      /\ n # 0 => n = Len(g[a].items) + 1
      /\ n # 0 <=> Len(g[b].children) # 0
      /\ Len(j[a].children) = n + Len(g[b].children)
      /\ Len(g[p].children) = Len(j[p].children) + 1
      /\ Len(g[p].items) = Len(j[p].items) + 1
      /\ s <= Len(j[p].items) + 1
  <2>1. /\ Len(g[a].children) \in Nat /\ Len(g[a].items) \in Nat
        /\ Len(g[a].children) # 0 => Len(g[a].children) = Len(g[a].items) + 1
        /\ Len(g[b].children) \in Nat
    BY <1>3, NodeOfTree
  <2>2. Len(j[p].children) \in Nat
    BY LenProperties DEF StoredNodes
  <2>3. Len(j[p].items) \in Nat
    BY <1>6 DEF IntKeys
  <2>4. /\ Len(g[a].children) # 0 <=> Len(g[b].children) # 0
        /\ Len(j[a].children) = Len(g[a].children) + Len(g[b].children)
        /\ Len(g[p].children) = Len(j[p].children) + 1
        /\ Len(g[p].items) = Len(j[p].items) + 1
    BY <1>5 DEF Joins, Names
  <2> QED
    BY <1>2, <2>1, <2>2, <2>3, <2>4
<1> HIDE DEF n
<1>8. /\ Ordered(g[a].items) /\ Ordered(g[b].items) /\ Ordered(g[p].items)
      /\ c[a].keys \subseteq Int /\ c[b].keys \subseteq Int /\ c[p].keys \subseteq Int
      /\ \A i \in 1 .. Len(g[a].items) : g[a].items[i].key \in c[a].keys
      /\ \A i \in 1 .. Len(g[b].items) : g[b].items[i].key \in c[b].keys
      /\ \A i \in 1 .. Len(g[p].items) : g[p].items[i].key \in c[p].keys
  BY <1>3 DEF IsOrderedWith
<1>9. Ordered(j[p].items) /\ Parts(j[p].items, s, k)
  BY <1>2, <1>5, <1>6, <1>7, <1>8, NamedInOrder
<1>10. k \in c[p].keys /\ k \in Int
  <2>1. g[p].items[s] = x
    BY <1>5 DEF Names
  <2> QED
    BY <1>2, <1>8, <2>1
<1>20. /\ Names(g[p], j[p], s, x, b) /\ IntKeys(g[p].items) /\ IntKeys(j[p].items)
       /\ s \in Nat \ {0} /\ s <= Len(j[p].items) + 1 /\ s <= s /\ s >= s
  BY <1>2, <1>5, <1>6, <1>7
<1>11. ASSUME NEW l \in c[a].keys
       PROVE  l \in c[p].keys /\ l \in Int /\ Parts(j[p].items, s, l) /\ l < k
  <2>1. l \in c[p].keys /\ l \in Int /\ Parts(g[p].items, s, l)
    BY <1>2, KeyOfChild
  <2> QED
    BY <1>20, <2>1, PlaceUnnamedBelow
<1>12. ASSUME NEW l \in c[b].keys
       PROVE  l \in c[p].keys /\ l \in Int /\ Parts(j[p].items, s, l) /\ k < l
  <2>1. l \in c[p].keys /\ l \in Int /\ Parts(g[p].items, s + 1, l)
    BY <1>2, KeyOfChild
  <2> QED
    BY <1>20, <2>1, PlaceUnnamedAbove
<1>13. AllBelow(g[a].items, k) /\ AllAbove(g[b].items, k)
  BY <1>8, <1>11, <1>12 DEF AllBelow, AllAbove
<1>14. Ordered(j[a].items)
  BY <1>5, <1>6, <1>8, <1>13, TogetherInOrder
<1>15. ASSUME NEW q \in T \ {b}, q # a, q # p PROVE IsOrderedAt(j, d, q)
  <2>1. j[q] = g[q] /\ d[q].keys = c[q].keys
    BY <1>1, <1>15
  <2>2. ASSUME NEW i \in 1 .. Len(j[q].children), NEW l \in d[j[q].children[i]].keys
        PROVE  l \in d[q].keys /\ Parts(j[q].items, i, l)
    <3>1. j[q].children[i] \in T /\ c[j[q].children[i]].up = q
      BY <2>1, ChildOfTree
    <3>2. j[q].children[i] \in T \ {b} /\ j[q].children[i] # a
      BY <1>3, <1>15, <3>1
    <3>3. l \in c[j[q].children[i]].keys
      BY <1>1, <2>2, <3>2
    <3> QED
      BY <2>1, <3>3, KeyOfChild
  <2> QED
    BY <2>1, <2>2 DEF IsOrderedAt, IsOrderedWith
<1>16. IsOrderedAt(j, d, a)
  <2>1. d[a].keys = c[a].keys \union {k} \union c[b].keys
    BY <1>1, <1>4
  <2>2. ASSUME NEW i \in 1 .. Len(j[a].children), NEW l \in d[j[a].children[i]].keys
        PROVE  l \in d[a].keys /\ Parts(j[a].items, i, l)
    <3>1. CASE i <= n
      <4>0. n # 0 /\ i \in Nat /\ i \in 1 .. n
        BY <1>7, <3>1
      <4>1. i <= Len(g[a].items) + 1
        BY <1>7, <4>0
      <4>2. j[a].children[i] = g[a].children[i] /\ i \in 1 .. Len(g[a].children)
        BY <1>5, <4>0 DEF Joins, n
      <4>3. j[a].children[i] \in T /\ c[j[a].children[i]].up = a
        BY <1>3, <4>2, ChildOfTree
      <4>4. j[a].children[i] \in T \ {b} /\ j[a].children[i] # a
        BY <1>3, <1>4, <4>3
      <4>5. l \in c[j[a].children[i]].keys
        BY <1>1, <2>2, <4>4
      <4>6. l \in c[a].keys /\ l \in Int /\ Parts(g[a].items, i, l)
        BY <1>3, <4>2, <4>5, KeyOfChild
      <4>7. l < k
        BY <1>11, <4>6
      <4>8. Parts(j[a].items, i, l)
        BY <1>5, <1>6, <1>13, <4>0, <4>1, <4>6, <4>7, PlaceTogetherBelow
      <4> QED
        BY <2>1, <4>6, <4>8
    <3>2. CASE i > n
      <4> DEFINE m == i - n
      <4>0. m \in 1 .. Len(g[b].children) /\ i = n + m /\ m \in Nat /\ m # 0
        BY <1>7, <3>2
      <4> HIDE DEF m
      <4>1. i = Len(g[a].items) + 1 + m
        <5>1. Len(g[b].children) # 0
          BY <1>7, <4>0
        <5>2. n = Len(g[a].items) + 1
          BY <1>7, <5>1
        <5> QED
          BY <4>0, <5>2
      <4>2. j[a].children[i] = g[b].children[m]
        BY <1>5, <4>0 DEF Joins, n
      <4>3. j[a].children[i] \in T /\ c[j[a].children[i]].up = b
        BY <1>3, <4>0, <4>2, ChildOfTree
      <4>4. j[a].children[i] \in T \ {b} /\ j[a].children[i] # a
        BY <1>3, <1>4, <4>3
      <4>5. l \in c[j[a].children[i]].keys
        BY <1>1, <2>2, <4>4
      <4>6. l \in c[b].keys /\ l \in Int /\ Parts(g[b].items, m, l)
        BY <1>3, <4>0, <4>2, <4>5, KeyOfChild
      <4>7. k < l
        BY <1>12, <4>6
      <4>8. Parts(j[a].items, Len(g[a].items) + 1 + m, l)
        BY <1>5, <1>6, <1>13, <4>0, <4>6, <4>7, PlaceTogetherAbove
      <4> QED
        BY <2>1, <4>1, <4>6, <4>8
    <3> QED
      BY <1>7, <3>1, <3>2
  <2>3. \A i \in 1 .. Len(j[a].items) : j[a].items[i].key \in d[a].keys
    <3> TAKE i \in 1 .. Len(j[a].items)
    <3>1. InARow(j[a], g[a], x, g[b])
      BY <1>5, <1>6, JoinedInARow
    <3>2. \/ \E o \in 1 .. Len(g[a].items) : j[a].items[i] = g[a].items[o]
          \/ j[a].items[i] = x
          \/ \E o \in 1 .. Len(g[b].items) : j[a].items[i] = g[b].items[o]
      <4> DEFINE l == Len(g[a].items)
      <4>1. /\ i \in 1 .. l \/ i = l + 1 \/ \E o \in 1 .. Len(g[b].items) : i = l + 1 + o
            /\ \A o \in 1 .. l : j[a].items[o] = g[a].items[o]
            /\ j[a].items[l + 1] = x
            /\ \A o \in 1 .. Len(g[b].items) : j[a].items[l + 1 + o] = g[b].items[o]
        BY <3>1 DEF InARow
      <4>2. l = Len(g[a].items)
        OBVIOUS
      <4> HIDE DEF l
      <4>3. ASSUME NEW o \in 1 .. Len(g[b].items), i = l + 1 + o
            PROVE  j[a].items[i] = g[b].items[o]
        BY <4>1, <4>3
      <4>4. CASE i \in 1 .. l
        BY <4>1, <4>2, <4>4
      <4> QED
        BY <4>1, <4>3, <4>4
    <3> QED
      BY <1>8, <2>1, <3>2
  <2> QED
    BY <1>8, <1>10, <1>14, <2>1, <2>2, <2>3 DEF IsOrderedAt
<1>17. IsOrderedAt(j, d, p)
  <2>1. d[p].keys = c[p].keys
    BY <1>1, <1>4
  <2>2. ASSUME NEW i \in 1 .. Len(j[p].children), NEW l \in d[j[p].children[i]].keys
        PROVE  l \in d[p].keys /\ Parts(j[p].items, i, l)
    <3>1. CASE i < s
      <4>1. i \in 1 .. Len(g[p].children) /\ i \in 1 .. s /\ i \in Nat \ {0} /\ i <= s
            /\ i # s /\ i # s + 1
        BY <1>2, <1>7, <3>1
      <4>2. j[p].children[i] = g[p].children[i]
        BY <1>5, <4>1 DEF Names
      <4>3. j[p].children[i] \in T /\ c[j[p].children[i]].at = i
        <5>1. IsChild(c, r, p, i, j[p].children[i])
          BY <4>1, <4>2, ChildAt, Zenon
        <5> QED
          BY <5>1 DEF IsChild
      <4>4. l \in c[j[p].children[i]].keys
        <5>1. j[p].children[i] # a /\ j[p].children[i] # b
          BY <1>3, <4>1, <4>3
        <5> QED
          BY <1>1, <2>2, <4>3, <5>1
      <4>5. l \in c[p].keys /\ l \in Int /\ Parts(g[p].items, i, l)
        <5>1. KeyIsBelow(g, c, p, i, l)
          BY <4>1, <4>2, <4>4, KeyBelow, Zenon
        <5> QED
          BY <5>1 DEF KeyIsBelow
      <4>6. Parts(j[p].items, i, l)
        <5>1. i \in Nat \ {0} /\ i <= s
          BY <4>1
        <5>2. l \in Int /\ Parts(g[p].items, i, l)
          BY <4>5
        <5> QED
          BY <1>20, <5>1, <5>2, PlaceUnnamedBelow
      <4> QED
        BY <2>1, <4>5, <4>6
    <3>2. CASE i = s
      <4>0. s \in 1 .. s
        BY <1>2
      <4>1. j[p].children[i] = a
        BY <1>5, <3>2, <4>0 DEF Names
      <4>2. l \in c[a].keys \/ l = k \/ l \in c[b].keys
        BY <1>1, <1>4, <2>2, <4>1
      <4> QED
        BY <1>9, <1>10, <1>11, <1>12, <2>1, <3>2, <4>2
    <3>3. CASE i > s
      <4> DEFINE m == i + 1
      <4>1. /\ m \in 1 .. Len(g[p].children) /\ m \in s + 2 .. Len(g[p].children)
            /\ i \in Nat \ {0} /\ i >= s /\ m - 1 = i /\ m # s /\ m # s + 1
        BY <1>2, <1>7, <3>3
      <4>a. m = i + 1
        OBVIOUS
      <4> HIDE DEF m
      <4>2. j[p].children[i] = g[p].children[m]
        BY <1>5, <4>1 DEF Names
      <4>3. j[p].children[i] \in T /\ c[j[p].children[i]].at = m
        <5>1. m \in 1 .. Len(g[p].children) /\ g[p].children[m] = j[p].children[i]
          BY <4>1, <4>2
        <5>2. IsChild(c, r, p, m, j[p].children[i])
          BY <5>1, ChildAt, Zenon
        <5> QED
          BY <5>2 DEF IsChild
      <4>4. l \in c[j[p].children[i]].keys
        <5>1. j[p].children[i] # a /\ j[p].children[i] # b
          BY <1>3, <4>1, <4>3
        <5> QED
          BY <1>1, <2>2, <4>3, <5>1
      <4>5. l \in c[p].keys /\ l \in Int /\ Parts(g[p].items, m, l)
        <5>1. m \in 1 .. Len(g[p].children) /\ g[p].children[m] = j[p].children[i]
          BY <4>1, <4>2
        <5>2. KeyIsBelow(g, c, p, m, l)
          BY <4>4, <5>1, KeyBelow, Zenon
        <5> QED
          BY <5>2 DEF KeyIsBelow
      <4>6. Parts(g[p].items, i + 1, l)
        BY <4>a, <4>5
      <4>7. Parts(j[p].items, i, l)
        <5>1. i \in Nat \ {0} /\ i >= s
          BY <4>1
        <5>2. l \in Int
          BY <4>5
        <5> QED
          BY <1>20, <4>6, <5>1, <5>2, PlaceUnnamedAbove
      <4> QED
        BY <2>1, <4>5, <4>7
    <3> QED
      BY <1>2, <1>7, <3>1, <3>2, <3>3
  <2>3. \A i \in 1 .. Len(j[p].items) : j[p].items[i].key \in c[p].keys
    <3> TAKE i \in 1 .. Len(j[p].items)
    <3>1. OneItemMore(g[p], j[p], s, x)
      BY <1>2, <1>5, <1>6, <1>7, NamesPositions
    <3>2. i >= s \/ i < s
      BY <1>2, <1>7
    <3>3. \E o \in 1 .. Len(g[p].items) : g[p].items[o] = j[p].items[i]
      BY <3>1, <3>2 DEF OneItemMore
    <3> QED
      BY <1>8, <3>3
  <2> QED
    BY <1>8, <1>9, <2>1, <2>2, <2>3 DEF IsOrderedAt
<1>18. \A q \in DOMAIN d : IsOrderedAt(j, d, q)
  BY <1>1, <1>15, <1>16, <1>17
<1>19. IsOrderedWith(j, d)
  BY <1>18, OrderOfPages
<1> QED
  BY <1>19 DEF d, n, k
-----------------------------------------------------------------------------
\* What the operations on nodes do, in these terms.

IsNode(n, S) == n.items \in Seq(Item) /\ n.children \in Seq(S)

LEMMA ConcatJoins ==
  ASSUME NEW S, NEW n, NEW a, IsNode(a, S), NEW x, x \in Item, NEW b, IsNode(b, S),
         Len(a.children) # 0 <=> Len(b.children) # 0,
         n.items = (a.items \o <<x>>) \o b.items,
         n.children = a.children \o b.children
  PROVE  Joins(n, a, x, b)
<1> DEFINE l == Len(a.items)  lb == Len(b.items)  la == Len(a.children)
           front == a.items \o <<x>>
<1>1. /\ a.items \in Seq(Item) /\ b.items \in Seq(Item) /\ a.children \in Seq(S)
      /\ b.children \in Seq(S)
  BY DEF IsNode
<1>2. /\ l \in Nat /\ la \in Nat /\ lb \in Nat /\ Len(b.children) \in Nat
  BY <1>1, LenProperties
<1>3. <<x>> \in Seq(Item) /\ Len(<<x>>) = 1 /\ <<x>>[1] = x
  BY OneElement
<1>4. /\ front \in Seq(Item) /\ Len(front) = l + Len(<<x>>)
      /\ \A i \in 1 .. l + Len(<<x>>) :
           front[i] = IF i <= l THEN a.items[i] ELSE <<x>>[i - l]
  BY <1>1, <1>3, ConcatProperties
<1> HIDE DEF front
<1>5. /\ Len(front \o b.items) = Len(front) + Len(b.items)
      /\ \A i \in 1 .. Len(front) + Len(b.items) :
           (front \o b.items)[i] = IF i <= Len(front) THEN front[i]
                                   ELSE b.items[i - Len(front)]
  BY <1>1, <1>4, ConcatProperties
<1>6. /\ Len(a.children \o b.children) = la + Len(b.children)
      /\ \A i \in 1 .. la + Len(b.children) :
           (a.children \o b.children)[i] = IF i <= la THEN a.children[i]
                                           ELSE b.children[i - la]
  BY <1>1, ConcatProperties
<1>7. n.items = front \o b.items
  BY DEF front
<1>8. Len(front) = l + 1
  BY <1>3, <1>4
<1>a. \A i \in 1 .. l + 1 + lb :
        (front \o b.items)[i] = IF i <= l + 1 THEN front[i] ELSE b.items[i - (l + 1)]
  BY <1>5, <1>8
<1>b. Len(front \o b.items) = l + 1 + lb
  BY <1>5, <1>8
<1> HIDE DEF l, lb, la
<1>9. /\ Len(n.items) = l + 1 + lb
      /\ \A i \in 1 .. l + 1 + lb :
           n.items[i] = IF i <= l + 1 THEN front[i] ELSE b.items[i - (l + 1)]
  BY <1>7, <1>a, <1>b
<1>10. ASSUME NEW i \in 1 .. l PROVE n.items[i] = a.items[i]
  <2>1. i \in 1 .. l + 1 + lb /\ i <= l + 1 /\ i <= l /\ i \in 1 .. l + 1
    BY <1>2
  <2> QED
    BY <1>3, <1>4, <1>9, <2>1
<1>11. n.items[l + 1] = x
  <2> DEFINE i == l + 1
  <2>1. i \in 1 .. l + 1 + lb /\ i <= l + 1 /\ ~(i <= l) /\ i \in 1 .. l + 1 /\ i - l = 1
    BY <1>2
  <2> HIDE DEF i
  <2>2. n.items[i] = x
    BY <1>3, <1>4, <1>9, <2>1
  <2> QED
    BY <2>2 DEF i
<1>12. ASSUME NEW i \in 1 .. lb PROVE n.items[l + 1 + i] = b.items[i]
  <2>1. l + 1 + i \in 1 .. l + 1 + lb /\ ~(l + 1 + i <= l + 1)
        /\ (l + 1 + i) - (l + 1) = i
    BY <1>2
  <2> QED
    BY <1>9, <2>1
<1>13. ASSUME NEW i \in 1 .. la PROVE n.children[i] = a.children[i]
  <2>1. i \in 1 .. la + Len(b.children) /\ i <= la
    BY <1>2
  <2> QED
    BY <1>6, <2>1
<1>14. ASSUME NEW i \in 1 .. Len(b.children) PROVE n.children[la + i] = b.children[i]
  <2>1. la + i \in 1 .. la + Len(b.children) /\ ~(la + i <= la) /\ (la + i) - la = i
    BY <1>2
  <2> QED
    BY <1>6, <2>1
<1> QED
  BY <1>6, <1>9, <1>10, <1>11, <1>12, <1>13, <1>14 DEF Joins, l, lb, la

\* The parts of a node with the right number of children are both leaves or both not.
LEMMA ConcatLeaves ==
  ASSUME NEW S, NEW n, NEW a, IsNode(a, S), NEW x \in Item, NEW b, IsNode(b, S),
         IsShaped(n), IsShaped(a), IsShaped(b),
         n.items = (a.items \o <<x>>) \o b.items,
         n.children = a.children \o b.children
  PROVE  Len(a.children) # 0 <=> Len(b.children) # 0
<1>1. /\ a.items \in Seq(Item) /\ b.items \in Seq(Item) /\ a.children \in Seq(S)
      /\ b.children \in Seq(S)
  BY DEF IsNode
<1>2. /\ Len(a.items) \in Nat /\ Len(a.children) \in Nat
      /\ Len(b.items) \in Nat /\ Len(b.children) \in Nat
  BY <1>1, LenProperties
<1>3. <<x>> \in Seq(Item) /\ Len(<<x>>) = 1
  BY OneElement
<1>4. a.items \o <<x>> \in Seq(Item) /\ Len(a.items \o <<x>>) = Len(a.items) + 1
  BY <1>1, <1>3, ConcatProperties
<1>5. Len(n.items) = Len(a.items) + 1 + Len(b.items)
  BY <1>1, <1>4, ConcatProperties
<1>6. n.children \in Seq(S) /\ Len(n.children) = Len(a.children) + Len(b.children)
  BY <1>1, ConcatProperties
<1>7. /\ Len(a.children) = 0 \/ Len(a.children) = Len(a.items) + 1
      /\ Len(b.children) = 0 \/ Len(b.children) = Len(b.items) + 1
      /\ Len(n.children) = 0 \/ Len(n.children) = Len(n.items) + 1
  BY <1>1, <1>6, EmptySeq DEF IsShaped, is_leaf
<1> DEFINE ai == Len(a.items)  ac == Len(a.children)
           bi == Len(b.items)  bc == Len(b.children)
<1>8. /\ ai \in Nat /\ ac \in Nat /\ bi \in Nat /\ bc \in Nat
      /\ ac = 0 \/ ac = ai + 1
      /\ bc = 0 \/ bc = bi + 1
      /\ ac + bc = 0 \/ ac + bc = (ai + 1 + bi) + 1
  BY <1>2, <1>5, <1>6, <1>7
<1> HIDE DEF ai, ac, bi, bc
<1>9. ac # 0 <=> bc # 0
  BY <1>8
<1> QED
  BY <1>9 DEF ac, bc

\* Three sequences over S.
InSeq(S, s, t, u) == s \in Seq(S) /\ t \in Seq(S) /\ u \in Seq(S)

LEMMA ConcatRegroups ==
  ASSUME NEW S, NEW s, NEW t, NEW u, InSeq(S, s, t, u)
  PROVE  (s \o t) \o u = s \o (t \o u)
  BY ConcatAssociative DEF InSeq

LEMMA SplitJoins ==
  ASSUME NEW P, NEW S, NEW nd \in NodesOver(P, S), can_spare_an_element(nd),
         IsShaped(nd), NEW parent, NEW slot, NEW new_page, NEW s,
         s = split(parent, nd, slot, new_page)
  PROVE  /\ nd.items[get_split_index(nd)] \in Item
         /\ Joins(nd, s.left, nd.items[get_split_index(nd)], s.right)
         /\ IsShaped(s.left) /\ IsShaped(s.right)
<1> DEFINE up == nd.items[get_split_index(nd)]
<1>1. nd.items \in Seq(Item) /\ nd.children \in Seq(S) /\ Len(nd.items) \in Nat
  BY LenProperties DEF NodesOver
<1>2. up \in Item
  <2>1. get_split_index(nd) \in 1 .. Len(nd.items)
    <3>1. get_split_index(nd) \in 2 .. Len(nd.items)
      BY <1>1, SplitIndexInRange
    <3> QED
      BY <1>1, <3>1
  <2> QED
    BY <1>1, <2>1, ElementOfSeq
<1>3. /\ (s.left.items \o <<up>>) \o s.right.items = nd.items
      /\ s.left.children \o s.right.children = nd.children
      /\ IsShaped(s.left) /\ IsShaped(s.right)
  BY SplitKeepsItems, ZenonT(30)
<1>4. IsNode(s.left, S) /\ IsNode(s.right, S)
  <2>1. [page |-> 0, items |-> <<>>, children |-> <<new_page>>]
          \in NodesOver({0}, S \union {new_page})
    BY DEF NodesOver
  <2>2. split([page |-> 0, items |-> <<>>, children |-> <<new_page>>], nd, 1, new_page).left
          = s.left
    BY DEF split
  <2>3. split([page |-> 0, items |-> <<>>, children |-> <<new_page>>], nd, 1, new_page).right
          = s.right
    BY DEF split
  <2> DEFINE e == [page |-> 0, items |-> <<>>, children |-> <<new_page>>]
  <2>4. e \in NodesOver({0}, S \union {new_page}) /\ Len(e.items) = 0 /\ Len(e.children) = 1
    BY <2>1
  <2>5. split(e, nd, 1, new_page).left = s.left /\ split(e, nd, 1, new_page).right = s.right
    BY <2>2, <2>3
  <2> HIDE DEF e
  <2>6. /\ split(e, nd, 1, new_page).left \in NodesOver(P, S)
        /\ split(e, nd, 1, new_page).right \in NodesOver({new_page}, S)
    <3>1. is_leaf(nd) \/ Len(nd.children) = Len(nd.items) + 1
      BY DEF IsShaped
    <3>2. S \subseteq S \union {new_page} /\ new_page \in S \union {new_page}
          /\ 1 \in Nat \ {0} /\ 1 <= Len(e.items) + 1 /\ 1 <= Len(e.children)
      BY <2>4
    <3> QED
      BY <2>4, <3>1, <3>2, SplitTypes
  <2> QED
    BY <2>5, <2>6 DEF NodesOver, IsNode
<1> HIDE DEF up
<1>5. Len(s.left.children) # 0 <=> Len(s.right.children) # 0
  BY <1>2, <1>3, <1>4, ConcatLeaves
<1>6. Joins(nd, s.left, up, s.right)
  BY <1>2, <1>3, <1>4, <1>5, ConcatJoins
<1> QED
  BY <1>2, <1>3, <1>6 DEF up

HasInserted(r, s, i, e) ==
  /\ Len(r) = Len(s) + 1
  /\ \A j \in 1 .. i - 1 : r[j] = s[j]
  /\ r[i] = e
  /\ \A j \in i + 1 .. Len(s) + 1 : r[j] = s[j - 1]

LEMMA InsertAtHasInserted ==
  ASSUME NEW S, NEW s \in Seq(S), NEW i \in 1 .. Len(s) + 1, NEW e \in S
  PROVE  HasInserted(InsertAt(s, i, e), s, i, e)
  BY InsertAtProperties DEF HasInserted

LEMMA AddedNames ==
  ASSUME NEW T, NEW n, IsNode(n, T), NEW x \in Item, NEW b \in T,
         NEW s, s \in 1 .. Len(n.children), Len(n.children) = Len(n.items) + 1,
         NEW m, m.items = InsertAt(n.items, s, x), m.children = InsertAt(n.children, s + 1, b)
  PROVE  Names(m, n, s, x, b)
<1>1. n.items \in Seq(Item) /\ n.children \in Seq(T) /\ Len(n.items) \in Nat
      /\ Len(n.children) \in Nat
  BY LenProperties DEF IsNode
<1>2. s \in 1 .. Len(n.items) + 1
  BY <1>1
<1> DEFINE t == s + 1
<1>3. t \in 1 .. Len(n.children) + 1 /\ t - 1 = s /\ t + 1 = s + 2
  BY <1>1
<1>4. /\ Len(m.items) = Len(n.items) + 1
      /\ \A i \in 1 .. s - 1 : m.items[i] = n.items[i]
      /\ m.items[s] = x
      /\ \A i \in s + 1 .. Len(n.items) + 1 : m.items[i] = n.items[i - 1]
  <2>1. HasInserted(m.items, n.items, s, x)
    BY <1>1, <1>2, InsertAtHasInserted
  <2> QED
    BY <2>1 DEF HasInserted
<1>5. t = s + 1
  OBVIOUS
<1> HIDE DEF t
<1>6. m.children = InsertAt(n.children, t, b)
  BY <1>5
<1>7. /\ Len(m.children) = Len(n.children) + 1
      /\ \A i \in 1 .. t - 1 : m.children[i] = n.children[i]
      /\ m.children[t] = b
      /\ \A i \in t + 1 .. Len(n.children) + 1 : m.children[i] = n.children[i - 1]
  <2>1. HasInserted(m.children, n.children, t, b)
    BY <1>1, <1>3, <1>6, InsertAtHasInserted
  <2> QED
    BY <2>1 DEF HasInserted
<1> QED
  BY <1>3, <1>4, <1>5, <1>7 DEF Names

LEMMA RemovedNames ==
  ASSUME NEW T, NEW m, IsNode(m, T), Len(m.children) = Len(m.items) + 1,
         NEW s, s \in 1 .. Len(m.items),
         NEW n, n.items = RemoveAt(m.items, s), n.children = RemoveAt(m.children, s + 1)
  PROVE  Names(m, n, s, m.items[s], m.children[s + 1])
<1>1. m.items \in Seq(Item) /\ m.children \in Seq(T) /\ Len(m.items) \in Nat
      /\ Len(m.children) \in Nat
  BY LenProperties DEF IsNode
<1> DEFINE t == s + 1
<1>3. t \in 1 .. Len(m.children) /\ t - 1 = s /\ t + 1 = s + 2 /\ s \in Nat /\ t \in Nat
  BY <1>1
<1>5. t = s + 1
  OBVIOUS
<1> HIDE DEF t
<1>4. /\ n.items \in Seq(Item) /\ Len(n.items) = Len(m.items) - 1
      /\ \A i \in 1 .. s - 1 : n.items[i] = m.items[i]
      /\ \A i \in s .. Len(m.items) - 1 : n.items[i] = m.items[i + 1]
  <2>1. s \in 1 .. Len(m.items)
    OBVIOUS
  <2> QED
    BY <1>1, <2>1, RemoveAtProperties, RemoveAtElements, ZenonT(30)
<1>6. n.children = RemoveAt(m.children, t)
  BY <1>5
<1>7. /\ n.children \in Seq(T) /\ Len(n.children) = Len(m.children) - 1
      /\ \A i \in 1 .. t - 1 : n.children[i] = m.children[i]
      /\ \A i \in t .. Len(m.children) - 1 : n.children[i] = m.children[i + 1]
  BY <1>1, <1>3, <1>6, RemoveAtProperties, RemoveAtElements, ZenonT(30)
<1>8. ASSUME NEW i \in s + 1 .. Len(m.items) PROVE m.items[i] = n.items[i - 1]
  <2>1. i - 1 \in s .. Len(m.items) - 1 /\ (i - 1) + 1 = i
    BY <1>1, <1>3
  <2> QED
    BY <1>4, <2>1
<1>9. ASSUME NEW i \in s + 2 .. Len(m.children) PROVE m.children[i] = n.children[i - 1]
  <2>1. i - 1 \in t .. Len(m.children) - 1 /\ (i - 1) + 1 = i
    BY <1>1, <1>3, <1>5
  <2> QED
    BY <1>7, <2>1
<1>10. ASSUME NEW i \in 1 .. s PROVE m.children[i] = n.children[i]
  BY <1>3, <1>7
<1>11. ASSUME NEW i \in 1 .. s - 1 PROVE m.items[i] = n.items[i]
  BY <1>4
<1>12. Len(m.items) = Len(n.items) + 1 /\ Len(m.children) = Len(n.children) + 1
  BY <1>1, <1>4, <1>7
<1> QED
  BY <1>8, <1>9, <1>10, <1>11, <1>12 DEF Names

\* Another item in its place.
LEMMA ReplacedNames ==
  ASSUME NEW m, NEW n, NEW s, s \in 1 .. Len(m.items), NEW x, NEW b, Names(m, n, s, x, b),
         m.items \in Seq(Item), NEW y \in Item,
         NEW q, q.items = [m.items EXCEPT ![s] = y], q.children = m.children
  PROVE  Names(q, n, s, y, b)
<1>1. Len(m.items) \in Nat /\ m.items \in [1 .. Len(m.items) -> Item]
  BY LenProperties
<1>2. q.items \in [1 .. Len(m.items) -> Item] /\ q.items[s] = y
      /\ \A i \in 1 .. Len(m.items) : i # s => q.items[i] = m.items[i]
  BY <1>1
<1>3. q.items \in Seq(Item)
  BY <1>1, <1>2, SeqDef
<1>4. Len(q.items) = Len(m.items)
  BY <1>1, <1>2, <1>3, LenProperties
<1>5. ASSUME NEW i \in 1 .. s - 1 PROVE i \in 1 .. Len(m.items) /\ i # s
  BY <1>1
<1>6. ASSUME NEW i \in s + 1 .. Len(m.items) PROVE i \in 1 .. Len(m.items) /\ i # s
  BY <1>1
<1> QED
  BY <1>2, <1>4, <1>5, <1>6 DEF Names

Merges(m, parent, a, b, s) ==
  /\ parent.items[s] \in Item
  /\ Joins(m.a, a, parent.items[s], b)
  /\ Names(parent, m.parent, s, parent.items[s], parent.children[s + 1])
  /\ m.a.items = (a.items \o <<parent.items[s]>>) \o b.items
  /\ m.a.children = a.children \o b.children
  /\ IsShaped(m.a) /\ IsShaped(m.parent)

LEMMA MergeJoins ==
  ASSUME NEW PA, NEW PB, NEW PP, NEW S,
         NEW a \in NodesOver(PA, S), NEW b \in NodesOver(PB, S), IsShaped(a), IsShaped(b),
         is_leaf(a) <=> is_leaf(b),
         NEW parent \in NodesOver(PP, S), Len(parent.children) = Len(parent.items) + 1,
         NEW s, s \in 1 .. Len(parent.items),
         NEW m, m = merge(parent, a, b, s + 1)
  PROVE  Merges(m, parent, a, b, s)
<1> DEFINE x == parent.items[s]
<1>1. IsNode(a, S) /\ IsNode(b, S) /\ IsNode(parent, S)
  BY DEF NodesOver, IsNode
<1>2. /\ a.items \in Seq(Item) /\ b.items \in Seq(Item) /\ parent.items \in Seq(Item)
      /\ a.children \in Seq(S) /\ b.children \in Seq(S) /\ parent.children \in Seq(S)
      /\ Len(parent.items) \in Nat /\ Len(parent.children) \in Nat
      /\ Len(a.items) \in Nat /\ Len(b.items) \in Nat
      /\ Len(a.children) \in Nat /\ Len(b.children) \in Nat
  BY <1>1, LenProperties DEF IsNode
<1>3. x \in Item
  BY <1>2, ElementOfSeq
<1>4. (s + 1) - 1 = s /\ s + 1 \in 1 .. Len(parent.children)
  BY <1>2
<1>5. /\ m.a.items = Append(a.items, x) \o b.items
      /\ m.a.children = IF is_leaf(a) THEN a.children ELSE a.children \o b.children
      /\ m.parent.items = RemoveAt(parent.items, s)
      /\ m.parent.children = RemoveAt(parent.children, s + 1)
  BY <1>4 DEF merge, NodesOver
<1>6. m.a.children = a.children \o b.children
  <2>1. CASE is_leaf(a)
    <3>1. a.children = <<>> /\ b.children = <<>>
      BY <2>1 DEF is_leaf
    <3>2. a.children \o b.children = a.children
      BY <1>2, <3>1, ConcatEmptySeq
    <3> QED
      BY <1>5, <2>1, <3>2
  <2> QED
    BY <1>5, <2>1
<1> HIDE DEF x
<1>7. m.a.items = (a.items \o <<x>>) \o b.items
  BY <1>2, <1>3, <1>5, AppendIsConcat
<1>8. Len(a.children) # 0 <=> Len(b.children) # 0
  BY <1>2, EmptySeq DEF is_leaf
<1>9. Joins(m.a, a, x, b)
  BY <1>1, <1>3, <1>6, <1>7, <1>8, ConcatJoins
<1>10. Names(parent, m.parent, s, x, parent.children[s + 1])
  BY <1>1, <1>5, RemovedNames DEF x
<1>11. IsShaped(m.a)
  <2>1. /\ Len(m.a.items) = Len(a.items) + 1 + Len(b.items)
        /\ Len(m.a.children) = Len(a.children) + Len(b.children)
    BY <1>9 DEF Joins
  <2>2. m.a.children \in Seq(S)
    BY <1>2, <1>6, ConcatProperties
  <2>3. /\ Len(a.children) = 0 \/ Len(a.children) = Len(a.items) + 1
        /\ Len(b.children) = 0 \/ Len(b.children) = Len(b.items) + 1
    BY <1>2, EmptySeq DEF IsShaped, is_leaf
  <2>4. Len(m.a.children) = 0 \/ Len(m.a.children) = Len(m.a.items) + 1
    <3> DEFINE ai == Len(a.items)  ac == Len(a.children)
               bi == Len(b.items)  bc == Len(b.children)
    <3>1. /\ ai \in Nat /\ ac \in Nat /\ bi \in Nat /\ bc \in Nat
          /\ ac = 0 \/ ac = ai + 1
          /\ bc = 0 \/ bc = bi + 1
          /\ ac # 0 <=> bc # 0
      BY <1>2, <1>8, <2>3
    <3> HIDE DEF ai, ac, bi, bc
    <3>2. ac + bc = 0 \/ ac + bc = (ai + 1 + bi) + 1
      BY <3>1
    <3> QED
      BY <2>1, <3>2 DEF ai, ac, bi, bc
  <2> QED
    BY <2>2, <2>4, EmptySeq DEF IsShaped, is_leaf
<1>12. IsShaped(m.parent)
  <2>1. Len(parent.items) = Len(m.parent.items) + 1 /\ Len(parent.children) = Len(m.parent.children) + 1
    BY <1>10 DEF Names
  <2>2. m.parent.items \in Seq(Item) /\ m.parent.children \in Seq(S)
    BY <1>2, <1>4, <1>5, RemoveAtProperties
  <2>3. Len(m.parent.items) \in Nat /\ Len(m.parent.children) \in Nat
    BY <2>2, LenProperties
  <2> QED
    BY <2>1, <2>3, SMTT(30) DEF IsShaped
<1> QED
  BY <1>3, <1>6, <1>7, <1>9, <1>10, <1>11, <1>12 DEF x, Merges

LEMMA RotateRightJoins ==
  ASSUME NEW PA, NEW PB, NEW PP, NEW S,
         NEW a \in NodesOver(PA, S), NEW b \in NodesOver(PB, S), IsShaped(a), IsShaped(b),
         is_leaf(a) <=> is_leaf(b), a.items # <<>>,
         NEW parent \in NodesOver(PP, S), Len(parent.children) = Len(parent.items) + 1,
         NEW s, s \in 1 .. Len(parent.items),
         NEW m, m = merge(parent, a, b, s + 1),
         NEW r, r = rotate_right(a, parent, b, s + 1)
  PROVE  /\ Last(a.items) \in Item
         /\ Joins(m.a, r.a, Last(a.items), r.b)
         /\ Names(r.parent, m.parent, s, Last(a.items), parent.children[s + 1])
         /\ r.parent.children = parent.children
         /\ IsShaped(r.a) /\ IsShaped(r.b) /\ IsShaped(r.parent)
<1> DEFINE x == parent.items[s]
           y == Last(a.items)
<1>1. IsNode(a, S) /\ IsNode(b, S) /\ IsNode(parent, S)
  BY DEF NodesOver, IsNode
<1>2. /\ a.items \in Seq(Item) /\ b.items \in Seq(Item) /\ parent.items \in Seq(Item)
      /\ a.children \in Seq(S) /\ b.children \in Seq(S) /\ parent.children \in Seq(S)
      /\ Len(parent.items) \in Nat /\ Len(a.items) \in Nat /\ Len(a.children) \in Nat
      /\ Len(b.items) \in Nat /\ Len(b.children) \in Nat
  BY <1>1, LenProperties DEF IsNode
<1>3. x \in Item /\ <<x>> \in Seq(Item) /\ Len(<<x>>) = 1
  BY <1>2, ElementOfSeq, OneElement
<1>4. (s + 1) - 1 = s
  BY <1>2
<1>5. /\ r.a.items = Front(a.items)
      /\ r.a.children = IF is_leaf(a) THEN a.children ELSE Front(a.children)
      /\ r.b.items = <<x>> \o b.items
      /\ r.b.children = IF is_leaf(a) THEN b.children
                        ELSE <<Last(a.children)>> \o b.children
      /\ r.parent.items = [parent.items EXCEPT ![s] = y]
      /\ r.parent.children = parent.children
  BY <1>4 DEF rotate_right, NodesOver
<1>6. /\ Joins(m.a, a, x, b) /\ Names(parent, m.parent, s, x, parent.children[s + 1])
      /\ m.a.items = (a.items \o <<x>>) \o b.items
      /\ m.a.children = a.children \o b.children
  <2>1. Merges(m, parent, a, b, s)
    BY MergeJoins
  <2> QED
    BY <2>1 DEF Merges
<1>7. /\ Len(a.items) \in Nat \ {0} /\ Front(a.items) \in Seq(Item)
      /\ Len(Front(a.items)) = Len(a.items) - 1 /\ y \in Item
      /\ a.items = Front(a.items) \o <<y>>
  BY <1>2, FrontProperties
<1> HIDE DEF x, y
<1>8. <<y>> \in Seq(Item) /\ r.b.items \in Seq(Item) /\ Len(r.b.items) = 1 + Len(b.items)
  <2>1. b.items \in Seq(Item) /\ x \in Item /\ y \in Item
    BY <1>2, <1>3, <1>7
  <2>2. <<x>> \o b.items \in Seq(Item) /\ Len(<<x>> \o b.items) = 1 + Len(b.items)
    BY <2>1, ConcatThree
  <2> QED
    BY <1>5, <2>1, <2>2, OneElement
<1>9. m.a.items = (r.a.items \o <<y>>) \o r.b.items
  <2>1. (a.items \o <<x>>) \o b.items = a.items \o (<<x>> \o b.items)
    <3>1. a.items \in Seq(Item) /\ b.items \in Seq(Item) /\ x \in Item
      BY <1>2, <1>3
    <3> DEFINE e == <<x>>  u == a.items  v == b.items
    <3>5. e \in Seq(Item) /\ u \in Seq(Item) /\ v \in Seq(Item)
      BY <3>1, OneElement
    <3> HIDE DEF e, u, v
    <3>6. (u \o e) \o v = u \o (e \o v)
      <4>1. InSeq(Item, u, e, v)
        BY <3>5 DEF InSeq
      <4> QED
        BY <4>1, ConcatRegroups
    <3> QED
      BY <3>6 DEF e, u, v
  <2> QED
    BY <1>5, <1>6, <1>7, <2>1
<1>10. /\ m.a.children = r.a.children \o r.b.children
       /\ r.a.children \in Seq(S) /\ r.b.children \in Seq(S)
       /\ Len(r.a.children) # 0 <=> Len(r.b.children) # 0
       /\ IsShaped(r.a) /\ IsShaped(r.b)
  <2>1. CASE is_leaf(a)
    <3>1. r.a.children = a.children /\ r.b.children = b.children
      BY <1>5, <2>1
    <3>2. a.children = <<>> /\ b.children = <<>>
      BY <2>1 DEF is_leaf
    <3> QED
      BY <1>2, <1>6, <3>1, <3>2 DEF IsShaped, is_leaf
  <2>2. CASE ~is_leaf(a)
    <3>1. /\ Front(a.children) \in Seq(S) /\ Len(Front(a.children)) = Len(a.children) - 1
          /\ Last(a.children) \in S /\ a.children = Front(a.children) \o <<Last(a.children)>>
      BY <1>2, <2>2, FrontProperties DEF is_leaf
    <3> DEFINE z == Last(a.children)
    <3>2. <<z>> \in Seq(S) /\ Len(<<z>>) = 1
      BY <3>1, OneElement
    <3>3. r.a.children = Front(a.children) /\ r.b.children = <<z>> \o b.children
      BY <1>5, <2>2
    <3> HIDE DEF z
    <3>4. r.b.children \in Seq(S) /\ Len(r.b.children) = 1 + Len(b.children)
      <4>1. b.children \in Seq(S) /\ z \in S
        BY <1>2, <3>1 DEF z
      <4>2. <<z>> \o b.children \in Seq(S) /\ Len(<<z>> \o b.children) = 1 + Len(b.children)
        BY <4>1, ConcatThree
      <4> QED
        BY <3>3, <4>2
    <3>5. (Front(a.children) \o <<z>>) \o b.children = Front(a.children) \o (<<z>> \o b.children)
      <4>1. b.children \in Seq(S) /\ z \in S /\ Front(a.children) \in Seq(S)
        BY <1>2, <3>1 DEF z
      <4> DEFINE e == <<z>>  u == Front(a.children)  v == b.children
      <4>5. e \in Seq(S) /\ u \in Seq(S) /\ v \in Seq(S)
        BY <4>1, OneElement
      <4> HIDE DEF e, u, v
      <4>6. (u \o e) \o v = u \o (e \o v)
        <5>1. InSeq(S, u, e, v)
          BY <4>5 DEF InSeq
        <5> QED
          BY <5>1, ConcatRegroups
      <4> QED
        BY <4>6 DEF e, u, v
    <3>6. m.a.children = r.a.children \o r.b.children
      BY <1>6, <3>1, <3>3, <3>5 DEF z
    <3>7. Len(a.children) = Len(a.items) + 1 /\ Len(b.children) = Len(b.items) + 1
      BY <2>2 DEF IsShaped
    <3>8. Len(r.a.children) = Len(r.a.items) + 1 /\ Len(r.b.children) = Len(r.b.items) + 1
      <4>1. Len(r.a.children) = Len(a.children) - 1 /\ Len(r.a.items) = Len(a.items) - 1
        BY <1>5, <1>7, <3>1, <3>3
      <4>2. /\ Len(a.items) \in Nat \ {0} /\ Len(b.items) \in Nat
            /\ Len(r.b.children) = 1 + Len(b.children) /\ Len(r.b.items) = 1 + Len(b.items)
        BY <1>2, <1>7, <1>8, <3>4
      <4>3. Len(r.a.children) = Len(r.a.items) + 1
        BY <3>7, <4>1, <4>2
      <4>4. Len(r.b.children) = Len(r.b.items) + 1
        BY <3>7, <4>1, <4>2
      <4> QED
        BY <4>3, <4>4
    <3>9. Len(r.a.children) # 0 /\ Len(r.b.children) # 0
      <4>1. Len(r.a.children) = Len(a.children) - 1
        BY <3>1, <3>3
      <4>2. /\ Len(a.items) \in Nat /\ Len(b.items) \in Nat
            /\ Len(a.items) # 0 \/ Len(b.items) # 0
        BY <1>2, <1>7
      <4> QED
        BY <3>4, <3>7, <4>1, <4>2
    <3> QED
      BY <3>1, <3>3, <3>4, <3>6, <3>8, <3>9 DEF IsShaped
  <2> QED
    BY <2>1, <2>2
<1>11. IsNode(r.a, S) /\ IsNode(r.b, S)
  BY <1>5, <1>7, <1>8, <1>10 DEF IsNode
<1>12. Joins(m.a, r.a, y, r.b)
  BY <1>7, <1>9, <1>10, <1>11, ConcatJoins
<1>13. Names(r.parent, m.parent, s, y, parent.children[s + 1])
  BY <1>2, <1>5, <1>6, <1>7, ReplacedNames
<1>14. IsShaped(r.parent)
  <2>1. Len(r.parent.items) = Len(parent.items)
    <3>1. Len(r.parent.items) = Len(m.parent.items) + 1 /\ Len(parent.items) = Len(m.parent.items) + 1
      BY <1>6, <1>13 DEF Names
    <3> QED
      BY <3>1
  <2> QED
    BY <1>5, <2>1 DEF IsShaped
<1> QED
  BY <1>5, <1>7, <1>10, <1>12, <1>13, <1>14 DEF y

LEMMA RotateLeftJoins ==
  ASSUME NEW PA, NEW PB, NEW PP, NEW S,
         NEW a \in NodesOver(PA, S), NEW b \in NodesOver(PB, S), IsShaped(a), IsShaped(b),
         is_leaf(a) <=> is_leaf(b), b.items # <<>>,
         NEW parent \in NodesOver(PP, S), Len(parent.children) = Len(parent.items) + 1,
         NEW s, s \in 1 .. Len(parent.items),
         NEW m, m = merge(parent, a, b, s + 1),
         NEW r, r = rotate_left(a, parent, b, s)
  PROVE  /\ Head(b.items) \in Item
         /\ Joins(m.a, r.a, Head(b.items), r.b)
         /\ Names(r.parent, m.parent, s, Head(b.items), parent.children[s + 1])
         /\ r.parent.children = parent.children
         /\ IsShaped(r.a) /\ IsShaped(r.b) /\ IsShaped(r.parent)
<1> DEFINE x == parent.items[s]
           y == Head(b.items)
<1>1. IsNode(a, S) /\ IsNode(b, S) /\ IsNode(parent, S)
  BY DEF NodesOver, IsNode
<1>2. /\ a.items \in Seq(Item) /\ b.items \in Seq(Item) /\ parent.items \in Seq(Item)
      /\ a.children \in Seq(S) /\ b.children \in Seq(S) /\ parent.children \in Seq(S)
      /\ Len(parent.items) \in Nat /\ Len(a.items) \in Nat /\ Len(a.children) \in Nat
      /\ Len(b.items) \in Nat /\ Len(b.children) \in Nat
  BY <1>1, LenProperties DEF IsNode
<1>3. x \in Item /\ <<x>> \in Seq(Item) /\ Len(<<x>>) = 1
  BY <1>2, ElementOfSeq, OneElement
<1>5. /\ r.a.items = Append(a.items, x)
      /\ r.a.children = IF is_leaf(b) THEN a.children ELSE Append(a.children, Head(b.children))
      /\ r.b.items = Tail(b.items)
      /\ r.b.children = IF is_leaf(b) THEN b.children ELSE Tail(b.children)
      /\ r.parent.items = [parent.items EXCEPT ![s] = y]
      /\ r.parent.children = parent.children
  BY DEF rotate_left, NodesOver
<1>6. /\ Joins(m.a, a, x, b) /\ Names(parent, m.parent, s, x, parent.children[s + 1])
      /\ m.a.items = (a.items \o <<x>>) \o b.items
      /\ m.a.children = a.children \o b.children
  <2>1. Merges(m, parent, a, b, s)
    BY MergeJoins
  <2> QED
    BY <2>1 DEF Merges
<1>7. /\ y \in Item /\ Tail(b.items) \in Seq(Item) /\ Len(Tail(b.items)) = Len(b.items) - 1
      /\ b.items = <<y>> \o Tail(b.items) /\ Len(b.items) # 0
  BY <1>2, HeadAndTail, EmptySeq
<1> HIDE DEF x, y
<1>8. /\ <<y>> \in Seq(Item) /\ r.a.items = a.items \o <<x>>
      /\ r.a.items \in Seq(Item) /\ Len(r.a.items) = Len(a.items) + 1
  <2>1. a.items \in Seq(Item) /\ x \in Item /\ y \in Item
    BY <1>2, <1>3, <1>7
  <2>2. /\ a.items \o <<x>> \in Seq(Item) /\ Len(a.items \o <<x>>) = Len(a.items) + 1
        /\ Append(a.items, x) = a.items \o <<x>>
    BY <2>1, ConcatThree
  <2> QED
    BY <1>5, <2>1, <2>2, OneElement
<1>9. m.a.items = (r.a.items \o <<y>>) \o r.b.items
  <2>1. ((a.items \o <<x>>) \o <<y>>) \o Tail(b.items) = (a.items \o <<x>>) \o (<<y>> \o Tail(b.items))
    <3> DEFINE front == a.items \o <<x>>
    <3>1. front \in Seq(Item) /\ Tail(b.items) \in Seq(Item) /\ y \in Item
      BY <1>7, <1>8
    <3> HIDE DEF front
    <3>2. (front \o <<y>>) \o Tail(b.items) = front \o (<<y>> \o Tail(b.items))
      <4> DEFINE e == <<y>>  u == front  v == Tail(b.items)
      <4>5. e \in Seq(Item) /\ u \in Seq(Item) /\ v \in Seq(Item)
        BY <3>1, OneElement
      <4> HIDE DEF e, u, v
      <4>6. (u \o e) \o v = u \o (e \o v)
        <5>1. InSeq(Item, u, e, v)
          BY <4>5 DEF InSeq
        <5> QED
          BY <5>1, ConcatRegroups
      <4> QED
        BY <4>6 DEF e, u, v
    <3> QED
      BY <3>2 DEF front
  <2> QED
    BY <1>5, <1>6, <1>7, <1>8, <2>1
<1>10. /\ m.a.children = r.a.children \o r.b.children
       /\ r.a.children \in Seq(S) /\ r.b.children \in Seq(S)
       /\ Len(r.a.children) # 0 <=> Len(r.b.children) # 0
       /\ IsShaped(r.a) /\ IsShaped(r.b)
  <2>1. CASE is_leaf(b)
    <3>1. r.a.children = a.children /\ r.b.children = b.children
      BY <1>5, <2>1
    <3>2. a.children = <<>> /\ b.children = <<>>
      BY <2>1 DEF is_leaf
    <3> QED
      BY <1>2, <1>6, <3>1, <3>2 DEF IsShaped, is_leaf
  <2>2. CASE ~is_leaf(b)
    <3>1. /\ Head(b.children) \in S
          /\ Tail(b.children) \in Seq(S) /\ Len(Tail(b.children)) = Len(b.children) - 1
          /\ b.children = <<Head(b.children)>> \o Tail(b.children)
      BY <1>2, <2>2, HeadAndTail DEF is_leaf
    <3> DEFINE z == Head(b.children)
    <3>2. <<z>> \in Seq(S) /\ Len(<<z>>) = 1
      BY <3>1, OneElement
    <3>3. r.a.children = a.children \o <<z>> /\ r.b.children = Tail(b.children)
      <4>1. a.children \in Seq(S) /\ z \in S
        BY <1>2, <3>1
      <4>2. Append(a.children, z) = a.children \o <<z>>
        BY <4>1, AppendIsConcat
      <4> QED
        BY <1>5, <2>2, <4>2
    <3> HIDE DEF z
    <3>4. r.a.children \in Seq(S) /\ Len(r.a.children) = Len(a.children) + 1
      <4>1. a.children \in Seq(S) /\ z \in S
        BY <1>2, <3>1 DEF z
      <4>2. a.children \o <<z>> \in Seq(S) /\ Len(a.children \o <<z>>) = Len(a.children) + 1
        BY <4>1, ConcatThree
      <4> QED
        BY <3>3, <4>2
    <3>5. (a.children \o <<z>>) \o Tail(b.children) = a.children \o (<<z>> \o Tail(b.children))
      <4>1. a.children \in Seq(S) /\ z \in S /\ Tail(b.children) \in Seq(S)
        BY <1>2, <3>1 DEF z
      <4> DEFINE e == <<z>>  u == a.children  v == Tail(b.children)
      <4>5. e \in Seq(S) /\ u \in Seq(S) /\ v \in Seq(S)
        BY <4>1, OneElement
      <4> HIDE DEF e, u, v
      <4>6. (u \o e) \o v = u \o (e \o v)
        <5>1. InSeq(S, u, e, v)
          BY <4>5 DEF InSeq
        <5> QED
          BY <5>1, ConcatRegroups
      <4> QED
        BY <4>6 DEF e, u, v
    <3>6. m.a.children = r.a.children \o r.b.children
      BY <1>6, <3>1, <3>3, <3>5 DEF z
    <3>7. Len(a.children) = Len(a.items) + 1 /\ Len(b.children) = Len(b.items) + 1
      BY <2>2 DEF IsShaped
    <3>8. Len(r.a.children) = Len(r.a.items) + 1 /\ Len(r.b.children) = Len(r.b.items) + 1
      <4>1. Len(r.b.children) = Len(b.children) - 1 /\ Len(r.b.items) = Len(b.items) - 1
        BY <1>5, <1>7, <3>1, <3>3
      <4>2. /\ Len(a.items) \in Nat /\ Len(b.items) \in Nat \ {0}
            /\ Len(r.a.children) = Len(a.children) + 1 /\ Len(r.a.items) = Len(a.items) + 1
        BY <1>2, <1>7, <1>8, <3>4
      <4>3. Len(r.a.children) = Len(r.a.items) + 1
        BY <3>7, <4>1, <4>2
      <4>4. Len(r.b.children) = Len(r.b.items) + 1
        BY <3>7, <4>1, <4>2
      <4> QED
        BY <4>3, <4>4
    <3>9. Len(r.a.children) # 0 /\ Len(r.b.children) # 0
      <4>1. Len(r.b.children) = Len(b.children) - 1
        BY <3>1, <3>3
      <4>2. /\ Len(a.items) \in Nat /\ Len(b.items) \in Nat
            /\ Len(a.items) # 0 \/ Len(b.items) # 0
        BY <1>2, <1>7
      <4> QED
        BY <3>4, <3>7, <4>1, <4>2
    <3> QED
      BY <3>1, <3>3, <3>4, <3>6, <3>8, <3>9 DEF IsShaped
  <2> QED
    BY <2>1, <2>2
<1>11. IsNode(r.a, S) /\ IsNode(r.b, S)
  BY <1>5, <1>7, <1>8, <1>10 DEF IsNode
<1>12. Joins(m.a, r.a, y, r.b)
  BY <1>7, <1>9, <1>10, <1>11, ConcatJoins
<1>13. Names(r.parent, m.parent, s, y, parent.children[s + 1])
  BY <1>2, <1>5, <1>6, <1>7, ReplacedNames
<1>14. IsShaped(r.parent)
  <2>1. Len(r.parent.items) = Len(parent.items)
    <3>1. Len(r.parent.items) = Len(m.parent.items) + 1 /\ Len(parent.items) = Len(m.parent.items) + 1
      BY <1>6, <1>13 DEF Names
    <3> QED
      BY <3>1
  <2> QED
    BY <1>5, <2>1 DEF IsShaped
<1> QED
  BY <1>5, <1>7, <1>10, <1>12, <1>13, <1>14 DEF y
-----------------------------------------------------------------------------
\* The items of nodes and trees.

HasItem(n, y) == \E i \in 1 .. Len(n.items) : n.items[i] = y

HoldsItem(f, c, y) == \E p \in DOMAIN c : HasItem(f[p], y)

LEMMA JoinedItems ==
  ASSUME NEW n, NEW a, NEW x, NEW b, Joins(n, a, x, b),
         IntKeys(n.items), IntKeys(a.items), IntKeys(b.items), NEW y
  PROVE  HasItem(n, y) <=> HasItem(a, y) \/ y = x \/ HasItem(b, y)
<1> DEFINE l == Len(a.items)  m == l + 1
<1>1. InARow(n, a, x, b)
  BY JoinedInARow
<1>2. /\ m \in 1 .. Len(n.items)
      /\ \A i \in 1 .. l : i \in 1 .. Len(n.items) /\ n.items[i] = a.items[i]
      /\ n.items[m] = x
      /\ \A i \in 1 .. Len(b.items) : m + i \in 1 .. Len(n.items) /\ n.items[m + i] = b.items[i]
      /\ \A i \in 1 .. Len(n.items) :
           i \in 1 .. l \/ i = m \/ \E o \in 1 .. Len(b.items) : i = m + o
  BY <1>1 DEF InARow
<1>3. l = Len(a.items)
  OBVIOUS
<1> HIDE DEF l, m
<1>4. ASSUME NEW i \in 1 .. Len(n.items), n.items[i] = y
      PROVE  HasItem(a, y) \/ y = x \/ HasItem(b, y)
  <2>1. CASE i \in 1 .. l
    BY <1>2, <1>3, <1>4, <2>1 DEF HasItem
  <2>2. ASSUME NEW o \in 1 .. Len(b.items), i = m + o
        PROVE  HasItem(b, y)
    BY <1>2, <1>4, <2>2 DEF HasItem
  <2> QED
    BY <1>2, <1>4, <2>1, <2>2
<1>5. ASSUME NEW i \in 1 .. Len(b.items), b.items[i] = y PROVE HasItem(n, y)
  BY <1>2, <1>5 DEF HasItem
<1>6. ASSUME HasItem(a, y) PROVE HasItem(n, y)
  BY <1>2, <1>3, <1>6 DEF HasItem
<1>7. ASSUME y = x PROVE HasItem(n, y)
  BY <1>2, <1>7 DEF HasItem
<1> QED
  BY <1>4, <1>5, <1>6, <1>7 DEF HasItem

LEMMA NamedItems ==
  ASSUME NEW m, NEW n, NEW s \in Nat \ {0}, NEW x, NEW b, Names(m, n, s, x, b),
         s <= Len(n.items) + 1, IntKeys(m.items), IntKeys(n.items), NEW y
  PROVE  HasItem(m, y) <=> HasItem(n, y) \/ y = x
<1>1. OneItemMore(m, n, s, x)
  BY NamesPositions
<1>2. ASSUME NEW i \in 1 .. Len(n.items), n.items[i] = y PROVE HasItem(m, y)
  <2>1. CASE i < s
    BY <1>1, <1>2, <2>1 DEF OneItemMore, HasItem
  <2>2. CASE i >= s
    <3> DEFINE o == i + 1
    <3>1. o \in 1 .. Len(m.items) /\ m.items[o] = n.items[i]
      BY <1>1, <2>2 DEF OneItemMore
    <3> HIDE DEF o
    <3> QED
      BY <1>2, <3>1 DEF HasItem
  <2> QED
    BY <2>1, <2>2
<1>3. ASSUME NEW i \in 1 .. Len(m.items), m.items[i] = y PROVE HasItem(n, y) \/ y = x
  <2>1. CASE i < s /\ i \in 1 .. Len(n.items)
    BY <1>1, <1>3, <2>1 DEF OneItemMore, HasItem
  <2>2. CASE i = s
    BY <1>1, <1>3, <2>2 DEF OneItemMore
  <2>3. ASSUME NEW o \in 1 .. Len(n.items), o >= s, i = o + 1
        PROVE  HasItem(n, y)
    <3>1. m.items[o + 1] = n.items[o]
      BY <1>1, <2>3 DEF OneItemMore
    <3> QED
      BY <1>3, <2>3, <3>1 DEF HasItem
  <2> QED
    BY <1>1, <2>1, <2>2, <2>3 DEF OneItemMore
<1>4. ASSUME y = x PROVE HasItem(m, y)
  BY <1>1, <1>4 DEF OneItemMore, HasItem
<1> QED
  BY <1>2, <1>3, <1>4 DEF HasItem
-----------------------------------------------------------------------------
\* A step that changes the tree at and below page p.

Reworks(f, r, c, h, g, d, p) ==
  /\ IsTreeWith(g, r, d, h) /\ IsOrderedWith(g, d)
  /\ \A q \in DOMAIN c : c[q].depth <= c[p].depth => q \in DOMAIN d /\ d[q].depth = c[q].depth
  /\ \A q \in DOMAIN c : c[q].depth < c[p].depth => g[q] = f[q]
  /\ \A y : HoldsItem(f, c, y) <=> HoldsItem(g, d, y)

\* The same, with the pages the tree then has.
Remade(f, r, c, h, g, D, p) == \E d : DOMAIN d = D /\ Reworks(f, r, c, h, g, d, p)

LEMMA ReworksTwice ==
  ASSUME NEW f, NEW r, NEW c, NEW h, NEW g, NEW d, NEW p \in DOMAIN c,
         \A q \in DOMAIN c : c[q].depth \in Int,
         Reworks(f, r, c, h, g, d, p),
         NEW i, NEW e, Reworks(g, r, d, h, i, e, p)
  PROVE  Reworks(f, r, c, h, i, e, p)
<1>1. p \in DOMAIN d /\ d[p].depth = c[p].depth
  BY DEF Reworks
<1>2. IsTreeWith(i, r, e, h) /\ IsOrderedWith(i, e)
  BY DEF Reworks
<1>3. ASSUME NEW q \in DOMAIN c, c[q].depth <= c[p].depth
      PROVE  q \in DOMAIN e /\ e[q].depth = c[q].depth
  <2>1. q \in DOMAIN d /\ d[q].depth = c[q].depth
    BY <1>3 DEF Reworks
  <2>2. d[q].depth <= d[p].depth
    BY <1>1, <1>3, <2>1
  <2> QED
    BY <2>1, <2>2 DEF Reworks
<1>4. ASSUME NEW q \in DOMAIN c, c[q].depth < c[p].depth
      PROVE  i[q] = f[q]
  <2>1. c[q].depth <= c[p].depth
    BY <1>4
  <2>2. q \in DOMAIN d /\ d[q].depth = c[q].depth /\ g[q] = f[q]
    BY <1>4, <2>1 DEF Reworks
  <2>3. d[q].depth < d[p].depth
    BY <1>1, <1>4, <2>2
  <2> QED
    BY <2>2, <2>3 DEF Reworks
<1>5. \A y : HoldsItem(f, c, y) <=> HoldsItem(i, e, y)
  BY DEF Reworks
<1> QED
  BY <1>2, <1>3, <1>4, <1>5 DEF Reworks

LEMMA DivideStep ==
  ASSUME NEW D, NEW f, NEW r, NEW c, NEW h \in Nat, IsTreeWith(f, r, c, h), IsOrderedWith(f, c),
         NEW p \in DOMAIN c, NEW s \in 1 .. Len(f[p].children),
         NEW a, f[p].children[s] = a, NEW b, b \notin DOMAIN c,
         NEW g, \A q \in DOMAIN c \ {p, a} : g[q] = f[q],
         \A q \in {p, a, b} : g[q] \in StoredNodes(DOMAIN c \union {b}),
         NEW x, Divides(f, g, p, a, b, s, x), D = DOMAIN c \union {b}
  PROVE  Remade(f, r, c, h, g, D, p)
<1> DEFINE d == Divided(c, r, p, a, b, s, Len(g[a].children), x.key)
<1>1. IsTreeWith(g, r, d, h)
  BY DividedTree
<1>2. IsOrderedWith(g, d)
  BY DividedOrder
<1>3. DOMAIN d = DOMAIN c \union {b} /\ \A q \in DOMAIN c : d[q].depth = c[q].depth
  BY DEF Divided
<1> HIDE DEF d
<1>4. /\ a \in DOMAIN c /\ a # p /\ p # b /\ a # b
      /\ c[p].depth \in Int /\ c[a].depth = c[p].depth + 1
  <2>1. a \in DOMAIN c /\ c[a].depth = c[p].depth + 1
    BY ChildOfTree
  <2>2. c[p].depth \in Int
    BY NodeOfTree
  <2> QED
    BY <2>1, <2>2
<1>5. \A q \in DOMAIN c : c[q].depth < c[p].depth => g[q] = f[q]
  <2> TAKE q \in DOMAIN c
  <2>1. c[q].depth < c[p].depth => q # p /\ q # a
    BY <1>4
  <2> QED
    BY <2>1
<1>6. ASSUME NEW y PROVE HoldsItem(f, c, y) <=> HoldsItem(g, d, y)
  <2>1. /\ IntKeys(f[a].items) /\ IntKeys(g[a].items) /\ IntKeys(g[b].items)
        /\ IntKeys(f[p].items) /\ IntKeys(g[p].items)
    <3>1. f[a].items \in Seq(Item) /\ f[p].items \in Seq(Item)
      BY <1>4, NodeOfTree
    <3>2. \A q \in {p, a, b} : g[q].items \in Seq(Item)
      BY DEF StoredNodes
    <3> QED
      BY <3>1, <3>2, ItemKeysAreInts
  <2>2. HasItem(f[a], y) <=> HasItem(g[a], y) \/ y = x \/ HasItem(g[b], y)
    BY <2>1, JoinedItems DEF Divides
  <2>3. HasItem(g[p], y) <=> HasItem(f[p], y) \/ y = x
    <3>1. Len(f[p].children) = Len(f[p].items) + 1 /\ Len(f[p].items) \in Nat
      BY NodeOfTree
    <3>2. s \in Nat \ {0} /\ s <= Len(f[p].items) + 1
      BY <3>1
    <3>3. Names(g[p], f[p], s, x, b)
      BY DEF Divides
    <3> QED
      BY <2>1, <3>2, <3>3, NamedItems
  <2>4. \A q \in DOMAIN c \ {p, a} : HasItem(g[q], y) <=> HasItem(f[q], y)
    OBVIOUS
  <2>5. HoldsItem(f, c, y) <=> \/ \E q \in DOMAIN c \ {p, a} : HasItem(f[q], y)
                               \/ HasItem(f[a], y) \/ HasItem(f[p], y)
    BY <1>4 DEF HoldsItem
  <2>6. HoldsItem(g, d, y) <=> \/ \E q \in DOMAIN c \ {p, a} : HasItem(g[q], y)
                               \/ HasItem(g[a], y) \/ HasItem(g[p], y) \/ HasItem(g[b], y)
    BY <1>3, <1>4 DEF HoldsItem
  <2> QED
    BY <2>2, <2>3, <2>4, <2>5, <2>6
<1>7. Reworks(f, r, c, h, g, d, p)
  BY <1>1, <1>2, <1>3, <1>5, <1>6 DEF Reworks
<1> QED
  BY <1>3, <1>7 DEF Remade

LEMMA JoinStep ==
  ASSUME NEW D, NEW g, NEW r, NEW c, NEW h \in Nat, IsTreeWith(g, r, c, h), IsOrderedWith(g, c),
         NEW p \in DOMAIN c, NEW s, s \in 1 .. Len(g[p].children) - 1,
         NEW a, g[p].children[s] = a, NEW b, g[p].children[s + 1] = b,
         NEW j, \A q \in DOMAIN c \ {p, a, b} : j[q] = g[q],
         \A q \in {p, a} : j[q] \in StoredNodes(DOMAIN c \ {b}),
         NEW x, Divides(j, g, p, a, b, s, x), D = DOMAIN c \ {b}
  PROVE  Remade(g, r, c, h, j, D, p)
<1> DEFINE d == Joined(c, r, p, a, b, s, Len(g[a].children), x.key)
<1>1. IsTreeWith(j, r, d, h)
  BY JoinedTree
<1>2. IsOrderedWith(j, d)
  BY JoinedOrder
<1>3. DOMAIN d = DOMAIN c \ {b} /\ \A q \in DOMAIN c \ {b} : d[q].depth = c[q].depth
  BY DEF Joined
<1> HIDE DEF d
<1>4. /\ a \in DOMAIN c /\ b \in DOMAIN c /\ a # p /\ p # b /\ a # b
      /\ c[p].depth \in Int /\ c[a].depth = c[p].depth + 1 /\ c[b].depth = c[p].depth + 1
  <2>1. Len(g[p].children) \in Nat
    BY NodeOfTree
  <2>2. s \in 1 .. Len(g[p].children) /\ s + 1 \in 1 .. Len(g[p].children)
    BY <2>1
  <2>3. a \in DOMAIN c /\ c[a].depth = c[p].depth + 1 /\ c[a].at = s
    BY <2>2, ChildOfTree
  <2>4. b \in DOMAIN c /\ c[b].depth = c[p].depth + 1 /\ c[b].at = s + 1
    BY <2>2, ChildOfTree
  <2>5. c[p].depth \in Int
    BY NodeOfTree
  <2> QED
    BY <2>2, <2>3, <2>4, <2>5
<1>5. \A q \in DOMAIN c :
        /\ c[q].depth < c[p].depth => j[q] = g[q]
        /\ c[q].depth <= c[p].depth => q \in DOMAIN d /\ d[q].depth = c[q].depth
  <2> TAKE q \in DOMAIN c
  <2>1. c[q].depth < c[p].depth => q # p /\ q # a /\ q # b
    BY <1>4
  <2>2. c[q].depth <= c[p].depth => q # b
    BY <1>4
  <2> QED
    BY <1>3, <2>1, <2>2
<1>6. ASSUME NEW y PROVE HoldsItem(g, c, y) <=> HoldsItem(j, d, y)
  <2>1. /\ IntKeys(j[a].items) /\ IntKeys(g[a].items) /\ IntKeys(g[b].items)
        /\ IntKeys(j[p].items) /\ IntKeys(g[p].items)
    <3>1. g[a].items \in Seq(Item) /\ g[p].items \in Seq(Item) /\ g[b].items \in Seq(Item)
      BY <1>4, NodeOfTree
    <3>2. \A q \in {p, a} : j[q].items \in Seq(Item)
      BY DEF StoredNodes
    <3> QED
      BY <3>1, <3>2, ItemKeysAreInts
  <2>2. HasItem(j[a], y) <=> HasItem(g[a], y) \/ y = x \/ HasItem(g[b], y)
    BY <2>1, JoinedItems DEF Divides
  <2>3. HasItem(g[p], y) <=> HasItem(j[p], y) \/ y = x
    <3>1. Len(g[p].children) = Len(g[p].items) + 1 /\ Len(g[p].items) \in Nat
      BY NodeOfTree
    <3>2. Names(g[p], j[p], s, x, b)
      BY DEF Divides
    <3>3. Len(g[p].items) = Len(j[p].items) + 1 /\ Len(j[p].items) \in Nat
      BY <2>1, <3>2 DEF Names, IntKeys
    <3>4. s \in Nat \ {0} /\ s <= Len(j[p].items) + 1
      BY <3>1, <3>3
    <3> QED
      BY <2>1, <3>2, <3>4, NamedItems
  <2>4. \A q \in DOMAIN c \ {p, a, b} : HasItem(j[q], y) <=> HasItem(g[q], y)
    OBVIOUS
  <2>5. HoldsItem(g, c, y) <=> \/ \E q \in DOMAIN c \ {p, a, b} : HasItem(g[q], y)
                               \/ HasItem(g[a], y) \/ HasItem(g[p], y) \/ HasItem(g[b], y)
    BY <1>4 DEF HoldsItem
  <2>6. HoldsItem(j, d, y) <=> \/ \E q \in DOMAIN c \ {p, a, b} : HasItem(j[q], y)
                               \/ HasItem(j[a], y) \/ HasItem(j[p], y)
    BY <1>3, <1>4 DEF HoldsItem
  <2> QED
    BY <2>2, <2>3, <2>4, <2>5, <2>6
<1>7. Reworks(g, r, c, h, j, d, p)
  BY <1>1, <1>2, <1>5, <1>6 DEF Reworks
<1> QED
  BY <1>3, <1>7 DEF Remade

\* What the two lemmas ask for, in a predicate each.
Division(f, r, c, h, p, s, a, b, g, x) ==
  /\ h \in Nat /\ IsTreeWith(f, r, c, h) /\ IsOrderedWith(f, c)
  /\ p \in DOMAIN c /\ s \in 1 .. Len(f[p].children)
  /\ f[p].children[s] = a /\ b \notin DOMAIN c
  /\ \A q \in DOMAIN c \ {p, a} : g[q] = f[q]
  /\ \A q \in {p, a, b} : g[q] \in StoredNodes(DOMAIN c \union {b})
  /\ Divides(f, g, p, a, b, s, x)

Union(g, r, c, h, p, s, a, b, j, x) ==
  /\ h \in Nat /\ IsTreeWith(g, r, c, h) /\ IsOrderedWith(g, c)
  /\ p \in DOMAIN c /\ s \in 1 .. Len(g[p].children) - 1
  /\ g[p].children[s] = a /\ g[p].children[s + 1] = b
  /\ \A q \in DOMAIN c \ {p, a, b} : j[q] = g[q]
  /\ \A q \in {p, a} : j[q] \in StoredNodes(DOMAIN c \ {b})
  /\ Divides(j, g, p, a, b, s, x)

LEMMA DivisionStep ==
  ASSUME NEW f, NEW r, NEW c, NEW h, NEW p, NEW s, NEW a, NEW b, NEW g, NEW x,
         Division(f, r, c, h, p, s, a, b, g, x), NEW D, D = DOMAIN c \union {b}
  PROVE  Remade(f, r, c, h, g, D, p)
  BY DivideStep DEF Division

LEMMA UnionStep ==
  ASSUME NEW g, NEW r, NEW c, NEW h, NEW p, NEW s, NEW a, NEW b, NEW j, NEW x,
         Union(g, r, c, h, p, s, a, b, j, x), NEW D, D = DOMAIN c \ {b}
  PROVE  Remade(g, r, c, h, j, D, p)
  BY JoinStep DEF Union

LEMMA RotateStep ==
  ASSUME NEW f, NEW r, NEW c, NEW h \in Nat, IsTreeWith(f, r, c, h), IsOrderedWith(f, c),
         NEW p \in DOMAIN c, NEW s, s \in 1 .. Len(f[p].children) - 1,
         NEW a, f[p].children[s] = a, NEW b, f[p].children[s + 1] = b,
         NEW J \in StoredNodes(DOMAIN c \ {b}), NEW P \in StoredNodes(DOMAIN c \ {b}),
         NEW x, Joins(J, f[a], x, f[b]), Names(f[p], P, s, x, b),
         NEW g, \A q \in DOMAIN c \ {p, a, b} : g[q] = f[q],
         \A q \in {p, a, b} : g[q] \in StoredNodes(DOMAIN c),
         NEW y, Joins(J, g[a], y, g[b]), Names(g[p], P, s, y, b)
  PROVE  Remade(f, r, c, h, g, DOMAIN c, p)
<1> DEFINE j == [q \in DOMAIN c \ {b} |-> IF q = a THEN J ELSE IF q = p THEN P ELSE f[q]]
<1>1. /\ a \in DOMAIN c /\ b \in DOMAIN c /\ a # p /\ p # b /\ a # b
      /\ Len(f[p].children) \in Nat
  <2>1. Len(f[p].children) \in Nat
    BY NodeOfTree
  <2>2. s \in 1 .. Len(f[p].children) /\ s + 1 \in 1 .. Len(f[p].children)
    BY <2>1
  <2>3. a \in DOMAIN c /\ c[a].depth = c[p].depth + 1 /\ c[a].at = s
    BY <2>2, ChildOfTree
  <2>4. b \in DOMAIN c /\ c[b].depth = c[p].depth + 1 /\ c[b].at = s + 1
    BY <2>2, ChildOfTree
  <2>5. c[p].depth \in Int
    BY NodeOfTree
  <2> QED
    BY <2>1, <2>2, <2>3, <2>4, <2>5
<1>2. j[a] = J /\ j[p] = P /\ \A q \in DOMAIN c \ {p, a, b} : j[q] = f[q]
  BY <1>1
<1> HIDE DEF j
<1>3. \A q \in {p, a} : j[q] \in StoredNodes(DOMAIN c \ {b})
  BY <1>2
<1>4. Divides(j, f, p, a, b, s, x) /\ Divides(j, g, p, a, b, s, y)
  BY <1>2 DEF Divides
<1>5. PICK d : DOMAIN d = DOMAIN c \ {b} /\ Reworks(f, r, c, h, j, d, p)
  <2>1. \A q \in DOMAIN c \ {p, a, b} : j[q] = f[q]
    BY <1>2
  <2>2. Divides(j, f, p, a, b, s, x)
    BY <1>4
  <2>3. Union(f, r, c, h, p, s, a, b, j, x)
    BY <1>3, <2>1, <2>2 DEF Union
  <2> DEFINE D == DOMAIN c \ {b}
  <2>4. D = DOMAIN c \ {b}
    OBVIOUS
  <2> HIDE DEF D
  <2>5. Remade(f, r, c, h, j, D, p)
    BY <2>3, <2>4, UnionStep
  <2> QED
    BY <2>4, <2>5 DEF Remade
<1>6. IsTreeWith(j, r, d, h) /\ IsOrderedWith(j, d) /\ p \in DOMAIN d
  BY <1>1, <1>5 DEF Reworks
<1>7. s \in 1 .. Len(j[p].children) /\ j[p].children[s] = a
  <2>1. Names(f[p], j[p], s, x, b)
    BY <1>4 DEF Divides
  <2>2. Len(f[p].children) = Len(j[p].children) + 1 /\ \A i \in 1 .. s : f[p].children[i] = j[p].children[i]
    BY <2>1 DEF Names
  <2>3. Len(j[p].children) \in Nat
    BY <1>6, NodeOfTree
  <2>4. s \in 1 .. Len(j[p].children) /\ s \in 1 .. s
    BY <1>1, <2>2, <2>3
  <2> QED
    BY <2>2, <2>4
<1>8. b \notin DOMAIN d /\ DOMAIN d \union {b} = DOMAIN c
  BY <1>1, <1>5
<1>9. \A q \in DOMAIN d \ {p, a} : g[q] = j[q]
  BY <1>2, <1>5
<1>10. \A q \in {p, a, b} : g[q] \in StoredNodes(DOMAIN d \union {b})
  BY <1>8
<1>11. PICK e : DOMAIN e = DOMAIN d \union {b} /\ Reworks(j, r, d, h, g, e, p)
  <2>1. Divides(j, g, p, a, b, s, y)
    BY <1>4
  <2>2. IsTreeWith(j, r, d, h) /\ IsOrderedWith(j, d)
    BY <1>6
  <2>3. p \in DOMAIN d /\ b \notin DOMAIN d
    BY <1>6, <1>8
  <2>4. Division(j, r, d, h, p, s, a, b, g, y)
    BY <1>7, <1>9, <1>10, <2>1, <2>2, <2>3 DEF Division
  <2> DEFINE D == DOMAIN d \union {b}
  <2>5. D = DOMAIN d \union {b}
    OBVIOUS
  <2> HIDE DEF D
  <2>6. Remade(j, r, d, h, g, D, p)
    BY <2>4, <2>5, DivisionStep
  <2> QED
    BY <2>5, <2>6 DEF Remade
<1>12. \A q \in DOMAIN c : c[q].depth \in Int
  <2> TAKE q \in DOMAIN c
  <2> QED
    BY NodeOfTree
<1>13. Reworks(f, r, c, h, g, e, p)
  BY <1>5, <1>11, <1>12, ReworksTwice
<1> QED
  BY <1>8, <1>11, <1>13 DEF Remade

\* The nodes of a merge have no use for the page that is released.
LEMMA MergedNodes ==
  ASSUME NEW f, NEW r, NEW c, NEW h \in Nat, IsTreeWith(f, r, c, h),
         NEW p \in DOMAIN c, NEW s, s \in 1 .. Len(f[p].children) - 1,
         NEW a, f[p].children[s] = a, NEW b, f[p].children[s + 1] = b,
         NEW J \in StoredNodes(DOMAIN c), NEW P \in StoredNodes(DOMAIN c),
         NEW x, Joins(J, f[a], x, f[b]), Names(f[p], P, s, x, b)
  PROVE  J \in StoredNodes(DOMAIN c \ {b}) /\ P \in StoredNodes(DOMAIN c \ {b})
<1>1. /\ a \in DOMAIN c /\ b \in DOMAIN c /\ c[b].at = s + 1
      /\ c[a].depth = c[b].depth /\ c[b].depth \in Int
      /\ s + 1 \in 1 .. Len(f[p].children) /\ Len(f[p].children) \in Nat
  <2>1. Len(f[p].children) \in Nat
    BY NodeOfTree
  <2>2. s \in 1 .. Len(f[p].children) /\ s + 1 \in 1 .. Len(f[p].children)
    BY <2>1
  <2>3. a \in DOMAIN c /\ c[a].depth = c[p].depth + 1
    BY <2>2, ChildOfTree
  <2>4. b \in DOMAIN c /\ c[b].depth = c[p].depth + 1 /\ c[b].at = s + 1
    BY <2>2, ChildOfTree
  <2>5. c[b].depth \in Int
    BY <2>4, NodeOfTree
  <2> QED
    BY <2>1, <2>2, <2>3, <2>4, <2>5
<1>2. /\ J.children \in Seq(DOMAIN c) /\ P.children \in Seq(DOMAIN c)
      /\ Len(J.children) \in Nat /\ Len(P.children) \in Nat
  <2>1. J.children \in Seq(DOMAIN c) /\ P.children \in Seq(DOMAIN c)
    BY DEF StoredNodes
  <2> QED
    BY <2>1, LenProperties
<1>3. ASSUME NEW i \in 1 .. Len(J.children) PROVE J.children[i] \in DOMAIN c \ {b}
  <2>1. Len(f[a].children) \in Nat /\ Len(f[b].children) \in Nat
    BY <1>1, NodeOfTree
  <2>2. /\ Len(J.children) = Len(f[a].children) + Len(f[b].children)
        /\ \A m \in 1 .. Len(f[a].children) : J.children[m] = f[a].children[m]
        /\ \A m \in 1 .. Len(f[b].children) : J.children[Len(f[a].children) + m] = f[b].children[m]
    BY DEF Joins
  <2>3. CASE i \in 1 .. Len(f[a].children)
    <3>1. f[a].children[i] = J.children[i]
      BY <2>2, <2>3
    <3>2. J.children[i] \in DOMAIN c /\ c[J.children[i]].depth = c[a].depth + 1
      BY <1>1, <2>3, <3>1, ChildOfTree
    <3> QED
      BY <1>1, <3>2
  <2>4. CASE i \notin 1 .. Len(f[a].children)
    <3> DEFINE l == Len(f[a].children)  k == Len(f[b].children)  m == i - l
    <3>1. l \in Nat /\ k \in Nat /\ i \in 1 .. l + k /\ i \notin 1 .. l
      BY <2>1, <2>2, <2>4
    <3> HIDE DEF l, k
    <3>2. m \in 1 .. k /\ l + m = i
      BY <3>1
    <3> HIDE DEF m
    <3>3. m \in 1 .. Len(f[b].children) /\ Len(f[a].children) + m = i
      BY <3>2 DEF l, k
    <3>4. f[b].children[m] = J.children[i]
      BY <2>2, <3>3
    <3>5. J.children[i] \in DOMAIN c /\ c[J.children[i]].depth = c[b].depth + 1
      BY <1>1, <3>3, <3>4, ChildOfTree
    <3> QED
      BY <1>1, <3>5
  <2> QED
    BY <2>3, <2>4
<1>4. ASSUME NEW i \in 1 .. Len(P.children) PROVE P.children[i] \in DOMAIN c \ {b}
  <2>1. /\ Len(f[p].children) = Len(P.children) + 1
        /\ \A m \in 1 .. s : f[p].children[m] = P.children[m]
        /\ \A m \in s + 2 .. Len(f[p].children) : f[p].children[m] = P.children[m - 1]
    BY DEF Names
  <2>2. CASE i <= s
    <3>1. i \in 1 .. Len(f[p].children) /\ f[p].children[i] = P.children[i] /\ i # s + 1
      BY <1>1, <2>1, <2>2
    <3>2. P.children[i] \in DOMAIN c /\ c[P.children[i]].at = i
      BY <3>1, ChildOfTree, SMTT(30)
    <3> QED
      BY <1>1, <3>1, <3>2
  <2>3. CASE i > s
    <3> DEFINE m == i + 1
    <3>1. m \in s + 2 .. Len(f[p].children) /\ m - 1 = i /\ m # s + 1 /\ m \in 1 .. Len(f[p].children)
      BY <1>1, <1>2, <2>1, <2>3
    <3> HIDE DEF m
    <3>2. f[p].children[m] = P.children[i]
      BY <2>1, <3>1
    <3>3. P.children[i] \in DOMAIN c /\ c[P.children[i]].at = m
      BY <3>1, <3>2, ChildOfTree
    <3> QED
      BY <1>1, <3>1, <3>3
  <2> QED
    BY <1>1, <1>2, <2>2, <2>3
<1>5. J.children \in Seq(DOMAIN c \ {b}) /\ P.children \in Seq(DOMAIN c \ {b})
  BY <1>2, <1>3, <1>4, SeqOver
<1> QED
  BY <1>5 DEF StoredNodes
-----------------------------------------------------------------------------
\* What the code writes for a split, a rotation and a merge.

\* A node with the right number of children comes back as it was.
LEMMA StoredAsIs ==
  ASSUME NEW P, NEW S, NEW nd \in NodesOver(P, S), IsShaped(nd)
  PROVE  /\ Stored(nd) \in StoredNodes(S)
         /\ Stored(nd).items = nd.items /\ Stored(nd).children = nd.children
<1> DEFINE n == Len(nd.items)
           cs == [i \in 1 .. n + 1 |->
                    IF i \in 1 .. n \intersect DOMAIN nd.children
                    THEN nd.children[i] ELSE Last(nd.children)]
<1>1. nd.items \in Seq(Item) /\ nd.children \in Seq(S)
  BY DEF NodesOver
<1>2. n \in Nat /\ Len(nd.children) \in Nat /\ DOMAIN nd.children = 1 .. Len(nd.children)
  BY <1>1, LenProperties
<1>3. Stored(nd) \in StoredNodes(S)
  BY StoredType
<1>4. Stored(nd).items = nd.items
  BY DEF Stored
<1>5. CASE is_leaf(nd)
  BY <1>3, <1>4, <1>5 DEF Stored, is_leaf
<1>6. CASE ~is_leaf(nd)
  <2>1. Stored(nd).children = cs
    BY <1>6 DEF Stored
  <2>2. Len(nd.children) = n + 1
    BY <1>6 DEF IsShaped
  <2>3. Last(nd.children) = nd.children[n + 1]
    BY <2>2 DEF Last
  <2>4. nd.children = [i \in 1 .. n + 1 |-> nd.children[i]]
    <3>1. nd.children = [i \in 1 .. Len(nd.children) |-> nd.children[i]]
      BY <1>1, LenProperties
    <3> QED
      BY <2>2, <3>1
  <2>5. \A i \in 1 .. n + 1 : cs[i] = nd.children[i]
    <3> TAKE i \in 1 .. n + 1
    <3>1. CASE i \in 1 .. n
      BY <1>2, <2>2, <3>1
    <3>2. CASE i \notin 1 .. n
      <4>1. i = n + 1
        BY <1>2, <3>2
      <4> QED
        BY <2>3, <3>2, <4>1
    <3> QED
      BY <3>1, <3>2
  <2>6. cs = [i \in 1 .. n + 1 |-> cs[i]]
    OBVIOUS
  <2> HIDE DEF cs, n
  <2>7. cs = nd.children
    BY <2>4, <2>5, <2>6
  <2> QED
    BY <1>3, <1>4, <2>1, <2>7
<1> QED
  BY <1>5, <1>6

LEMMA NodesOfTree ==
  ASSUME NEW f, NEW r, NEW c, NEW h, IsTreeWith(f, r, c, h), NEW p \in DOMAIN c
  PROVE  /\ get_node(f, p) \in NodesOver(DOMAIN c, DOMAIN c) /\ IsShaped(get_node(f, p))
         /\ get_node(f, p).page = p
         /\ get_node(f, p).items = f[p].items /\ get_node(f, p).children = f[p].children
<1>1. f[p] \in StoredNodes(DOMAIN c)
  BY DEF IsTreeWith
<1>2. /\ f[p].kind = "node" /\ f[p].items \in Seq(Item) /\ f[p].children \in Seq(DOMAIN c)
      /\ IsShaped(f[p])
  BY <1>1 DEF StoredNodes
<1>3. get_node(f, p) = [page |-> p, items |-> f[p].items, children |-> f[p].children]
  BY <1>2 DEF get_node
<1> HIDE DEF get_node
<1>4. get_node(f, p) \in NodesOver(DOMAIN c, DOMAIN c)
  BY <1>2, <1>3 DEF NodesOver
<1>5. IsShaped(get_node(f, p))
  BY <1>2, <1>3 DEF IsShaped, is_leaf
<1> QED
  BY <1>3, <1>4, <1>5

\* Nodes with the same items and children, wherever they are.
Alike(m, n) == m.items = n.items /\ m.children = n.children

LEMMA JoinsAlike ==
  ASSUME NEW n, NEW a, NEW x, NEW b, Joins(n, a, x, b),
         NEW m, Alike(m, n), NEW d, Alike(d, a), NEW e, Alike(e, b)
  PROVE  Joins(m, d, x, e)
<1>1. /\ m.items = n.items /\ m.children = n.children
      /\ d.items = a.items /\ d.children = a.children
      /\ e.items = b.items /\ e.children = b.children
  BY DEF Alike
<1> QED
  BY <1>1, Zenon DEF Joins

LEMMA NamesAlike ==
  ASSUME NEW m, NEW n, NEW s, NEW x, NEW b, Names(m, n, s, x, b),
         NEW k, Alike(k, m), NEW l, Alike(l, n)
  PROVE  Names(k, l, s, x, b)
<1>1. k.items = m.items /\ k.children = m.children /\ l.items = n.items /\ l.children = n.children
  BY DEF Alike
<1> QED
  BY <1>1, Zenon DEF Names

\* Page g[p] holds node n.
Holds(g, p, n) == g[p] = Stored(n)

LEMMA HeldAlike ==
  ASSUME NEW g, NEW p, NEW n, NEW P, NEW S, n \in NodesOver(P, S), IsShaped(n), Holds(g, p, n)
  PROVE  Alike(g[p], n) /\ g[p] \in StoredNodes(S)
<1>1. Stored(n) \in StoredNodes(S) /\ Stored(n).items = n.items /\ Stored(n).children = n.children
  BY StoredAsIs
<1> QED
  BY <1>1 DEF Holds, Alike

LEMMA SplitRemakes ==
  ASSUME NEW f, NEW r, NEW c, NEW h \in Nat, IsTreeWith(f, r, c, h), IsOrderedWith(f, c),
         NEW p \in DOMAIN c, NEW s \in 1 .. Len(f[p].children),
         NEW a, f[p].children[s] = a, NEW b, b \notin DOMAIN c,
         can_spare_an_element(get_node(f, a)),
         NEW sp, sp = split(get_node(f, p), get_node(f, a), s, b),
         NEW g, \A q \in DOMAIN c \ {p, a} : g[q] = f[q],
         Holds(g, p, sp.parent), Holds(g, a, sp.left), Holds(g, b, sp.right),
         NEW D, D = DOMAIN c \union {b}
  PROVE  Remade(f, r, c, h, g, D, p)
<1> DEFINE nd == get_node(f, a)  parent == get_node(f, p)  T == DOMAIN c
           x == nd.items[get_split_index(nd)]
<1>1. a \in T
  BY ChildOfTree
<1>2. nd \in NodesOver(T, T) /\ IsShaped(nd) /\ Alike(f[a], nd)
  BY <1>1, NodesOfTree DEF Alike
<1>3. /\ parent \in NodesOver(T, T) /\ IsShaped(parent) /\ Alike(f[p], parent)
      /\ parent.items = f[p].items /\ parent.children = f[p].children
  BY NodesOfTree DEF Alike
<1>4. /\ Len(f[p].children) = Len(f[p].items) + 1 /\ Len(f[p].items) \in Nat
  BY NodeOfTree
<1>5. s \in Nat \ {0} /\ s <= Len(parent.items) + 1 /\ s <= Len(parent.children)
  BY <1>3, <1>4
<1> HIDE DEF nd, parent
<1>6. can_spare_an_element(nd) /\ sp = split(parent, nd, s, b)
  BY DEF nd, parent
<1>7. /\ x \in Item /\ Joins(nd, sp.left, x, sp.right)
      /\ IsShaped(sp.left) /\ IsShaped(sp.right)
  BY <1>2, <1>6, SplitJoins
<1>8. sp.left \in NodesOver(T, T) /\ sp.right \in NodesOver({b}, T) /\ sp.parent \in NodesOver(T, D)
  <2>1. parent \in NodesOver(T, D)
    <3>1. parent.children \in Seq(D)
      BY <1>3, SeqMonotonic DEF NodesOver
    <3> QED
      BY <1>3, <3>1 DEF NodesOver
  <2>2. T \subseteq D /\ b \in D
    OBVIOUS
  <2>3. IsShaped(nd) => is_leaf(nd) \/ Len(nd.children) = Len(nd.items) + 1
    BY DEF IsShaped
  <2> QED
    BY <1>2, <1>5, <1>6, <2>1, <2>2, <2>3, SplitTypes
<1>9. Names(sp.parent, parent, s, x, b)
  <2>1. sp.parent.items = InsertAt(parent.items, s, x) /\ sp.parent.children = InsertAt(parent.children, s + 1, b)
    <3>1. sp.parent = [[parent EXCEPT !.items = InsertAt(@, s, x)] EXCEPT
                         !.children = InsertAt(@, s + 1, b)]
      BY <1>6 DEF split, add_item
    <3>2. parent \in [page : T, items : Seq(Item), children : Seq(T)]
      BY <1>3 DEF NodesOver
    <3> HIDE DEF x
    <3> QED
      BY <3>1, <3>2
  <2>2. IsNode(parent, D)
    <3>1. parent.items \in Seq(Item) /\ parent.children \in Seq(T)
      BY <1>3 DEF NodesOver
    <3> QED
      BY <3>1, SeqMonotonic DEF IsNode
  <2>3. s \in 1 .. Len(parent.children) /\ Len(parent.children) = Len(parent.items) + 1 /\ b \in D
    BY <1>3, <1>4, <1>5
  <2> QED
    BY <1>7, <2>1, <2>2, <2>3, AddedNames
<1>10. IsShaped(sp.parent)
  <2>1. /\ Len(sp.parent.items) = Len(parent.items) + 1
        /\ Len(sp.parent.children) = Len(parent.children) + 1
    BY <1>9 DEF Names
  <2> QED
    BY <1>3, <1>4, <2>1 DEF IsShaped
<1>11. /\ Alike(g[p], sp.parent) /\ g[p] \in StoredNodes(D)
       /\ Alike(g[a], sp.left) /\ g[a] \in StoredNodes(T)
       /\ Alike(g[b], sp.right) /\ g[b] \in StoredNodes(T)
  BY <1>7, <1>8, <1>10, HeldAlike
<1>12. \A q \in {p, a, b} : g[q] \in StoredNodes(D)
  <2>1. StoredNodes(T) \subseteq StoredNodes(D)
    BY StoredNodesMonotonic
  <2> QED
    BY <1>11, <2>1
<1>13. Joins(f[a], g[a], x, g[b])
  BY <1>2, <1>7, <1>11, JoinsAlike
<1>14. Names(g[p], f[p], s, x, b)
  BY <1>3, <1>9, <1>11, NamesAlike
<1>15. Divides(f, g, p, a, b, s, x)
  BY <1>13, <1>14 DEF Divides
<1> HIDE DEF x
<1>16. Division(f, r, c, h, p, s, a, b, g, x)
  BY <1>12, <1>15 DEF Division
<1> QED
  BY <1>16, DivisionStep

\* Two neighbours, a and b, among the children of page p.
Siblings(f, r, c, h, p, s, a, b) ==
  /\ h \in Nat /\ IsTreeWith(f, r, c, h) /\ IsOrderedWith(f, c)
  /\ p \in DOMAIN c /\ s \in 1 .. Len(f[p].children) - 1
  /\ f[p].children[s] = a /\ f[p].children[s + 1] = b

\* Their nodes and that of their parent.
SiblingNodes(S, parent, A, B, s) ==
  /\ A \in NodesOver(S, S) /\ IsShaped(A)
  /\ B \in NodesOver(S, S) /\ IsShaped(B)
  /\ is_leaf(A) <=> is_leaf(B)
  /\ parent \in NodesOver(S, S) /\ Len(parent.children) = Len(parent.items) + 1
  /\ s \in 1 .. Len(parent.items)

LEMMA SiblingsHaveNodes ==
  ASSUME NEW f, NEW r, NEW c, NEW h, NEW p, NEW s, NEW a, NEW b,
         Siblings(f, r, c, h, p, s, a, b)
  PROVE  /\ a \in DOMAIN c /\ b \in DOMAIN c /\ a # p /\ b # p /\ a # b
         /\ SiblingNodes(DOMAIN c, get_node(f, p), get_node(f, a), get_node(f, b), s)
         /\ Alike(f[a], get_node(f, a)) /\ Alike(f[b], get_node(f, b))
         /\ Alike(f[p], get_node(f, p))
<1>1. h \in Nat /\ IsTreeWith(f, r, c, h) /\ p \in DOMAIN c
  BY DEF Siblings
<1>2. Len(f[p].children) \in Nat /\ Len(f[p].items) \in Nat
  BY <1>1, NodeOfTree
<1>3. s \in 1 .. Len(f[p].children) /\ s + 1 \in 1 .. Len(f[p].children)
  BY <1>2 DEF Siblings
<1>4. a \in DOMAIN c /\ c[a].depth = c[p].depth + 1 /\ c[a].at = s
  BY <1>1, <1>3, ChildOfTree DEF Siblings
<1>5. b \in DOMAIN c /\ c[b].depth = c[p].depth + 1 /\ c[b].at = s + 1
  BY <1>1, <1>3, ChildOfTree DEF Siblings
<1>6. c[p].depth \in Int
  BY <1>1, NodeOfTree
<1>7. a # p /\ b # p /\ a # b
  BY <1>3, <1>4, <1>5, <1>6
<1>8. /\ get_node(f, a) \in NodesOver(DOMAIN c, DOMAIN c) /\ IsShaped(get_node(f, a))
      /\ get_node(f, a).items = f[a].items /\ get_node(f, a).children = f[a].children
  BY <1>1, <1>4, NodesOfTree
<1>9. /\ get_node(f, b) \in NodesOver(DOMAIN c, DOMAIN c) /\ IsShaped(get_node(f, b))
      /\ get_node(f, b).items = f[b].items /\ get_node(f, b).children = f[b].children
  BY <1>1, <1>5, NodesOfTree
<1>10. /\ get_node(f, p) \in NodesOver(DOMAIN c, DOMAIN c)
       /\ get_node(f, p).items = f[p].items /\ get_node(f, p).children = f[p].children
  BY <1>1, NodesOfTree
<1>11. is_leaf(get_node(f, a)) <=> is_leaf(get_node(f, b))
  <2>1. is_leaf(f[a]) <=> c[a].depth = h
    BY <1>1, <1>4 DEF IsTreeWith
  <2>2. is_leaf(f[b]) <=> c[b].depth = h
    BY <1>1, <1>5 DEF IsTreeWith
  <2> QED
    BY <1>4, <1>5, <1>8, <1>9, <2>1, <2>2 DEF is_leaf
<1>12. /\ Len(f[p].children) = Len(f[p].items) + 1 /\ s \in 1 .. Len(f[p].items)
  <2>1. Len(f[p].children) # 0
    BY <1>3
  <2>2. Len(f[p].children) = Len(f[p].items) + 1
    BY <1>1, <2>1, NodeOfTree
  <2> QED
    BY <1>2, <1>3, <2>2
<1> QED
  BY <1>4, <1>5, <1>7, <1>8, <1>9, <1>10, <1>11, <1>12 DEF SiblingNodes, Alike

\* The two as one node, and the parent without the item between them.
Fused(f, c, p, s, a, b, J, P, x) ==
  /\ J \in StoredNodes(DOMAIN c \ {b}) /\ P \in StoredNodes(DOMAIN c \ {b})
  /\ Joins(J, f[a], x, f[b]) /\ Names(f[p], P, s, x, b)

LEMMA SiblingsFuse ==
  ASSUME NEW f, NEW r, NEW c, NEW h, NEW p, NEW s, NEW a, NEW b,
         Siblings(f, r, c, h, p, s, a, b),
         NEW m, m = merge(get_node(f, p), get_node(f, a), get_node(f, b), s + 1)
  PROVE  /\ Fused(f, c, p, s, a, b, Stored(m.a), Stored(m.parent), f[p].items[s])
         /\ Alike(Stored(m.a), m.a) /\ Alike(Stored(m.parent), m.parent)
<1> DEFINE A == get_node(f, a)  B == get_node(f, b)  parent == get_node(f, p)  T == DOMAIN c
           x == f[p].items[s]  J == Stored(m.a)  P == Stored(m.parent)
<1>1. /\ SiblingNodes(T, parent, A, B, s)
      /\ Alike(f[a], A) /\ Alike(f[b], B) /\ Alike(f[p], parent)
  BY SiblingsHaveNodes
<1> HIDE DEF A, B, parent
<1>2. /\ A \in NodesOver(T, T) /\ IsShaped(A) /\ B \in NodesOver(T, T) /\ IsShaped(B)
      /\ is_leaf(A) <=> is_leaf(B)
      /\ parent \in NodesOver(T, T) /\ Len(parent.children) = Len(parent.items) + 1
      /\ s \in 1 .. Len(parent.items)
  BY <1>1 DEF SiblingNodes
<1>3. m = merge(parent, A, B, s + 1)
  BY DEF A, B, parent
<1>4. Merges(m, parent, A, B, s)
  BY <1>2, <1>3, MergeJoins
<1>5. m.a \in NodesOver(T, T) /\ m.parent \in NodesOver(T, T)
  <2>1. Len(parent.items) \in Nat
    BY <1>2, LenProperties DEF NodesOver
  <2> DEFINE i == s + 1
  <2>2. i \in Nat /\ i - 1 \in 1 .. Len(parent.items) /\ i \in 1 .. Len(parent.children)
    BY <1>2, <2>1
  <2> HIDE DEF i
  <2>3. m = merge(parent, A, B, i)
    BY <1>3 DEF i
  <2> QED
    BY <1>2, <2>2, <2>3, MergeTypes
<1>6. J \in StoredNodes(T) /\ P \in StoredNodes(T) /\ Alike(J, m.a) /\ Alike(P, m.parent)
  <2>1. IsShaped(m.a) /\ IsShaped(m.parent)
    BY <1>4 DEF Merges
  <2> QED
    BY <1>5, <2>1, StoredAsIs DEF Alike
<1>7. x = parent.items[s] /\ parent.children[s + 1] = b
  BY <1>1 DEF Alike, Siblings
<1>8. Joins(m.a, A, x, B) /\ Names(parent, m.parent, s, x, b)
  BY <1>4, <1>7 DEF Merges
<1> HIDE DEF J, P, x
<1>9. Joins(J, f[a], x, f[b])
  BY <1>1, <1>6, <1>8, JoinsAlike
<1>10. Names(f[p], P, s, x, b)
  BY <1>1, <1>6, <1>8, NamesAlike
<1>11. J \in StoredNodes(T \ {b}) /\ P \in StoredNodes(T \ {b})
  <2>1. /\ h \in Nat /\ IsTreeWith(f, r, c, h)
        /\ p \in DOMAIN c /\ s \in 1 .. Len(f[p].children) - 1
        /\ f[p].children[s] = a /\ f[p].children[s + 1] = b
    BY DEF Siblings
  <2> QED
    BY <1>6, <1>9, <1>10, <2>1, MergedNodes
<1>12. Fused(f, c, p, s, a, b, J, P, x)
  BY <1>9, <1>10, <1>11 DEF Fused
<1> QED
  BY <1>6, <1>12 DEF J, P, x

LEMMA MergeRemakes ==
  ASSUME NEW f, NEW r, NEW c, NEW h, NEW p, NEW s, NEW a, NEW b,
         Siblings(f, r, c, h, p, s, a, b),
         NEW m, m = merge(get_node(f, p), get_node(f, a), get_node(f, b), s + 1),
         NEW g, \A q \in DOMAIN c \ {p, a, b} : g[q] = f[q],
         Holds(g, p, m.parent), Holds(g, a, m.a),
         NEW D, D = DOMAIN c \ {b}
  PROVE  Remade(f, r, c, h, g, D, p)
<1> DEFINE x == f[p].items[s]
<1>1. Fused(f, c, p, s, a, b, Stored(m.a), Stored(m.parent), x)
  BY SiblingsFuse
<1> HIDE DEF x
<1>2. g[p] = Stored(m.parent) /\ g[a] = Stored(m.a)
  BY DEF Holds
<1>3. Divides(g, f, p, a, b, s, x)
  BY <1>1, <1>2 DEF Fused, Divides
<1>4. \A q \in {p, a} : g[q] \in StoredNodes(DOMAIN c \ {b})
  BY <1>1, <1>2 DEF Fused
<1>5. Union(f, r, c, h, p, s, a, b, g, x)
  BY <1>3, <1>4 DEF Siblings, Union
<1> QED
  BY <1>5, UnionStep

\* A way to share out the items of two neighbours and the one between them.
Shares(J, P, s, b, rot, y) ==
  /\ Joins(J, rot.a, y, rot.b) /\ Names(rot.parent, P, s, y, b)
  /\ IsShaped(rot.a) /\ IsShaped(rot.b) /\ IsShaped(rot.parent)

LEMMA SharingRemakes ==
  ASSUME NEW f, NEW r, NEW c, NEW h, NEW p, NEW s, NEW a, NEW b,
         Siblings(f, r, c, h, p, s, a, b),
         NEW m, m = merge(get_node(f, p), get_node(f, a), get_node(f, b), s + 1),
         NEW rot, NEW y, Shares(m.a, m.parent, s, b, rot, y),
         rot.a \in NodesOver(DOMAIN c, DOMAIN c), rot.b \in NodesOver(DOMAIN c, DOMAIN c),
         rot.parent \in NodesOver(DOMAIN c, DOMAIN c),
         NEW g, \A q \in DOMAIN c \ {p, a, b} : g[q] = f[q],
         Holds(g, p, rot.parent), Holds(g, a, rot.a), Holds(g, b, rot.b)
  PROVE  Remade(f, r, c, h, g, DOMAIN c, p)
<1> DEFINE x == f[p].items[s]  J == Stored(m.a)  P == Stored(m.parent)  T == DOMAIN c
<1>1. Fused(f, c, p, s, a, b, J, P, x) /\ Alike(J, m.a) /\ Alike(P, m.parent)
  BY SiblingsFuse
<1> HIDE DEF x, J, P
<1>2. Alike(g[p], rot.parent) /\ g[p] \in StoredNodes(T)
  BY HeldAlike DEF Shares
<1>3. Alike(g[a], rot.a) /\ g[a] \in StoredNodes(T)
  BY HeldAlike DEF Shares
<1>4. Alike(g[b], rot.b) /\ g[b] \in StoredNodes(T)
  BY HeldAlike DEF Shares
<1>5. Joins(J, g[a], y, g[b])
  <2>1. Joins(m.a, rot.a, y, rot.b)
    BY DEF Shares
  <2> QED
    BY <1>1, <1>3, <1>4, <2>1, JoinsAlike
<1>6. Names(g[p], P, s, y, b)
  <2>1. Names(rot.parent, m.parent, s, y, b)
    BY DEF Shares
  <2> QED
    BY <1>1, <1>2, <2>1, NamesAlike
<1>7. /\ J \in StoredNodes(T \ {b}) /\ P \in StoredNodes(T \ {b})
      /\ Joins(J, f[a], x, f[b]) /\ Names(f[p], P, s, x, b)
  BY <1>1 DEF Fused
<1>8. /\ h \in Nat /\ IsTreeWith(f, r, c, h) /\ IsOrderedWith(f, c)
      /\ p \in DOMAIN c /\ s \in 1 .. Len(f[p].children) - 1
      /\ f[p].children[s] = a /\ f[p].children[s + 1] = b
  BY DEF Siblings
<1>9. \A q \in {p, a, b} : g[q] \in StoredNodes(T)
  BY <1>2, <1>3, <1>4
<1> QED
  BY <1>5, <1>6, <1>7, <1>8, <1>9, RotateStep

\* What a rotation leaves: nodes of the same pages, the parent with the same children.
Rotated(S, rot, p, a, b, children) ==
  /\ rot.a \in NodesOver(S, S) /\ rot.a.page = a /\ IsShaped(rot.a)
  /\ rot.b \in NodesOver(S, S) /\ rot.b.page = b /\ IsShaped(rot.b)
  /\ rot.parent \in NodesOver(S, S) /\ rot.parent.page = p /\ IsShaped(rot.parent)
  /\ rot.parent.children = children

LEMMA RotateRightShares ==
  ASSUME NEW f, NEW r, NEW c, NEW h, NEW p, NEW s, NEW a, NEW b,
         Siblings(f, r, c, h, p, s, a, b), get_node(f, a).items # <<>>,
         NEW rot, rot = rotate_right(get_node(f, a), get_node(f, p), get_node(f, b), s + 1),
         NEW m, m = merge(get_node(f, p), get_node(f, a), get_node(f, b), s + 1)
  PROVE  /\ Rotated(DOMAIN c, rot, p, a, b, f[p].children)
         /\ \E y : Shares(m.a, m.parent, s, b, rot, y)
<1> DEFINE A == get_node(f, a)  B == get_node(f, b)  parent == get_node(f, p)  T == DOMAIN c
<1>1. /\ a \in T /\ b \in T /\ p \in T /\ IsTreeWith(f, r, c, h)
      /\ SiblingNodes(T, parent, A, B, s) /\ Alike(f[p], parent)
  <2>1. /\ a \in T /\ b \in T
        /\ SiblingNodes(T, parent, A, B, s) /\ Alike(f[p], parent)
    BY SiblingsHaveNodes
  <2>2. p \in T /\ IsTreeWith(f, r, c, h)
    BY DEF Siblings
  <2> QED
    BY <2>1, <2>2
<1>2. A.page = a /\ B.page = b /\ parent.page = p
  BY <1>1, NodesOfTree
<1> HIDE DEF A, B, parent
<1>3. /\ A \in NodesOver(T, T) /\ IsShaped(A) /\ B \in NodesOver(T, T) /\ IsShaped(B)
      /\ is_leaf(A) <=> is_leaf(B)
      /\ parent \in NodesOver(T, T) /\ Len(parent.children) = Len(parent.items) + 1
      /\ s \in 1 .. Len(parent.items)
  BY <1>1 DEF SiblingNodes
<1>4. /\ m = merge(parent, A, B, s + 1) /\ rot = rotate_right(A, parent, B, s + 1)
      /\ A.items # <<>>
  BY DEF A, B, parent
<1>5. /\ Last(A.items) \in Item /\ Joins(m.a, rot.a, Last(A.items), rot.b)
      /\ Names(rot.parent, m.parent, s, Last(A.items), parent.children[s + 1])
      /\ rot.parent.children = parent.children
      /\ IsShaped(rot.a) /\ IsShaped(rot.b) /\ IsShaped(rot.parent)
  BY <1>3, <1>4, RotateRightJoins
<1>6. rot.a \in NodesOver(T, T) /\ rot.b \in NodesOver(T, T) /\ rot.parent \in NodesOver(T, T)
  <2> DEFINE i == s + 1
  <2>1. i \in Nat /\ i - 1 \in 1 .. Len(parent.items)
    <3>1. Len(parent.items) \in Nat
      BY <1>3, LenProperties DEF NodesOver
    <3> QED
      BY <1>3, <3>1
  <2>2. rot = rotate_right(A, parent, B, i)
    BY <1>4
  <2> HIDE DEF i
  <2> QED
    BY <1>3, <1>4, <2>1, <2>2, RotateRightTypes
<1>7. rot.a.page = a /\ rot.b.page = b /\ rot.parent.page = p
  <2>1. /\ A \in [page : T, items : Seq(Item), children : Seq(T)]
        /\ B \in [page : T, items : Seq(Item), children : Seq(T)]
        /\ parent \in [page : T, items : Seq(Item), children : Seq(T)]
    BY <1>3 DEF NodesOver
  <2> DEFINE i == s + 1
  <2> HIDE DEF i
  <2>2. /\ rot.a = [A EXCEPT !.items = Front(@),
                              !.children = IF is_leaf(A) THEN @ ELSE Front(@)]
        /\ rot.parent = [parent EXCEPT !.items[i - 1] = Last(A.items)]
        /\ rot.b = [B EXCEPT !.items = <<parent.items[i - 1]>> \o @,
                              !.children = IF is_leaf(A) THEN @
                                           ELSE <<Last(A.children)>> \o @]
    <3>1. rot = rotate_right(A, parent, B, i)
      BY <1>4 DEF i
    <3> QED
      BY <3>1 DEF rotate_right
  <2>3. rot.a.page = A.page
    BY <2>1, <2>2
  <2>4. rot.b.page = B.page
    BY <2>1, <2>2
  <2>5. rot.parent.page = parent.page
    BY <2>1, <2>2
  <2> QED
    BY <1>2, <2>3, <2>4, <2>5
<1>8. rot.parent.children = f[p].children /\ parent.children[s + 1] = b
  BY <1>1, <1>5 DEF Alike, Siblings
<1>9. Shares(m.a, m.parent, s, b, rot, Last(A.items))
  BY <1>5, <1>8 DEF Shares
<1> QED
  BY <1>5, <1>6, <1>7, <1>8, <1>9 DEF Rotated

LEMMA RotateLeftShares ==
  ASSUME NEW f, NEW r, NEW c, NEW h, NEW p, NEW s, NEW a, NEW b,
         Siblings(f, r, c, h, p, s, a, b), get_node(f, b).items # <<>>,
         NEW rot, rot = rotate_left(get_node(f, a), get_node(f, p), get_node(f, b), s),
         NEW m, m = merge(get_node(f, p), get_node(f, a), get_node(f, b), s + 1)
  PROVE  /\ Rotated(DOMAIN c, rot, p, a, b, f[p].children)
         /\ \E y : Shares(m.a, m.parent, s, b, rot, y)
<1> DEFINE A == get_node(f, a)  B == get_node(f, b)  parent == get_node(f, p)  T == DOMAIN c
<1>1. /\ a \in T /\ b \in T /\ p \in T /\ IsTreeWith(f, r, c, h)
      /\ SiblingNodes(T, parent, A, B, s) /\ Alike(f[p], parent)
  <2>1. /\ a \in T /\ b \in T
        /\ SiblingNodes(T, parent, A, B, s) /\ Alike(f[p], parent)
    BY SiblingsHaveNodes
  <2>2. p \in T /\ IsTreeWith(f, r, c, h)
    BY DEF Siblings
  <2> QED
    BY <2>1, <2>2
<1>2. A.page = a /\ B.page = b /\ parent.page = p
  BY <1>1, NodesOfTree
<1> HIDE DEF A, B, parent
<1>3. /\ A \in NodesOver(T, T) /\ IsShaped(A) /\ B \in NodesOver(T, T) /\ IsShaped(B)
      /\ is_leaf(A) <=> is_leaf(B)
      /\ parent \in NodesOver(T, T) /\ Len(parent.children) = Len(parent.items) + 1
      /\ s \in 1 .. Len(parent.items)
  BY <1>1 DEF SiblingNodes
<1>4. /\ m = merge(parent, A, B, s + 1) /\ rot = rotate_left(A, parent, B, s)
      /\ B.items # <<>>
  BY DEF A, B, parent
<1>5. /\ Head(B.items) \in Item /\ Joins(m.a, rot.a, Head(B.items), rot.b)
      /\ Names(rot.parent, m.parent, s, Head(B.items), parent.children[s + 1])
      /\ rot.parent.children = parent.children
      /\ IsShaped(rot.a) /\ IsShaped(rot.b) /\ IsShaped(rot.parent)
  BY <1>3, <1>4, RotateLeftJoins
<1>6. rot.a \in NodesOver(T, T) /\ rot.b \in NodesOver(T, T) /\ rot.parent \in NodesOver(T, T)
  BY <1>3, <1>4, RotateLeftTypes
<1>7. rot.a.page = a /\ rot.b.page = b /\ rot.parent.page = p
  <2>1. /\ A \in [page : T, items : Seq(Item), children : Seq(T)]
        /\ B \in [page : T, items : Seq(Item), children : Seq(T)]
        /\ parent \in [page : T, items : Seq(Item), children : Seq(T)]
    BY <1>3 DEF NodesOver
  <2>2. /\ rot.a = [A EXCEPT !.items = Append(@, parent.items[s]),
                              !.children = IF is_leaf(B) THEN @
                                           ELSE Append(@, Head(B.children))]
        /\ rot.parent = [parent EXCEPT !.items[s] = Head(B.items)]
        /\ rot.b = [B EXCEPT !.items = Tail(@),
                              !.children = IF is_leaf(B) THEN @ ELSE Tail(@)]
    BY <1>4 DEF rotate_left
  <2>3. rot.a.page = A.page
    BY <2>1, <2>2
  <2>4. rot.b.page = B.page
    BY <2>1, <2>2
  <2>5. rot.parent.page = parent.page
    BY <2>1, <2>2
  <2> QED
    BY <1>2, <2>3, <2>4, <2>5
<1>8. rot.parent.children = f[p].children /\ parent.children[s + 1] = b
  BY <1>1, <1>5 DEF Alike, Siblings
<1>9. Shares(m.a, m.parent, s, b, rot, Head(B.items))
  BY <1>5, <1>8 DEF Shares
<1> QED
  BY <1>5, <1>6, <1>7, <1>8, <1>9 DEF Rotated
-----------------------------------------------------------------------------
\* Writing those nodes.

\* A file with the pages of T for nodes.
FileOK(f, T) ==
  PagesOK(f) /\ HeaderOK(f) /\ META_PAGE \in DOMAIN f /\ NodePages(f, T)

LEMMA FileStaysOK ==
  ASSUME NEW f, NEW T, FileOK(f, T), NEW nodes \in Seq(NodesOver(T, T)),
         NEW g, g = Written(f, nodes)
  PROVE  FileOK(g, T)
<1>1. PagesOK(f) /\ HeaderOK(f) /\ META_PAGE \in DOMAIN f /\ NodePages(f, T)
  BY DEF FileOK
<1>2. PagesOK(g) /\ HeaderOK(g) /\ HeaderKept(f, g)
  BY <1>1, WritingKeepsFile
<1>3. META_PAGE \in DOMAIN g /\ g[META_PAGE] = f[META_PAGE]
  BY <1>1, <1>2 DEF HeaderKept
<1>4. NodePages(g, T)
  BY <1>1, <1>3 DEF NodePages
<1> QED
  BY <1>2, <1>3, <1>4 DEF FileOK

\* Each of the nodes is on its page, and the other pages are as they were.
HasWritten(f, nodes, g) ==
  /\ \A i \in 1 .. Len(nodes) : Holds(g, nodes[i].page, nodes[i])
  /\ \A q \in DOMAIN f : (\A i \in 1 .. Len(nodes) : nodes[i].page # q) => g[q] = f[q]
  /\ DOMAIN f \subseteq DOMAIN g

LEMMA NodesAreWritten ==
  ASSUME NEW f, NEW T, FileOK(f, T), NEW nodes \in Seq(NodesOver(T, T)),
         \A i, j \in 1 .. Len(nodes) : nodes[i].page = nodes[j].page => nodes[i] = nodes[j],
         NEW g, g = Written(f, nodes)
  PROVE  HasWritten(f, nodes, g)
<1> DEFINE n == Len(nodes)
<1>1. PagesOK(f) /\ NodePages(f, T)
  BY DEF FileOK
<1>2. n \in Nat /\ HasWrites(f, nodes, n, g)
  BY <1>1, NodesWritten
<1>3. \A i \in 1 .. n : nodes[i].page \in T
  BY <1>1, NodesWritten
<1>4. T \subseteq Nat
  BY <1>1 DEF NodePages
<1> HIDE DEF n
<1>5. DOMAIN g = DOMAIN f \union UNION {0 .. nodes[i].page : i \in 1 .. n}
  BY <1>2 DEF HasWrites
<1>6. \A p \in DOMAIN g :
        \/ /\ \A i \in 1 .. n : nodes[i].page # p
           /\ g[p] = IF p \in DOMAIN f THEN f[p] ELSE Hole
        \/ \E i \in 1 .. n : nodes[i].page = p /\ g[p] = Stored(nodes[i])
  BY <1>2 DEF HasWrites
<1>7. ASSUME NEW i \in 1 .. n PROVE Holds(g, nodes[i].page, nodes[i])
  <2>1. nodes[i].page \in 0 .. nodes[i].page
    <3> DEFINE p == nodes[i].page
    <3>1. p \in T
      BY <1>3
    <3> HIDE DEF p
    <3>2. p \in Nat
      BY <1>4, <3>1
    <3>3. p \in 0 .. p
      BY <3>2
    <3> QED
      BY <3>3 DEF p
  <2>2. nodes[i].page \in DOMAIN g
    BY <1>5, <2>1
  <2>3. PICK j \in 1 .. n : nodes[j].page = nodes[i].page /\ g[nodes[i].page] = Stored(nodes[j])
    BY <1>6, <2>2
  <2>4. nodes[j] = nodes[i]
    BY <2>3 DEF n
  <2> QED
    BY <2>3, <2>4 DEF Holds
<1>8. ASSUME NEW q \in DOMAIN f, \A i \in 1 .. n : nodes[i].page # q PROVE g[q] = f[q]
  <2>1. q \in DOMAIN g
    BY <1>5
  <2> QED
    BY <1>6, <1>8, <2>1
<1>9. DOMAIN f \subseteq DOMAIN g
  BY <1>5
<1> QED
  BY <1>7, <1>8, <1>9 DEF HasWritten, n

LEMMA WrittenInTwo ==
  ASSUME NEW S, NEW f, NEW a \in Seq(S), NEW b \in Seq(S)
  PROVE  Written(f, a \o b) = Written(Written(f, a), b)
<1> DEFINE d == a \o b  g == Written(f, a)  l == Len(a)  m == Len(b)
<1>1. /\ l \in Nat /\ m \in Nat /\ Len(d) = l + m
      /\ \A i \in 1 .. l : d[i] = a[i]
      /\ \A i \in 1 .. m : d[l + i] = b[i]
  <2>1. l \in Nat /\ m \in Nat
    BY LenProperties
  <2>2. /\ Len(d) = l + m
        /\ \A i \in 1 .. l + m : d[i] = IF i <= l THEN a[i] ELSE b[i - l]
    BY ConcatProperties
  <2>3. \A i \in 1 .. l : i \in 1 .. l + m /\ i <= l
    BY <2>1
  <2>4. \A i \in 1 .. m : l + i \in 1 .. l + m /\ ~(l + i <= l) /\ (l + i) - l = i
    BY <2>1
  <2> QED
    BY <2>1, <2>2, <2>3, <2>4
<1> HIDE DEF d, l, m
<1>2. PICK u : IsHistory(f, a, u) /\ g = u[l]
  BY <1>1, WrittenIsLast DEF l
<1> HIDE DEF g
<1>3. PICK v : IsHistory(g, b, v) /\ Written(g, b) = v[m]
  BY <1>1, WrittenIsLast DEF m
<1>4. PICK w : IsHistory(f, d, w) /\ Written(f, d) = w[l + m]
  BY <1>1, WrittenIsLast
<1>5. /\ u[0] = f
      /\ \A i \in 1 .. l : u[i] = WithPage(u[i - 1], a[i].page, Stored(a[i]))
  <2>1. u = [i \in 0 .. l |-> IF i = 0 THEN f ELSE WithPage(u[i - 1], a[i].page, Stored(a[i]))]
    BY <1>2 DEF IsHistory, l
  <2>2. 0 \in 0 .. l /\ \A i \in 1 .. l : i \in 0 .. l /\ i # 0
    BY <1>1
  <2> QED
    BY <2>1, <2>2
<1>6. /\ v[0] = g
      /\ \A i \in 1 .. m : v[i] = WithPage(v[i - 1], b[i].page, Stored(b[i]))
  <2>1. v = [i \in 0 .. m |-> IF i = 0 THEN g ELSE WithPage(v[i - 1], b[i].page, Stored(b[i]))]
    BY <1>3 DEF IsHistory, m
  <2>2. 0 \in 0 .. m /\ \A i \in 1 .. m : i \in 0 .. m /\ i # 0
    BY <1>1
  <2> QED
    BY <2>1, <2>2
<1>7. /\ w[0] = f
      /\ \A i \in 1 .. l + m : w[i] = WithPage(w[i - 1], d[i].page, Stored(d[i]))
  <2>1. w = [i \in 0 .. l + m |->
               IF i = 0 THEN f ELSE WithPage(w[i - 1], d[i].page, Stored(d[i]))]
    BY <1>1, <1>4 DEF IsHistory
  <2>2. 0 \in 0 .. l + m /\ \A i \in 1 .. l + m : i \in 0 .. l + m /\ i # 0
    BY <1>1
  <2> QED
    BY <2>1, <2>2
<1>8. w[l] = u[l]
  <2> DEFINE T == {n \in Nat : n <= l => w[n] = u[n]}
  <2>1. 0 \in T
    BY <1>5, <1>7
  <2>2. ASSUME NEW n \in Nat, n \in T PROVE n + 1 \in T
    <3>1. CASE n + 1 <= l
      <4> DEFINE i == n + 1
      <4>1. i \in 1 .. l /\ i \in 1 .. l + m /\ i - 1 = n /\ n <= l
        BY <1>1, <3>1
      <4> HIDE DEF i
      <4>2. w[n] = u[n] /\ d[i] = a[i]
        BY <1>1, <2>2, <4>1
      <4>3. w[i] = u[i]
        BY <1>5, <1>7, <4>1, <4>2
      <4> QED
        BY <4>3 DEF i
    <3>2. CASE ~(n + 1 <= l)
      BY <3>2
    <3> QED
      BY <3>1, <3>2
  <2> HIDE DEF T
  <2>3. Nat \subseteq T
    BY <2>1, <2>2, Induction
  <2>4. l \in T /\ l <= l
    BY <1>1, <2>3
  <2> QED
    BY <2>4 DEF T
<1>9. w[l + m] = v[m]
  <2> DEFINE T == {n \in Nat : n <= m => w[l + n] = v[n]}
  <2>1. 0 \in T
    <3>1. l + 0 = l
      BY <1>1
    <3> QED
      BY <1>2, <1>6, <1>8, <3>1
  <2>2. ASSUME NEW n \in Nat, n \in T PROVE n + 1 \in T
    <3>1. CASE n + 1 <= m
      <4> DEFINE i == n + 1  j == l + i  k == l + n
      <4>1. i \in 1 .. m /\ j \in 1 .. l + m /\ i - 1 = n /\ n <= m /\ j - 1 = k
        BY <1>1, <3>1
      <4>2. d[j] = b[i]
        BY <1>1, <4>1
      <4>3. w[k] = v[n]
        BY <2>2, <4>1
      <4>4. j = l + i /\ k = l + n
        OBVIOUS
      <4> HIDE DEF i, j, k
      <4>5. w[j] = v[i]
        BY <1>6, <1>7, <4>1, <4>2, <4>3
      <4> QED
        BY <4>4, <4>5 DEF i
    <3>2. CASE ~(n + 1 <= m)
      BY <3>2
    <3> QED
      BY <3>1, <3>2
  <2> HIDE DEF T
  <2>3. Nat \subseteq T
    BY <2>1, <2>2, Induction
  <2>4. m \in T /\ m <= m
    BY <1>1, <2>3
  <2> QED
    BY <2>4 DEF T
<1> QED
  BY <1>3, <1>4, <1>9 DEF d, g

LEMMA HeldRead ==
  ASSUME NEW g, NEW q, NEW n, NEW P, NEW S, n \in NodesOver(P, S), IsShaped(n), Holds(g, q, n),
         n.page = q
  PROVE  get_node(g, q) = n /\ g[q].items = n.items /\ g[q].children = n.children
<1>1. /\ Stored(n) \in StoredNodes(S)
      /\ Stored(n).items = n.items /\ Stored(n).children = n.children
  BY StoredAsIs
<1>2. g[q].kind = "node" /\ g[q].items = n.items /\ g[q].children = n.children
  BY <1>1 DEF Holds, StoredNodes
<1>3. n \in [page : P, items : Seq(Item), children : Seq(S)]
  BY DEF NodesOver
<1>4. get_node(g, q) = [page |-> q, items |-> g[q].items, children |-> g[q].children]
  BY <1>2 DEF get_node
<1>5. n = [page |-> q, items |-> n.items, children |-> n.children]
  BY <1>3
<1> QED
  BY <1>2, <1>4, <1>5

LEMMA RemadeTwice ==
  ASSUME NEW f, NEW r, NEW c, NEW h \in Nat, IsTreeWith(f, r, c, h), NEW p \in DOMAIN c,
         NEW g, NEW d, Reworks(f, r, c, h, g, d, p),
         NEW i, NEW D, Remade(g, r, d, h, i, D, p)
  PROVE  Remade(f, r, c, h, i, D, p)
<1>1. PICK e : DOMAIN e = D /\ Reworks(g, r, d, h, i, e, p)
  BY DEF Remade
<1>2. \A q \in DOMAIN c : c[q].depth \in Int
  <2> TAKE q \in DOMAIN c
  <2> QED
    BY NodeOfTree
<1>3. Reworks(f, r, c, h, i, e, p)
  BY <1>1, <1>2, ReworksTwice
<1> QED
  BY <1>1, <1>3 DEF Remade
-----------------------------------------------------------------------------
\* Rebalancing.

\* Nodes with one child more than items, or none.
AllShaped(nodes) == \A i \in 1 .. Len(nodes) : IsShaped(nodes[i])

LEMMA ConcatShaped ==
  ASSUME NEW S, NEW s \in Seq(S), NEW t \in Seq(S), AllShaped(s), AllShaped(t)
  PROVE  AllShaped(s \o t)
<1> DEFINE u == s \o t  m == Len(s)  n == Len(t)
<1>1. m \in Nat /\ n \in Nat
  BY LenProperties
<1>2. /\ Len(u) = m + n
      /\ \A i \in 1 .. m + n : u[i] = IF i <= m THEN s[i] ELSE t[i - m]
  BY ConcatProperties
<1>3. /\ \A i \in 1 .. m : IsShaped(s[i])
      /\ \A i \in 1 .. n : IsShaped(t[i])
  BY DEF AllShaped
<1> HIDE DEF u, m, n
<1>4. ASSUME NEW i \in 1 .. m + n
      PROVE  IsShaped(u[i])
  <2>1. CASE i <= m
    <3>1. i \in 1 .. m /\ u[i] = s[i]
      BY <1>1, <1>2, <2>1
    <3> QED
      BY <1>3, <3>1
  <2>2. CASE ~(i <= m)
    <3> DEFINE j == i - m
    <3>1. j \in 1 .. n /\ u[i] = t[j]
      BY <1>1, <1>2, <2>2
    <3> HIDE DEF j
    <3> QED
      BY <1>3, <3>1
  <2> QED
    BY <2>1, <2>2
<1> QED
  BY <1>2, <1>4 DEF AllShaped, u

\* A tree in which page a is child s of page p, and not its only one.
HasSibling(f, r, c, h, p, a, s) ==
  /\ h \in Nat /\ IsTreeWith(f, r, c, h) /\ IsOrderedWith(f, c)
  /\ FileOK(f, DOMAIN c) /\ DOMAIN c \subseteq DOMAIN f
  /\ p \in DOMAIN c /\ s \in 1 .. Len(f[p].children) /\ f[p].children[s] = a
  /\ Len(f[p].children) > 1

\* What the steps of rebalancing keep true of the nodes they pass on.
Balancing(f, r, c, h, p, a, s, x) ==
  /\ x.writes \in Seq(NodesOver(DOMAIN c, DOMAIN c)) /\ AllShaped(x.writes)
  /\ Remade(f, r, c, h, Written(f, x.writes), DOMAIN c, p)
  /\ Written(f, x.writes)[p].children = f[p].children
  /\ x.parent = get_node(Written(f, x.writes), p)
  /\ x.node = get_node(Written(f, x.writes), a)

\* The file is again one with such a tree.
LEMMA SiblingStays ==
  ASSUME NEW f, NEW r, NEW c, NEW h, NEW p, NEW a, NEW s, HasSibling(f, r, c, h, p, a, s),
         NEW x, Balancing(f, r, c, h, p, a, s, x), NEW g, g = Written(f, x.writes)
  PROVE  \E d : /\ DOMAIN d = DOMAIN c /\ Reworks(f, r, c, h, g, d, p)
                /\ HasSibling(g, r, d, h, p, a, s)
<1>1. PICK d : DOMAIN d = DOMAIN c /\ Reworks(f, r, c, h, g, d, p)
  BY DEF Balancing, Remade
<1>2. IsTreeWith(g, r, d, h) /\ IsOrderedWith(g, d)
  BY <1>1 DEF Reworks
<1>3. /\ FileOK(f, DOMAIN c) /\ DOMAIN c \subseteq DOMAIN f
      /\ x.writes \in Seq(NodesOver(DOMAIN c, DOMAIN c))
  BY DEF HasSibling, Balancing
<1>4. FileOK(g, DOMAIN c)
  BY <1>3, FileStaysOK
<1>5. DOMAIN f \subseteq DOMAIN g
  <2>1. PagesOK(f) /\ NodePages(f, DOMAIN c)
    BY <1>3 DEF FileOK
  <2>2. HasWrites(f, x.writes, Len(x.writes), g)
    BY <1>3, <2>1, NodesWritten
  <2> QED
    BY <2>2 DEF HasWrites
<1>6. g[p].children = f[p].children
  BY DEF Balancing
<1>7. DOMAIN c \subseteq DOMAIN g
  BY <1>3, <1>5
<1>8. HasSibling(g, r, d, h, p, a, s)
  BY <1>1, <1>2, <1>4, <1>6, <1>7 DEF HasSibling
<1> QED
  BY <1>1, <1>8

LEMMA StartBalancing ==
  ASSUME NEW f, NEW r, NEW c, NEW h, NEW p, NEW a, NEW s, HasSibling(f, r, c, h, p, a, s)
  PROVE  Balancing(f, r, c, h, p, a, s,
                   [writes |-> <<>>, parent |-> get_node(f, p), node |-> get_node(f, a)])
<1> DEFINE w == <<>>
<1>1. w \in Seq(NodesOver(DOMAIN c, DOMAIN c)) /\ Len(w) = 0
  BY EmptySeq
<1> HIDE DEF w
<1>2. Written(f, w) = f
  <2>1. PICK u : IsHistory(f, w, u) /\ Written(f, w) = u[Len(w)]
    BY <1>1, WrittenIsLast
  <2>2. 0 \in 0 .. Len(w)
    BY <1>1
  <2>3. u[0] = f
    BY <2>1, <2>2 DEF IsHistory
  <2> QED
    BY <1>1, <2>1, <2>3
<1>3. Reworks(f, r, c, h, f, c, p)
  BY DEF Reworks, HasSibling
<1>4. Remade(f, r, c, h, f, DOMAIN c, p)
  BY <1>3 DEF Remade
<1>5. AllShaped(w)
  BY <1>1 DEF AllShaped
<1> QED
  BY <1>1, <1>2, <1>4, <1>5 DEF Balancing, w

\* Which of the two nodes of a rotation is that of page a.
IsNodeOf(a, rot, o, q, nd) == (a = o /\ nd = rot.a) \/ (a = q /\ nd = rot.b)

\* A rotation of pages o and q, which go on as tree d of file g.
Rotation(f, r, c, h, p, a, s, x, g, d, t, o, q, m, rot, y) ==
  /\ HasSibling(f, r, c, h, p, a, s) /\ Balancing(f, r, c, h, p, a, s, x)
  /\ g = Written(f, x.writes)
  /\ DOMAIN d = DOMAIN c /\ Reworks(f, r, c, h, g, d, p) /\ HasSibling(g, r, d, h, p, a, s)
  /\ Siblings(g, r, d, h, p, t, o, q)
  /\ m = merge(get_node(g, p), get_node(g, o), get_node(g, q), t + 1)
  /\ Shares(m.a, m.parent, t, q, rot, y)
  /\ Rotated(DOMAIN d, rot, p, o, q, g[p].children)

LEMMA SharingBalances ==
  ASSUME NEW f, NEW r, NEW c, NEW h, NEW p, NEW a, NEW s, NEW x, NEW g, NEW d, NEW t,
         NEW o, NEW q, NEW m, NEW rot, NEW y,
         Rotation(f, r, c, h, p, a, s, x, g, d, t, o, q, m, rot, y),
         NEW nd, IsNodeOf(a, rot, o, q, nd)
  PROVE  Balancing(f, r, c, h, p, a, s,
                   [writes |-> x.writes \o <<rot.a, rot.parent, rot.b>>,
                    parent |-> rot.parent, node |-> nd])
<1>0. /\ HasSibling(f, r, c, h, p, a, s) /\ Balancing(f, r, c, h, p, a, s, x)
      /\ g = Written(f, x.writes)
      /\ DOMAIN d = DOMAIN c /\ Reworks(f, r, c, h, g, d, p) /\ HasSibling(g, r, d, h, p, a, s)
      /\ Siblings(g, r, d, h, p, t, o, q)
      /\ m = merge(get_node(g, p), get_node(g, o), get_node(g, q), t + 1)
      /\ Shares(m.a, m.parent, t, q, rot, y)
      /\ Rotated(DOMAIN d, rot, p, o, q, g[p].children)
  BY DEF Rotation
<1> DEFINE T == DOMAIN c  ws == <<rot.a, rot.parent, rot.b>>  i == Written(g, ws)
<1>1. /\ rot.a \in NodesOver(T, T) /\ rot.a.page = o /\ IsShaped(rot.a)
      /\ rot.b \in NodesOver(T, T) /\ rot.b.page = q /\ IsShaped(rot.b)
      /\ rot.parent \in NodesOver(T, T) /\ rot.parent.page = p /\ IsShaped(rot.parent)
      /\ rot.parent.children = g[p].children
  BY <1>0 DEF Rotated
<1>2. o \in T /\ q \in T /\ o # p /\ q # p /\ o # q
  BY <1>0, SiblingsHaveNodes
<1>3. /\ ws \in Seq(NodesOver(T, T)) /\ Len(ws) = 3
      /\ ws[1] = rot.a /\ ws[2] = rot.parent /\ ws[3] = rot.b
  BY <1>1
<1>4. \A j, k \in 1 .. Len(ws) : ws[j].page = ws[k].page => ws[j] = ws[k]
  <2>1. ws[1].page = o /\ ws[2].page = p /\ ws[3].page = q
    BY <1>1, <1>3
  <2> HIDE DEF ws
  <2>2. \A j \in 1 .. Len(ws) : j = 1 \/ j = 2 \/ j = 3
    BY <1>3
  <2> QED
    BY <1>2, <2>1, <2>2
<1> HIDE DEF ws
<1>5. FileOK(g, T) /\ T \subseteq DOMAIN g
  BY <1>0 DEF HasSibling
<1>6. HasWritten(g, ws, i)
  BY <1>3, <1>4, <1>5, NodesAreWritten
<1>7. Written(f, x.writes \o ws) = i
  <2>1. x.writes \in Seq(NodesOver(T, T))
    BY <1>0 DEF Balancing
  <2> QED
    BY <1>0, <1>3, <2>1, WrittenInTwo
<1> HIDE DEF i
<1>8. Holds(i, o, rot.a) /\ Holds(i, p, rot.parent) /\ Holds(i, q, rot.b)
  <2>1. 1 \in 1 .. Len(ws) /\ 2 \in 1 .. Len(ws) /\ 3 \in 1 .. Len(ws)
    BY <1>3
  <2>2. \A j \in 1 .. Len(ws) : Holds(i, ws[j].page, ws[j])
    BY <1>6 DEF HasWritten
  <2> QED
    BY <1>1, <1>3, <2>1, <2>2
<1>9. \A l \in DOMAIN d \ {p, o, q} : i[l] = g[l]
  <2> TAKE l \in DOMAIN d \ {p, o, q}
  <2>1. l \in DOMAIN g
    BY <1>0, <1>5
  <2>2. \A j \in 1 .. Len(ws) : ws[j].page # l
    <3>1. \A j \in 1 .. Len(ws) : j = 1 \/ j = 2 \/ j = 3
      BY <1>3
    <3> QED
      BY <1>1, <1>3, <3>1
  <2> QED
    BY <1>6, <2>1, <2>2 DEF HasWritten
<1>10. Remade(g, r, d, h, i, DOMAIN d, p)
  BY <1>0, <1>1, <1>8, <1>9, SharingRemakes
<1>11. Remade(f, r, c, h, i, T, p)
  <2>1. h \in Nat /\ IsTreeWith(f, r, c, h) /\ p \in DOMAIN c
    BY <1>0 DEF HasSibling
  <2>2. Remade(g, r, d, h, i, T, p)
    BY <1>0, <1>10
  <2> QED
    BY <1>0, <2>1, <2>2, RemadeTwice
<1>12. /\ get_node(i, p) = rot.parent /\ i[p].children = rot.parent.children
       /\ get_node(i, o) = rot.a /\ get_node(i, q) = rot.b
  <2>1. get_node(i, p) = rot.parent /\ i[p].children = rot.parent.children
    BY <1>1, <1>8, HeldRead
  <2>2. get_node(i, o) = rot.a
    BY <1>1, <1>8, HeldRead
  <2>3. get_node(i, q) = rot.b
    BY <1>1, <1>8, HeldRead
  <2> QED
    BY <2>1, <2>2, <2>3
<1>13. i[p].children = f[p].children
  BY <1>0, <1>1, <1>12 DEF Balancing
<1>14. x.writes \o ws \in Seq(NodesOver(T, T))
  BY <1>0, <1>3, ConcatProperties DEF Balancing
<1>15. nd = get_node(i, a)
  BY <1>12 DEF IsNodeOf
<1>16. AllShaped(x.writes \o ws)
  <2>1. AllShaped(ws)
    <3>1. \A j \in 1 .. Len(ws) : j = 1 \/ j = 2 \/ j = 3
      BY <1>3
    <3> QED
      BY <1>1, <1>3, <3>1 DEF AllShaped
  <2>2. x.writes \in Seq(NodesOver(T, T)) /\ AllShaped(x.writes)
    BY <1>0 DEF Balancing
  <2> QED
    BY <1>3, <2>1, <2>2, ConcatShaped
<1> QED
  BY <1>7, <1>11, <1>12, <1>13, <1>14, <1>15, <1>16 DEF Balancing, ws

\* The neighbours of the child on either side, in the file and as the code reads them.
LEMMA LeftNeighbour ==
  ASSUME NEW f, NEW r, NEW c, NEW h, NEW p, NEW a, NEW s, HasSibling(f, r, c, h, p, a, s),
         s # 1
  PROVE  Siblings(f, r, c, h, p, s - 1, f[p].children[s - 1], a)
<1>1. h \in Nat /\ IsTreeWith(f, r, c, h) /\ p \in DOMAIN c
  BY DEF HasSibling
<1>2. Len(f[p].children) \in Nat
  BY <1>1, NodeOfTree
<1>3. s - 1 \in 1 .. Len(f[p].children) - 1 /\ (s - 1) + 1 = s
  BY <1>2 DEF HasSibling
<1> QED
  BY <1>3 DEF HasSibling, Siblings

LEMMA RightNeighbour ==
  ASSUME NEW f, NEW r, NEW c, NEW h, NEW p, NEW a, NEW s, HasSibling(f, r, c, h, p, a, s),
         s # Len(f[p].children)
  PROVE  Siblings(f, r, c, h, p, s, a, f[p].children[s + 1])
<1>1. h \in Nat /\ IsTreeWith(f, r, c, h) /\ p \in DOMAIN c
  BY DEF HasSibling
<1>2. Len(f[p].children) \in Nat
  BY <1>1, NodeOfTree
<1>3. s \in 1 .. Len(f[p].children) - 1
  BY <1>2 DEF HasSibling
<1> QED
  BY <1>3 DEF HasSibling, Siblings

LEMMA NeighbourInTree ==
  ASSUME NEW r, NEW c, NEW h, NEW p, NEW a, NEW s, HasSibling(file, r, c, h, p, a, s),
         NEW x, Balancing(file, r, c, h, p, a, s, x), NEW g, g = Written(file, x.writes),
         NEW slot
  PROVE  /\ x.parent.children = g[p].children
         /\ Neighbour(x, slot) = get_node(g, g[p].children[slot])
<1>1. PICK d : /\ DOMAIN d = DOMAIN c /\ Reworks(file, r, c, h, g, d, p)
               /\ HasSibling(g, r, d, h, p, a, s)
  BY SiblingStays
<1>2. get_node(g, p).children = g[p].children
  <2>1. IsTreeWith(g, r, d, h) /\ p \in DOMAIN d
    BY <1>1 DEF HasSibling
  <2> QED
    BY <2>1, NodesOfTree
<1>3. x.parent = get_node(g, p)
  BY DEF Balancing
<1> QED
  BY <1>2, <1>3 DEF Neighbour

LEMMA RightRotatedBalances ==
  ASSUME NEW r, NEW c, NEW h, NEW p, NEW a, NEW s, HasSibling(file, r, c, h, p, a, s),
         NEW x, Balancing(file, r, c, h, p, a, s, x)
  PROVE  Balancing(file, r, c, h, p, a, s, RightRotated(x, s))
<1>1. CASE s = 1 \/ ~can_spare_an_element(Neighbour(x, s - 1))
  BY <1>1 DEF RightRotated
<1>2. CASE s # 1 /\ can_spare_an_element(Neighbour(x, s - 1))
  <2> DEFINE g == Written(file, x.writes)  t == s - 1  o == g[p].children[t]
             m == merge(get_node(g, p), get_node(g, o), get_node(g, a), t + 1)
             rot == rotate_right(get_node(g, o), get_node(g, p), get_node(g, a), t + 1)
  <2>1. PICK d : /\ DOMAIN d = DOMAIN c /\ Reworks(file, r, c, h, g, d, p)
                 /\ HasSibling(g, r, d, h, p, a, s)
    BY SiblingStays
  <2>2. t + 1 = s
    <3>1. s \in Int
      <4>1. s \in 1 .. Len(file[p].children)
        BY ZenonT(30) DEF HasSibling
      <4> QED
        BY <4>1
    <3> QED
      BY <3>1
  <2>3. Neighbour(x, t) = get_node(g, o) /\ x.parent = get_node(g, p) /\ x.node = get_node(g, a)
    BY NeighbourInTree, SMTT(30) DEF Balancing
  <2>4. RightRotated(x, s) = [writes |-> x.writes \o <<rot.a, rot.parent, rot.b>>,
                              parent |-> rot.parent, node |-> rot.b]
    BY <1>2, <2>2, <2>3 DEF RightRotated
  <2>5. g = Written(file, x.writes)
    OBVIOUS
  <2> HIDE DEF g
  <2>6. Siblings(g, r, d, h, p, t, o, a)
    BY <1>2, <2>1, LeftNeighbour
  <2>7. get_node(g, o).items # <<>>
    <3>1. o \in DOMAIN d
      BY <2>6, SiblingsHaveNodes
    <3>2. get_node(g, o).items \in Seq(Item)
      <4>1. IsTreeWith(g, r, d, h)
        BY <2>1 DEF HasSibling
      <4>2. get_node(g, o) \in NodesOver(DOMAIN d, DOMAIN d)
        BY <3>1, <4>1, NodesOfTree
      <4> QED
        BY <4>2 DEF NodesOver
    <3>3. can_spare_an_element(get_node(g, o))
      BY <1>2, <2>3
    <3>4. get_split_index(get_node(g, o)) \in 2 .. Len(get_node(g, o).items)
      BY <3>2, <3>3, SplitIndexInRange
    <3> QED
      BY <3>2, <3>4, EmptySeq
  <2>8. m = merge(get_node(g, p), get_node(g, o), get_node(g, a), t + 1)
        /\ rot = rotate_right(get_node(g, o), get_node(g, p), get_node(g, a), t + 1)
    OBVIOUS
  <2> HIDE DEF m, rot, t, o
  <2>9. Rotated(DOMAIN d, rot, p, o, a, g[p].children) /\ \E y : Shares(m.a, m.parent, t, a, rot, y)
    BY <2>6, <2>7, <2>8, RotateRightShares
  <2>10. PICK y : Shares(m.a, m.parent, t, a, rot, y)
    BY <2>9
  <2> DEFINE nd == rot.b
  <2>11. IsNodeOf(a, rot, o, a, nd)
    BY DEF IsNodeOf
  <2> HIDE DEF nd
  <2>12. Balancing(file, r, c, h, p, a, s,
                   [writes |-> x.writes \o <<rot.a, rot.parent, rot.b>>,
                    parent |-> rot.parent, node |-> nd])
    <3>1. Rotation(file, r, c, h, p, a, s, x, g, d, t, o, a, m, rot, y)
      BY <2>1, <2>5, <2>6, <2>8, <2>9, <2>10 DEF Rotation
    <3> QED
      BY <2>11, <3>1, SharingBalances
  <2> QED
    BY <2>4, <2>12 DEF nd
<1> QED
  BY <1>1, <1>2

LEMMA LeftRotatedBalances ==
  ASSUME NEW r, NEW c, NEW h, NEW p, NEW a, NEW s, HasSibling(file, r, c, h, p, a, s),
         NEW x, Balancing(file, r, c, h, p, a, s, x)
  PROVE  Balancing(file, r, c, h, p, a, s, LeftRotated(x, s))
<1>1. CASE s = Len(x.parent.children) \/ ~can_spare_an_element(Neighbour(x, s + 1))
  BY <1>1 DEF LeftRotated
<1>2. CASE s # Len(x.parent.children) /\ can_spare_an_element(Neighbour(x, s + 1))
  <2> DEFINE g == Written(file, x.writes)  q == g[p].children[s + 1]
             m == merge(get_node(g, p), get_node(g, a), get_node(g, q), s + 1)
             rot == rotate_left(get_node(g, a), get_node(g, p), get_node(g, q), s)
  <2>1. PICK d : /\ DOMAIN d = DOMAIN c /\ Reworks(file, r, c, h, g, d, p)
                 /\ HasSibling(g, r, d, h, p, a, s)
    BY SiblingStays
  <2>2. /\ Neighbour(x, s + 1) = get_node(g, q) /\ x.parent.children = g[p].children
        /\ x.parent = get_node(g, p) /\ x.node = get_node(g, a)
    BY NeighbourInTree, SMTT(30) DEF Balancing
  <2>3. LeftRotated(x, s) = [writes |-> x.writes \o <<rot.a, rot.parent, rot.b>>,
                             parent |-> rot.parent, node |-> rot.a]
    BY <1>2, <2>2 DEF LeftRotated
  <2>4. g = Written(file, x.writes)
    OBVIOUS
  <2> HIDE DEF g
  <2>5. Siblings(g, r, d, h, p, s, a, q)
    BY <1>2, <2>1, <2>2, RightNeighbour
  <2>6. get_node(g, q).items # <<>>
    <3>1. q \in DOMAIN d
      BY <2>5, SiblingsHaveNodes
    <3>2. get_node(g, q).items \in Seq(Item)
      <4>1. IsTreeWith(g, r, d, h)
        BY <2>1 DEF HasSibling
      <4>2. get_node(g, q) \in NodesOver(DOMAIN d, DOMAIN d)
        BY <3>1, <4>1, NodesOfTree
      <4> QED
        BY <4>2 DEF NodesOver
    <3>3. can_spare_an_element(get_node(g, q))
      BY <1>2, <2>2
    <3>4. get_split_index(get_node(g, q)) \in 2 .. Len(get_node(g, q).items)
      BY <3>2, <3>3, SplitIndexInRange
    <3> QED
      BY <3>2, <3>4, EmptySeq
  <2>7. m = merge(get_node(g, p), get_node(g, a), get_node(g, q), s + 1)
        /\ rot = rotate_left(get_node(g, a), get_node(g, p), get_node(g, q), s)
    OBVIOUS
  <2> HIDE DEF m, rot, q
  <2>8. Rotated(DOMAIN d, rot, p, a, q, g[p].children) /\ \E y : Shares(m.a, m.parent, s, q, rot, y)
    BY <2>5, <2>6, <2>7, RotateLeftShares
  <2>9. PICK y : Shares(m.a, m.parent, s, q, rot, y)
    BY <2>8
  <2> DEFINE nd == rot.a
  <2>10. IsNodeOf(a, rot, a, q, nd)
    BY DEF IsNodeOf
  <2> HIDE DEF nd
  <2>11. Balancing(file, r, c, h, p, a, s,
                   [writes |-> x.writes \o <<rot.a, rot.parent, rot.b>>,
                    parent |-> rot.parent, node |-> nd])
    <3>1. Rotation(file, r, c, h, p, a, s, x, g, d, s, a, q, m, rot, y)
      BY <2>1, <2>4, <2>5, <2>7, <2>8, <2>9 DEF Rotation
    <3> QED
      BY <2>10, <3>1, SharingBalances
  <2> QED
    BY <2>3, <2>11, SMTT(30) DEF nd
<1> QED
  BY <1>1, <1>2

\* The merge that follows the rotations takes a page below p out of the tree.
MergesAway(f, r, c, h, p, x) ==
  /\ x.released \in DOMAIN c /\ c[x.released].depth = c[p].depth + 1
  /\ x.writes \in Seq(NodesOver(DOMAIN c, DOMAIN c)) /\ AllShaped(x.writes)
  /\ Remade(f, r, c, h, Written(f, x.writes), DOMAIN c \ {x.released}, p)

\* A merge of pages o and q, which go on as tree d of file g.
Fusion(f, r, c, h, p, a, s, x, g, d, t, o, q, m) ==
  /\ HasSibling(f, r, c, h, p, a, s) /\ Balancing(f, r, c, h, p, a, s, x)
  /\ g = Written(f, x.writes)
  /\ DOMAIN d = DOMAIN c /\ Reworks(f, r, c, h, g, d, p) /\ HasSibling(g, r, d, h, p, a, s)
  /\ Siblings(g, r, d, h, p, t, o, q)
  /\ m = merge(get_node(g, p), get_node(g, o), get_node(g, q), t + 1)

\* What a merge leaves: nodes of the same pages.
LEMMA MergedPages ==
  ASSUME NEW f, NEW r, NEW c, NEW h, NEW p, NEW s, NEW a, NEW b,
         Siblings(f, r, c, h, p, s, a, b),
         NEW m, m = merge(get_node(f, p), get_node(f, a), get_node(f, b), s + 1)
  PROVE  /\ m.a \in NodesOver(DOMAIN c, DOMAIN c) /\ m.a.page = a /\ IsShaped(m.a)
         /\ m.parent \in NodesOver(DOMAIN c, DOMAIN c) /\ m.parent.page = p
         /\ IsShaped(m.parent)
<1> DEFINE A == get_node(f, a)  B == get_node(f, b)  parent == get_node(f, p)  T == DOMAIN c
           i == s + 1
<1>1. a \in T /\ b \in T /\ SiblingNodes(T, parent, A, B, s)
  BY SiblingsHaveNodes
<1>2. p \in T /\ IsTreeWith(f, r, c, h)
  BY DEF Siblings
<1>3. A.page = a /\ parent.page = p
  BY <1>1, <1>2, NodesOfTree
<1> HIDE DEF A, B, parent
<1>4. /\ A \in NodesOver(T, T) /\ B \in NodesOver(T, T)
      /\ parent \in NodesOver(T, T) /\ Len(parent.children) = Len(parent.items) + 1
      /\ s \in 1 .. Len(parent.items)
  BY <1>1 DEF SiblingNodes
<1>5. i \in Nat /\ i - 1 \in 1 .. Len(parent.items) /\ i \in 1 .. Len(parent.children)
  <2>1. Len(parent.items) \in Nat
    BY <1>4, LenProperties DEF NodesOver
  <2> QED
    BY <1>4, <2>1
<1>6. m = merge(parent, A, B, i)
  BY DEF A, B, parent
<1> HIDE DEF i
<1>7. m.a \in NodesOver(T, T) /\ m.parent \in NodesOver(T, T)
  BY <1>4, <1>5, <1>6, MergeTypes
<1>8. /\ m.parent = [parent EXCEPT !.items = RemoveAt(@, i - 1), !.children = RemoveAt(@, i)]
      /\ m.a = [A EXCEPT !.items = Append(@, parent.items[i - 1]) \o B.items,
                         !.children = IF is_leaf(A) THEN @ ELSE @ \o B.children]
  BY <1>6 DEF merge
<1>9. /\ A \in [page : T, items : Seq(Item), children : Seq(T)]
      /\ parent \in [page : T, items : Seq(Item), children : Seq(T)]
  BY <1>4 DEF NodesOver
<1>10. m.a.page = A.page
  BY <1>8, <1>9
<1>11. m.parent.page = parent.page
  BY <1>8, <1>9
<1>12. /\ A.items \in Seq(Item) /\ A.children \in Seq(T)
       /\ B.items \in Seq(Item) /\ B.children \in Seq(T)
       /\ parent.items \in Seq(Item) /\ parent.children \in Seq(T)
  BY <1>4 DEF NodesOver
<1>13. IsShaped(m.a)
  <2>1. IsShaped(A) /\ IsShaped(B) /\ (is_leaf(A) <=> is_leaf(B))
    BY <1>1 DEF SiblingNodes
  <2>2. CASE is_leaf(A)
    <3>1. m.a.children = A.children
      BY <1>8, <1>9, <2>2
    <3> QED
      BY <2>2, <3>1 DEF IsShaped, is_leaf
  <2>3. CASE ~is_leaf(A)
    <3> DEFINE x == parent.items[i - 1]
    <3>1. x \in Item
      BY <1>5, <1>12, ElementOfSeq
    <3>2. m.a.items = Append(A.items, x) \o B.items /\ m.a.children = A.children \o B.children
      BY <1>8, <1>9, <2>3
    <3> HIDE DEF x
    <3>3. Append(A.items, x) \in Seq(Item) /\ Len(Append(A.items, x)) = Len(A.items) + 1
      <4>1. A.items \in Seq(Item)
        BY <1>12
      <4> QED
        BY <3>1, <4>1, AppendProperties, ZenonT(30)
    <3>4. Len(m.a.items) = Len(A.items) + 1 + Len(B.items)
      <4>1. B.items \in Seq(Item)
        BY <1>12
      <4>2. Len(Append(A.items, x) \o B.items) = Len(Append(A.items, x)) + Len(B.items)
        BY <3>3, <4>1, ConcatProperties, Zenon
      <4> QED
        BY <3>2, <3>3, <4>2, Zenon
    <3>5. Len(m.a.children) = Len(A.children) + Len(B.children)
      <4>1. A.children \in Seq(T) /\ B.children \in Seq(T)
        BY <1>12
      <4>2. Len(A.children \o B.children) = Len(A.children) + Len(B.children)
        BY <4>1, ConcatProperties, Zenon
      <4> QED
        BY <3>2, <4>2, Zenon
    <3>6. Len(A.children) = Len(A.items) + 1 /\ Len(B.children) = Len(B.items) + 1
      BY <2>1, <2>3 DEF IsShaped
    <3>7. Len(A.items) \in Nat /\ Len(B.items) \in Nat
      BY <1>12, LenProperties
    <3>8. Len(m.a.children) = Len(m.a.items) + 1
      <4> DEFINE ai == Len(A.items)  bi == Len(B.items)  n == Len(m.a.items)
      <4>1. ai \in Nat /\ bi \in Nat /\ n = ai + 1 + bi
            /\ Len(m.a.children) = (ai + 1) + (bi + 1)
        BY <3>4, <3>5, <3>6, <3>7, Zenon
      <4> HIDE DEF ai, bi, n
      <4>2. (ai + 1) + (bi + 1) = n + 1
        BY <4>1
      <4> QED
        BY <4>1, <4>2, Zenon DEF n
    <3> QED
      BY <3>8 DEF IsShaped
  <2> QED
    BY <2>2, <2>3
<1>14. IsShaped(m.parent)
  <2> DEFINE j == i - 1
  <2>1. m.parent.items = RemoveAt(parent.items, j) /\ m.parent.children = RemoveAt(parent.children, i)
    BY <1>8, <1>9
  <2>2. j \in 1 .. Len(parent.items)
    BY <1>5
  <2> HIDE DEF j
  <2>3. Len(m.parent.items) = Len(parent.items) - 1
    BY <1>12, <2>1, <2>2, RemoveAtProperties
  <2>4. Len(m.parent.children) = Len(parent.children) - 1
    BY <1>5, <1>12, <2>1, RemoveAtProperties
  <2>5. Len(parent.items) \in Nat
    BY <1>12, LenProperties
  <2>6. Len(m.parent.children) = Len(m.parent.items) + 1
    BY <1>4, <2>3, <2>4, <2>5
  <2> QED
    BY <2>6 DEF IsShaped
<1> QED
  BY <1>3, <1>7, <1>10, <1>11, <1>13, <1>14

LEMMA FusionMerges ==
  ASSUME NEW f, NEW r, NEW c, NEW h, NEW p, NEW a, NEW s, NEW x, NEW g, NEW d, NEW t,
         NEW o, NEW q, NEW m, Fusion(f, r, c, h, p, a, s, x, g, d, t, o, q, m)
  PROVE  MergesAway(f, r, c, h, p, [writes |-> x.writes \o <<m.a, m.parent>>, released |-> q])
<1>0. /\ HasSibling(f, r, c, h, p, a, s) /\ Balancing(f, r, c, h, p, a, s, x)
      /\ g = Written(f, x.writes)
      /\ DOMAIN d = DOMAIN c /\ Reworks(f, r, c, h, g, d, p) /\ HasSibling(g, r, d, h, p, a, s)
      /\ Siblings(g, r, d, h, p, t, o, q)
      /\ m = merge(get_node(g, p), get_node(g, o), get_node(g, q), t + 1)
  BY DEF Fusion
<1> DEFINE T == DOMAIN c  ws == <<m.a, m.parent>>  i == Written(g, ws)  D == T \ {q}
<1>1. /\ m.a \in NodesOver(T, T) /\ m.a.page = o /\ IsShaped(m.a)
      /\ m.parent \in NodesOver(T, T) /\ m.parent.page = p /\ IsShaped(m.parent)
  BY <1>0, MergedPages
<1>2. o \in T /\ q \in T /\ o # p /\ q # p /\ o # q
  BY <1>0, SiblingsHaveNodes
<1>3. /\ ws \in Seq(NodesOver(T, T)) /\ Len(ws) = 2 /\ ws[1] = m.a /\ ws[2] = m.parent
  BY <1>1
<1> HIDE DEF ws
<1>4. \A j \in 1 .. Len(ws) : j = 1 \/ j = 2
  BY <1>3
<1>5. \A j, k \in 1 .. Len(ws) : ws[j].page = ws[k].page => ws[j] = ws[k]
  BY <1>1, <1>2, <1>3, <1>4
<1>6. FileOK(g, T) /\ T \subseteq DOMAIN g
  BY <1>0 DEF HasSibling
<1>7. HasWritten(g, ws, i)
  BY <1>3, <1>5, <1>6, NodesAreWritten
<1>8. Written(f, x.writes \o ws) = i
  <2>1. x.writes \in Seq(NodesOver(T, T))
    BY <1>0 DEF Balancing
  <2> QED
    BY <1>0, <1>3, <2>1, WrittenInTwo
<1> HIDE DEF i
<1>9. Holds(i, o, m.a) /\ Holds(i, p, m.parent)
  <2>1. 1 \in 1 .. Len(ws) /\ 2 \in 1 .. Len(ws)
    BY <1>3
  <2>2. \A j \in 1 .. Len(ws) : Holds(i, ws[j].page, ws[j])
    BY <1>7 DEF HasWritten
  <2> QED
    BY <1>1, <1>3, <2>1, <2>2
<1>10. \A l \in DOMAIN d \ {p, o, q} : i[l] = g[l]
  <2> TAKE l \in DOMAIN d \ {p, o, q}
  <2>1. l \in DOMAIN g
    BY <1>0, <1>6
  <2>2. \A j \in 1 .. Len(ws) : ws[j].page # l
    BY <1>1, <1>3, <1>4
  <2> QED
    BY <1>7, <2>1, <2>2 DEF HasWritten
<1>11. D = DOMAIN d \ {q}
  BY <1>0
<1> HIDE DEF D
<1>12. Remade(g, r, d, h, i, D, p)
  BY <1>0, <1>9, <1>10, <1>11, MergeRemakes
<1>13. Remade(f, r, c, h, i, D, p)
  <2>1. h \in Nat /\ IsTreeWith(f, r, c, h) /\ p \in DOMAIN c
    BY <1>0 DEF HasSibling
  <2> QED
    BY <1>0, <1>12, <2>1, RemadeTwice
<1>14. x.writes \o ws \in Seq(NodesOver(T, T))
  BY <1>0, <1>3, ConcatProperties DEF Balancing
<1>15. c[q].depth = c[p].depth + 1
  <2>1. h \in Nat /\ IsTreeWith(f, r, c, h) /\ p \in DOMAIN c
    BY <1>0 DEF HasSibling
  <2>2. g[p].children = f[p].children
    BY <1>0 DEF Balancing
  <2>3. t + 1 \in 1 .. Len(f[p].children) /\ f[p].children[t + 1] = q
    <3>1. Len(f[p].children) \in Nat
      BY <2>1, NodeOfTree
    <3>2. t \in 1 .. Len(f[p].children) - 1 /\ f[p].children[t + 1] = q
      BY <1>0, <2>2 DEF Siblings
    <3> QED
      BY <3>1, <3>2
  <2> QED
    BY <2>1, <2>3, ChildOfTree
<1>16. AllShaped(x.writes \o ws)
  <2>1. AllShaped(ws)
    BY <1>1, <1>3, <1>4 DEF AllShaped
  <2>2. x.writes \in Seq(NodesOver(T, T)) /\ AllShaped(x.writes)
    BY <1>0 DEF Balancing
  <2> QED
    BY <1>3, <2>1, <2>2, ConcatShaped
<1> QED
  BY <1>2, <1>8, <1>13, <1>14, <1>15, <1>16 DEF MergesAway, ws, D

LEMMA MergedAway ==
  ASSUME NEW r, NEW c, NEW h, NEW p, NEW a, NEW s, HasSibling(file, r, c, h, p, a, s),
         NEW x, Balancing(file, r, c, h, p, a, s, x)
  PROVE  MergesAway(file, r, c, h, p, Merged(x, s))
<1> DEFINE g == Written(file, x.writes)
           t == IF s = 1 THEN 1 ELSE s - 1
           o == IF s = 1 THEN a ELSE g[p].children[s - 1]
           q == IF s = 1 THEN g[p].children[2] ELSE a
           m == merge(get_node(g, p), get_node(g, o), get_node(g, q), t + 1)
<1>1. PICK d : /\ DOMAIN d = DOMAIN c /\ Reworks(file, r, c, h, g, d, p)
               /\ HasSibling(g, r, d, h, p, a, s)
  BY SiblingStays
<1>2. /\ \A i : Neighbour(x, i) = get_node(g, g[p].children[i])
      /\ x.parent = get_node(g, p) /\ x.node = get_node(g, a)
  BY NeighbourInTree DEF Balancing
<1>3. s \in Nat \ {0} /\ g[p].children[s] = a /\ Len(g[p].children) > 1
  BY <1>1 DEF HasSibling
<1>4. g = Written(file, x.writes)
  OBVIOUS
<1> HIDE DEF g
<1>5. Siblings(g, r, d, h, p, t, o, q)
  <2>1. CASE s = 1
    <3>1. s # Len(g[p].children)
      <4> HIDE DEF t, o, q
      <4> DEFINE l == Len(g[p].children)
      <4>1. l > 1
        BY <1>3
      <4> HIDE DEF l
      <4>2. l # 1
        BY <4>1
      <4> QED
        BY <2>1, <4>2 DEF l
    <3>2. Siblings(g, r, d, h, p, s, a, g[p].children[s + 1])
      BY <1>1, <3>1, RightNeighbour
    <3> QED
      BY <2>1, <3>2
  <2>2. CASE s # 1
    BY <1>1, <2>2, LeftNeighbour
  <2> QED
    BY <2>1, <2>2
<1>6. q \in DOMAIN d /\ get_node(g, q).page = q
  <2>1. q \in DOMAIN d
    BY <1>5, SiblingsHaveNodes
  <2>2. IsTreeWith(g, r, d, h)
    BY <1>1 DEF HasSibling
  <2> QED
    BY <2>1, <2>2, NodesOfTree
<1>7. Merged(x, s) = [writes |-> x.writes \o <<m.a, m.parent>>, released |-> q]
  <2>1. CASE s = 1
    <3>1. Merged(x, s) =
            LET n == merge(x.parent, Neighbour(x, 1), Neighbour(x, 2), 2)
            IN  [writes |-> x.writes \o <<n.a, n.parent>>, released |-> Neighbour(x, 2).page]
      BY <2>1 DEF Merged
    <3>2. Neighbour(x, 1) = get_node(g, o) /\ Neighbour(x, 2) = get_node(g, q)
      BY <1>2, <1>3, <2>1
    <3>3. t + 1 = 2
      BY <2>1
    <3> HIDE DEF t, o, q
    <3> QED
      BY <1>2, <1>6, <3>1, <3>2, <3>3
  <2>2. CASE s # 1
    <3>1. Merged(x, s) =
            LET n == merge(x.parent, Neighbour(x, s - 1), x.node, s)
            IN  [writes |-> x.writes \o <<n.a, n.parent>>, released |-> x.node.page]
      BY <2>2 DEF Merged
    <3>2. Neighbour(x, s - 1) = get_node(g, o) /\ x.node = get_node(g, q) /\ t + 1 = s
      BY <1>2, <1>3, <2>2
    <3> QED
      BY <1>2, <1>6, <2>2, <3>1, <3>2
  <2> QED
    BY <2>1, <2>2
<1>8. m = merge(get_node(g, p), get_node(g, o), get_node(g, q), t + 1)
  OBVIOUS
<1> HIDE DEF m, t, o, q
<1>9. Fusion(file, r, c, h, p, a, s, x, g, d, t, o, q, m)
  BY <1>1, <1>4, <1>5, <1>8 DEF Fusion
<1> QED
  BY <1>7, <1>9, FusionMerges

\* The whole of it: whichever rotations and merge the code makes, it leaves a
\* tree with the same items, less one page.
LEMMA RebalancedMergesAway ==
  ASSUME NEW r, NEW c, NEW h, NEW p, NEW a, NEW s, HasSibling(file, r, c, h, p, a, s),
         Parent = get_node(file, p), Child = get_node(file, a), Slot = s
  PROVE  MergesAway(file, r, c, h, p, Rebalanced)
<1> DEFINE x == [writes |-> <<>>, parent |-> get_node(file, p), node |-> get_node(file, a)]
<1>1. Balancing(file, r, c, h, p, a, s, x)
  BY StartBalancing
<1>2. Rebalanced = Merged(LeftRotated(RightRotated(x, s), s), s)
  BY Zenon DEF Rebalanced
<1> HIDE DEF x
<1>3. Balancing(file, r, c, h, p, a, s, RightRotated(x, s))
  BY <1>1, RightRotatedBalances
<1>4. Balancing(file, r, c, h, p, a, s, LeftRotated(RightRotated(x, s), s))
  BY <1>3, LeftRotatedBalances
<1> QED
  BY <1>2, <1>4, MergedAway
-----------------------------------------------------------------------------
\* Items that come and go.

\* The same places for the same pages; only the keys may differ.
SamePlaces(c, d) ==
  /\ DOMAIN d = DOMAIN c
  /\ \A q \in DOMAIN c : d[q].depth = c[q].depth /\ d[q].up = c[q].up /\ d[q].at = c[q].at

SameChildren(f, g, S) ==
  \A q \in S : g[q] \in StoredNodes(S) /\ g[q].children = f[q].children

LEMMA TreeKept ==
  ASSUME NEW f, NEW r, NEW c, NEW h, IsTreeWith(f, r, c, h),
         NEW g, SameChildren(f, g, DOMAIN c), NEW d, SamePlaces(c, d)
  PROVE  IsTreeWith(g, r, d, h)
<1>1. /\ DOMAIN d = DOMAIN c
      /\ \A q \in DOMAIN c : d[q].depth = c[q].depth /\ d[q].up = c[q].up /\ d[q].at = c[q].at
  BY DEF SamePlaces
<1>2. \A q \in DOMAIN c : g[q] \in StoredNodes(DOMAIN c) /\ g[q].children = f[q].children
  BY DEF SameChildren
<1>3. r \in DOMAIN d /\ d[r].depth = 0
  BY <1>1 DEF IsTreeWith
<1>4. ASSUME NEW p \in DOMAIN d PROVE IsPageWith(g, d, h, p)
  <2>1. p \in DOMAIN c /\ g[p].children = f[p].children
    BY <1>1, <1>2
  <2>2. g[p] \in StoredNodes(DOMAIN d) /\ d[p].depth \in 0 .. h
    BY <1>1, <1>2, <2>1 DEF IsTreeWith
  <2>3. is_leaf(g[p]) <=> d[p].depth = h
    BY <1>1, <2>1 DEF IsTreeWith, is_leaf
  <2>4. ASSUME NEW i \in 1 .. Len(g[p].children)
        PROVE  /\ d[g[p].children[i]].up = p /\ d[g[p].children[i]].at = i
               /\ d[g[p].children[i]].depth = d[p].depth + 1
    <3> DEFINE q == f[p].children[i]
    <3>1. i \in 1 .. Len(f[p].children) /\ g[p].children[i] = q
      BY <2>1
    <3>2. q \in DOMAIN c
      <4>1. f[p].children \in Seq(DOMAIN c)
        BY <2>1 DEF IsTreeWith, StoredNodes
      <4> QED
        BY <3>1, <4>1, ElementOfSeq
    <3>3. c[q].up = p /\ c[q].at = i /\ c[q].depth = c[p].depth + 1
      BY <2>1, <3>1 DEF IsTreeWith
    <3> HIDE DEF q
    <3> QED
      BY <1>1, <2>1, <3>1, <3>2, <3>3
  <2> QED
    BY <2>2, <2>3, <2>4 DEF IsPageWith
<1>5. ASSUME NEW q \in DOMAIN d \ {r} PROVE HasParent(g, d, q)
  <2>1. /\ c[q].up \in DOMAIN c /\ c[q].at \in 1 .. Len(f[c[q].up].children)
        /\ f[c[q].up].children[c[q].at] = q
    BY <1>1, <1>5 DEF IsTreeWith
  <2>2. d[q].up = c[q].up /\ d[q].at = c[q].at /\ g[c[q].up].children = f[c[q].up].children
    BY <1>1, <1>2, <1>5, <2>1
  <2> QED
    BY <1>1, <2>1, <2>2 DEF HasParent
<1> QED
  BY <1>3, <1>4, <1>5, TreeOfPages

\* Pages up from one of them to the root, and at each the place of key k.
OnTheWay(f, r, c, A, k) ==
  /\ A \subseteq DOMAIN c
  /\ \A q \in A \ {r} : c[q].up \in A /\ Parts(f[c[q].up].items, c[q].at, k)

WithKey(c, A, k) ==
  [q \in DOMAIN c |->
     [depth |-> c[q].depth, up |-> c[q].up, at |-> c[q].at,
      keys |-> IF q \in A THEN c[q].keys \union {k} ELSE c[q].keys]]

\* Only the node of page a is another one.
ChangesOnly(f, g, S, a) ==
  (\A q \in S \ {a} : g[q] = f[q]) /\ g[a] \in StoredNodes(S) /\ g[a].children = f[a].children

LEMMA ChangingKeepsChildren ==
  ASSUME NEW f, NEW r, NEW c, NEW h, IsTreeWith(f, r, c, h), NEW a, NEW g,
         ChangesOnly(f, g, DOMAIN c, a)
  PROVE  SameChildren(f, g, DOMAIN c)
  BY DEF ChangesOnly, SameChildren, IsTreeWith

LEMMA InsertKeepsTree ==
  ASSUME NEW f, NEW r, NEW c, NEW h, IsTreeWith(f, r, c, h), NEW a, NEW A, NEW k, NEW g,
         ChangesOnly(f, g, DOMAIN c, a)
  PROVE  IsTreeWith(g, r, WithKey(c, A, k), h)
<1>1. SamePlaces(c, WithKey(c, A, k))
  BY DEF SamePlaces, WithKey
<1> QED
  BY <1>1, ChangingKeepsChildren, TreeKept

LEMMA InsertKeepsTreeOrder ==
  ASSUME NEW f, NEW r, NEW c, NEW h \in Nat, IsTreeWith(f, r, c, h), IsOrderedWith(f, c),
         NEW x \in Item, NEW A, OnTheWay(f, r, c, A, x.key),
         NEW a \in A, c[a].depth = h, NEW i \in 1 .. Len(f[a].items) + 1,
         Parts(f[a].items, i, x.key),
         NEW g, ChangesOnly(f, g, DOMAIN c, a), g[a].items = InsertAt(f[a].items, i, x)
  PROVE  IsOrderedWith(g, WithKey(c, A, x.key))
<1> DEFINE k == x.key  d == WithKey(c, A, k)
<1>1. k \in Int
  BY KeysAreInts
<1> HIDE DEF k
<1>2. /\ DOMAIN d = DOMAIN c
      /\ \A q \in DOMAIN c : d[q].keys = IF q \in A THEN c[q].keys \union {k} ELSE c[q].keys
  BY DEF WithKey
<1> HIDE DEF d
<1>3. a \in DOMAIN c /\ A \subseteq DOMAIN c
  BY DEF OnTheWay
<1>4. \A q \in DOMAIN c : g[q].children = f[q].children
  BY DEF ChangesOnly
<1>5. ASSUME NEW p \in DOMAIN c PROVE IsOrderedAt(g, d, p)
  <2>1. c[p].keys \subseteq Int
    BY DEF IsOrderedWith
  <2>2. d[p].keys \subseteq Int /\ c[p].keys \subseteq d[p].keys
    BY <1>1, <1>2, <2>1
  <2>3. Ordered(g[p].items) /\ \A n \in 1 .. Len(g[p].items) : g[p].items[n].key \in d[p].keys
    <3>1. CASE p = a
      <4>1. f[a].items \in Seq(Item) /\ Ordered(f[a].items)
        BY <1>3, NodeOfTree DEF IsOrderedWith
      <4>2. Ordered(InsertAt(f[a].items, i, x))
        BY <4>1, InsertOrdered
      <4>3. /\ Len(g[a].items) = Len(f[a].items) + 1 /\ Len(f[a].items) \in Nat
            /\ \A j \in 1 .. i - 1 : g[a].items[j] = f[a].items[j]
            /\ g[a].items[i] = x
            /\ \A j \in i + 1 .. Len(f[a].items) + 1 : g[a].items[j] = f[a].items[j - 1]
        <5> DEFINE s == f[a].items
        <5>1. s \in Seq(Item) /\ i \in 1 .. Len(s) + 1 /\ g[a].items = InsertAt(s, i, x)
          BY <4>1
        <5> HIDE DEF s
        <5>2. HasInserted(InsertAt(s, i, x), s, i, x)
          BY <5>1, InsertAtHasInserted
        <5>3. Len(s) \in Nat
          BY <5>1, LenProperties
        <5> QED
          BY <5>1, <5>2, <5>3 DEF HasInserted, s
      <4>4. ASSUME NEW n \in 1 .. Len(g[a].items) PROVE g[a].items[n].key \in d[a].keys
        <5>1. CASE n < i
          <6>1. n \in 1 .. i - 1 /\ n \in 1 .. Len(f[a].items)
            BY <4>3, <5>1
          <6>2. g[a].items[n] = f[a].items[n] /\ f[a].items[n].key \in c[a].keys
            BY <1>3, <4>3, <6>1, KeyOfItem
          <6> QED
            BY <2>2, <3>1, <6>2
        <5>2. CASE n = i
          BY <1>2, <1>3, <4>3, <5>2 DEF k
        <5>3. CASE n > i
          <6> DEFINE j == n - 1
          <6>1. n \in i + 1 .. Len(f[a].items) + 1 /\ j \in 1 .. Len(f[a].items)
            BY <4>3, <5>3
          <6>2. g[a].items[n] = f[a].items[j]
            BY <4>3, <6>1
          <6> HIDE DEF j
          <6>3. f[a].items[j].key \in c[a].keys
            BY <1>3, <6>1, KeyOfItem
          <6> QED
            BY <2>2, <3>1, <6>2, <6>3
        <5> QED
          BY <4>3, <5>1, <5>2, <5>3
      <4> QED
        BY <3>1, <4>2, <4>4
    <3>2. CASE p # a
      <4>1. g[p] = f[p]
        BY <3>2 DEF ChangesOnly
      <4>2. Ordered(f[p].items) /\ \A n \in 1 .. Len(f[p].items) : f[p].items[n].key \in c[p].keys
        BY DEF IsOrderedWith
      <4> QED
        BY <2>2, <4>1, <4>2
    <3> QED
      BY <3>1, <3>2
  <2>4. ASSUME NEW n \in 1 .. Len(g[p].children), NEW l \in d[g[p].children[n]].keys
        PROVE  l \in d[p].keys /\ Parts(g[p].items, n, l)
    <3> DEFINE q == f[p].children[n]
    <3>1. n \in 1 .. Len(f[p].children) /\ g[p].children[n] = q
      BY <1>4
    <3>2. q \in DOMAIN c \ {r} /\ c[q].up = p /\ c[q].at = n
      BY <3>1, ChildOfTree
    <3>3. p # a
      <4>1. Len(f[a].children) = 0
        BY <1>3, NodeOfTree
      <4> QED
        BY <3>1, <4>1
    <3>4. g[p] = f[p]
      BY <3>3 DEF ChangesOnly
    <3>5. q = f[p].children[n]
      OBVIOUS
    <3> HIDE DEF q
    <3>6. CASE l \in c[q].keys
      <4>1. l \in c[p].keys /\ Parts(f[p].items, n, l)
        BY <3>1, <3>5, <3>6, KeyOfChild
      <4> QED
        BY <2>2, <3>4, <4>1
    <3>7. CASE l \notin c[q].keys
      <4>1. q \in A /\ l = k
        BY <1>2, <2>4, <3>1, <3>2, <3>7
      <4>2. p \in A /\ Parts(f[p].items, n, k)
        BY <3>2, <4>1 DEF OnTheWay, k
      <4> QED
        BY <1>2, <3>4, <4>1, <4>2
    <3> QED
      BY <3>6, <3>7
  <2> QED
    BY <2>2, <2>3, <2>4 DEF IsOrderedAt
<1>6. \A p \in DOMAIN d : IsOrderedAt(g, d, p)
  BY <1>2, <1>5
<1> QED
  BY <1>6, OrderOfPages DEF d, k

\* The items of the tree after those of one page have changed.
LEMMA ItemsWithChange ==
  ASSUME NEW f, NEW c, NEW g, NEW d, DOMAIN d = DOMAIN c, NEW a \in DOMAIN c,
         \A q \in DOMAIN c \ {a} : g[q] = f[q], NEW y
  PROVE  HoldsItem(g, d, y) <=> HasItem(g[a], y) \/ \E q \in DOMAIN c \ {a} : HasItem(f[q], y)
<1>1. \A q \in DOMAIN c \ {a} : HasItem(g[q], y) <=> HasItem(f[q], y)
  OBVIOUS
<1>2. HoldsItem(g, d, y) <=> HasItem(g[a], y) \/ \E q \in DOMAIN c \ {a} : HasItem(g[q], y)
  BY DEF HoldsItem
<1> QED
  BY <1>1, <1>2

\* Item i of s is gone from t.
HasRemoved(t, s, i) ==
  /\ Len(t) = Len(s) - 1
  /\ \A j \in 1 .. i - 1 : t[j] = s[j]
  /\ \A j \in i .. Len(s) - 1 : t[j] = s[j + 1]

LEMMA RemovedInOrder ==
  ASSUME NEW s \in Seq(Item), Ordered(s), NEW i \in 1 .. Len(s), NEW t, HasRemoved(t, s, i)
  PROVE  /\ Ordered(t)
         /\ \A j \in 1 .. Len(t) : \E m \in 1 .. Len(s) : m # i /\ t[j] = s[m]
         /\ \A m \in 1 .. Len(s) : m # i => \E j \in 1 .. Len(t) : t[j] = s[m]
<1>1. Len(s) \in Nat
  BY LenProperties
<1>2. \A j \in 1 .. Len(s) - 1 : /\ j < i => t[j] = s[j]
                                 /\ j >= i => t[j] = s[j + 1]
  BY <1>1 DEF HasRemoved
<1>3. Len(t) = Len(s) - 1
  BY DEF HasRemoved
<1> DEFINE was(j) == IF j < i THEN j ELSE j + 1
<1>4. \A j \in 1 .. Len(s) - 1 :
        was(j) \in 1 .. Len(s) /\ was(j) # i /\ t[j] = s[was(j)]
  BY <1>1, <1>2
<1>5. \A j, m \in 1 .. Len(s) - 1 : j < m => was(j) < was(m)
  BY <1>1
<1>6. \A j, m \in 1 .. Len(s) - 1 : j < m => t[j].key < t[m].key
  <2> TAKE j, m \in 1 .. Len(s) - 1
  <2> HAVE j < m
  <2>1. was(j) < was(m) /\ was(j) \in 1 .. Len(s) /\ was(m) \in 1 .. Len(s)
        /\ t[j] = s[was(j)] /\ t[m] = s[was(m)]
    BY <1>4, <1>5
  <2> HIDE DEF was
  <2> QED
    BY <2>1 DEF Ordered
<1>7. ASSUME NEW m \in 1 .. Len(s), m # i PROVE \E j \in 1 .. Len(s) - 1 : t[j] = s[m]
  <2>1. CASE m < i
    <3>1. m \in 1 .. Len(s) - 1
      BY <1>1, <2>1
    <3> QED
      BY <1>2, <2>1, <3>1
  <2>2. CASE m > i
    <3> DEFINE j == m - 1
    <3>1. j \in 1 .. Len(s) - 1 /\ j >= i /\ j + 1 = m
      BY <1>1, <2>2
    <3> HIDE DEF j
    <3> QED
      BY <1>2, <3>1
  <2> QED
    BY <1>7, <2>1, <2>2
<1> HIDE DEF was
<1> QED
  BY <1>3, <1>4, <1>6, <1>7 DEF Ordered

LEMMA RemoveAtHasRemoved ==
  ASSUME NEW S, NEW s \in Seq(S), NEW i \in 1 .. Len(s)
  PROVE  HasRemoved(RemoveAt(s, i), s, i)
  BY RemoveAtProperties, RemoveAtElements DEF HasRemoved

LEMMA FrontHasRemoved ==
  ASSUME NEW S, NEW s \in Seq(S), s # <<>>
  PROVE  HasRemoved(Front(s), s, Len(s)) /\ Len(s) \in 1 .. Len(s)
<1>1. /\ Len(s) \in Nat \ {0} /\ Len(Front(s)) = Len(s) - 1
      /\ \A i \in 1 .. Len(s) - 1 : Front(s)[i] = s[i]
  BY FrontProperties
<1> QED
  BY <1>1 DEF HasRemoved

\* An item taken out of a leaf.
LEMMA RemoveKeepsTree ==
  ASSUME NEW f, NEW r, NEW c, NEW h \in Nat, IsTreeWith(f, r, c, h), IsOrderedWith(f, c),
         NEW a \in DOMAIN c, c[a].depth = h, NEW i \in 1 .. Len(f[a].items),
         NEW g, ChangesOnly(f, g, DOMAIN c, a), HasRemoved(g[a].items, f[a].items, i)
  PROVE  IsTreeWith(g, r, c, h) /\ IsOrderedWith(g, c)
<1>1. IsTreeWith(g, r, c, h)
  <2>1. SamePlaces(c, c)
    BY DEF SamePlaces
  <2> QED
    BY <2>1, ChangingKeepsChildren, TreeKept
<1>2. \A q \in DOMAIN c : g[q].children = f[q].children
  BY DEF ChangesOnly
<1>3. ASSUME NEW p \in DOMAIN c PROVE IsOrderedAt(g, c, p)
  <2>1. CASE p # a
    <3>1. g[p] = f[p]
      BY <2>1 DEF ChangesOnly
    <3>2. IsOrderedAt(f, c, p)
      BY OrderOfPages
    <3> QED
      BY <3>1, <3>2 DEF IsOrderedAt
  <2>2. CASE p = a
    <3>1. f[a].items \in Seq(Item) /\ Len(f[a].children) = 0
      BY NodeOfTree
    <3>2. IsOrderedAt(f, c, a)
      BY OrderOfPages
    <3>3. /\ Ordered(g[a].items)
          /\ \A j \in 1 .. Len(g[a].items) : \E m \in 1 .. Len(f[a].items) :
               m # i /\ g[a].items[j] = f[a].items[m]
      <4> DEFINE s == f[a].items  t == g[a].items
      <4>1. s \in Seq(Item) /\ Ordered(s) /\ i \in 1 .. Len(s) /\ HasRemoved(t, s, i)
        BY <3>1, <3>2 DEF IsOrderedAt
      <4> HIDE DEF s, t
      <4>2. /\ Ordered(t)
            /\ \A j \in 1 .. Len(t) : \E m \in 1 .. Len(s) : m # i /\ t[j] = s[m]
        BY <4>1, RemovedInOrder
      <4> QED
        BY <4>2 DEF s, t
    <3>4. \A j \in 1 .. Len(g[a].items) : g[a].items[j].key \in c[a].keys
      BY <3>2, <3>3 DEF IsOrderedAt
    <3>5. \A j \in 1 .. Len(g[a].children) : FALSE
      BY <1>2, <3>1
    <3> QED
      BY <2>2, <3>2, <3>3, <3>4, <3>5 DEF IsOrderedAt
  <2> QED
    BY <2>1, <2>2
<1> QED
  BY <1>1, <1>3, OrderOfPages

\* Pages A lead from child i of page w to leaf a, by the last child of each.
LeadsRight(f, c, A, w, i, a) ==
  /\ A \subseteq DOMAIN c /\ w \in DOMAIN c \ A /\ a \in A /\ i \in 1 .. Len(f[w].items)
  /\ Len(f[w].children) # 0 /\ f[w].children[i] \in A
  /\ \A q \in A \ {a} :
       Len(f[q].children) # 0 /\ f[q].children[Len(f[q].children)] \in A
  /\ \A q \in A : \/ c[q].up = w /\ c[q].at = i
                  \/ c[q].up \in A /\ c[q].at = Len(f[c[q].up].children)

\* Of the keys of pages A, those below k.
Cut(c, A, k) ==
  [q \in DOMAIN c |->
     [depth |-> c[q].depth, up |-> c[q].up, at |-> c[q].at,
      keys |-> IF q \in A THEN {l \in c[q].keys : l < k} ELSE c[q].keys]]

\* The last item of the leaf has gone to page w.
TakesLast(f, g, S, w, i, a) ==
  /\ \A q \in S \ {a, w} : g[q] = f[q]
  /\ g[a] \in StoredNodes(S) /\ g[a].children = f[a].children
  /\ HasRemoved(g[a].items, f[a].items, Len(f[a].items))
  /\ g[w] \in StoredNodes(S) /\ g[w].children = f[w].children
  /\ Len(g[w].items) = Len(f[w].items) /\ g[w].items[i] = f[a].items[Len(f[a].items)]
  /\ \A j \in 1 .. Len(f[w].items) : j # i => g[w].items[j] = f[w].items[j]

\* Replacing one of the items by one that goes before it.
LEMMA ReplacedInOrder ==
  ASSUME NEW s \in Seq(Item), Ordered(s), NEW i \in 1 .. Len(s), NEW y \in Item,
         Parts(s, i, y.key), NEW t, Len(t) = Len(s), t[i] = y,
         \A j \in 1 .. Len(s) : j # i => t[j] = s[j]
  PROVE  /\ Ordered(t)
         /\ \A n \in Nat \ {0}, k \in Int :
              Parts(s, n, k) /\ (n = i => k < y.key) => Parts(t, n, k)
<1>1. Len(s) \in Nat /\ \A j \in 1 .. Len(s) : s[j] \in Item
  BY LenProperties, ElementOfSeq
<1>2. y.key \in Int /\ \A j \in 1 .. Len(s) : s[j].key \in Int
  BY <1>1, KeysAreInts
<1>3. \A j, m \in 1 .. Len(s) : j < m => s[j].key < s[m].key
  BY DEF Ordered
<1>4. \A j \in 1 .. Len(s) : /\ j < i => s[j].key < y.key
                             /\ j >= i => y.key < s[j].key
  BY DEF Parts
<1>5. \A j, m \in 1 .. Len(s) : j < m => t[j].key < t[m].key
  <2> TAKE j, m \in 1 .. Len(s)
  <2> HAVE j < m
  <2>1. CASE j = i
    <3>1. m # i /\ y.key < s[m].key
      BY <1>4, <2>1
    <3> QED
      BY <2>1, <3>1
  <2>2. CASE j # i /\ m = i
    <3>1. s[j].key < y.key
      BY <1>4, <2>2
    <3> QED
      BY <2>2, <3>1
  <2>3. CASE j # i /\ m # i
    BY <1>3, <2>3
  <2> QED
    BY <2>1, <2>2, <2>3
<1>6. ASSUME NEW n \in Nat \ {0}, NEW k \in Int, Parts(s, n, k), n = i => k < y.key
      PROVE  Parts(t, n, k)
  <2>1. \A j \in 1 .. Len(s) : /\ j < n => s[j].key < k
                               /\ j >= n => k < s[j].key
    BY <1>6 DEF Parts
  <2>2. /\ i < n => y.key < k
        /\ i >= n => k < y.key
    <3>1. ASSUME i < n PROVE y.key < k
      <4>1. y.key < s[i].key /\ s[i].key < k
        BY <1>4, <2>1, <3>1
      <4> QED
        BY <1>2, <4>1
    <3>2. ASSUME i > n PROVE k < y.key
      <4>1. n \in 1 .. Len(s)
        BY <1>1, <3>2
      <4>2. k < s[n].key /\ s[n].key < y.key
        BY <1>4, <2>1, <3>2, <4>1
      <4> QED
        BY <1>2, <4>1, <4>2
    <3> QED
      BY <1>6, <3>1, <3>2
  <2>3. \A j \in 1 .. Len(s) : /\ j < n => t[j].key < k
                               /\ j >= n => k < t[j].key
    <3> TAKE j \in 1 .. Len(s)
    <3>1. CASE j = i
      BY <2>2, <3>1
    <3>2. CASE j # i
      BY <2>1, <3>2
    <3> QED
      BY <3>1, <3>2
  <2> QED
    BY <2>3 DEF Parts
<1> QED
  BY <1>5, <1>6 DEF Ordered

LEMMA PredecessorKeepsOrder ==
  ASSUME NEW f, NEW r, NEW c, NEW h \in Nat, IsTreeWith(f, r, c, h), IsOrderedWith(f, c),
         NEW A, NEW w, NEW i, NEW a, LeadsRight(f, c, A, w, i, a), c[a].depth = h,
         f[a].items # <<>>, NEW y, y = f[a].items[Len(f[a].items)],
         \A q \in A : y.key \in c[q].keys,
         NEW g, TakesLast(f, g, DOMAIN c, w, i, a), NEW d, d = Cut(c, A, y.key)
  PROVE  IsOrderedWith(g, d)
<1> DEFINE k == y.key
<1>1. /\ A \subseteq DOMAIN c /\ w \in DOMAIN c \ A /\ a \in A /\ i \in 1 .. Len(f[w].items)
      /\ Len(f[w].children) # 0 /\ f[w].children[i] \in A
      /\ \A q \in A \ {a} :
           Len(f[q].children) # 0 /\ f[q].children[Len(f[q].children)] \in A
      /\ \A q \in A : \/ c[q].up = w /\ c[q].at = i
                      \/ c[q].up \in A /\ c[q].at = Len(f[c[q].up].children)
  BY DEF LeadsRight
<1>2. /\ DOMAIN d = DOMAIN c
      /\ \A q \in DOMAIN c : d[q].keys = IF q \in A THEN {l \in c[q].keys : l < k} ELSE c[q].keys
  BY DEF Cut
<1>3. /\ \A q \in DOMAIN c \ {a, w} : g[q] = f[q]
      /\ g[a].children = f[a].children /\ HasRemoved(g[a].items, f[a].items, Len(f[a].items))
      /\ g[w].children = f[w].children
      /\ Len(g[w].items) = Len(f[w].items) /\ g[w].items[i] = y
      /\ \A j \in 1 .. Len(f[w].items) : j # i => g[w].items[j] = f[w].items[j]
  BY DEF TakesLast
<1>4. /\ f[a].items \in Seq(Item) /\ Len(f[a].children) = 0
      /\ Len(f[a].items) \in Nat \ {0} /\ y \in Item
  <2>1. f[a].items \in Seq(Item) /\ Len(f[a].children) = 0
    BY <1>1, NodeOfTree
  <2>2. Len(f[a].items) \in Nat \ {0}
    BY <2>1, EmptySeq
  <2> QED
    BY <2>1, <2>2, ElementOfSeq
<1>5. k \in Int
  BY <1>4, KeysAreInts
<1> HIDE DEF k
<1>6. \A p \in DOMAIN c : IsOrderedAt(f, c, p)
  BY OrderOfPages
<1>7. \A q \in DOMAIN c : d[q].keys \subseteq c[q].keys /\ c[q].keys \subseteq Int
  <2>1. \A q \in DOMAIN c : d[q].keys \subseteq c[q].keys
    BY <1>2
  <2>2. \A q \in DOMAIN c : c[q].keys \subseteq Int
    BY DEF IsOrderedWith
  <2> QED
    BY <2>1, <2>2
<1>8. \A q \in A : k \in c[q].keys
  BY DEF k
<1>9. ASSUME NEW p \in DOMAIN c, NEW n \in 1 .. Len(f[p].children),
             NEW q, f[p].children[n] = q
      PROVE  /\ q \in DOMAIN c /\ c[q].up = p /\ c[q].at = n
             /\ q \in A => (p = w /\ n = i) \/ (p \in A /\ n = Len(f[p].children))
  <2>1. q \in DOMAIN c /\ c[q].up = p /\ c[q].at = n
    <3>1. IsChild(c, r, p, n, q)
      BY <1>9, ChildAt, Zenon
    <3> QED
      BY <3>1 DEF IsChild
  <2>2. /\ w \notin A
        /\ \A o \in A : \/ c[o].up = w /\ c[o].at = i
                        \/ c[o].up \in A /\ c[o].at = Len(f[c[o].up].children)
    BY <1>1, Zenon
  <2> QED
    BY <2>1, <2>2, Zenon
<1>10. ASSUME NEW p \in DOMAIN c \ A, p # w PROVE IsOrderedAt(g, d, p)
  <2>1. g[p] = f[p] /\ d[p].keys = c[p].keys
    BY <1>1, <1>2, <1>3, <1>10, ZenonT(30)
  <2>2. ASSUME NEW n \in 1 .. Len(f[p].children), NEW l \in d[f[p].children[n]].keys
        PROVE  l \in c[p].keys /\ Parts(f[p].items, n, l)
    <3> DEFINE q == f[p].children[n]
    <3>1. q \in DOMAIN c /\ l \in d[q].keys /\ f[p].children[n] = q
      BY <1>9
    <3> HIDE DEF q
    <3>2. l \in c[q].keys
      BY <1>7, <3>1, Zenon
    <3>3. KeyIsBelow(f, c, p, n, l)
      BY <3>1, <3>2, KeyBelow, ZenonT(30)
    <3> QED
      BY <3>3, ZenonT(30) DEF KeyIsBelow
  <2>3. IsOrderedAt(f, c, p)
    BY <1>6, ZenonT(30)
  <2> QED
    BY <2>1, <2>2, <2>3, ZenonT(30) DEF IsOrderedAt
<1>11. IsOrderedAt(g, d, w)
  <2> DEFINE s == f[w].items  t == g[w].items
  <2>1. /\ s \in Seq(Item) /\ i \in 1 .. Len(s) /\ Len(s) \in Nat
        /\ Len(f[w].children) = Len(s) + 1
    BY <1>1, NodeOfTree
  <2>2. /\ Ordered(s) /\ c[w].keys \subseteq Int
        /\ \A j \in 1 .. Len(s) : s[j].key \in c[w].keys
    BY <1>1, <1>6 DEF IsOrderedAt
  <2>3. Len(t) = Len(s) /\ t[i] = y /\ \A j \in 1 .. Len(s) : j # i => t[j] = s[j]
    BY <1>3
  <2>4. k \in c[w].keys /\ Parts(s, i, k)
    <3> DEFINE q == f[w].children[i]
    <3>1. i \in 1 .. Len(f[w].children) /\ f[w].children[i] = q /\ q \in A
      BY <1>1, <2>1
    <3> HIDE DEF q
    <3>2. k \in c[q].keys
      BY <1>8, <3>1
    <3> QED
      BY <1>1, <3>1, <3>2, KeyOfChild
  <2>5. \A n \in 1 .. Len(f[w].children) : \A l \in d[f[w].children[n]].keys :
          l \in c[w].keys /\ l \in Int /\ Parts(s, n, l) /\ (n = i => l < k)
    <3> TAKE n \in 1 .. Len(f[w].children)
    <3> TAKE l \in d[f[w].children[n]].keys
    <3> DEFINE q == f[w].children[n]
    <3>1. f[w].children[n] = q /\ l \in d[q].keys
      OBVIOUS
    <3> HIDE DEF q
    <3>2. q \in DOMAIN c
      BY <1>1, <1>9, <3>1
    <3>3. l \in c[q].keys
      BY <1>7, <3>1, <3>2
    <3>4. l \in c[w].keys /\ l \in Int /\ Parts(s, n, l)
      <4>1. w \in DOMAIN c
        BY <1>1
      <4> QED
        BY <3>1, <3>3, <4>1, KeyOfChild
    <3>5. n = i => l < k
      BY <1>1, <1>2, <3>1, <3>2
    <3> QED
      BY <3>4, <3>5
  <2> HIDE DEF s, t
  <2>6. /\ Ordered(t)
        /\ \A n \in Nat \ {0}, l \in Int :
             Parts(s, n, l) /\ (n = i => l < y.key) => Parts(t, n, l)
    BY <1>4, <2>1, <2>2, <2>3, <2>4, ReplacedInOrder DEF k
  <2>7. \A j \in 1 .. Len(t) : t[j].key \in c[w].keys
    BY <2>2, <2>3, <2>4, SMTT(30) DEF k
  <2>8. \A n \in 1 .. Len(f[w].children) : n \in Nat \ {0}
    BY <2>1
  <2>9. \A n \in 1 .. Len(f[w].children) : \A l \in d[f[w].children[n]].keys :
          l \in c[w].keys /\ Parts(t, n, l)
    BY <2>5, <2>6, <2>8 DEF k
  <2>10. d[w].keys = c[w].keys
    BY <1>1, <1>2, Zenon
  <2> QED
    BY <1>3, <2>2, <2>6, <2>7, <2>9, <2>10 DEF IsOrderedAt, t
<1>12. ASSUME NEW p \in A \ {a} PROVE IsOrderedAt(g, d, p)
  <2> DEFINE s == f[p].items  m == Len(f[p].children)
  <2>1. p \in DOMAIN c /\ p # w /\ g[p] = f[p] /\ d[p].keys = {l \in c[p].keys : l < k}
    BY <1>1, <1>2, <1>3, ZenonT(30)
  <2>2. m # 0 /\ m = Len(s) + 1 /\ Len(s) \in Nat /\ f[p].children[m] \in A
    BY <1>1, <2>1, NodeOfTree
  <2>3. IsOrderedAt(f, c, p)
    BY <1>6, <2>1
  <2>4. Parts(s, m, k)
    <3> DEFINE q == f[p].children[m]
    <3>1. m \in 1 .. Len(f[p].children) /\ f[p].children[m] = q /\ q \in A
      BY <2>2
    <3> HIDE DEF q
    <3>2. k \in c[q].keys
      BY <1>8, <3>1
    <3>3. p \in DOMAIN c /\ m \in 1 .. Len(f[p].children) /\ f[p].children[m] = q
      BY <2>1, <3>1
    <3> HIDE DEF m, s
    <3>4. KeyIsBelow(f, c, p, m, k)
      BY <3>2, <3>3, KeyBelow, ZenonT(30)
    <3> QED
      BY <3>4, Zenon DEF s, KeyIsBelow
  <2>5. \A j \in 1 .. Len(s) : s[j].key < k /\ s[j].key \in c[p].keys
    <3>1. \A j \in 1 .. Len(s) : j < m
      BY <2>2
    <3> QED
      BY <2>3, <2>4, <3>1 DEF Parts, IsOrderedAt
  <2>6. ASSUME NEW n \in 1 .. Len(f[p].children), NEW l \in d[f[p].children[n]].keys
        PROVE  l \in c[p].keys /\ l < k /\ Parts(s, n, l)
    <3> DEFINE q == f[p].children[n]
    <3>1. f[p].children[n] = q /\ l \in d[q].keys
      OBVIOUS
    <3> HIDE DEF q
    <3>2. q \in DOMAIN c
      BY <1>9, <2>1, <3>1
    <3>3. l \in c[q].keys
      BY <1>7, <3>1, <3>2
    <3>4. l \in c[p].keys /\ l \in Int /\ Parts(s, n, l)
      <4>1. KeyIsBelow(f, c, p, n, l)
        BY <2>1, <3>1, <3>3, KeyBelow, ZenonT(30)
      <4> QED
        BY <4>1, Zenon DEF KeyIsBelow
    <3>5. CASE n = m
      <4>1. q \in A
        BY <2>2, <3>1, <3>5
      <4>2. l < k
        BY <1>2, <3>1, <3>2, <4>1
      <4> QED
        BY <3>4, <4>2
    <3>6. CASE n # m
      <4>0. Len(f[p].children) = Len(s) + 1 /\ Len(s) \in Nat /\ n # Len(s) + 1
        BY <2>2, <3>6
      <4>1. n \in 1 .. Len(s)
        BY <4>0
      <4>2. l < s[n].key /\ s[n].key < k /\ s[n].key \in Int
        <5>1. c[p].keys \subseteq Int
          BY <1>7, <2>1, Zenon
        <5>2. n \in 1 .. Len(s) /\ n >= n
          BY <4>1
        <5> HIDE DEF s, m
        <5> QED
          BY <2>5, <3>4, <5>1, <5>2 DEF Parts
      <4>3. l < k
        BY <1>5, <3>4, <4>2
      <4> QED
        BY <3>4, <4>3
    <3> QED
      BY <3>5, <3>6, Zenon
  <2>7. d[p].keys \subseteq Int
    BY <1>7, <2>1
  <2>8. \A j \in 1 .. Len(s) : s[j].key \in d[p].keys
    BY <2>1, <2>5
  <2>9. Ordered(s)
    BY <2>3, Zenon DEF IsOrderedAt
  <2>10. \A n \in 1 .. Len(f[p].children) : \A l \in d[f[p].children[n]].keys :
           l \in d[p].keys /\ Parts(s, n, l)
    BY <2>1, <2>6, ZenonT(30)
  <2> QED
    BY <2>1, <2>7, <2>8, <2>9, <2>10, ZenonT(30) DEF IsOrderedAt
<1>13. IsOrderedAt(g, d, a)
  <2> DEFINE s == f[a].items  t == g[a].items
  <2>1. IsOrderedAt(f, c, a)
    BY <1>1, <1>6
  <2>2. s \in Seq(Item) /\ Ordered(s) /\ Len(s) \in 1 .. Len(s) /\ HasRemoved(t, s, Len(s))
    BY <1>3, <1>4, <2>1 DEF IsOrderedAt
  <2>3. \A m \in 1 .. Len(s) : m # Len(s) => s[m].key < k /\ s[m].key \in c[a].keys
    <3>1. \A m \in 1 .. Len(s) : m # Len(s) => m < Len(s)
      BY <1>4, SMTT(30)
    <3> QED
      BY <2>1, <2>2, <3>1, SMTT(30) DEF IsOrderedAt, Ordered, k
  <2>4. d[a].keys = {l \in c[a].keys : l < k} /\ d[a].keys \subseteq Int
    BY <1>1, <1>2, <1>7
  <2>5. \A j \in 1 .. Len(g[a].children) : FALSE
    BY <1>3, <1>4
  <2> HIDE DEF s, t
  <2>6. /\ Ordered(t)
        /\ \A j \in 1 .. Len(t) : \E m \in 1 .. Len(s) : m # Len(s) /\ t[j] = s[m]
    BY <2>2, RemovedInOrder
  <2>7. \A j \in 1 .. Len(t) : t[j].key \in d[a].keys
    BY <2>3, <2>4, <2>6
  <2> QED
    BY <2>4, <2>5, <2>6, <2>7 DEF IsOrderedAt, t
<1>14. \A p \in DOMAIN d : IsOrderedAt(g, d, p)
  BY <1>2, <1>10, <1>11, <1>12, <1>13
<1> QED
  BY <1>14, OrderOfPages

LEMMA PredecessorKeepsTree ==
  ASSUME NEW f, NEW r, NEW c, NEW h, IsTreeWith(f, r, c, h),
         NEW A, NEW w, NEW i, NEW a, NEW k,
         NEW g, TakesLast(f, g, DOMAIN c, w, i, a)
  PROVE  IsTreeWith(g, r, Cut(c, A, k), h)
<1>1. SamePlaces(c, Cut(c, A, k))
  BY DEF SamePlaces, Cut
<1>2. SameChildren(f, g, DOMAIN c)
  BY DEF TakesLast, SameChildren, IsTreeWith
<1> QED
  BY <1>1, <1>2, TreeKept
-----------------------------------------------------------------------------
\* Another root.

\* File g holds a tree over the pages in D with the items of the one in f.
Replants(f, c, g, r, h, D) ==
  \E d : /\ DOMAIN d = D
         /\ IsTreeWith(g, r, d, h) /\ IsOrderedWith(g, d)
         /\ \A y : HoldsItem(f, c, y) <=> HoldsItem(g, d, y)

\* The tree of a single leaf.
Planted(b) == [q \in {b} |-> [depth |-> 0, up |-> 0, at |-> 0, keys |-> Int]]

LEMMA PlantedTree ==
  ASSUME NEW b, NEW x \in Item, NEW g, g[b] \in StoredNodes({b}), g[b].items = <<x>>,
         g[b].children = <<>>
  PROVE  /\ IsTreeWith(g, b, Planted(b), 0) /\ IsOrderedWith(g, Planted(b))
         /\ DOMAIN Planted(b) = {b}
         /\ \A y : HoldsItem(g, Planted(b), y) <=> y = x
<1> DEFINE d == Planted(b)
<1>1. /\ DOMAIN d = {b} /\ d[b].depth = 0 /\ d[b].keys = Int
  BY DEF Planted
<1> HIDE DEF d
<1>2. Len(g[b].children) = 0 /\ is_leaf(g[b])
  BY DEF is_leaf
<1>3. Len(g[b].items) = 1 /\ g[b].items[1] = x /\ \A i \in 1 .. Len(g[b].items) : i = 1
  BY OneElement
<1>4. IsTreeWith(g, b, d, 0)
  <2>1. IsPageWith(g, d, 0, b)
    BY <1>1, <1>2 DEF IsPageWith
  <2>2. \A q \in DOMAIN d \ {b} : HasParent(g, d, q)
    BY <1>1
  <2>3. \A p \in DOMAIN d : IsPageWith(g, d, 0, p)
    BY <1>1, <2>1
  <2> QED
    BY <1>1, <2>2, <2>3, TreeOfPages
<1>5. IsOrderedWith(g, d)
  <2>1. Ordered(g[b].items)
    BY <1>3 DEF Ordered
  <2>2. \A i \in 1 .. Len(g[b].items) : g[b].items[i].key \in Int
    BY <1>3, KeysAreInts
  <2>3. \A i \in 1 .. Len(g[b].children) : FALSE
    BY <1>2
  <2>4. IsOrderedAt(g, d, b)
    BY <1>1, <2>1, <2>2, <2>3 DEF IsOrderedAt
  <2> QED
    BY <1>1, <2>4, OrderOfPages
<1>6. ASSUME NEW y PROVE HoldsItem(g, d, y) <=> y = x
  <2>1. HasItem(g[b], y) <=> y = x
    BY <1>3 DEF HasItem
  <2> QED
    BY <1>1, <2>1 DEF HoldsItem
<1> QED
  BY <1>1, <1>4, <1>5, <1>6 DEF d

\* Page b above the root, with the root for its only child.
Raised(c, r, b) ==
  [q \in DOMAIN c \union {b} |->
     IF q = b THEN [depth |-> 0, up |-> 0, at |-> 0, keys |-> c[r].keys]
     ELSE [depth |-> c[q].depth + 1, up |-> IF q = r THEN b ELSE c[q].up,
           at |-> IF q = r THEN 1 ELSE c[q].at, keys |-> c[q].keys]]

LEMMA RaisedTree ==
  ASSUME NEW f, NEW r, NEW c, NEW h \in Nat, IsTreeWith(f, r, c, h), IsOrderedWith(f, c),
         NEW b, b \notin DOMAIN c, NEW g, \A q \in DOMAIN c : g[q] = f[q],
         g[b] \in StoredNodes(DOMAIN c \union {b}), g[b].items = <<>>, g[b].children = <<r>>,
         NEW d, d = Raised(c, r, b)
  PROVE  /\ IsTreeWith(g, b, d, h + 1) /\ IsOrderedWith(g, d)
         /\ \A y : HoldsItem(f, c, y) <=> HoldsItem(g, d, y)
<1>1. /\ DOMAIN d = DOMAIN c \union {b}
      /\ d[b].depth = 0 /\ d[b].keys = c[r].keys
      /\ \A q \in DOMAIN c : d[q].depth = c[q].depth + 1 /\ d[q].keys = c[q].keys
  BY DEF Raised
<1>2. r \in DOMAIN c /\ r # b /\ c[r].depth = 0
  BY DEF IsTreeWith
<1>3. d[r].up = b /\ d[r].at = 1
  BY <1>2 DEF Raised
<1>4. \A q \in DOMAIN c \ {r} : d[q].up = c[q].up /\ d[q].at = c[q].at
  BY DEF Raised
<1>5. /\ Len(g[b].children) = 1 /\ g[b].children[1] = r
      /\ \A i \in 1 .. Len(g[b].children) : i = 1
      /\ g[b].children # <<>> /\ Len(g[b].items) = 0
      /\ \A i \in 1 .. Len(g[b].items) : FALSE
  BY <1>2, OneElement
<1>6. ASSUME NEW p \in DOMAIN c PROVE IsPageWith(g, d, h + 1, p)
  <2>1. g[p] = f[p] /\ d[p].depth = c[p].depth + 1
    BY <1>1
  <2>2. /\ f[p] \in StoredNodes(DOMAIN c) /\ c[p].depth \in 0 .. h
        /\ is_leaf(f[p]) <=> c[p].depth = h
    BY DEF IsTreeWith
  <2>3. f[p] \in StoredNodes(DOMAIN d)
    BY <1>1, <2>2, StoredNodesMonotonic
  <2>4. d[p].depth \in 0 .. h + 1 /\ (is_leaf(g[p]) <=> d[p].depth = h + 1)
    BY <2>1, <2>2
  <2>5. ASSUME NEW i \in 1 .. Len(f[p].children)
        PROVE  /\ d[f[p].children[i]].up = p /\ d[f[p].children[i]].at = i
               /\ d[f[p].children[i]].depth = d[p].depth + 1
    <3> DEFINE q == f[p].children[i]
    <3>1. /\ q \in DOMAIN c \ {r} /\ c[q].up = p /\ c[q].at = i
          /\ c[q].depth = c[p].depth + 1
      BY ChildOfTree
    <3> HIDE DEF q
    <3>2. d[q].up = p /\ d[q].at = i /\ d[q].depth = d[p].depth + 1
      BY <1>1, <1>4, <3>1
    <3> QED
      BY <3>2 DEF q
  <2> QED
    BY <2>1, <2>3, <2>4, <2>5 DEF IsPageWith
<1>7. IsPageWith(g, d, h + 1, b)
  <2>1. is_leaf(g[b]) <=> d[b].depth = h + 1
    BY <1>1, <1>5 DEF is_leaf
  <2>2. d[b].depth \in 0 .. h + 1
    BY <1>1
  <2>3. d[r].depth = d[b].depth + 1
    BY <1>1, <1>2
  <2>4. \A i \in 1 .. Len(g[b].children) : i = 1 /\ g[b].children[i] = r
    BY <1>5
  <2> QED
    BY <1>1, <1>3, <2>1, <2>2, <2>3, <2>4 DEF IsPageWith
<1>8. ASSUME NEW q \in DOMAIN d \ {b} PROVE HasParent(g, d, q)
  <2>1. CASE q = r
    <3>1. b \in DOMAIN d /\ d[r].up = b /\ d[r].at = 1 /\ g[b].children[1] = r
      BY <1>1, <1>3, <1>5
    <3>2. d[r].at \in 1 .. Len(g[b].children)
      BY <1>5, <3>1
    <3> QED
      BY <2>1, <3>1, <3>2 DEF HasParent
  <2>2. CASE q # r
    <3>1. /\ c[q].up \in DOMAIN c /\ c[q].at \in 1 .. Len(f[c[q].up].children)
          /\ f[c[q].up].children[c[q].at] = q
      BY <1>1, <1>8, <2>2 DEF IsTreeWith
    <3>2. d[q].up = c[q].up /\ d[q].at = c[q].at
      BY <1>1, <1>4, <1>8, <2>2
    <3>3. g[c[q].up] = f[c[q].up] /\ c[q].up \in DOMAIN d
      BY <1>1, <3>1
    <3> QED
      BY <3>1, <3>2, <3>3 DEF HasParent
  <2> QED
    BY <2>1, <2>2
<1>9. IsTreeWith(g, b, d, h + 1)
  <2>1. \A p \in DOMAIN d : IsPageWith(g, d, h + 1, p)
    BY <1>1, <1>6, <1>7
  <2>2. \A q \in DOMAIN d \ {b} : HasParent(g, d, q)
    BY <1>8
  <2>3. b \in DOMAIN d /\ d[b].depth = 0
    BY <1>1
  <2> QED
    BY <2>1, <2>2, <2>3, TreeOfPages
<1>10. ASSUME NEW p \in DOMAIN c PROVE IsOrderedAt(g, d, p)
  <2>1. IsOrderedAt(f, c, p)
    BY OrderOfPages
  <2>2. g[p] = f[p] /\ d[p].keys = c[p].keys
    BY <1>1
  <2>3. \A i \in 1 .. Len(f[p].children) : f[p].children[i] \in DOMAIN c
    BY NodeOfTree
  <2>4. \A i \in 1 .. Len(f[p].children) : d[f[p].children[i]].keys = c[f[p].children[i]].keys
    BY <1>1, <2>3
  <2> QED
    BY <2>1, <2>2, <2>4 DEF IsOrderedAt
<1>11. IsOrderedAt(g, d, b)
  <2>1. d[b].keys = c[r].keys /\ d[r].keys = c[r].keys /\ c[r].keys \subseteq Int
    BY <1>1, <1>2 DEF IsOrderedWith
  <2>2. Ordered(g[b].items)
    BY <1>5 DEF Ordered
  <2>3. \A i \in Int, k \in Int : Parts(g[b].items, i, k)
    BY <1>5 DEF Parts
  <2>4. \A i \in 1 .. Len(g[b].children) : i = 1 /\ g[b].children[i] = r
    BY <1>5
  <2> QED
    BY <1>5, <2>1, <2>2, <2>3, <2>4 DEF IsOrderedAt
<1>12. IsOrderedWith(g, d)
  <2>1. \A p \in DOMAIN d : IsOrderedAt(g, d, p)
    BY <1>1, <1>10, <1>11
  <2> QED
    BY <2>1, OrderOfPages
<1>13. ASSUME NEW y PROVE HoldsItem(f, c, y) <=> HoldsItem(g, d, y)
  <2>1. ~HasItem(g[b], y)
    BY <1>5 DEF HasItem
  <2> QED
    BY <1>1, <2>1 DEF HoldsItem
<1> QED
  BY <1>9, <1>12, <1>13

\* What SplitRoot writes leaves a tree one level higher.
LEMMA GrowReplants ==
  ASSUME NEW f, NEW r, NEW c, NEW h \in Nat, IsTreeWith(f, r, c, h), IsOrderedWith(f, c),
         NEW b, b \notin DOMAIN c, NEW e, e \notin DOMAIN c, e # b,
         can_spare_an_element(get_node(f, r)),
         NEW nd, nd = [page |-> b, items |-> <<>>, children |-> <<r>>],
         NEW sp, sp = split(nd, get_node(f, r), 1, e),
         NEW g, \A q \in DOMAIN c \ {r} : g[q] = f[q],
         Holds(g, b, sp.parent), Holds(g, r, sp.left), Holds(g, e, sp.right),
         NEW D, D = DOMAIN c \union {b, e}
  PROVE  Replants(f, c, g, b, h + 1, D)
<1> DEFINE T == DOMAIN c \union {b}
           j == [q \in T |-> IF q = b THEN Stored(nd) ELSE f[q]]
           d == Raised(c, r, b)
<1>1. r \in DOMAIN c
  BY DEF IsTreeWith
<1>2. j[b] = Stored(nd) /\ \A q \in DOMAIN c : j[q] = f[q]
  OBVIOUS
<1> HIDE DEF j
<1>3. nd \in NodesOver(T, T) /\ IsShaped(nd)
  <2>1. <<r>> \in Seq(T) /\ Len(<<r>>) = 1
    BY <1>1, OneElement
  <2>2. <<>> \in Seq(Item) /\ Len(<<>>) = 0
    BY EmptySeq
  <2> QED
    BY <2>1, <2>2 DEF NodesOver, IsShaped
<1>4. Holds(j, b, nd)
  BY <1>2 DEF Holds
<1>5. get_node(j, b) = nd /\ j[b].items = <<>> /\ j[b].children = <<r>>
  <2>1. nd.page = b /\ nd.items = <<>> /\ nd.children = <<r>>
    OBVIOUS
  <2> QED
    BY <1>3, <1>4, <2>1, HeldRead
<1>6. j[b] \in StoredNodes(T)
  BY <1>3, <1>4, HeldAlike
<1> HIDE DEF T
<1>7. T = DOMAIN c \union {b}
  BY DEF T
<1>8. /\ IsTreeWith(j, b, d, h + 1) /\ IsOrderedWith(j, d)
      /\ \A y : HoldsItem(f, c, y) <=> HoldsItem(j, d, y)
  BY <1>2, <1>5, <1>6, <1>7, RaisedTree
<1>9. DOMAIN d = T
  BY <1>7 DEF Raised
<1> HIDE DEF d
<1>10. get_node(j, r) = get_node(f, r)
  BY <1>1, <1>2 DEF get_node
<1>11. Remade(j, b, d, h + 1, g, D, b)
  <2>1. h + 1 \in Nat /\ b \in DOMAIN d /\ 1 \in 1 .. Len(j[b].children)
        /\ j[b].children[1] = r /\ e \notin DOMAIN d
    BY <1>5, <1>7, <1>9
  <2>2. can_spare_an_element(get_node(j, r)) /\ sp = split(get_node(j, b), get_node(j, r), 1, e)
    BY <1>5, <1>10
  <2>3. \A q \in DOMAIN d \ {b, r} : g[q] = j[q]
    BY <1>2, <1>7, <1>9
  <2>4. D = DOMAIN d \union {e}
    BY <1>7, <1>9
  <2> QED
    BY <1>8, <2>1, <2>2, <2>3, <2>4, SplitRemakes, SMTT(30)
<1>12. PICK k : DOMAIN k = D /\ Reworks(j, b, d, h + 1, g, k, b)
  BY <1>11 DEF Remade
<1>13. /\ IsTreeWith(g, b, k, h + 1) /\ IsOrderedWith(g, k)
       /\ \A y : HoldsItem(j, d, y) <=> HoldsItem(g, k, y)
  BY <1>12 DEF Reworks
<1> QED
  BY <1>8, <1>12, <1>13 DEF Replants

\* The tree below the only child of the root.
Lowered(c, r, e) ==
  [q \in DOMAIN c \ {r} |->
     [depth |-> c[q].depth - 1, up |-> c[q].up, at |-> c[q].at, keys |-> c[q].keys]]

LEMMA ShrinkReplants ==
  ASSUME NEW f, NEW r, NEW c, NEW h \in Nat, IsTreeWith(f, r, c, h), IsOrderedWith(f, c),
         f[r].items = <<>>, f[r].children # <<>>, NEW e, f[r].children[1] = e
  PROVE  h - 1 \in Nat /\ Replants(f, c, f, e, h - 1, DOMAIN c \ {r})
<1> DEFINE d == Lowered(c, r, e)
<1>1. r \in DOMAIN c /\ c[r].depth = 0
  BY DEF IsTreeWith
<1>2. /\ Len(f[r].items) = 0 /\ Len(f[r].children) = 1
      /\ f[r].children \in Seq(DOMAIN c)
  <2>1. /\ f[r].children \in Seq(DOMAIN c)
        /\ Len(f[r].children) # 0 => Len(f[r].children) = Len(f[r].items) + 1
    <3>1. r \in DOMAIN c
      BY <1>1
    <3>2. f[r].children \in Seq(DOMAIN c)
      BY <3>1, NodeOfTree
    <3>3. f[r] \in StoredNodes(DOMAIN c)
      BY DEF IsTreeWith
    <3>4. IsShaped(f[r])
      BY <3>3 DEF StoredNodes
    <3>5. Len(f[r].children) # 0 => Len(f[r].children) = Len(f[r].items) + 1
      BY <3>2, <3>4, EmptySeq DEF IsShaped, is_leaf
    <3> QED
      BY <3>2, <3>5
  <2>2. Len(f[r].items) = 0
    OBVIOUS
  <2>3. Len(f[r].children) # 0
    BY <2>1, EmptySeq
  <2> QED
    BY <2>1, <2>2, <2>3
<1>3. e \in DOMAIN c \ {r} /\ c[e].up = r /\ c[e].depth = 1
  <2>1. 1 \in 1 .. Len(f[r].children)
    BY <1>2
  <2> QED
    BY <1>1, <2>1, ChildOfTree
<1>4. h - 1 \in Nat
  <2>1. c[e].depth \in 0 .. h
    BY <1>3, NodeOfTree
  <2> QED
    BY <1>3, <2>1
<1>5. /\ DOMAIN d = DOMAIN c \ {r}
      /\ \A q \in DOMAIN c \ {r} : /\ d[q].depth = c[q].depth - 1 /\ d[q].keys = c[q].keys
                                   /\ d[q].up = c[q].up /\ d[q].at = c[q].at
  BY DEF Lowered
<1> HIDE DEF d
<1>6. ASSUME NEW q \in DOMAIN c \ {r, e} PROVE HasParent(f, d, q)
  <2>1. /\ c[q].up \in DOMAIN c /\ c[q].at \in 1 .. Len(f[c[q].up].children)
        /\ f[c[q].up].children[c[q].at] = q
    BY DEF IsTreeWith
  <2>2. c[q].up # r
    <3> SUFFICES ASSUME c[q].up = r PROVE FALSE
      OBVIOUS
    <3>1. c[q].at = 1
      BY <1>2, <2>1
    <3> QED
      BY <2>1, <3>1
  <2> QED
    BY <1>5, <2>1, <2>2 DEF HasParent
<1>7. ASSUME NEW q \in DOMAIN c, q # r PROVE c[q].depth \in 1 .. h
  <2>1. /\ c[q].up \in DOMAIN c /\ c[q].at \in 1 .. Len(f[c[q].up].children)
        /\ f[c[q].up].children[c[q].at] = q
    BY <1>7 DEF IsTreeWith
  <2> DEFINE u == c[q].up  i == c[q].at
  <2>2. u \in DOMAIN c /\ i \in 1 .. Len(f[u].children) /\ f[u].children[i] = q
    BY <2>1
  <2> HIDE DEF u, i
  <2>3. c[q].depth = c[u].depth + 1
    BY <2>2, ChildOfTree
  <2>4. c[u].depth \in 0 .. h /\ c[q].depth \in 0 .. h
    BY <2>2, NodeOfTree
  <2> QED
    BY <2>3, <2>4
<1>8. ASSUME NEW p \in DOMAIN d PROVE IsPageWith(f, d, h - 1, p)
  <2>1. p \in DOMAIN c /\ p # r /\ d[p].depth = c[p].depth - 1
    BY <1>5
  <2>2. /\ f[p] \in StoredNodes(DOMAIN c) /\ c[p].depth \in 1 .. h
        /\ is_leaf(f[p]) <=> c[p].depth = h
    BY <1>7, <2>1 DEF IsTreeWith
  <2>3. ASSUME NEW i \in 1 .. Len(f[p].children)
        PROVE  /\ f[p].children[i] \in DOMAIN d
               /\ d[f[p].children[i]].up = p /\ d[f[p].children[i]].at = i
               /\ d[f[p].children[i]].depth = d[p].depth + 1
    <3> DEFINE q == f[p].children[i]
    <3>1. /\ q \in DOMAIN c \ {r} /\ c[q].up = p /\ c[q].at = i
          /\ c[q].depth = c[p].depth + 1
      BY <2>1, ChildOfTree
    <3> HIDE DEF q
    <3>2. q \in DOMAIN d /\ d[q].up = p /\ d[q].at = i /\ d[q].depth = c[q].depth - 1
      BY <1>5, <3>1
    <3>3. c[q].depth - 1 = c[p].depth - 1 + 1
      BY <2>2, <3>1
    <3> QED
      BY <2>1, <3>2, <3>3 DEF q
  <2>4. f[p] \in StoredNodes(DOMAIN d)
    <3>1. f[p].children \in Seq(DOMAIN c)
      BY <2>2 DEF StoredNodes
    <3>2. f[p].children \in Seq(DOMAIN d)
      BY <2>3, <3>1, SeqOver
    <3> QED
      BY <2>2, <3>2 DEF StoredNodes
  <2>5. d[p].depth \in 0 .. h - 1 /\ (is_leaf(f[p]) <=> d[p].depth = h - 1)
    BY <2>1, <2>2
  <2> QED
    BY <2>3, <2>4, <2>5 DEF IsPageWith
<1>9. IsTreeWith(f, e, d, h - 1)
  <2>1. e \in DOMAIN d /\ d[e].depth = 0
    BY <1>3, <1>5
  <2>2. \A q \in DOMAIN d \ {e} : HasParent(f, d, q)
    BY <1>5, <1>6
  <2> QED
    BY <1>8, <2>1, <2>2, TreeOfPages
<1>10. ASSUME NEW p \in DOMAIN d PROVE IsOrderedAt(f, d, p)
  <2>1. p \in DOMAIN c /\ d[p].keys = c[p].keys
    BY <1>5
  <2>2. IsOrderedAt(f, c, p)
    BY <2>1, OrderOfPages
  <2>3. \A i \in 1 .. Len(f[p].children) : f[p].children[i] \in DOMAIN c \ {r}
    BY <2>1, ChildOfTree
  <2>4. \A i \in 1 .. Len(f[p].children) : d[f[p].children[i]].keys = c[f[p].children[i]].keys
    BY <1>5, <2>3
  <2> QED
    BY <2>1, <2>2, <2>4 DEF IsOrderedAt
<1>11. IsOrderedWith(f, d)
  BY <1>10, OrderOfPages
<1>12. ASSUME NEW y PROVE HoldsItem(f, c, y) <=> HoldsItem(f, d, y)
  <2>1. ~HasItem(f[r], y)
    BY <1>2 DEF HasItem
  <2> QED
    BY <1>5, <2>1 DEF HoldsItem
<1> QED
  BY <1>4, <1>5, <1>9, <1>11, <1>12 DEF Replants
-----------------------------------------------------------------------------
\* Single nodes written.

LEMMA WrittenAlone ==
  ASSUME NEW f, NEW T, FileOK(f, T), T \subseteq DOMAIN f,
         NEW n \in NodesOver(T, T), IsShaped(n), NEW a \in T, n.page = a,
         n.children = f[a].children, NEW g, g = Written(f, <<n>>)
  PROVE  /\ ChangesOnly(f, g, T, a) /\ g[a].items = n.items /\ get_node(g, a) = n
         /\ T \subseteq DOMAIN g /\ FileOK(g, T)
<1> DEFINE nodes == <<n>>
<1>1. nodes \in Seq(NodesOver(T, T)) /\ Len(nodes) = 1 /\ nodes[1] = n
  BY OneElement
<1> HIDE DEF nodes
<1>2. g = Written(f, nodes)
  BY DEF nodes
<1>3. \A i \in 1 .. Len(nodes) : nodes[i] = n
  BY <1>1
<1>4. HasWritten(f, nodes, g)
  BY <1>1, <1>2, <1>3, NodesAreWritten
<1>5. Holds(g, a, n)
  BY <1>1, <1>4 DEF HasWritten
<1>6. \A q \in T \ {a} : g[q] = f[q]
  BY <1>3, <1>4 DEF HasWritten
<1>7. g[a].items = n.items /\ g[a].children = n.children /\ g[a] \in StoredNodes(T)
  BY <1>5, HeldAlike DEF Alike
<1>8. get_node(g, a) = n
  BY <1>5, HeldRead
<1>9. T \subseteq DOMAIN g
  BY <1>4 DEF HasWritten
<1>10. FileOK(g, T)
  BY <1>1, <1>2, FileStaysOK
<1> QED
  BY <1>6, <1>7, <1>8, <1>9, <1>10 DEF ChangesOnly

LEMMA WrittenBoth ==
  ASSUME NEW f, NEW T, FileOK(f, T), T \subseteq DOMAIN f,
         NEW m \in NodesOver(T, T), IsShaped(m), NEW a \in T, m.page = a,
         NEW n \in NodesOver(T, T), IsShaped(n), NEW w \in T, n.page = w, w # a,
         NEW g, g = Written(f, <<m, n>>)
  PROVE  /\ \A q \in T \ {a, w} : g[q] = f[q]
         /\ Alike(g[a], m) /\ get_node(g, a) = m /\ g[a] \in StoredNodes(T)
         /\ Alike(g[w], n) /\ get_node(g, w) = n /\ g[w] \in StoredNodes(T)
         /\ T \subseteq DOMAIN g
<1> DEFINE nodes == <<m, n>>
<1>1. /\ nodes \in Seq(NodesOver(T, T)) /\ Len(nodes) = 2 /\ nodes[1] = m /\ nodes[2] = n
  OBVIOUS
<1> HIDE DEF nodes
<1>2. g = Written(f, nodes)
  BY DEF nodes
<1>3. \A i \in 1 .. Len(nodes) : \/ nodes[i] = m /\ nodes[i].page = a
                                 \/ nodes[i] = n /\ nodes[i].page = w
  <2> TAKE i \in 1 .. Len(nodes)
  <2>1. i = 1 \/ i = 2
    BY <1>1
  <2>2. nodes[1].page = a /\ nodes[2].page = w
    BY <1>1
  <2>3. CASE i = 1
    BY <1>1, <2>2, <2>3
  <2>4. CASE i = 2
    BY <1>1, <2>2, <2>4
  <2> QED
    BY <2>1, <2>3, <2>4
<1>4. HasWritten(f, nodes, g)
  <2>1. \A i, j \in 1 .. Len(nodes) : nodes[i].page = nodes[j].page => nodes[i] = nodes[j]
    BY <1>3
  <2> QED
    BY <1>1, <1>2, <2>1, NodesAreWritten
<1>5. Holds(g, a, m)
  BY <1>1, <1>4 DEF HasWritten
<1>6. Holds(g, w, n)
  BY <1>1, <1>4 DEF HasWritten
<1>7. \A q \in T \ {a, w} : g[q] = f[q]
  BY <1>3, <1>4 DEF HasWritten
<1>8. Alike(g[a], m) /\ g[a] \in StoredNodes(T)
  BY <1>5, HeldAlike
<1>9. Alike(g[w], n) /\ g[w] \in StoredNodes(T)
  BY <1>6, HeldAlike
<1>10. get_node(g, a) = m
  BY <1>5, HeldRead
<1>11. get_node(g, w) = n
  BY <1>6, HeldRead
<1>12. T \subseteq DOMAIN g
  BY <1>4 DEF HasWritten
<1> QED
  BY <1>7, <1>8, <1>9, <1>10, <1>11, <1>12
-----------------------------------------------------------------------------
\* Paths of the tree.

\* The pages w the slots lead to from the root.
IsRoute(f, r, c, slots, w) ==
  /\ w \in [1 .. Len(slots) + 1 -> DOMAIN c] /\ w[1] = r
  /\ \A i \in 1 .. Len(slots) + 1 : c[w[i]].depth = i - 1
  /\ \A i \in 1 .. Len(slots) :
       /\ slots[i] \in 1 .. Len(f[w[i]].children)
       /\ f[w[i]].children[slots[i]] = w[i + 1]
       /\ c[w[i + 1]].up = w[i] /\ c[w[i + 1]].at = slots[i]

LEMMA RouteOfPath ==
  ASSUME NEW f, NEW r, NEW c, NEW h \in Nat, IsTreeWith(f, r, c, h),
         NEW slots \in Seq(Nat), NEW S, NEW p, LeadsTo(f, S, slots, r, p)
  PROVE  \E w : IsRoute(f, r, c, slots, w) /\ w[Len(slots) + 1] = p
<1> DEFINE n == Len(slots)
<1>1. n \in Nat
  BY LenProperties
<1>2. PICK w \in [1 .. n + 1 -> S] :
        /\ w[1] = r /\ w[n + 1] = p
        /\ \A i \in 1 .. n : /\ slots[i] \in 1 .. Len(f[w[i]].children)
                             /\ w[i + 1] = f[w[i]].children[slots[i]]
  BY DEF LeadsTo
<1> HIDE DEF n
<1> DEFINE T == {i \in Nat : i + 1 \in 1 .. n + 1 =>
                    w[i + 1] \in DOMAIN c /\ c[w[i + 1]].depth = i}
<1>3. 0 \in T
  <2>1. r \in DOMAIN c /\ c[r].depth = 0
    BY DEF IsTreeWith
  <2> QED
    BY <1>2, <2>1
<1>4. ASSUME NEW i \in Nat, i \in T PROVE i + 1 \in T
  <2> SUFFICES ASSUME i + 2 \in 1 .. n + 1
               PROVE  w[i + 2] \in DOMAIN c /\ c[w[i + 2]].depth = i + 1
    OBVIOUS
  <2> DEFINE m == i + 1
  <2>1. m \in 1 .. n /\ m \in 1 .. n + 1 /\ m + 1 = i + 2
    BY <1>1
  <2>2. w[m] \in DOMAIN c /\ c[w[m]].depth = i
    BY <1>4, <2>1
  <2>3. slots[m] \in 1 .. Len(f[w[m]].children) /\ f[w[m]].children[slots[m]] = w[m + 1]
    BY <1>2, <2>1
  <2> HIDE DEF m
  <2>4. w[m + 1] \in DOMAIN c /\ c[w[m + 1]].depth = c[w[m]].depth + 1
    <3> DEFINE u == w[m]  q == w[m + 1]  s == slots[m]
    <3>1. u \in DOMAIN c /\ s \in 1 .. Len(f[u].children) /\ f[u].children[s] = q
      BY <2>2, <2>3
    <3> HIDE DEF u, q, s
    <3>2. q \in DOMAIN c /\ c[q].depth = c[u].depth + 1
      <4>1. IsChild(c, r, u, s, q)
        BY <3>1, ChildAt, Zenon
      <4> QED
        BY <4>1 DEF IsChild
    <3> QED
      BY <3>2 DEF u, q
  <2> QED
    BY <2>1, <2>2, <2>4
<1> HIDE DEF T
<1>5. Nat \subseteq T
  BY <1>3, <1>4, Induction
<1>6. \A i \in 1 .. n + 1 : w[i] \in DOMAIN c /\ c[w[i]].depth = i - 1
  <2> TAKE i \in 1 .. n + 1
  <2>1. i - 1 \in Nat /\ (i - 1) + 1 = i
    BY <1>1
  <2>2. i - 1 \in T
    BY <1>5, <2>1
  <2> QED
    BY <2>1, <2>2 DEF T
<1>7. \A i \in 1 .. n :
        /\ slots[i] \in 1 .. Len(f[w[i]].children)
        /\ f[w[i]].children[slots[i]] = w[i + 1]
        /\ c[w[i + 1]].up = w[i] /\ c[w[i + 1]].at = slots[i]
  <2> TAKE i \in 1 .. n
  <2>1. w[i] \in DOMAIN c
    BY <1>1, <1>6
  <2>2. slots[i] \in 1 .. Len(f[w[i]].children) /\ f[w[i]].children[slots[i]] = w[i + 1]
    BY <1>2
  <2> DEFINE u == w[i]  q == w[i + 1]  s == slots[i]
  <2>3. u \in DOMAIN c /\ s \in 1 .. Len(f[u].children) /\ f[u].children[s] = q
    BY <2>1, <2>2
  <2> HIDE DEF u, q, s
  <2>4. c[q].up = u /\ c[q].at = s
    <3>1. IsChild(c, r, u, s, q)
      BY <2>3, ChildAt, Zenon
    <3> QED
      BY <3>1 DEF IsChild
  <2> QED
    BY <2>2, <2>4 DEF u, q, s
<1>8. w \in [1 .. n + 1 -> DOMAIN c]
  BY <1>2, <1>6
<1> QED
  BY <1>2, <1>6, <1>7, <1>8 DEF IsRoute, n

\* Writes that keep the children keep the path.
LEMMA RouteKept ==
  ASSUME NEW f, NEW r, NEW c, NEW slots \in Seq(Nat), NEW w, IsRoute(f, r, c, slots, w),
         NEW g, SameChildren(f, g, DOMAIN c)
  PROVE  IsRoute(g, r, c, slots, w)
<1>1. Len(slots) \in Nat
  BY LenProperties
<1>2. \A i \in 1 .. Len(slots) : g[w[i]].children = f[w[i]].children
  <2> TAKE i \in 1 .. Len(slots)
  <2>1. i \in 1 .. Len(slots) + 1
    BY <1>1
  <2>2. w[i] \in DOMAIN c
    BY <2>1 DEF IsRoute
  <2> QED
    BY <2>2 DEF SameChildren
<1> QED
  BY <1>2 DEF IsRoute

\* The copies get_nodes makes are of those pages.
LEMMA RouteNodes ==
  ASSUME NEW f, NEW r, NEW c, \A q \in DOMAIN c : f[q] \in StoredNodes(DOMAIN c),
         DOMAIN c \subseteq DOMAIN f,
         NEW slots \in Seq(Nat), NEW w, IsRoute(f, r, c, slots, w)
  PROVE  /\ DOMAIN get_nodes(f, r, slots) = 1 .. Len(slots) + 1
         /\ \A i \in 1 .. Len(slots) + 1 : get_nodes(f, r, slots)[i] = get_node(f, w[i])
<1>1. StoredIn(f, DOMAIN c, DOMAIN c)
  BY DEF StoredIn
<1>2. IsWalk(f, DOMAIN c, slots, w) /\ w[1] = r
  BY DEF IsRoute, IsWalk
<1>3. AreNodesOn(f, slots, w, get_nodes(f, r, slots))
  BY <1>1, <1>2, NodesAlongPath
<1> QED
  BY <1>3 DEF AreNodesOn
-----------------------------------------------------------------------------
\* Searching the tree.

\* A value that is its own successor.
LEMMA IterationStays ==
  ASSUME NEW next, NEW start, NEW n \in 0 .. MaxDepth, NEW x, Iteration(next, start)[n] = x,
         next[x] = x, NEW m \in n .. MaxDepth
  PROVE  Iteration(next, start)[m] = x
<1> DEFINE w == Iteration(next, start)
           T == {j \in Nat : n + j <= MaxDepth => w[n + j] = x}
<1>1. MaxDepth \in Nat
  BY CollectionAssumption
<1>2. \A j \in 0 .. MaxDepth - 1 : w[j + 1] = next[w[j]]
  BY IterationSteps
<1> HIDE DEF w
<1>3. 0 \in T
  BY DEF w
<1>4. ASSUME NEW j \in Nat, j \in T PROVE j + 1 \in T
  <2> SUFFICES ASSUME n + (j + 1) <= MaxDepth PROVE w[n + (j + 1)] = x
    OBVIOUS
  <2> DEFINE i == n + j
  <2>1. i \in 0 .. MaxDepth - 1 /\ n + (j + 1) = i + 1
    BY <1>1
  <2>2. w[i] = x
    BY <1>1, <1>4, <2>1
  <2> HIDE DEF i
  <2> QED
    BY <1>2, <2>1, <2>2
<1> HIDE DEF T
<1>5. Nat \subseteq T
  BY <1>3, <1>4, Induction
<1>6. m - n \in Nat /\ n + (m - n) = m /\ m <= MaxDepth
  BY <1>1
<1>7. m - n \in T
  BY <1>5, <1>6
<1> QED
  BY <1>6, <1>7 DEF T, w

\* The place of a key that lies between two items.
LEMMA KeyAtPlace ==
  ASSUME NEW nd, nd.items \in Seq(Item), Ordered(nd.items), NEW k \in Key,
         NEW p \in 1 .. Len(nd.items) + 1, Parts(nd.items, p, k)
  PROVE  KeyPosition(nd, k) = p /\ ~find_key_in_node(nd, k).found
<1> DEFINE i == KeyPosition(nd, k)  s == nd.items
<1>1. /\ i \in 1 .. Len(s) + 1
      /\ \A j \in 1 .. Len(s) : /\ s[j].key \in Int
                                /\ j < i => s[j].key < k
                                /\ j >= i => s[j].key >= k
  BY KeyPositionSplits
<1>2. Len(s) \in Nat /\ k \in Int
  BY LenProperties, KeysAreInts
<1>3. \A j \in 1 .. Len(s) : /\ j < p => s[j].key < k
                             /\ j >= p => k < s[j].key
  BY DEF Parts
<1>4. find_key_in_node(nd, k).found <=> i <= Len(s) /\ s[i].key = k
  BY DEF find_key_in_node
<1> HIDE DEF i, s
<1>5. i = p
  <2>1. CASE i < p
    <3>1. i \in 1 .. Len(s)
      BY <1>1, <1>2, <2>1 DEF s
    <3> QED
      BY <1>1, <1>2, <1>3, <2>1, <3>1
  <2>2. CASE p < i
    <3>1. p \in 1 .. Len(s)
      BY <1>1, <1>2, <2>2 DEF s
    <3> QED
      BY <1>1, <1>2, <1>3, <2>2, <3>1
  <2> QED
    BY <1>1, <1>2, <2>1, <2>2
<1>6. ~find_key_in_node(nd, k).found
  <2> SUFFICES ASSUME i <= Len(s), s[i].key = k PROVE FALSE
    BY <1>4
  <2>1. i \in 1 .. Len(s)
    BY <1>1, <1>2
  <2> QED
    BY <1>2, <1>3, <1>5, <2>1
<1> QED
  BY <1>5, <1>6 DEF i

\* The place of the key of an item.
LEMMA KeyAtItem ==
  ASSUME NEW nd, nd.items \in Seq(Item), Ordered(nd.items), NEW i \in 1 .. Len(nd.items)
  PROVE  /\ KeyPosition(nd, nd.items[i].key) = i
         /\ find_key_in_node(nd, nd.items[i].key).found
<1> DEFINE s == nd.items  k == s[i].key  p == KeyPosition(nd, k)
<1>1. Len(s) \in Nat /\ s[i] \in Item
  BY LenProperties, ElementOfSeq
<1>2. k \in Key /\ k \in Int
  BY <1>1, KeysAreInts DEF Item
<1>3. /\ p \in 1 .. Len(s) + 1
      /\ \A j \in 1 .. Len(s) : /\ s[j].key \in Int
                                /\ j < p => s[j].key < k
                                /\ j > p => s[j].key > k
  BY <1>2, KeyPositionSplits
<1>4. find_key_in_node(nd, k).found <=> p <= Len(s) /\ s[p].key = k
  BY DEF find_key_in_node
<1>5. s[i].key = k
  OBVIOUS
<1>6. i \in 1 .. Len(s)
  OBVIOUS
<1> HIDE DEF s, k, p
<1>7. p = i
  BY <1>1, <1>2, <1>3, <1>5, <1>6
<1> QED
  BY <1>1, <1>4, <1>5, <1>6, <1>7 DEF s, k, p

\* Where a key is, and where one would be that is not there.
LEMMA KeyFound ==
  ASSUME NEW nd, nd.items \in Seq(Item), NEW k, find_key_in_node(nd, k).found
  PROVE  /\ KeyPosition(nd, k) \in 1 .. Len(nd.items)
         /\ nd.items[KeyPosition(nd, k)].key = k
<1>1. KeyPosition(nd, k) \in 1 .. Len(nd.items) + 1 /\ Len(nd.items) \in Nat
  BY KeyPositionInRange, LenProperties
<1>2. KeyPosition(nd, k) <= Len(nd.items) /\ nd.items[KeyPosition(nd, k)].key = k
  BY DEF find_key_in_node
<1> QED
  BY <1>1, <1>2

LEMMA KeyNotFound ==
  ASSUME NEW nd, nd.items \in Seq(Item), Ordered(nd.items), NEW k \in Key,
         ~find_key_in_node(nd, k).found
  PROVE  Parts(nd.items, KeyPosition(nd, k), k)
<1> DEFINE i == KeyPosition(nd, k)  s == nd.items
<1>1. /\ i \in 1 .. Len(s) + 1
      /\ \A j \in 1 .. Len(s) : /\ s[j].key \in Int
                                /\ j < i => s[j].key < k
                                /\ j >= i => s[j].key >= k
                                /\ j > i => s[j].key > k
  BY KeyPositionSplits
<1>2. Len(s) \in Nat /\ k \in Int
  BY LenProperties, KeysAreInts
<1>3. ~(i <= Len(s) /\ s[i].key = k)
  BY DEF find_key_in_node
<1> HIDE DEF i, s
<1>4. \A j \in 1 .. Len(s) : j >= i => k < s[j].key
  <2> TAKE j \in 1 .. Len(s)
  <2> HAVE j >= i
  <2>1. CASE j = i
    BY <1>1, <1>2, <1>3, <2>1
  <2>2. CASE j > i
    BY <1>1, <1>2, <2>2
  <2> QED
    BY <1>1, <2>1, <2>2
<1> QED
  BY <1>1, <1>4 DEF Parts, i, s

\* The tree of the collection.
IsTreeOf(c, h) ==
  /\ h \in Nat /\ h <= MaxDepth
  /\ IsTreeWith(file, root, c, h) /\ IsOrderedWith(file, c)
  /\ DOMAIN c \subseteq Nat

Stops(m, k) == is_leaf(m) \/ find_key_in_node(m, k).found

LEMMA NodeOfCollection ==
  ASSUME NEW c, NEW h, IsTreeOf(c, h), NEW q \in DOMAIN c
  PROVE  /\ get_node(file, q) \in Nodes /\ get_node(file, q).page = q
         /\ get_node(file, q).items = file[q].items
         /\ get_node(file, q).children = file[q].children
         /\ file[q].items \in Seq(Item) /\ Ordered(file[q].items)
         /\ c[q].depth \in 0 .. h /\ (is_leaf(get_node(file, q)) <=> c[q].depth = h)
<1>0. h \in Nat /\ IsTreeWith(file, root, c, h) /\ IsOrderedWith(file, c) /\ DOMAIN c \subseteq Nat
  BY DEF IsTreeOf
<1>1. /\ get_node(file, q) \in NodesOver(DOMAIN c, DOMAIN c) /\ get_node(file, q).page = q
      /\ get_node(file, q).items = file[q].items
      /\ get_node(file, q).children = file[q].children
  BY <1>0, NodesOfTree
<1>2. get_node(file, q) \in Nodes
  <2>1. get_node(file, q).children \in Seq(Nat)
    BY <1>0, <1>1, SeqMonotonic DEF NodesOver
  <2> QED
    BY <1>0, <1>1, <2>1 DEF NodesOver, Nodes
<1>3. file[q].items \in Seq(Item) /\ Ordered(file[q].items)
  BY <1>0, NodeOfTree DEF IsOrderedWith
<1>4. c[q].depth \in 0 .. h /\ (is_leaf(file[q]) <=> c[q].depth = h)
  BY <1>0 DEF IsTreeWith
<1> QED
  BY <1>1, <1>2, <1>3, <1>4 DEF is_leaf

LEMMA WalkSteps ==
  ASSUME NEW r, NEW k
  PROVE  /\ Walk(r, k)[0] = get_node(file, r)
         /\ \A n \in 0 .. MaxDepth - 1 : Walk(r, k)[n] \in Nodes =>
              Walk(r, k)[n + 1] =
                IF Stops(Walk(r, k)[n], k) THEN Walk(r, k)[n]
                ELSE get_node(file, Walk(r, k)[n].children[KeyPosition(Walk(r, k)[n], k)])
         /\ \A n \in 0 .. MaxDepth : \A m \in n .. MaxDepth :
              Walk(r, k)[n] \in Nodes /\ Stops(Walk(r, k)[n], k) => Walk(r, k)[m] = Walk(r, k)[n]
<1> DEFINE next == [m \in Nodes |->
                      IF is_leaf(m) \/ find_key_in_node(m, k).found THEN m
                      ELSE get_node(file, m.children[KeyPosition(m, k)])]
           w == Walk(r, k)
<1>1. \A m \in Nodes : next[m] = IF Stops(m, k) THEN m
                                 ELSE get_node(file, m.children[KeyPosition(m, k)])
  BY DEF Stops
<1>2. w = Iteration(next, get_node(file, r))
  BY DEF Walk
<1> HIDE DEF next
<1>3. w[0] = get_node(file, r) /\ \A n \in 0 .. MaxDepth - 1 : w[n + 1] = next[w[n]]
  BY <1>2, IterationSteps
<1>4. ASSUME NEW n \in 0 .. MaxDepth, NEW m \in n .. MaxDepth, w[n] \in Nodes, Stops(w[n], k)
      PROVE  w[m] = w[n]
  <2>1. next[w[n]] = w[n]
    BY <1>1, <1>4
  <2> HIDE DEF w
  <2> DEFINE x == w[n]
  <2>2. Iteration(next, get_node(file, r))[n] = x /\ next[x] = x
    BY <1>2, <2>1
  <2> HIDE DEF x
  <2>3. Iteration(next, get_node(file, r))[m] = x
    BY <2>2, IterationStays
  <2> QED
    BY <1>2, <2>3 DEF x
<1> HIDE DEF w
<1> QED
  BY <1>1, <1>3, <1>4 DEF w

\* The search passes the pages that may hold the key.
LEMMA WalkPasses ==
  ASSUME NEW c, NEW h, IsTreeOf(c, h), NEW k \in Key,
         NEW q \in DOMAIN c, k \in c[q].keys
  PROVE  Walk(root, k)[c[q].depth] = get_node(file, q)
<1> DEFINE W == Walk(root, k)
           T == {n \in Nat : \A p \in DOMAIN c :
                   c[p].depth = n /\ k \in c[p].keys => W[n] = get_node(file, p)}
<1>0. h \in Nat /\ h <= MaxDepth /\ IsTreeWith(file, root, c, h) /\ IsOrderedWith(file, c)
  BY DEF IsTreeOf
<1>1. MaxDepth \in Nat
  BY CollectionAssumption
<1>2. /\ W[0] = get_node(file, root)
      /\ \A n \in 0 .. MaxDepth - 1 : W[n] \in Nodes =>
           W[n + 1] = IF Stops(W[n], k) THEN W[n]
                      ELSE get_node(file, W[n].children[KeyPosition(W[n], k)])
  BY WalkSteps
<1> HIDE DEF W
<1>3. ASSUME NEW p \in DOMAIN c \ {root}
      PROVE  \E u \in DOMAIN c : \E i \in 1 .. Len(file[u].children) :
               file[u].children[i] = p /\ c[p].depth = c[u].depth + 1
  <2> DEFINE u == c[p].up  i == c[p].at
  <2>1. u \in DOMAIN c /\ i \in 1 .. Len(file[u].children) /\ file[u].children[i] = p
    BY <1>0 DEF IsTreeWith
  <2> HIDE DEF u, i
  <2>2. c[p].depth = c[u].depth + 1
    BY <1>0, <2>1, ChildOfTree
  <2> QED
    BY <2>1, <2>2
<1>4. 0 \in T
  <2> SUFFICES ASSUME NEW p \in DOMAIN c, c[p].depth = 0 PROVE p = root
    BY <1>2
  <2> SUFFICES ASSUME p # root PROVE FALSE
    OBVIOUS
  <2>1. PICK u \in DOMAIN c : c[p].depth = c[u].depth + 1
    BY <1>3
  <2>2. c[u].depth \in 0 .. h
    BY NodeOfCollection
  <2> QED
    BY <2>1, <2>2
<1>5. ASSUME NEW n \in Nat, n \in T PROVE n + 1 \in T
  <2> SUFFICES ASSUME NEW p \in DOMAIN c, c[p].depth = n + 1, k \in c[p].keys
               PROVE  W[n + 1] = get_node(file, p)
    OBVIOUS
  <2>1. p # root
    BY <1>0 DEF IsTreeWith
  <2>a. PICK u \in DOMAIN c : \E i \in 1 .. Len(file[u].children) :
          file[u].children[i] = p /\ c[p].depth = c[u].depth + 1
    BY <1>3, <2>1
  <2>2. PICK i \in 1 .. Len(file[u].children) :
          file[u].children[i] = p /\ c[p].depth = c[u].depth + 1
    BY <2>a
  <2>3. c[u].depth \in 0 .. h /\ c[p].depth \in 0 .. h
    BY NodeOfCollection
  <2>4. c[u].depth = n /\ n \in 0 .. MaxDepth - 1 /\ n # h
    BY <1>0, <1>1, <2>2, <2>3
  <2>5. k \in c[u].keys /\ Parts(file[u].items, i, k)
    BY <1>0, <2>2, KeyOfChild
  <2> DEFINE nd == get_node(file, u)
  <2>6. /\ nd \in Nodes /\ nd.items = file[u].items /\ nd.children = file[u].children
        /\ nd.items \in Seq(Item) /\ Ordered(nd.items) /\ ~is_leaf(nd)
    BY <2>4, NodeOfCollection
  <2>7. W[n] = nd
    BY <1>5, <2>4, <2>5
  <2>8. i \in 1 .. Len(nd.items) + 1
    <3>1. Len(file[u].children) # 0 => Len(file[u].children) = Len(file[u].items) + 1
      BY <1>0, NodeOfTree
    <3>2. Len(file[u].children) \in Nat
      BY <1>0, NodeOfTree
    <3> QED
      BY <2>2, <2>6, <3>1, <3>2
  <2> HIDE DEF nd
  <2>9. KeyPosition(nd, k) = i /\ ~find_key_in_node(nd, k).found
    BY <2>5, <2>6, <2>8, KeyAtPlace
  <2>10. ~Stops(nd, k)
    BY <2>6, <2>9 DEF Stops
  <2> QED
    BY <1>2, <2>2, <2>4, <2>6, <2>7, <2>9, <2>10
<1> HIDE DEF T
<1>6. Nat \subseteq T
  BY <1>4, <1>5, Induction
<1>7. c[q].depth \in Nat
  BY <1>0, NodeOfCollection
<1>8. c[q].depth \in T
  BY <1>6, <1>7
<1> QED
  BY <1>8 DEF T, W

\* It ends at the item with the key, if there is one.
LEMMA SearchEnds ==
  ASSUME NEW c, NEW h, IsTreeOf(c, h), NEW q \in DOMAIN c,
         NEW i \in 1 .. Len(file[q].items), NEW k, k = file[q].items[i].key
  PROVE  /\ SearchEnd(k) = get_node(file, q)
         /\ KeyPosition(get_node(file, q), k) = i
         /\ find_key_in_node(get_node(file, q), k).found
<1> DEFINE nd == get_node(file, q)  n == c[q].depth  W == Walk(root, k)
<1>0. h \in Nat /\ h <= MaxDepth /\ IsOrderedWith(file, c) /\ MaxDepth \in Nat
  BY CollectionAssumption DEF IsTreeOf
<1>1. /\ nd \in Nodes /\ nd.items = file[q].items
      /\ nd.items \in Seq(Item) /\ Ordered(nd.items) /\ n \in 0 .. h
  BY NodeOfCollection
<1>2. i \in 1 .. Len(nd.items) /\ nd.items[i].key = k
  BY <1>1
<1> HIDE DEF nd
<1>3. KeyPosition(nd, k) = i /\ find_key_in_node(nd, k).found
  BY <1>1, <1>2, KeyAtItem
<1>4. k \in Key /\ k \in c[q].keys
  <2>1. nd.items[i] \in Item
    BY <1>1, <1>2, ElementOfSeq
  <2> QED
    BY <1>0, <1>2, <2>1, KeyOfItem DEF Item
<1>5. W[n] = nd
  BY <1>4, WalkPasses DEF nd
<1>6. n \in 0 .. MaxDepth /\ MaxDepth \in n .. MaxDepth
  BY <1>0, <1>1
<1>7. Stops(nd, k)
  BY <1>3 DEF Stops
<1>8. W[MaxDepth] = W[n]
  <2>1. \A m \in n .. MaxDepth : W[n] \in Nodes /\ Stops(W[n], k) => W[m] = W[n]
    BY <1>6, WalkSteps
  <2> HIDE DEF n, W
  <2> QED
    BY <1>1, <1>5, <1>6, <1>7, <2>1
<1> QED
  BY <1>3, <1>5, <1>8 DEF SearchEnd, SearchEndFrom, nd

\* It never leaves the tree.
LEMMA WalkStaysInside ==
  ASSUME NEW c, NEW h, IsTreeOf(c, h), NEW k, NEW n \in 0 .. MaxDepth
  PROVE  \E q \in DOMAIN c : Walk(root, k)[n] = get_node(file, q)
<1> DEFINE W == Walk(root, k)
           T == {m \in Nat : m <= MaxDepth => \E q \in DOMAIN c : W[m] = get_node(file, q)}
<1>0. h \in Nat /\ IsTreeWith(file, root, c, h) /\ MaxDepth \in Nat
  BY CollectionAssumption DEF IsTreeOf
<1>1. /\ W[0] = get_node(file, root)
      /\ \A m \in 0 .. MaxDepth - 1 : W[m] \in Nodes =>
           W[m + 1] = IF Stops(W[m], k) THEN W[m]
                      ELSE get_node(file, W[m].children[KeyPosition(W[m], k)])
  BY WalkSteps
<1> HIDE DEF W
<1>2. 0 \in T
  BY <1>0, <1>1 DEF IsTreeWith
<1>3. ASSUME NEW m \in Nat, m \in T PROVE m + 1 \in T
  <2> SUFFICES ASSUME m + 1 <= MaxDepth PROVE \E q \in DOMAIN c : W[m + 1] = get_node(file, q)
    OBVIOUS
  <2>1. m \in 0 .. MaxDepth - 1
    BY <1>0
  <2>2. PICK q \in DOMAIN c : W[m] = get_node(file, q)
    BY <1>0, <1>3, <2>1
  <2> DEFINE nd == get_node(file, q)
  <2>3. /\ nd \in Nodes /\ nd.items = file[q].items /\ nd.children = file[q].children
        /\ nd.items \in Seq(Item)
    BY NodeOfCollection
  <2>4. CASE Stops(nd, k)
    BY <1>1, <2>1, <2>2, <2>3, <2>4
  <2>5. CASE ~Stops(nd, k)
    <3> DEFINE i == KeyPosition(nd, k)
    <3>1. i \in 1 .. Len(nd.items) + 1
      BY <2>3, KeyPositionInRange
    <3>2. ~is_leaf(nd)
      BY <2>5 DEF Stops
    <3> HIDE DEF i
    <3>3. i \in 1 .. Len(file[q].children)
      <4>1. /\ Len(file[q].children) # 0 => Len(file[q].children) = Len(file[q].items) + 1
            /\ is_leaf(file[q]) <=> Len(file[q].children) = 0
        BY <1>0, NodeOfTree
      <4>2. ~is_leaf(file[q])
        BY <2>3, <3>2 DEF is_leaf
      <4> QED
        BY <2>3, <3>1, <4>1, <4>2
    <3>4. file[q].children[i] \in DOMAIN c
      BY <1>0, <3>3, NodeOfTree
    <3>5. W[m + 1] = get_node(file, file[q].children[i])
      BY <1>1, <2>1, <2>2, <2>3, <2>5 DEF i
    <3> QED
      BY <3>4, <3>5
  <2> QED
    BY <2>4, <2>5
<1> HIDE DEF T
<1>4. Nat \subseteq T
  BY <1>2, <1>3, Induction
<1>5. n \in Nat /\ n <= MaxDepth
  BY <1>0
<1>6. n \in T
  BY <1>4, <1>5
<1> QED
  BY <1>5, <1>6 DEF T, W

\* The keys of the items in the tree.
KeyHeld(f, c, k) == \E q \in DOMAIN c : \E i \in 1 .. Len(f[q].items) : f[q].items[i].key = k

LEMMA PresentIsHeld ==
  ASSUME NEW c, NEW h, IsTreeOf(c, h), root # 0, NEW k
  PROVE  IsPresent(k) <=> KeyHeld(file, c, k)
<1>1. ASSUME IsPresent(k) PROVE KeyHeld(file, c, k)
  <2>1. MaxDepth \in 0 .. MaxDepth
    BY CollectionAssumption
  <2>2. PICK q \in DOMAIN c : SearchEnd(k) = get_node(file, q)
    BY <2>1, WalkStaysInside DEF SearchEnd, SearchEndFrom
  <2> DEFINE nd == get_node(file, q)
  <2>3. nd.items = file[q].items /\ nd.items \in Seq(Item)
    BY NodeOfCollection
  <2>4. find_key_in_node(nd, k).found
    BY <1>1, <2>2 DEF IsPresent, IsPresentFrom, SearchEnd
  <2> HIDE DEF nd
  <2>5. KeyPosition(nd, k) \in 1 .. Len(nd.items) /\ nd.items[KeyPosition(nd, k)].key = k
    BY <2>3, <2>4, KeyFound
  <2> QED
    BY <2>3, <2>5 DEF KeyHeld
<1>2. ASSUME KeyHeld(file, c, k) PROVE IsPresent(k)
  <2>1. PICK q \in DOMAIN c : \E i \in 1 .. Len(file[q].items) : file[q].items[i].key = k
    BY <1>2 DEF KeyHeld
  <2>2. PICK i \in 1 .. Len(file[q].items) : file[q].items[i].key = k
    BY <2>1
  <2>3. SearchEnd(k) = get_node(file, q) /\ find_key_in_node(get_node(file, q), k).found
    BY <2>2, SearchEnds
  <2> QED
    BY <2>3 DEF IsPresent, IsPresentFrom, SearchEnd
<1> QED
  BY <1>1, <1>2

\* The pages of the tree, level by level.
LEMMA PagesOfLevel ==
  ASSUME NEW c, NEW h, IsTreeOf(c, h), NEW n \in 0 .. MaxDepth
  PROVE  PagesAt[n] = {q \in DOMAIN c : c[q].depth = n}
<1> DEFINE next == [S \in SUBSET Nat |-> UNION {ToSet(get_node(file, p).children) : p \in S}]
           at(m) == {q \in DOMAIN c : c[q].depth = m}
           T == {m \in Nat : m <= MaxDepth => PagesAt[m] = at(m)}
<1>0. /\ h \in Nat /\ IsTreeWith(file, root, c, h) /\ MaxDepth \in Nat /\ DOMAIN c \subseteq Nat
  BY CollectionAssumption DEF IsTreeOf
<1>1. \A S \in SUBSET Nat : next[S] = UNION {ToSet(get_node(file, p).children) : p \in S}
  OBVIOUS
<1>2. PagesAt = Iteration(next, {root})
  BY DEF PagesAt
<1> HIDE DEF next
<1>3. PagesAt[0] = {root} /\ \A m \in 0 .. MaxDepth - 1 : PagesAt[m + 1] = next[PagesAt[m]]
  BY <1>2, IterationSteps
<1>4. ASSUME NEW p \in DOMAIN c \ {root}
      PROVE  \E u \in DOMAIN c : \E i \in 1 .. Len(file[u].children) :
               file[u].children[i] = p /\ c[p].depth = c[u].depth + 1 /\ c[u].depth \in Nat
  <2> DEFINE u == c[p].up  i == c[p].at
  <2>1. u \in DOMAIN c /\ i \in 1 .. Len(file[u].children) /\ file[u].children[i] = p
    BY <1>0 DEF IsTreeWith
  <2> HIDE DEF u, i
  <2>2. c[p].depth = c[u].depth + 1
    BY <1>0, <2>1, ChildOfTree
  <2>3. c[u].depth \in Nat
    BY <1>0, <2>1, NodeOfCollection
  <2> QED
    BY <2>1, <2>2, <2>3
<1>5. 0 \in T
  <2>1. root \in DOMAIN c /\ c[root].depth = 0
    BY <1>0 DEF IsTreeWith
  <2>2. \A p \in DOMAIN c : c[p].depth = 0 => p = root
    BY <1>4
  <2> QED
    BY <1>3, <2>1, <2>2
<1>6. \A q \in DOMAIN c : ToSet(get_node(file, q).children)
                            = {file[q].children[i] : i \in 1 .. Len(file[q].children)}
  <2> TAKE q \in DOMAIN c
  <2>1. get_node(file, q).children = file[q].children
    BY NodeOfCollection
  <2>2. file[q].children \in Seq(DOMAIN c)
    BY <1>0, NodeOfTree
  <2> QED
    BY <2>1, <2>2, ToSetOfSeq
<1>7. ASSUME NEW m \in Nat, m \in T PROVE m + 1 \in T
  <2> SUFFICES ASSUME m + 1 <= MaxDepth PROVE PagesAt[m + 1] = at(m + 1)
    OBVIOUS
  <2>1. m \in 0 .. MaxDepth - 1
    BY <1>0
  <2>2. PagesAt[m] = at(m) /\ at(m) \in SUBSET Nat
    BY <1>0, <1>7, <2>1
  <2>3. PagesAt[m + 1] = UNION {ToSet(get_node(file, p).children) : p \in at(m)}
    BY <1>1, <1>3, <2>1, <2>2
  <2>4. ASSUME NEW q \in PagesAt[m + 1] PROVE q \in at(m + 1)
    <3>1. PICK p \in DOMAIN c : c[p].depth = m /\ q \in ToSet(get_node(file, p).children)
      BY <2>3
    <3>2. PICK i \in 1 .. Len(file[p].children) : file[p].children[i] = q
      BY <1>6, <3>1
    <3>3. q \in DOMAIN c /\ c[q].depth = c[p].depth + 1
      BY <1>0, <3>2, ChildOfTree
    <3> QED
      BY <3>1, <3>3
  <2>5. ASSUME NEW q \in at(m + 1) PROVE q \in PagesAt[m + 1]
    <3>1. q # root
      BY <1>0 DEF IsTreeWith
    <3>2. PICK u \in DOMAIN c : \E i \in 1 .. Len(file[u].children) :
             file[u].children[i] = q /\ c[q].depth = c[u].depth + 1 /\ c[u].depth \in Nat
      BY <1>4, <3>1
    <3>3. u \in at(m)
      BY <3>2
    <3>4. q \in ToSet(get_node(file, u).children)
      BY <1>6, <3>2
    <3> QED
      BY <2>3, <3>3, <3>4
  <2> QED
    BY <2>4, <2>5
<1> HIDE DEF T
<1>8. Nat \subseteq T
  BY <1>5, <1>7, Induction
<1>9. n \in Nat /\ n <= MaxDepth
  BY <1>0
<1>10. n \in T
  BY <1>8, <1>9
<1> QED
  BY <1>9, <1>10 DEF T

LEMMA PagesOfCollection ==
  ASSUME NEW c, NEW h, IsTreeOf(c, h), root # 0
  PROVE  Reachable = DOMAIN c
<1>1. \A q \in DOMAIN c : c[q].depth \in 0 .. MaxDepth
  <2> TAKE q \in DOMAIN c
  <2>1. c[q].depth \in 0 .. h
    BY NodeOfCollection
  <2> QED
    BY <2>1, CollectionAssumption DEF IsTreeOf
<1>2. \A n \in 0 .. MaxDepth : PagesAt[n] = {q \in DOMAIN c : c[q].depth = n}
  BY PagesOfLevel
<1>3. Reachable = UNION {PagesAt[n] : n \in 0 .. MaxDepth}
  BY DEF Reachable
<1> HIDE DEF Reachable, PagesAt
<1>4. \A q : q \in Reachable <=> \E n \in 0 .. MaxDepth : q \in PagesAt[n]
  BY <1>3
<1>5. ASSUME NEW q \in DOMAIN c PROVE q \in Reachable
  <2> DEFINE n == c[q].depth
  <2>1. n \in 0 .. MaxDepth /\ c[q].depth = n
    BY <1>1
  <2> HIDE DEF n
  <2>2. q \in PagesAt[n]
    BY <1>2, <2>1
  <2> QED
    BY <1>4, <2>1, <2>2
<1>6. ASSUME NEW q \in Reachable PROVE q \in DOMAIN c
  <2>1. PICK n \in 0 .. MaxDepth : q \in PagesAt[n]
    BY <1>4
  <2> QED
    BY <1>2, <2>1
<1> QED
  BY <1>5, <1>6
-----------------------------------------------------------------------------
\* What the invariant says of the tree.

LEMMA SameCardinality ==
  ASSUME NEW S, IsFiniteSet(S), NEW T, NEW e \in [S -> T],
         \A a, b \in S : e[a] = e[b] => a = b, \A t \in T : \E a \in S : e[a] = t
  PROVE  IsFiniteSet(T) /\ Cardinality(T) = Cardinality(S)
<1>1. e \in Injection(S, T)
  BY DEF Injection, IsInjective
<1>2. e \in Surjection(S, T)
  BY DEF Surjection
<1>3. ExistsBijection(S, T)
  BY <1>1, <1>2 DEF Bijection, ExistsBijection
<1> QED
  BY <1>3, FS_Bijection

LEMMA LinksOfTree ==
  ASSUME NEW c, NEW h, IsTreeOf(c, h), root # 0
  PROVE  /\ \A l \in Links :
              /\ l = <<l[1], l[2]>> /\ l[1] \in DOMAIN c
              /\ l[2] \in 1 .. Len(file[l[1]].children)
              /\ get_node(file, l[1]).children[l[2]] = file[l[1]].children[l[2]]
         /\ \A p \in DOMAIN c : \A i \in 1 .. Len(file[p].children) : <<p, i>> \in Links
<1>1. Reachable = DOMAIN c
  BY PagesOfCollection
<1>2. \A p \in DOMAIN c : /\ get_node(file, p).children = file[p].children
                          /\ DOMAIN file[p].children = 1 .. Len(file[p].children)
  <2> TAKE p \in DOMAIN c
  <2>1. get_node(file, p).children = file[p].children
    BY NodeOfCollection
  <2>2. file[p].children \in Seq(DOMAIN c)
    BY NodeOfTree DEF IsTreeOf
  <2> QED
    BY <2>1, <2>2, LenProperties
<1>3. Links = UNION {{<<p, i>> : i \in 1 .. Len(file[p].children)} : p \in DOMAIN c}
  <2>1. Links = UNION {{<<p, i>> : i \in DOMAIN get_node(file, p).children} : p \in DOMAIN c}
    BY <1>1 DEF Links
  <2> QED
    BY <1>2, <2>1
<1>4. ASSUME NEW l \in Links
      PROVE  /\ l = <<l[1], l[2]>> /\ l[1] \in DOMAIN c
             /\ l[2] \in 1 .. Len(file[l[1]].children)
             /\ get_node(file, l[1]).children[l[2]] = file[l[1]].children[l[2]]
  <2>1. PICK p \in DOMAIN c : l \in {<<p, i>> : i \in 1 .. Len(file[p].children)}
    BY <1>3
  <2>2. PICK i \in 1 .. Len(file[p].children) : l = <<p, i>>
    BY <2>1
  <2> QED
    BY <1>2, <2>2
<1>5. \A p \in DOMAIN c : \A i \in 1 .. Len(file[p].children) : <<p, i>> \in Links
  BY <1>3
<1> QED
  BY <1>4, <1>5

LEMMA OneLinkEach ==
  ASSUME NEW c, NEW h, IsTreeOf(c, h), root # 0, IsFiniteSet(DOMAIN c)
  PROVE  /\ Cardinality(Links) = Cardinality(Reachable) - 1
         /\ \A l, m \in Links : get_node(file, l[1]).children[l[2]]
                                  = get_node(file, m[1]).children[m[2]] => l = m
<1>0. h \in Nat /\ IsTreeWith(file, root, c, h)
  BY DEF IsTreeOf
<1>1. ASSUME NEW l \in Links
      PROVE  /\ get_node(file, l[1]).children[l[2]] \in DOMAIN c \ {root}
             /\ l = <<c[get_node(file, l[1]).children[l[2]]].up,
                      c[get_node(file, l[1]).children[l[2]]].at>>
  <2> DEFINE p == l[1]  i == l[2]  q == file[p].children[i]
  <2>1. /\ l = <<p, i>> /\ p \in DOMAIN c /\ i \in 1 .. Len(file[p].children)
        /\ get_node(file, l[1]).children[l[2]] = q /\ file[p].children[i] = q
    BY LinksOfTree
  <2> HIDE DEF p, i, q
  <2>2. q \in DOMAIN c \ {root} /\ c[q].up = p /\ c[q].at = i
    BY <1>0, <2>1, ChildOfTree
  <2> QED
    BY <2>1, <2>2
<1>2. \A l, m \in Links : get_node(file, l[1]).children[l[2]]
                            = get_node(file, m[1]).children[m[2]] => l = m
  BY <1>1
<1>3. Cardinality(Links) = Cardinality(DOMAIN c \ {root})
  <2> DEFINE S == DOMAIN c \ {root}
             e == [q \in S |-> <<c[q].up, c[q].at>>]
  <2>1. ASSUME NEW q \in S
        PROVE  /\ <<c[q].up, c[q].at>> \in Links
               /\ get_node(file, c[q].up).children[c[q].at] = q
    <3>1. /\ c[q].up \in DOMAIN c /\ c[q].at \in 1 .. Len(file[c[q].up].children)
          /\ file[c[q].up].children[c[q].at] = q
      BY <1>0 DEF IsTreeWith
    <3>2. get_node(file, c[q].up).children = file[c[q].up].children
      BY <3>1, NodeOfCollection
    <3>3. <<c[q].up, c[q].at>> \in Links
      BY <3>1, LinksOfTree
    <3> QED
      BY <3>1, <3>2, <3>3
  <2>2. e \in [S -> Links]
    BY <2>1
  <2>3. \A q \in S : e[q][1] = c[q].up /\ e[q][2] = c[q].at
    OBVIOUS
  <2>4. \A a, b \in S : e[a] = e[b] => a = b
    <3> TAKE a, b \in S
    <3> HAVE e[a] = e[b]
    <3>1. c[a].up = c[b].up /\ c[a].at = c[b].at
      BY <2>3
    <3>2. get_node(file, c[a].up).children[c[a].at] = a
      BY <2>1
    <3>3. get_node(file, c[b].up).children[c[b].at] = b
      BY <2>1
    <3> QED
      BY <3>1, <3>2, <3>3
  <2>5. \A l \in Links : \E q \in S : e[q] = l
    <3> TAKE l \in Links
    <3> DEFINE q == get_node(file, l[1]).children[l[2]]
    <3>1. q \in S /\ l = <<c[q].up, c[q].at>>
      BY <1>1
    <3> QED
      BY <3>1
  <2>6. IsFiniteSet(S)
    BY FS_RemoveElement
  <2> HIDE DEF e, S
  <2>7. Cardinality(Links) = Cardinality(S)
    BY <2>2, <2>4, <2>5, <2>6, SameCardinality
  <2> QED
    BY <2>7 DEF S
<1>4. Cardinality(DOMAIN c \ {root}) = Cardinality(DOMAIN c) - 1
  BY <1>0, FS_RemoveElement DEF IsTreeWith
<1> QED
  BY <1>2, <1>3, <1>4, PagesOfCollection

LEMMA OneLeafDepth ==
  ASSUME NEW c, NEW h, IsTreeOf(c, h)
  PROVE  LeafDepths = {h}
<1>0. h \in Nat /\ h <= MaxDepth /\ IsTreeWith(file, root, c, h) /\ MaxDepth \in Nat
  BY CollectionAssumption DEF IsTreeOf
<1>1. ASSUME NEW n \in LeafDepths PROVE n = h
  <2>1. PICK p \in PagesAt[n] : n \in 0 .. MaxDepth /\ is_leaf(get_node(file, p))
    BY DEF LeafDepths
  <2>2. p \in DOMAIN c /\ c[p].depth = n
    BY <2>1, PagesOfLevel
  <2> QED
    BY <2>1, <2>2, NodeOfCollection
<1> DEFINE T == {n \in Nat : n <= h => \E p \in DOMAIN c : c[p].depth = n}
<1>2. 0 \in T
  BY <1>0 DEF IsTreeWith
<1>3. ASSUME NEW n \in Nat, n \in T PROVE n + 1 \in T
  <2> SUFFICES ASSUME n + 1 <= h PROVE \E p \in DOMAIN c : c[p].depth = n + 1
    OBVIOUS
  <2>1. PICK p \in DOMAIN c : c[p].depth = n
    BY <1>0, <1>3
  <2>2. Len(file[p].children) \in Nat /\ Len(file[p].children) # 0
    BY <1>0, <2>1, NodeOfTree
  <2>3. 1 \in 1 .. Len(file[p].children)
    BY <2>2
  <2> DEFINE q == file[p].children[1]
  <2>4. file[p].children[1] = q
    OBVIOUS
  <2> HIDE DEF q
  <2>5. q \in DOMAIN c /\ c[q].depth = c[p].depth + 1
    BY <1>0, <2>3, <2>4, ChildOfTree
  <2> QED
    BY <2>1, <2>5
<1> HIDE DEF T
<1>4. h \in T
  BY <1>0, <1>2, <1>3, Induction
<1>5. PICK p \in DOMAIN c : c[p].depth = h
  BY <1>0, <1>4 DEF T
<1>6. is_leaf(get_node(file, p))
  BY <1>5, NodeOfCollection
<1>7. h \in 0 .. MaxDepth
  BY <1>0
<1>8. p \in PagesAt[h]
  BY <1>5, <1>7, PagesOfLevel
<1>9. h \in LeafDepths
  BY <1>6, <1>7, <1>8 DEF LeafDepths
<1> QED
  BY <1>1, <1>9
=============================================================================
