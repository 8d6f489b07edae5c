----------------------------- MODULE NodeProofs -----------------------------
(***************************************************************************)
(* Proofs about the operations on nodes, for nodes of every length: that   *)
(* split, the rotations and merge keep the sequences of items and children *)
(* they work on (core/node.cpp), and that what they and Stored return is a *)
(* node.                                                                   *)
(***************************************************************************)
EXTENDS Node, Lemmas

-----------------------------------------------------------------------------
\* Searching.

\* The position of a key is that of an item, or one past the last.
LEMMA KeyPositionInRange ==
  ASSUME NEW node, NEW S, node.items \in Seq(S), NEW k
  PROVE  KeyPosition(node, k) \in 1 .. Len(node.items) + 1
<1> DEFINE T == {i \in 1 .. Len(node.items) : node.items[i].key >= k}
                  \union {Len(node.items) + 1}
<1>1. Len(node.items) \in Nat
  BY LenProperties
<1>2. T \subseteq 1 .. Len(node.items) + 1 /\ T # {}
  BY <1>1
<1>3. T \subseteq Nat
  BY <1>1, <1>2
<1>4. KeyPosition(node, k) = Min(T)
  BY DEF KeyPosition
<1> HIDE DEF T
<1>5. Min(T) \in T
  BY <1>2, <1>3, MinNat
<1> QED
  BY <1>2, <1>4, <1>5

\* A node with a split position has two items at least, and an item at it.
LEMMA SplitIndexInRange ==
  ASSUME NEW node, NEW S, node.items \in Seq(S), can_spare_an_element(node)
  PROVE  get_split_index(node) \in 2 .. Len(node.items)
<1> DEFINE bytes(i) == HEADER_SIZE + i * POINTER_SIZE
                       + ItemsBytes(SubSeq(node.items, 1, i))
           enough == {i \in 1 .. Len(node.items) - 1 :
                        10000 * bytes(i) > MinFill * PageSize}
<1>1. Len(node.items) \in Nat
  BY LenProperties
<1>2. enough \subseteq 1 .. Len(node.items) - 1
  OBVIOUS
<1>3. get_split_index(node) = IF enough = {} THEN NoSplit ELSE Min(enough) + 1
  BY DEF get_split_index
<1> HIDE DEF enough
<1>4. enough # {}
  BY <1>3 DEF can_spare_an_element
<1>5. enough \subseteq Nat
  BY <1>1, <1>2
<1>6. Min(enough) \in enough
  BY <1>4, <1>5, MinNat
<1>7. Min(enough) \in 1 .. Len(node.items) - 1
  BY <1>2, <1>6
<1>8. get_split_index(node) = Min(enough) + 1
  BY <1>3, <1>4
<1> QED
  BY <1>1, <1>7, <1>8
-----------------------------------------------------------------------------
\* Types.

LEMMA AddItemType ==
  ASSUME NEW P, NEW S, NEW node \in NodesOver(P, S), NEW item \in Item,
         NEW i \in 1 .. Len(node.items) + 1
  PROVE  add_item(node, item, i) \in NodesOver(P, S)
<1>1. node.items \in Seq(Item)
  BY DEF NodesOver
<1>2. InsertAt(node.items, i, item) \in Seq(Item)
  BY <1>1, InsertAtProperties
<1> QED
  BY <1>2 DEF add_item, NodesOver

LEMMA WithoutItemType ==
  ASSUME NEW P, NEW S, NEW node \in NodesOver(P, S), NEW i \in 1 .. Len(node.items)
  PROVE  without_item(node, i) \in NodesOver(P, S)
<1>1. node.items \in Seq(Item)
  BY DEF NodesOver
<1>2. RemoveAt(node.items, i) \in Seq(Item)
  BY <1>1, RemoveAtProperties
<1> QED
  BY <1>2 DEF without_item, NodesOver

\* The page of a node: all of its items, and children from the node's own.
LEMMA StoredType ==
  ASSUME NEW P, NEW S, NEW node \in NodesOver(P, S)
  PROVE  Stored(node) \in StoredNodes(S)
<1> DEFINE n == Len(node.items)
           cs == [i \in 1 .. n + 1 |->
                    IF i \in 1 .. n \intersect DOMAIN node.children
                    THEN node.children[i] ELSE Last(node.children)]
<1>1. node.items \in Seq(Item) /\ node.children \in Seq(S)
  BY DEF NodesOver
<1>2. n \in Nat /\ DOMAIN node.children = 1 .. Len(node.children)
  BY <1>1, LenProperties
<1>3. CASE is_leaf(node)
  <2>1. Stored(node) = [kind |-> "node", items |-> node.items, children |-> <<>>]
    BY <1>3 DEF Stored
  <2>2. <<>> \in Seq(S)
    BY EmptySeq
  <2> QED
    BY <1>1, <2>1, <2>2 DEF StoredNodes, IsShaped, is_leaf
<1>4. CASE ~is_leaf(node)
  <2>1. node.children # <<>>
    BY <1>4 DEF is_leaf
  <2>2. Last(node.children) \in S
    BY <1>1, <2>1, FrontProperties
  <2>3. \A i \in 1 .. n \intersect DOMAIN node.children : node.children[i] \in S
    BY <1>1, <1>2, ElementOfSeq
  <2>4. cs \in [1 .. n + 1 -> S]
    BY <2>2, <2>3
  <2>5. cs \in Seq(S) /\ Len(cs) = n + 1
    <3>1. n + 1 \in Nat
      BY <1>2
    <3>2. cs \in Seq(S)
      BY <2>4, <3>1, SeqDef
    <3>3. DOMAIN cs = 1 .. n + 1
      BY <2>4
    <3> HIDE DEF cs
    <3>4. DOMAIN cs = 1 .. Len(cs) /\ Len(cs) \in Nat
      BY <3>2, LenProperties
    <3> QED
      BY <3>1, <3>2, <3>3, <3>4
  <2>6. Stored(node) = [kind |-> "node", items |-> node.items, children |-> cs]
    BY <1>4 DEF Stored
  <2> HIDE DEF cs
  <2> QED
    BY <1>1, <2>5, <2>6 DEF StoredNodes, IsShaped
<1> QED
  BY <1>3, <1>4
-----------------------------------------------------------------------------
\* Splitting.

\* What both halves and the parent are after a split.  The parent's slot of the
\* node is any place for an item; its new child goes right of that slot.
LEMMA SplitTypes ==
  ASSUME NEW P, NEW S, NEW node \in NodesOver(P, S), can_spare_an_element(node),
         is_leaf(node) \/ Len(node.children) = Len(node.items) + 1,
         NEW PP, NEW T, S \subseteq T, NEW parent \in NodesOver(PP, T),
         NEW slot \in Nat \ {0}, slot <= Len(parent.items) + 1,
         slot <= Len(parent.children),
         NEW new_page \in T
  PROVE  LET s == split(parent, node, slot, new_page)
         IN  /\ s.left \in NodesOver(P, S)
             /\ s.right \in NodesOver({new_page}, S)
             /\ s.parent \in NodesOver(PP, T)
<1> DEFINE m == get_split_index(node)
           s == split(parent, node, slot, new_page)
<1>1. /\ node.page \in P /\ node.items \in Seq(Item) /\ node.children \in Seq(S)
      /\ parent.page \in PP /\ parent.items \in Seq(Item) /\ parent.children \in Seq(T)
  BY DEF NodesOver
<1>2. /\ Len(node.items) \in Nat /\ Len(node.children) \in Nat
      /\ Len(parent.items) \in Nat /\ Len(parent.children) \in Nat
  BY <1>1, LenProperties
<1>3. m \in 2 .. Len(node.items)
  BY <1>1, SplitIndexInRange
<1> HIDE DEF m
<1> DEFINE mp == m + 1
           mm == m - 1
<1>4. SubSeq(node.items, 1, mm) \in Seq(Item)
  <2>1. 1 \in Nat \ {0} /\ mm \in 0 .. Len(node.items) /\ 1 <= mm + 1
    BY <1>2, <1>3
  <2> HIDE DEF mm
  <2> QED
    BY <1>1, <2>1, Slice
<1>5. SubSeq(node.items, mp, Len(node.items)) \in Seq(Item)
  <2>1. mp \in Nat \ {0} /\ Len(node.items) \in 0 .. Len(node.items)
        /\ mp <= Len(node.items) + 1
    BY <1>2, <1>3
  <2> HIDE DEF mp
  <2> QED
    BY <1>1, <2>1, Slice
<1>6. (IF is_leaf(node) THEN node.children ELSE SubSeq(node.children, 1, m)) \in Seq(S)
  <2>1. CASE is_leaf(node)
    BY <1>1, <2>1
  <2>2. CASE ~is_leaf(node)
    <3>1. 1 \in Nat \ {0} /\ m \in 0 .. Len(node.children) /\ 1 <= m + 1
      BY <1>2, <1>3, <2>2
    <3>2. SubSeq(node.children, 1, m) \in Seq(S)
      BY <1>1, <3>1, Slice
    <3> QED
      BY <2>2, <3>2
  <2> QED
    BY <2>1, <2>2
<1>7. SubSeq(node.children, mp, Len(node.children)) \in Seq(S)
  <2>1. CASE is_leaf(node)
    <3>1. node.children = <<>> /\ Len(node.children) = 0
      BY <2>1, EmptySeq DEF is_leaf
    <3>2. mp \in Int /\ Len(node.children) \in Int /\ Len(node.children) < mp
      BY <1>3, <3>1
    <3>3. SubSeq(node.children, mp, Len(node.children)) = <<>>
      BY <3>2, SubSeqEmpty
    <3> QED
      BY <3>3, EmptySeq
  <2>2. CASE ~is_leaf(node)
    <3>1. mp \in Nat \ {0} /\ Len(node.children) \in 0 .. Len(node.children)
          /\ mp <= Len(node.children) + 1
      BY <1>2, <1>3, <2>2
    <3> HIDE DEF mp
    <3> QED
      BY <1>1, <3>1, Slice
  <2> QED
    BY <2>1, <2>2
<1>8. add_item(parent, node.items[m], slot) \in NodesOver(PP, T)
  <2>1. m \in 1 .. Len(node.items) /\ slot \in 1 .. Len(parent.items) + 1
    BY <1>2, <1>3
  <2>2. node.items[m] \in Item
    BY <1>1, <2>1, ElementOfSeq
  <2> QED
    BY <2>1, <2>2, AddItemType
<1>9. InsertAt(parent.children, slot + 1, new_page) \in Seq(T)
  <2>1. slot + 1 \in 1 .. Len(parent.children) + 1
    BY <1>2
  <2> DEFINE i == slot + 1
  <2> HIDE DEF i
  <2>2. InsertAt(parent.children, i, new_page) \in Seq(T)
    BY <1>1, <2>1, InsertAtProperties DEF i
  <2> QED
    BY <2>2 DEF i
<1>10. s.left \in NodesOver(P, S)
  <2>1. s.left = [node EXCEPT !.items = SubSeq(node.items, 1, mm),
                              !.children = IF is_leaf(node) THEN node.children
                                           ELSE SubSeq(node.children, 1, m)]
    BY DEF split, m
  <2> HIDE DEF s, mm
  <2> QED
    BY <1>4, <1>6, <2>1 DEF NodesOver
<1>11. s.right \in NodesOver({new_page}, S)
  <2>1. s.right = [page |-> new_page,
                   items |-> SubSeq(node.items, mp, Len(node.items)),
                   children |-> SubSeq(node.children, mp, Len(node.children))]
    BY DEF split, m
  <2> HIDE DEF s, mp
  <2> QED
    BY <1>5, <1>7, <2>1 DEF NodesOver
<1>12. s.parent \in NodesOver(PP, T)
  <2> DEFINE a == add_item(parent, node.items[m], slot)
  <2>1. s.parent = [a EXCEPT !.children = InsertAt(a.children, slot + 1, new_page)]
    BY DEF split, m
  <2>2. a.children = parent.children
    BY DEF add_item, NodesOver
  <2> HIDE DEF s, a
  <2>3. s.parent = [a EXCEPT !.children = InsertAt(parent.children, slot + 1, new_page)]
    BY <2>1, <2>2
  <2>4. a \in NodesOver(PP, T)
    BY <1>8 DEF a
  <2> QED
    BY <1>9, <2>3, <2>4 DEF NodesOver
<1> QED
  BY <1>10, <1>11, <1>12
-----------------------------------------------------------------------------
\* Rotating.

LEMMA RotateRightTypes ==
  ASSUME NEW PA, NEW PB, NEW PP, NEW S,
         NEW a \in NodesOver(PA, S), a.items # <<>>, IsShaped(a),
         NEW b \in NodesOver(PB, S),
         NEW parent \in NodesOver(PP, S),
         NEW slot \in Nat, slot - 1 \in 1 .. Len(parent.items)
  PROVE  LET r == rotate_right(a, parent, b, slot)
         IN  /\ r.a \in NodesOver(PA, S)
             /\ r.b \in NodesOver(PB, S)
             /\ r.parent \in NodesOver(PP, S)
             /\ r.parent.children = parent.children
             /\ Len(r.parent.items) = Len(parent.items)
<1> DEFINE r == rotate_right(a, parent, b, slot)
           up == Last(a.items)
           sep == parent.items[slot - 1]
<1>1. /\ a.items \in Seq(Item) /\ a.children \in Seq(S)
      /\ b.items \in Seq(Item) /\ b.children \in Seq(S)
      /\ parent.items \in Seq(Item)
  BY DEF NodesOver
<1>2. Front(a.items) \in Seq(Item) /\ up \in Item
  BY <1>1, FrontProperties
<1>3. sep \in Item
  BY <1>1, ElementOfSeq
<1>4. ~is_leaf(a) => Front(a.children) \in Seq(S) /\ Last(a.children) \in S
  BY <1>1, FrontProperties DEF is_leaf
<1>5. r.a \in NodesOver(PA, S)
  <2> DEFINE cs == IF is_leaf(a) THEN a.children ELSE Front(a.children)
  <2>1. r.a = [a EXCEPT !.items = Front(a.items), !.children = cs]
    BY DEF rotate_right
  <2>2. cs \in Seq(S)
    BY <1>1, <1>4
  <2> HIDE DEF r, cs
  <2> QED
    BY <1>2, <2>1, <2>2 DEF NodesOver
<1>6. r.b \in NodesOver(PB, S)
  <2> DEFINE cs == IF is_leaf(a) THEN b.children ELSE <<Last(a.children)>> \o b.children
             its == <<sep>> \o b.items
  <2>1. r.b = [b EXCEPT !.items = its, !.children = cs]
    BY DEF rotate_right
  <2>2. its \in Seq(Item)
    BY <1>1, <1>3, OneElement, ConcatProperties
  <2>3. cs \in Seq(S)
    BY <1>1, <1>4, OneElement, ConcatProperties
  <2> HIDE DEF r, cs, its
  <2> QED
    BY <2>1, <2>2, <2>3 DEF NodesOver
<1>7. /\ r.parent \in NodesOver(PP, S)
      /\ r.parent.children = parent.children
      /\ Len(r.parent.items) = Len(parent.items)
  <2> DEFINE i == slot - 1
             its == [parent.items EXCEPT ![i] = up]
  <2>1. r.parent = [parent EXCEPT !.items = its]
    BY DEF rotate_right
  <2>2. i \in 1 .. Len(parent.items)
    OBVIOUS
  <2> HIDE DEF i, up
  <2>3. its \in Seq(Item) /\ Len(its) = Len(parent.items)
    BY <1>1, <1>2, <2>2, ExceptSeq DEF up
  <2> HIDE DEF r, its
  <2> QED
    BY <2>1, <2>3 DEF NodesOver
<1> QED
  BY <1>5, <1>6, <1>7

LEMMA RotateLeftTypes ==
  ASSUME NEW PA, NEW PB, NEW PP, NEW S,
         NEW a \in NodesOver(PA, S),
         NEW b \in NodesOver(PB, S), b.items # <<>>, IsShaped(b),
         NEW parent \in NodesOver(PP, S),
         NEW slot \in 1 .. Len(parent.items)
  PROVE  LET r == rotate_left(a, parent, b, slot)
         IN  /\ r.a \in NodesOver(PA, S)
             /\ r.b \in NodesOver(PB, S)
             /\ r.parent \in NodesOver(PP, S)
             /\ r.parent.children = parent.children
             /\ Len(r.parent.items) = Len(parent.items)
<1> DEFINE r == rotate_left(a, parent, b, slot)
           up == Head(b.items)
           sep == parent.items[slot]
<1>1. /\ a.items \in Seq(Item) /\ a.children \in Seq(S)
      /\ b.items \in Seq(Item) /\ b.children \in Seq(S)
      /\ parent.items \in Seq(Item)
  BY DEF NodesOver
<1>2. Tail(b.items) \in Seq(Item) /\ up \in Item
  BY <1>1, HeadTailProperties
<1>3. sep \in Item
  BY <1>1, ElementOfSeq
<1>4. ~is_leaf(b) => Tail(b.children) \in Seq(S) /\ Head(b.children) \in S
  BY <1>1, HeadTailProperties DEF is_leaf
<1>5. r.b \in NodesOver(PB, S)
  <2> DEFINE cs == IF is_leaf(b) THEN b.children ELSE Tail(b.children)
  <2>1. r.b = [b EXCEPT !.items = Tail(b.items), !.children = cs]
    BY DEF rotate_left
  <2>2. cs \in Seq(S)
    BY <1>1, <1>4
  <2> HIDE DEF r, cs
  <2> QED
    BY <1>2, <2>1, <2>2 DEF NodesOver
<1>6. r.a \in NodesOver(PA, S)
  <2> DEFINE cs == IF is_leaf(b) THEN a.children ELSE Append(a.children, Head(b.children))
             its == Append(a.items, sep)
  <2>1. r.a = [a EXCEPT !.items = its, !.children = cs]
    BY DEF rotate_left
  <2>2. its \in Seq(Item)
    BY <1>1, <1>3, AppendProperties
  <2>3. cs \in Seq(S)
    BY <1>1, <1>4, AppendProperties
  <2> HIDE DEF r, cs, its
  <2> QED
    BY <2>1, <2>2, <2>3 DEF NodesOver
<1>7. /\ r.parent \in NodesOver(PP, S)
      /\ r.parent.children = parent.children
      /\ Len(r.parent.items) = Len(parent.items)
  <2> DEFINE its == [parent.items EXCEPT ![slot] = up]
  <2>1. r.parent = [parent EXCEPT !.items = its]
    BY DEF rotate_left
  <2> HIDE DEF up
  <2>2. its \in Seq(Item) /\ Len(its) = Len(parent.items)
    BY <1>1, <1>2, ExceptSeq DEF up
  <2> HIDE DEF r, its
  <2> QED
    BY <2>1, <2>2 DEF NodesOver
<1> QED
  BY <1>5, <1>6, <1>7
-----------------------------------------------------------------------------
\* Merging.

LEMMA MergeTypes ==
  ASSUME NEW PA, NEW PB, NEW PP, NEW S,
         NEW a \in NodesOver(PA, S), NEW b \in NodesOver(PB, S),
         NEW parent \in NodesOver(PP, S),
         NEW slot \in Nat, slot - 1 \in 1 .. Len(parent.items),
         slot \in 1 .. Len(parent.children)
  PROVE  LET m == merge(parent, a, b, slot)
         IN  /\ m.a \in NodesOver(PA, S)
             /\ m.parent \in NodesOver(PP, S)
<1> DEFINE m == merge(parent, a, b, slot)
           i == slot - 1
           sep == parent.items[i]
<1>1. /\ a.items \in Seq(Item) /\ a.children \in Seq(S)
      /\ b.items \in Seq(Item) /\ b.children \in Seq(S)
      /\ parent.items \in Seq(Item) /\ parent.children \in Seq(S)
  BY DEF NodesOver
<1>2. sep \in Item
  BY <1>1, ElementOfSeq
<1>3. m.a \in NodesOver(PA, S)
  <2> DEFINE cs == IF is_leaf(a) THEN a.children ELSE a.children \o b.children
             its == Append(a.items, sep) \o b.items
  <2>1. m.a = [a EXCEPT !.items = its, !.children = cs]
    BY DEF merge
  <2>2. its \in Seq(Item)
    BY <1>1, <1>2, AppendProperties, ConcatProperties
  <2>3. cs \in Seq(S)
    BY <1>1, ConcatProperties
  <2> HIDE DEF m, cs, its
  <2> QED
    BY <2>1, <2>2, <2>3 DEF NodesOver
<1>4. m.parent \in NodesOver(PP, S)
  <2> DEFINE its == RemoveAt(parent.items, i)
             cs == RemoveAt(parent.children, slot)
  <2>1. m.parent = [parent EXCEPT !.items = its, !.children = cs]
    BY DEF merge
  <2>2. i \in 1 .. Len(parent.items)
    OBVIOUS
  <2> HIDE DEF i
  <2>3. its \in Seq(Item) /\ cs \in Seq(S)
    BY <1>1, <2>2, RemoveAtProperties
  <2> HIDE DEF m, cs, its
  <2> QED
    BY <2>1, <2>3 DEF NodesOver
<1> QED
  BY <1>3, <1>4
-----------------------------------------------------------------------------
\* No operation on nodes loses, doubles or reorders an item.

\* A node that is split leaves its items, in their order, in the left half, in
\* the item that goes up and in the right half, and its children, in their
\* order, in the two halves (node.cpp:130-205).
THEOREM SplitKeepsItems ==
  ASSUME NEW P, NEW S, NEW node \in NodesOver(P, S), can_spare_an_element(node),
         IsShaped(node), NEW parent, NEW slot, NEW new_page
  PROVE  LET s  == split(parent, node, slot, new_page)
             up == node.items[get_split_index(node)]
         IN  /\ (s.left.items \o <<up>>) \o s.right.items = node.items
             /\ s.left.children \o s.right.children = node.children
             /\ IsShaped(s.left) /\ IsShaped(s.right)
<1> DEFINE m == get_split_index(node)
           s == split(parent, node, slot, new_page)
<1>1. /\ node.items \in Seq(Item) /\ Len(node.items) \in Nat
      /\ node.children \in Seq(S) /\ Len(node.children) \in Nat
  BY LenProperties DEF NodesOver
<1>2. m \in 2 .. Len(node.items) /\ m \in 1 .. Len(node.items)
  <2>1. m \in 2 .. Len(node.items)
    BY <1>1, SplitIndexInRange
  <2> HIDE DEF m
  <2> QED
    BY <1>1, <2>1
<1> DEFINE mp == m + 1
           mm == m - 1
<1>3. /\ s.left.items = SubSeq(node.items, 1, mm)
      /\ s.left.children = IF is_leaf(node) THEN node.children
                           ELSE SubSeq(node.children, 1, m)
  BY DEF split, NodesOver
<1>4. /\ s.right.items = SubSeq(node.items, mp, Len(node.items))
      /\ s.right.children = SubSeq(node.children, mp, Len(node.children))
  BY DEF split
<1> HIDE DEF m, s
<1>5. node.items = (SubSeq(node.items, 1, mm) \o <<node.items[m]>>)
                     \o SubSeq(node.items, mp, Len(node.items))
  BY <1>1, <1>2, CutAt
<1>6. /\ Len(s.left.items) = m - 1
      /\ Len(s.right.items) = Len(node.items) - m
  <2>1. /\ 1 \in Nat \ {0} /\ mm \in 0 .. Len(node.items) /\ 1 <= mm + 1
        /\ mp \in Nat \ {0} /\ Len(node.items) \in 0 .. Len(node.items)
        /\ mp <= Len(node.items) + 1
    BY <1>1, <1>2
  <2>2. mm = m - 1 /\ mp = m + 1
    OBVIOUS
  <2> HIDE DEF mm, mp
  <2>3. Len(SubSeq(node.items, 1, mm)) = mm - 1 + 1
    BY <1>1, <2>1, Slice
  <2>4. Len(SubSeq(node.items, mp, Len(node.items))) = Len(node.items) - mp + 1
    BY <1>1, <2>1, Slice
  <2> QED
    BY <1>1, <1>2, <1>3, <1>4, <2>2, <2>3, <2>4
<1>7. CASE is_leaf(node)
  <2>1. node.children = <<>> /\ Len(node.children) = 0
    BY <1>7, EmptySeq DEF is_leaf
  <2>2. mp \in Int /\ 0 \in Int /\ 0 < mp
    BY <1>2
  <2>3. SubSeq(node.children, mp, Len(node.children)) = <<>>
    BY <2>1, <2>2, SubSeqEmpty
  <2>4. s.left.children = <<>> /\ s.right.children = <<>>
    BY <1>3, <1>4, <1>7, <2>1, <2>3
  <2>5. <<>> \o <<>> = <<>>
    BY EmptySeq, ConcatEmptySeq
  <2> QED
    BY <1>3, <1>4, <1>5, <2>1, <2>4, <2>5 DEF m, s, IsShaped, is_leaf
<1>8. CASE ~is_leaf(node)
  <2>1. Len(node.children) = Len(node.items) + 1
    BY <1>8 DEF IsShaped
  <2>2. /\ 1 \in 1 .. Len(node.children) + 1 /\ m \in 1 - 1 .. Len(node.children)
        /\ Len(node.children) \in m .. Len(node.children)
    BY <1>1, <1>2, <2>1
  <2>3. SubSeq(node.children, 1, m) \o SubSeq(node.children, mp, Len(node.children))
          = SubSeq(node.children, 1, Len(node.children))
    BY <1>1, <2>2, ConcatAdjacentSubSeq
  <2>4. s.left.children \o s.right.children = node.children
    BY <1>1, <1>3, <1>4, <1>8, <2>3, SubSeqFull
  <2>5. /\ Len(s.left.children) = m
        /\ Len(s.right.children) = Len(node.children) - m
    <3>1. /\ 1 \in Nat \ {0} /\ m \in 0 .. Len(node.children) /\ 1 <= m + 1
          /\ mp \in Nat \ {0} /\ Len(node.children) \in 0 .. Len(node.children)
          /\ mp <= Len(node.children) + 1
      BY <1>1, <1>2, <2>1
    <3>2. mp = m + 1
      OBVIOUS
    <3> HIDE DEF mp
    <3>3. Len(SubSeq(node.children, 1, m)) = m - 1 + 1
      BY <1>1, <3>1, Slice
    <3>4. Len(SubSeq(node.children, mp, Len(node.children))) = Len(node.children) - mp + 1
      BY <1>1, <3>1, Slice
    <3> QED
      BY <1>1, <1>2, <1>3, <1>4, <1>8, <3>2, <3>3, <3>4
  <2>6. IsShaped(s.left) /\ IsShaped(s.right)
    BY <1>1, <1>2, <1>6, <2>1, <2>5 DEF IsShaped
  <2> QED
    BY <1>3, <1>4, <1>5, <2>4, <2>6 DEF m, s
<1> QED
  BY <1>7, <1>8

\* A rotation to the right only moves the border between two neighbours: their
\* items with the one in the parent between them stay as they are, in order, and so
\* do their children; nothing else of the parent changes (node.cpp:250-275).
THEOREM RotateRightKeepsItems ==
  ASSUME NEW PA, NEW PB, NEW PP, NEW S,
         NEW a \in NodesOver(PA, S), a.items # <<>>,
         NEW b \in NodesOver(PB, S), NEW parent \in NodesOver(PP, S),
         NEW slot \in Nat, slot - 1 \in 1 .. Len(parent.items)
  PROVE  LET r == rotate_right(a, parent, b, slot)
         IN  /\ r.a.items \o (<<r.parent.items[slot - 1]>> \o r.b.items)
                  = a.items \o (<<parent.items[slot - 1]>> \o b.items)
             /\ r.a.children \o r.b.children = a.children \o b.children
             /\ r.parent.children = parent.children
             /\ \A i \in 1 .. Len(parent.items) \ {slot - 1} :
                  r.parent.items[i] = parent.items[i]
<1> DEFINE r == rotate_right(a, parent, b, slot)
           sep == parent.items[slot - 1]
           low == <<sep>> \o b.items
<1>1. a.items \in Seq(Item) /\ b.items \in Seq(Item) /\ parent.items \in Seq(Item)
  BY DEF NodesOver
<1>2. r.a.items = Front(a.items)
  BY DEF rotate_right, NodesOver
<1>3. r.b.items = low
  BY DEF rotate_right, NodesOver
<1>4. /\ r.parent.items[slot - 1] = Last(a.items)
      /\ r.parent.children = parent.children
      /\ \A i \in 1 .. Len(parent.items) \ {slot - 1} : r.parent.items[i] = parent.items[i]
  <2>1. DOMAIN parent.items = 1 .. Len(parent.items)
    BY <1>1, LenProperties
  <2>2. r.parent = [parent EXCEPT !.items = [parent.items EXCEPT ![slot - 1] = Last(a.items)]]
    BY DEF rotate_right
  <2>3. /\ r.parent.items = [parent.items EXCEPT ![slot - 1] = Last(a.items)]
        /\ r.parent.children = parent.children
    BY <2>2 DEF NodesOver
  <2> HIDE DEF r
  <2> QED
    BY <2>1, <2>3
<1>5. r.a.children \o r.b.children = a.children \o b.children
  <2>1. CASE is_leaf(a)
    <3>1. r.a.children = a.children /\ r.b.children = b.children
      BY <2>1 DEF rotate_right, NodesOver
    <3> QED
      BY <3>1
  <2>2. CASE ~is_leaf(a)
    <3> DEFINE all == a.children
               up == Last(all)
               rest == b.children
    <3>1. r.a.children = Front(all) /\ r.b.children = <<up>> \o rest
      BY <2>2 DEF rotate_right, NodesOver
    <3>2. all \in Seq(S) /\ all # <<>> /\ rest \in Seq(S)
      BY <2>2 DEF is_leaf, NodesOver
    <3> HIDE DEF all, up, rest, r
    <3>3. Front(all) \in Seq(S) /\ up \in S /\ all = Front(all) \o <<up>>
      BY <3>2, FrontProperties DEF up
    <3>4. (Front(all) \o <<up>>) \o rest = Front(all) \o (<<up>> \o rest)
      BY <3>2, <3>3, ConcatThree
    <3>5. r.a.children \o r.b.children = all \o rest
      BY <3>1, <3>3, <3>4
    <3> QED
      BY <3>5 DEF all, rest
  <2> QED
    BY <2>1, <2>2
<1>6. sep \in Item
  BY <1>1, ElementOfSeq
<1> HIDE DEF sep
<1>7. low \in Seq(Item)
  BY <1>1, <1>6, OneElement, ConcatProperties
<1>8. Front(a.items) \in Seq(Item) /\ Last(a.items) \in Item
      /\ a.items = Front(a.items) \o <<Last(a.items)>>
  BY <1>1, FrontProperties
<1> HIDE DEF low
<1>9. Front(a.items) \o (<<Last(a.items)>> \o low)
        = (Front(a.items) \o <<Last(a.items)>>) \o low
  BY <1>7, <1>8, OneElement, ConcatAssociative
<1>10. r.a.items \o (<<r.parent.items[slot - 1]>> \o r.b.items) = a.items \o low
  BY <1>2, <1>3, <1>4, <1>8, <1>9
<1> QED
  BY <1>4, <1>10, <1>5 DEF low, sep

\* The same of a rotation to the left (node.cpp:277-303).
THEOREM RotateLeftKeepsItems ==
  ASSUME NEW PA, NEW PB, NEW PP, NEW S,
         NEW a \in NodesOver(PA, S),
         NEW b \in NodesOver(PB, S), b.items # <<>>,
         NEW parent \in NodesOver(PP, S),
         NEW slot \in 1 .. Len(parent.items)
  PROVE  LET r == rotate_left(a, parent, b, slot)
         IN  /\ (r.a.items \o <<r.parent.items[slot]>>) \o r.b.items
                  = (a.items \o <<parent.items[slot]>>) \o b.items
             /\ r.a.children \o r.b.children = a.children \o b.children
             /\ r.parent.children = parent.children
             /\ \A i \in 1 .. Len(parent.items) \ {slot} : r.parent.items[i] = parent.items[i]
<1> DEFINE r == rotate_left(a, parent, b, slot)
           sep == parent.items[slot]
           low == a.items \o <<sep>>
<1>1. a.items \in Seq(Item) /\ b.items \in Seq(Item) /\ parent.items \in Seq(Item)
  BY DEF NodesOver
<1>2. sep \in Item
  BY <1>1, ElementOfSeq
<1>3. r.a.items = low
  <2>1. r.a.items = Append(a.items, sep)
    BY DEF rotate_left, NodesOver
  <2> HIDE DEF r, sep
  <2> QED
    BY <1>1, <1>2, <2>1, AppendIsConcat
<1>4. r.b.items = Tail(b.items)
  BY DEF rotate_left, NodesOver
<1>5. /\ r.parent.items[slot] = Head(b.items)
      /\ r.parent.children = parent.children
      /\ \A i \in 1 .. Len(parent.items) \ {slot} : r.parent.items[i] = parent.items[i]
  <2>1. DOMAIN parent.items = 1 .. Len(parent.items)
    BY <1>1, LenProperties
  <2>2. r.parent = [parent EXCEPT !.items = [parent.items EXCEPT ![slot] = Head(b.items)]]
    BY DEF rotate_left
  <2>3. /\ r.parent.items = [parent.items EXCEPT ![slot] = Head(b.items)]
        /\ r.parent.children = parent.children
    BY <2>2 DEF NodesOver
  <2> HIDE DEF r
  <2> QED
    BY <2>1, <2>3
<1>6. r.a.children \o r.b.children = a.children \o b.children
  <2>1. CASE is_leaf(b)
    <3>1. r.a.children = a.children /\ r.b.children = b.children
      BY <2>1 DEF rotate_left, NodesOver
    <3> QED
      BY <3>1
  <2>2. CASE ~is_leaf(b)
    <3> DEFINE all == b.children
               first == Head(all)
               rest == a.children
    <3>1. r.a.children = Append(rest, first) /\ r.b.children = Tail(all)
      BY <2>2 DEF rotate_left, NodesOver
    <3>2. all \in Seq(S) /\ all # <<>> /\ rest \in Seq(S)
      BY <2>2 DEF is_leaf, NodesOver
    <3> HIDE DEF all, first, rest, r
    <3>3. Tail(all) \in Seq(S) /\ first \in S /\ all = <<first>> \o Tail(all)
      BY <3>2, HeadAndTail DEF first
    <3>4. /\ (rest \o <<first>>) \o Tail(all) = rest \o (<<first>> \o Tail(all))
          /\ Append(rest, first) = rest \o <<first>>
      BY <3>2, <3>3, ConcatThree
    <3>5. r.a.children \o r.b.children = rest \o all
      BY <3>1, <3>3, <3>4
    <3> QED
      BY <3>5 DEF all, rest
  <2> QED
    BY <2>1, <2>2
<1>7. low \in Seq(Item)
  BY <1>1, <1>2, OneElement, ConcatProperties
<1>8. /\ Head(b.items) \in Item /\ Tail(b.items) \in Seq(Item)
      /\ b.items = <<Head(b.items)>> \o Tail(b.items)
  <2>1. Len(b.items) \in Nat \ {0}
    BY <1>1, EmptySeq
  <2>2. 1 \in 1 .. Len(b.items) /\ Len(b.items) \in 1 .. Len(b.items)
    BY <2>1
  <2>3. SubSeq(b.items, 1, Len(b.items)) = <<b.items[1]>> \o SubSeq(b.items, 1 + 1, Len(b.items))
    BY <1>1, <2>2, SubSeqRecursiveFirst
  <2>4. /\ Head(SubSeq(b.items, 1, Len(b.items))) = b.items[1]
        /\ Tail(SubSeq(b.items, 1, Len(b.items))) = SubSeq(b.items, 1 + 1, Len(b.items))
    BY <1>1, <2>2, HeadTailOfSubSeq
  <2>5. SubSeq(b.items, 1, Len(b.items)) = b.items
    BY <1>1, SubSeqFull
  <2> QED
    BY <1>1, <2>3, <2>4, <2>5, HeadTailProperties
<1> HIDE DEF low, r
<1>9. low \o (<<Head(b.items)>> \o Tail(b.items))
        = (low \o <<Head(b.items)>>) \o Tail(b.items)
  <2> DEFINE h == <<Head(b.items)>>
             u == Tail(b.items)
  <2>1. low \in Seq(Item) /\ h \in Seq(Item) /\ u \in Seq(Item)
    BY <1>7, <1>8, OneElement
  <2> HIDE DEF h, u
  <2>2. (low \o h) \o u = low \o (h \o u)
    BY <2>1, ConcatAssociative
  <2> QED
    BY <2>2, Zenon DEF h, u
<1>10. (r.a.items \o <<r.parent.items[slot]>>) \o r.b.items = low \o b.items
  BY <1>3, <1>4, <1>5, <1>8, <1>9
<1> QED
  BY <1>5, <1>10, <1>6 DEF low, sep, r

\* A merge puts the items of the left node, the separator and the items of the
\* right one in a row, and the children of both, and takes from the parent this
\* one item and the right one of these two children (node.cpp:305-327).
THEOREM MergeKeepsItems ==
  ASSUME NEW PA, NEW PB, NEW PP, NEW S,
         NEW a \in NodesOver(PA, S), NEW b \in NodesOver(PB, S), is_leaf(a) = is_leaf(b),
         NEW parent \in NodesOver(PP, S),
         NEW slot \in Nat, slot - 1 \in 1 .. Len(parent.items),
         slot \in 1 .. Len(parent.children)
  PROVE  LET m == merge(parent, a, b, slot)
         IN  /\ m.a.items = (a.items \o <<parent.items[slot - 1]>>) \o b.items
             /\ m.a.children = a.children \o b.children
             /\ Len(m.parent.items) = Len(parent.items) - 1
             /\ \A i \in 1 .. Len(parent.items) - 1 :
                  m.parent.items[i] = parent.items[IF i < slot - 1 THEN i ELSE i + 1]
             /\ Len(m.parent.children) = Len(parent.children) - 1
             /\ \A i \in 1 .. Len(parent.children) - 1 :
                  m.parent.children[i] = parent.children[IF i < slot THEN i ELSE i + 1]
<1> DEFINE m == merge(parent, a, b, slot)
           at == slot - 1
           sep == parent.items[at]
<1>1. /\ a.items \in Seq(Item) /\ a.children \in Seq(S)
      /\ b.items \in Seq(Item) /\ b.children \in Seq(S)
      /\ parent.items \in Seq(Item) /\ parent.children \in Seq(S)
  BY DEF NodesOver
<1>2. sep \in Item
  BY <1>1, ElementOfSeq
<1>3. /\ m.a.items = Append(a.items, sep) \o b.items
      /\ m.a.children = IF is_leaf(a) THEN a.children ELSE a.children \o b.children
      /\ m.parent.items = RemoveAt(parent.items, at)
      /\ m.parent.children = RemoveAt(parent.children, slot)
  BY DEF merge, NodesOver
<1>4. at \in 1 .. Len(parent.items)
  OBVIOUS
<1> HIDE DEF m, sep, at
<1>5. m.a.items = (a.items \o <<sep>>) \o b.items
  BY <1>1, <1>2, <1>3, ConcatThree
<1>6. m.a.children = a.children \o b.children
  <2>1. CASE is_leaf(a)
    <3>1. a.children = <<>> /\ b.children = <<>>
      BY <2>1 DEF is_leaf
    <3> QED
      BY <1>3, <2>1, <3>1
  <2> QED
    BY <1>3, <2>1
<1>7. ASSUME NEW T, NEW s \in Seq(T), NEW j \in 1 .. Len(s)
      PROVE  /\ Len(RemoveAt(s, j)) = Len(s) - 1
             /\ \A i \in 1 .. Len(s) - 1 :
                  RemoveAt(s, j)[i] = s[IF i < j THEN i ELSE i + 1]
  <2>1. /\ Len(RemoveAt(s, j)) = Len(s) - 1
        /\ \A i \in 1 .. j - 1 : RemoveAt(s, j)[i] = s[i]
        /\ \A i \in j .. Len(s) - 1 : RemoveAt(s, j)[i] = s[i + 1]
    BY RemoveAtProperties, RemoveAtElements
  <2>2. Len(s) \in Nat
    BY LenProperties
  <2>3. ASSUME NEW i \in 1 .. Len(s) - 1
        PROVE  RemoveAt(s, j)[i] = s[IF i < j THEN i ELSE i + 1]
    <3>1. CASE i < j
      <4>1. i \in 1 .. j - 1
        BY <2>2, <3>1
      <4> QED
        BY <2>1, <3>1, <4>1
    <3>2. CASE ~(i < j)
      <4>1. i \in j .. Len(s) - 1
        BY <2>2, <3>2
      <4> QED
        BY <2>1, <3>2, <4>1
    <3> QED
      BY <3>1, <3>2
  <2> QED
    BY <2>1, <2>3
<1>8. /\ Len(m.parent.items) = Len(parent.items) - 1
      /\ \A i \in 1 .. Len(parent.items) - 1 :
           m.parent.items[i] = parent.items[IF i < at THEN i ELSE i + 1]
  BY <1>1, <1>3, <1>4, <1>7
<1>9. /\ Len(m.parent.children) = Len(parent.children) - 1
      /\ \A i \in 1 .. Len(parent.children) - 1 :
           m.parent.children[i] = parent.children[IF i < slot THEN i ELSE i + 1]
  BY <1>1, <1>3, <1>7
<1> QED
  BY <1>5, <1>6, <1>8, <1>9 DEF m, sep, at
-----------------------------------------------------------------------------
\* The order of keys.

LEMMA KeysAreInts ==
  /\ \A k \in Key : k \in Int
  /\ \A item \in Item : item.key \in Key
<1>1. Key \subseteq Int
  BY NodeAssumption
<1> QED
  BY <1>1 DEF Item

\* Below the position all keys are less, from it on none is.
LEMMA KeyPositionSplits ==
  ASSUME NEW node, node.items \in Seq(Item), Ordered(node.items), NEW k \in Key
  PROVE  /\ KeyPosition(node, k) \in 1 .. Len(node.items) + 1
         /\ \A i \in 1 .. Len(node.items) :
              /\ node.items[i].key \in Int
              /\ i < KeyPosition(node, k) => node.items[i].key < k
              /\ i >= KeyPosition(node, k) => node.items[i].key >= k
              /\ i > KeyPosition(node, k) => node.items[i].key > k
<1> DEFINE L == Len(node.items)  p == KeyPosition(node, k)
           T == {i \in 1 .. L : node.items[i].key >= k} \union {L + 1}
<1>1. L \in Nat
  BY LenProperties
<1>2. p \in 1 .. L + 1
  BY KeyPositionInRange
<1>3. k \in Int /\ \A i \in 1 .. L : node.items[i].key \in Int
  <2>1. \A i \in 1 .. L : node.items[i] \in Item
    BY ElementOfSeq
  <2> QED
    BY <2>1, KeysAreInts
<1>4. p \in T /\ \A m \in T : p <= m
  <2>1. T \subseteq Nat /\ T # {}
    BY <1>1
  <2>2. p = Min(T)
    BY DEF KeyPosition
  <2> HIDE DEF T, p
  <2> QED
    BY <2>1, <2>2, MinNat
<1> HIDE DEF p
<1>5. ASSUME NEW i \in 1 .. L
      PROVE  /\ i < p => node.items[i].key < k
             /\ i >= p => node.items[i].key >= k
             /\ i > p => node.items[i].key > k
  <2>1. i < p => node.items[i].key < k
    <3>1. i < p => i \notin T
      BY <1>1, <1>2, <1>4
    <3> QED
      BY <1>3, <3>1
  <2>2. i >= p => p \in 1 .. L /\ node.items[p].key >= k
    BY <1>1, <1>2, <1>4
  <2>3. i > p => node.items[p].key < node.items[i].key
    BY <1>2, <2>2 DEF Ordered
  <2> QED
    BY <1>2, <1>3, <2>1, <2>2, <2>3
<1> QED
  BY <1>2, <1>3, <1>5 DEF p

\* In a node whose keys ascend, the search (node.cpp:77-96) finds each item at
\* its place, and no key that is not there.
THEOREM SearchFindsItems ==
  ASSUME NEW node, node.items \in Seq(Item), Ordered(node.items), NEW k \in Key
  PROVE  /\ \A i \in 1 .. Len(node.items) : node.items[i].key = k =>
              find_key_in_node(node, k) = [found |-> TRUE, position |-> i]
         /\ find_key_in_node(node, k).found =>
              /\ find_key_in_node(node, k).position \in 1 .. Len(node.items)
              /\ node.items[find_key_in_node(node, k).position].key = k
<1> DEFINE L == Len(node.items)  p == KeyPosition(node, k)
<1>1. L \in Nat /\ k \in Int
  BY LenProperties, KeysAreInts
<1>2. find_key_in_node(node, k)
        = [found |-> p <= L /\ node.items[p].key = k, position |-> p]
  BY DEF find_key_in_node
<1>3. /\ p \in 1 .. L + 1
      /\ \A i \in 1 .. L :
           /\ node.items[i].key \in Int
           /\ i < p => node.items[i].key < k
           /\ i >= p => node.items[i].key >= k
           /\ i > p => node.items[i].key > k
  BY KeyPositionSplits
<1> HIDE DEF p
<1>4. ASSUME NEW i \in 1 .. L, node.items[i].key = k PROVE p = i
  <2>1. ~(i < p) /\ ~(i > p)
    BY <1>1, <1>3, <1>4
  <2> QED
    BY <1>1, <1>3, <2>1
<1>5. \A i \in 1 .. L : node.items[i].key = k =>
        find_key_in_node(node, k) = [found |-> TRUE, position |-> i]
  <2> TAKE i \in 1 .. L
  <2> HAVE node.items[i].key = k
  <2>1. p = i /\ p <= L /\ node.items[p].key = k
    BY <1>1, <1>4
  <2> QED
    BY <1>2, <2>1
<1>6. find_key_in_node(node, k).found =>
        /\ find_key_in_node(node, k).position \in 1 .. L
        /\ node.items[find_key_in_node(node, k).position].key = k
  <2>1. find_key_in_node(node, k).position = p
    BY <1>2
  <2>2. find_key_in_node(node, k).found <=> p <= L /\ node.items[p].key = k
    BY DEF find_key_in_node, p
  <2> QED
    BY <1>1, <1>3, <2>1, <2>2
<1> QED
  BY <1>5, <1>6

LEMMA InsertOrdered ==
  ASSUME NEW s \in Seq(Item), Ordered(s), NEW item \in Item, NEW p \in 1 .. Len(s) + 1,
         Parts(s, p, item.key)
  PROVE  Ordered(InsertAt(s, p, item))
<1> DEFINE L == Len(s)  t == InsertAt(s, p, item)
<1>1. L \in Nat
  BY LenProperties
<1>2. /\ Len(t) = L + 1
      /\ \A j \in 1 .. p - 1 : t[j] = s[j]
      /\ t[p] = item
      /\ \A j \in p + 1 .. L + 1 : t[j] = s[j - 1]
  BY InsertAtProperties
<1> HIDE DEF t
<1>3. \A i \in 1 .. L : /\ i < p => s[i].key < item.key
                        /\ i >= p => item.key < s[i].key
  BY DEF Parts
<1>4. ASSUME NEW i \in 1 .. L + 1, NEW j \in 1 .. L + 1, i < j
      PROVE  t[i].key < t[j].key
  <2>1. CASE j < p
    <3>1. i \in 1 .. p - 1 /\ j \in 1 .. p - 1 /\ i \in 1 .. L /\ j \in 1 .. L
      BY <1>1, <1>4, <2>1
    <3> QED
      BY <1>2, <1>4, <3>1 DEF Ordered
  <2>2. CASE j = p
    <3>1. i \in 1 .. p - 1 /\ i \in 1 .. L /\ i < p
      BY <1>1, <1>4, <2>2
    <3> QED
      BY <1>2, <1>3, <2>2, <3>1
  <2>3. CASE j > p
    <3>1. j \in p + 1 .. L + 1 /\ j - 1 \in 1 .. L /\ j - 1 >= p
      BY <1>1, <2>3
    <3>2. CASE i < p
      <4>1. i \in 1 .. p - 1 /\ i \in 1 .. L /\ i < j - 1
        BY <1>1, <3>1, <3>2
      <4> QED
        BY <1>2, <3>1, <4>1 DEF Ordered
    <3>3. CASE i = p
      BY <1>2, <1>3, <3>1, <3>3
    <3>4. CASE i > p
      <4>1. i \in p + 1 .. L + 1 /\ i - 1 \in 1 .. L /\ i - 1 < j - 1
        BY <1>1, <1>4, <3>4
      <4> QED
        BY <1>2, <3>1, <4>1 DEF Ordered
    <3> QED
      BY <3>2, <3>3, <3>4
  <2> QED
    BY <2>1, <2>2, <2>3
<1>5. Ordered(t)
  BY <1>2, <1>4 DEF Ordered
<1> QED
  BY <1>5 DEF t

\* An item put where the search for its key ended keeps the keys of the node in
\* ascending order (node.cpp:109-118), if the key was not there.
THEOREM InsertionKeepsOrder ==
  ASSUME NEW P, NEW S, NEW node \in NodesOver(P, S), Ordered(node.items), NEW item \in Item,
         ~find_key_in_node(node, item.key).found
  PROVE  Ordered(add_item(node, item, find_key_in_node(node, item.key).position).items)
<1> DEFINE s == node.items  k == item.key  p == KeyPosition(node, k)
<1>1. s \in Seq(Item) /\ Len(s) \in Nat /\ k \in Key /\ k \in Int
  BY LenProperties, KeysAreInts DEF NodesOver
<1>2. /\ p \in 1 .. Len(s) + 1
      /\ \A i \in 1 .. Len(s) :
           /\ s[i].key \in Int
           /\ i < p => s[i].key < k
           /\ i >= p => s[i].key >= k
           /\ i > p => s[i].key > k
  BY <1>1, KeyPositionSplits
<1>3. add_item(node, item, find_key_in_node(node, k).position).items = InsertAt(s, p, item)
  BY DEF add_item, find_key_in_node, NodesOver
<1>4. ~(p <= Len(s) /\ s[p].key = k)
  BY DEF find_key_in_node
<1> HIDE DEF p, s
<1>5. Parts(s, p, k)
  BY <1>1, <1>2, <1>4 DEF Parts
<1>6. Ordered(InsertAt(s, p, item))
  BY <1>1, <1>2, <1>5, InsertOrdered DEF s
<1> QED
  BY <1>3, <1>6

\* A part of a sequence whose keys ascend.
LEMMA SliceOrdered ==
  ASSUME NEW s \in Seq(Item), Ordered(s), NEW m \in Nat \ {0}, NEW n \in 0 .. Len(s), m <= n + 1
  PROVE  Ordered(SubSeq(s, m, n))
<1> DEFINE t == SubSeq(s, m, n)
<1>1. Len(s) \in Nat
  BY LenProperties
<1>2. Len(t) = n - m + 1 /\ \A i \in 1 .. n - m + 1 : t[i] = s[m + i - 1]
  BY Slice
<1> HIDE DEF t
<1>3. ASSUME NEW i \in 1 .. n - m + 1, NEW j \in 1 .. n - m + 1, i < j
      PROVE  t[i].key < t[j].key
  <2>1. m + i - 1 \in 1 .. Len(s) /\ m + j - 1 \in 1 .. Len(s) /\ m + i - 1 < m + j - 1
    BY <1>1, <1>3
  <2> QED
    BY <1>2, <2>1 DEF Ordered
<1> QED
  BY <1>2, <1>3 DEF Ordered, t

\* The keys of the node lie between those the parent has before and after the
\* node's slot.
Between(node, parent, slot) ==
  \A i \in 1 .. Len(node.items) : Parts(parent.items, slot, node.items[i].key)

\* Splitting the child at a slot whose keys are where the parent says (node.cpp:
\* 130-205) leaves parent and halves in order, the left half before the item
\* that went up and the right half after it.
THEOREM SplitKeepsOrder ==
  ASSUME NEW P, NEW S, NEW node \in NodesOver(P, S), can_spare_an_element(node),
         Ordered(node.items),
         NEW Q, NEW T, NEW parent \in NodesOver(Q, T), Ordered(parent.items),
         NEW slot \in 1 .. Len(parent.items) + 1, Between(node, parent, slot), NEW new_page
  PROVE  LET s == split(parent, node, slot, new_page)
         IN  /\ Ordered(s.left.items) /\ Ordered(s.right.items) /\ Ordered(s.parent.items)
             /\ Between(s.left, s.parent, slot) /\ Between(s.right, s.parent, slot + 1)
<1> DEFINE m == get_split_index(node)
           s == split(parent, node, slot, new_page)
           a == node.items  b == parent.items  L == Len(a)  M == Len(b)
           mp == m + 1  mm == m - 1
           c == InsertAt(b, slot, a[m])
           d == SubSeq(a, 1, mm)  e == SubSeq(a, mp, L)
<1>1. a \in Seq(Item) /\ L \in Nat /\ b \in Seq(Item) /\ M \in Nat
  BY LenProperties DEF NodesOver
<1>2. m \in 2 .. L
  BY <1>1, SplitIndexInRange
<1>3. s.left.items = d /\ s.right.items = e /\ s.parent.items = c
  BY DEF split, add_item, NodesOver
<1>4. Ordered(a) /\ Ordered(b) /\ slot \in 1 .. M + 1
      /\ \A i \in 1 .. L : \A j \in 1 .. M : /\ j < slot => b[j].key < a[i].key
                                             /\ j >= slot => a[i].key < b[j].key
  BY DEF Between, Parts
<1> HIDE DEF a, b, m
<1>5. /\ 1 \in Nat \ {0} /\ mm \in 0 .. L /\ 1 <= mm + 1
      /\ mp \in Nat \ {0} /\ L \in 0 .. L /\ mp <= L + 1 /\ m \in 1 .. L
  BY <1>1, <1>2
<1>6. a[m] \in Item /\ \A i \in 1 .. L : a[i].key \in Int
  <2>1. \A i \in 1 .. L : a[i] \in Item
    BY <1>1, ElementOfSeq
  <2> QED
    BY <1>5, <2>1, KeysAreInts
<1>7. /\ Ordered(c) /\ Len(c) = M + 1 /\ c[slot] = a[m]
      /\ \A j \in 1 .. slot - 1 : c[j] = b[j]
      /\ \A j \in slot + 1 .. M + 1 : c[j] = b[j - 1]
  <2> DEFINE item == a[m]
  <2>1. item \in Item /\ Parts(b, slot, item.key)
    BY <1>4, <1>5, <1>6 DEF Parts
  <2> HIDE DEF item
  <2>2. Ordered(InsertAt(b, slot, item))
    BY <1>1, <1>4, <2>1, InsertOrdered
  <2>3. /\ Len(InsertAt(b, slot, item)) = M + 1 /\ InsertAt(b, slot, item)[slot] = item
        /\ \A j \in 1 .. slot - 1 : InsertAt(b, slot, item)[j] = b[j]
        /\ \A j \in slot + 1 .. M + 1 : InsertAt(b, slot, item)[j] = b[j - 1]
    BY <1>1, <1>4, <2>1, InsertAtProperties
  <2> QED
    BY <2>2, <2>3 DEF item
<1>8. Ordered(d) /\ Len(d) = m - 1 /\ \A i \in 1 .. m - 1 : d[i] = a[i]
  <2>1. Ordered(d)
    BY <1>1, <1>4, <1>5, SliceOrdered
  <2>2. Len(d) = mm - 1 + 1 /\ \A i \in 1 .. mm - 1 + 1 : d[i] = a[1 + i - 1]
    BY <1>1, <1>5, Slice
  <2>3. mm - 1 + 1 = m - 1
    BY <1>5
  <2> HIDE DEF d, mm
  <2>4. ASSUME NEW i \in 1 .. m - 1
        PROVE  d[i] = a[i]
    <3>1. 1 + i - 1 = i
      BY <1>5
    <3> QED
      BY <2>2, <2>3, <3>1
  <2> QED
    BY <2>1, <2>2, <2>3, <2>4
<1>9. Ordered(e) /\ Len(e) = L - m /\ \A i \in 1 .. L - m : e[i] = a[m + i]
  <2>1. Ordered(e)
    BY <1>1, <1>4, <1>5, SliceOrdered
  <2>2. Len(e) = L - mp + 1 /\ \A i \in 1 .. L - mp + 1 : e[i] = a[mp + i - 1]
    BY <1>1, <1>5, Slice
  <2>3. L - mp + 1 = L - m
    BY <1>1, <1>5
  <2>4. ASSUME NEW i \in 1 .. L - m
        PROVE  mp + i - 1 = m + i
    BY <1>1, <1>5
  <2> HIDE DEF e, mp
  <2>5. ASSUME NEW i \in 1 .. L - m
        PROVE  e[i] = a[m + i]
    BY <2>2, <2>3, <2>4
  <2> QED
    BY <2>1, <2>2, <2>3, <2>5
<1> HIDE DEF s, c, d, e, mm, mp
<1>10. ASSUME NEW i \in 1 .. L, NEW j \in 1 .. M + 1
       PROVE  /\ j < slot => c[j].key < a[i].key
              /\ j = slot => c[j] = a[m]
              /\ j > slot => a[i].key < c[j].key
  <2>1. j < slot => j \in 1 .. slot - 1 /\ j \in 1 .. M
    BY <1>1, <1>4
  <2>2. j > slot => j \in slot + 1 .. M + 1 /\ j - 1 \in 1 .. M /\ j - 1 >= slot
    BY <1>1, <1>4
  <2> QED
    BY <1>4, <1>7, <2>1, <2>2
<1>11. Between(s.left, s.parent, slot)
  <2>1. ASSUME NEW i \in 1 .. m - 1, NEW j \in 1 .. M + 1
        PROVE  /\ j < slot => c[j].key < a[i].key
               /\ j >= slot => a[i].key < c[j].key
    <3>1. i \in 1 .. L /\ i < m
      BY <1>5
    <3>2. a[i].key < a[m].key
      BY <1>4, <1>5, <3>1 DEF Ordered
    <3> QED
      BY <1>4, <1>10, <3>1, <3>2
  <2>2. ASSUME NEW i \in 1 .. Len(d), NEW j \in 1 .. Len(c)
        PROVE  /\ j < slot => c[j].key < d[i].key
               /\ j >= slot => d[i].key < c[j].key
    BY <1>7, <1>8, <2>1
  <2> QED
    BY <1>3, <2>2 DEF Between, Parts
<1>12. Between(s.right, s.parent, slot + 1)
  <2>1. ASSUME NEW i \in 1 .. L - m, NEW j \in 1 .. M + 1
        PROVE  /\ j < slot + 1 => c[j].key < a[m + i].key
               /\ j >= slot + 1 => a[m + i].key < c[j].key
    <3>1. m + i \in 1 .. L /\ m < m + i
      BY <1>1, <1>5
    <3>2. a[m].key < a[m + i].key
      BY <1>4, <1>5, <3>1 DEF Ordered
    <3>3. /\ j < slot => c[j].key < a[m + i].key
          /\ j = slot => c[j] = a[m]
          /\ j > slot => a[m + i].key < c[j].key
      BY <1>10, <3>1
    <3>4. j < slot + 1 => j < slot \/ j = slot
      BY <1>1, <1>4
    <3>5. j >= slot + 1 => j > slot
      BY <1>1, <1>4
    <3> QED
      BY <3>2, <3>3, <3>4, <3>5
  <2>2. ASSUME NEW i \in 1 .. Len(e), NEW j \in 1 .. Len(c)
        PROVE  /\ j < slot + 1 => c[j].key < e[i].key
               /\ j >= slot + 1 => e[i].key < c[j].key
    BY <1>7, <1>9, <2>1
  <2> QED
    BY <1>3, <2>2 DEF Between, Parts
<1> QED
  BY <1>3, <1>7, <1>8, <1>9, <1>11, <1>12 DEF s
=============================================================================
