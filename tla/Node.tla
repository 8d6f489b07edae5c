-------------------------------- MODULE Node --------------------------------
(***************************************************************************)
(* A B-tree node of toocal and the pure operations on it (core/node.h,     *)
(* core/node.cpp, and the thresholds of core/data_access_layer.cpp).       *)
(*                                                                         *)
(* A node is a record of its page number, its items in key order and the   *)
(* page numbers of its children, none for a leaf.  Positions count from 1  *)
(* where the code counts from 0.  Keys are integers in the order bytescmp  *)
(* gives them; an item's bytes are a function of its key.                  *)
(***************************************************************************)
EXTENDS Integers, Sequences, FiniteSetsExt, SequencesExt

CONSTANTS
  DEFAULT_PAGE_SIZE,    \* Page::DEFAULT_PAGE_SIZE: bytes a node is written to
  PageSize,     \* options.page_size: bytes in a page of the file
  MinFill,      \* min_fill_percent, in units of 1/10000
  MaxFill,      \* max_fill_percent, in units of 1/10000
  Key,          \* the keys
  Value,        \* the values
  ItemBytes     \* ItemBytes[k]: bytes of key k and its value together

ASSUME NodeAssumption ==
  /\ PageSize \in Nat \ {0}
  /\ DEFAULT_PAGE_SIZE \in 1 .. PageSize  \* or the first write overruns a page
  /\ MinFill \in 0 .. 10000 /\ MaxFill \in MinFill .. 10000
  /\ Key \subseteq Int
  /\ ItemBytes \in [Key -> 0 .. 510]    \* the lengths are stored in uint8_t

HEADER_SIZE == 3        \* is_leaf and items_count
POINTER_SIZE == 8       \* sizeof(Page_num)
OFFSET_SIZE == 2        \* sizeof(uint16_t)

Item == [key : Key, value : Value]

is_leaf(node) == node.children = <<>>
-----------------------------------------------------------------------------
\* Sizes and thresholds.

\* What the first n of the items take, as a function of n.
PrefixBytes(items) ==
  LET bytes[n \in 0 .. Len(items)] ==
        IF n = 0 THEN 0 ELSE bytes[n - 1] + ItemBytes[items[n].key]
  IN  bytes

ItemsBytes(items) == PrefixBytes(items)[Len(items)]

size(node) == HEADER_SIZE + POINTER_SIZE + ItemsBytes(node.items)

is_over_populated(node) == 10000 * size(node) > MaxFill * PageSize

is_under_populated(node) == 10000 * size(node) < MinFill * PageSize

\* No split position: get_split_index returns -1.
NoSplit == 0

\* The position of the item that moves up when the node is split: one after
\* the first item with which the node holds more than the minimum, if that
\* item is not the last.
get_split_index(node) ==
  LET bytes(i) == HEADER_SIZE + i * POINTER_SIZE
                  + ItemsBytes(SubSeq(node.items, 1, i))
      enough == {i \in 1 .. Len(node.items) - 1 :
                   10000 * bytes(i) > MinFill * PageSize}
  IN  IF enough = {} THEN NoSplit ELSE Min(enough) + 1

can_spare_an_element(node) == get_split_index(node) # NoSplit
-----------------------------------------------------------------------------
\* Searching and inserting.

\* The position of the key, or of the first greater one, or one past the end.
KeyPosition(node, k) ==
  Min({i \in 1 .. Len(node.items) : node.items[i].key >= k}
      \union {Len(node.items) + 1})

find_key_in_node(node, k) ==
  LET i == KeyPosition(node, k)
  IN  [found |-> i <= Len(node.items) /\ node.items[i].key = k, position |-> i]

add_item(node, item, position) ==
  [node EXCEPT !.items = InsertAt(@, position, item)]

without_item(node, position) ==
  [node EXCEPT !.items = RemoveAt(@, position)]
-----------------------------------------------------------------------------
\* Rebalancing.  Each operator returns the nodes it changes.

\* One child too many stays behind in an internal node.
split_KeepsChild(parent, node, slot, new_page) ==
  LET m == get_split_index(node) IN
  [left  |-> [node EXCEPT !.items = SubSeq(@, 1, m - 1),
                          !.children = IF is_leaf(node) THEN @
                                       ELSE SubSeq(@, 1, m + 1)],
   right |-> [page |-> new_page,
              items |-> SubSeq(node.items, m + 1, Len(node.items)),
              children |-> SubSeq(node.children, m + 1, Len(node.children))],
   parent |-> [add_item(parent, node.items[m], slot) EXCEPT
                 !.children = InsertAt(@, slot + 1, new_page)]]

\* parent.split(node, slot): the items after the split position move to a new
\* node, the item at it into the parent at node's own slot.
split(parent, node, slot, new_page) ==
  LET m == get_split_index(node) IN
  [left  |-> [node EXCEPT !.items = SubSeq(@, 1, m - 1),
                          !.children = IF is_leaf(node) THEN @
                                       ELSE SubSeq(@, 1, m)],
   right |-> [page |-> new_page,
              items |-> SubSeq(node.items, m + 1, Len(node.items)),
              children |-> SubSeq(node.children, m + 1, Len(node.children))],
   parent |-> [add_item(parent, node.items[m], slot) EXCEPT
                 !.children = InsertAt(@, slot + 1, new_page)]]

\* The last item of a, left of b, goes up to the parent and the parent's item
\* between them down to the front of b, with a's last child.
rotate_right(a, parent, b, slot_of_b) ==
  [a |-> [a EXCEPT !.items = Front(@),
                   !.children = IF is_leaf(a) THEN @ ELSE Front(@)],
   parent |-> [parent EXCEPT !.items[slot_of_b - 1] = Last(a.items)],
   b |-> [b EXCEPT !.items = <<parent.items[slot_of_b - 1]>> \o @,
                   !.children = IF is_leaf(a) THEN @
                                ELSE <<Last(a.children)>> \o @]]

\* The item that goes up is not taken from b.
rotate_left_KeepsItem(a, parent, b, slot_of_a) ==
  [a |-> [a EXCEPT !.items = Append(@, parent.items[slot_of_a]),
                   !.children = IF is_leaf(b) THEN @
                                ELSE Append(@, Head(b.children))],
   parent |-> [parent EXCEPT !.items[slot_of_a] = Head(b.items)],
   b |-> b]

\* The mirror image: the first item of b, right of a, goes up.
rotate_left(a, parent, b, slot_of_a) ==
  [a |-> [a EXCEPT !.items = Append(@, parent.items[slot_of_a]),
                   !.children = IF is_leaf(b) THEN @
                                ELSE Append(@, Head(b.children))],
   parent |-> [parent EXCEPT !.items[slot_of_a] = Head(b.items)],
   b |-> [b EXCEPT !.items = Tail(@),
                   !.children = IF is_leaf(b) THEN @ ELSE Tail(@)]]

\* The separator is dropped instead of moving into the merged node.
merge_DropsSeparator(parent, a, b, slot_of_b) ==
  [parent |-> [parent EXCEPT !.items = RemoveAt(@, slot_of_b - 1),
                             !.children = RemoveAt(@, slot_of_b)],
   a |-> [a EXCEPT !.items = @ \o b.items, !.children = @ \o b.children]]

\* parent.merge(b, slot_of_b): the left neighbour a of b takes the parent's
\* item between them and everything of b.
merge(parent, a, b, slot_of_b) ==
  [parent |-> [parent EXCEPT !.items = RemoveAt(@, slot_of_b - 1),
                             !.children = RemoveAt(@, slot_of_b)],
   a |-> [a EXCEPT !.items = Append(@, parent.items[slot_of_b - 1]) \o b.items,
                   !.children = IF is_leaf(a) THEN @ ELSE @ \o b.children]]
-----------------------------------------------------------------------------
\* What the page of a node holds.

\* The cells written from the right of the page stay clear of the offsets and
\* child pointers written from the left: otherwise the serializer overwrites
\* one with the other, and outside the buffer when the page is exceeded.
FitsPage(node) ==
  LET n == Len(node.items)
      slots == HEADER_SIZE + n * OFFSET_SIZE
               + (IF is_leaf(node) THEN 0 ELSE (n + 1) * POINTER_SIZE)
      cells == ItemsBytes(node.items) + 2 * n
  IN  slots + cells <= DEFAULT_PAGE_SIZE - 1

\* A node that is not a leaf has a child for each item: the serializer indexes
\* the children by the positions of the items.
HasChildren(node) == is_leaf(node) \/ Len(node.children) >= Len(node.items)

\* The node that comes back from the page: one child is written before each
\* item and the last child once more at the end, so a node with as many
\* children as items gets its last child twice.
Stored(node) ==
  LET n == Len(node.items) IN
  [kind |-> "node",
   items |-> node.items,
   children |-> IF is_leaf(node) THEN <<>>
                ELSE [i \in 1 .. n + 1 |->
                        IF i \in 1 .. n \intersect DOMAIN node.children
                        THEN node.children[i] ELSE Last(node.children)]]
-----------------------------------------------------------------------------
\* Types.

\* Nodes in memory, their page in P and their children in S.
NodesOver(P, S) == [page : P, items : Seq(Item), children : Seq(S)]

\* A leaf, or a node with one child more than items.
IsShaped(node) == is_leaf(node) \/ Len(node.children) = Len(node.items) + 1

\* Pages that Stored made, and the nodes get_node makes of them.
StoredNodes(S) ==
  {n \in [kind : {"node"}, items : Seq(Item), children : Seq(S)] : IsShaped(n)}

NodesOf(S) == {n \in NodesOver(S, S) : IsShaped(n)}
-----------------------------------------------------------------------------
\* Order.

\* Keys ascend, and none is there twice.
Ordered(items) ==
  \A i, j \in 1 .. Len(items) : i < j => items[i].key < items[j].key

\* The place of a key among those of the items: the lesser are before it, the
\* greater not.
Parts(items, p, k) ==
  \A i \in 1 .. Len(items) : /\ i < p => items[i].key < k
                             /\ i >= p => k < items[i].key
=============================================================================
