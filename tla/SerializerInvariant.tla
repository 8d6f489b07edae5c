------------------------ MODULE SerializerInvariant ------------------------
(***************************************************************************)
(* The inductive invariant of the serializers: where in the buffer, and    *)
(* then in the page, each part of the content is at each moment.           *)
(***************************************************************************)
EXTENDS Serializer

-----------------------------------------------------------------------------
\* What a buffer holds.

HasAt(b, at, string) ==
  \A k \in 1 .. Len(string) : at + k - 1 \in DOMAIN b /\ b[at + k - 1] = string[k]

\* The slots of a node are on the left: a pointer, unless it is a leaf, and the
\* offset at which the cells of the item begin.
PointerBytes(c) == IF is_leaf(c) THEN 0 ELSE POINTER_SIZE

SlotOf(c, n) == HEADER_SIZE + (n - 1) * (PointerBytes(c) + OFFSET_SIZE)

PointerWritten(c, b, n, child) ==
  ~is_leaf(c) => HasAt(b, SlotOf(c, n), put(child, POINTER_SIZE))

\* The cells of an item lie between low and the end, the key before the value.
KeyCell(c, n) == Cell(KeyBytes[c.items[n].key])
ValueCell(c, n) == Cell(ValueBytes[c.items[n].value])

CellsWritten(c, b, n, low) ==
  \E at \in low .. DEFAULT_PAGE_SIZE - 1 :
    /\ at + Len(KeyCell(c, n)) + Len(ValueCell(c, n)) <= DEFAULT_PAGE_SIZE - 1
    /\ HasAt(b, SlotOf(c, n) + PointerBytes(c), put(at, OFFSET_SIZE))
    /\ HasAt(b, at, KeyCell(c, n))
    /\ HasAt(b, at + Len(KeyCell(c, n)), ValueCell(c, n))

\* What the cells of the first n items leave free.
RightAfter(c, n) == DEFAULT_PAGE_SIZE - 1 - PrefixBytes(c.items)[n] - OFFSET_SIZE * n

HeaderWritten(c, b) ==
  /\ HasAt(b, 0, put(IF is_leaf(c) THEN 1 ELSE 0, 1))
  /\ HasAt(b, 1, put(Len(c.items) % Width16, OFFSET_SIZE))

\* The header and the first n items.
ItemsWritten(c, b, n, low) ==
  /\ HeaderWritten(c, b)
  /\ \A m \in 1 .. n : PointerWritten(c, b, m, c.children[m]) /\ CellsWritten(c, b, m, low)

NodeWritten(c, b) ==
  LET n == Len(c.items)
  IN  ItemsWritten(c, b, n, 0) /\ PointerWritten(c, b, n + 1, Last(c.children))

MetaWritten(c, b) ==
  /\ HasAt(b, 0, put(c.root, POINTER_SIZE))
  /\ HasAt(b, POINTER_SIZE, put(c.freelist_page, POINTER_SIZE))

FreelistWritten(c, b, n) ==
  /\ HasAt(b, 0, put(c.max_page % Width16, OFFSET_SIZE))
  /\ HasAt(b, OFFSET_SIZE, put(Len(c.released_pages) % Width16, OFFSET_SIZE))
  /\ \A m \in 1 .. n : HasAt(b, released_at(m), put(c.released_pages[m], POINTER_SIZE))

ContentWritten(c, b) ==
  CASE c.kind = "node"     -> NodeWritten(c, b)
    [] c.kind = "meta"     -> MetaWritten(c, b)
    [] c.kind = "freelist" -> FreelistWritten(c, b, Len(c.released_pages))
    [] c.kind = "hole"     -> \A at \in DOMAIN b : b[at] = 0
-----------------------------------------------------------------------------
StartOK == stage = "start" => i = 1

\* The loop over the items of a node, and the copy with its last child: as long
\* as the two ends are apart, everything is in its place.
WritingOK ==
  /\ stage = "item" => content.kind = "node"
  /\ content.kind = "node" /\ stage \in {"item", "copy"} =>
      /\ DOMAIN buffer = 0 .. DEFAULT_PAGE_SIZE - 1
      /\ i \in 1 .. items_count + 1
      /\ stage = "copy" => i = items_count + 1
      /\ left = SlotOf(content, i)
      /\ right \in Nat
      /\ right = RightAfter(content, i - 1)
      /\ LeftEnd <= right =>
           /\ ItemsWritten(content, buffer, i - 1, right)
           /\ stage = "copy" => PointerWritten(content, buffer, i, Last(content.children))

\* The buffers of the other contents are as long as these are.
CopyOK ==
  stage = "copy" =>
    /\ content.kind \in {"node", "meta", "freelist"}
    /\ content.kind = "meta" => DOMAIN buffer = 0 .. 2 * POINTER_SIZE - 1
    /\ content.kind = "freelist" =>
         DOMAIN buffer = 0 .. released_at(Len(content.released_pages) + 1) - 1
    /\ content.kind # "node" => ContentWritten(content, buffer)

PageOK ==
  stage \in {"read", "read_item"} /\ Fits =>
    DOMAIN buffer = 0 .. PageSize - 1 /\ ContentWritten(content, buffer)

\* What has been read of a node after n of its items.
ItemsRead(c, n) == [m \in 1 .. n |-> CutItem(c.items[m])]
ChildrenRead(c, n) == IF is_leaf(c) THEN <<>> ELSE [m \in 1 .. n |-> c.children[m]]

\* The place in a node; of what is no node there is no item to read.
ReadingOK ==
  stage = "read_item" =>
    /\ content.kind # "freelist"
    /\ Fits =>
         IF content.kind = "node"
         THEN /\ i \in 1 .. Len(content.items) + 1
              /\ left = SlotOf(content, i)
              /\ back = [kind |-> "node", items |-> ItemsRead(content, i - 1),
                         children |-> ChildrenRead(content, i - 1)]
         ELSE /\ i = 1 /\ left = HEADER_SIZE
              /\ back = [kind |-> "node", items |-> <<>>, children |-> <<>>]

IInv ==
  /\ content \in Contents
  /\ stage \in {"start", "item", "copy", "read", "read_item", "done", "overrun"}
  /\ StartOK /\ WritingOK /\ CopyOK /\ PageOK /\ ReadingOK
  /\ ReadBack /\ OverrunOnlyWhenFull
=============================================================================
