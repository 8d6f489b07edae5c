----------------------------- MODULE Serializer ------------------------------
(***************************************************************************)
(* The pages of toocal byte by byte: the serializers of nodes (core/node.h),*)
(* of the meta page (core/meta.h) and of the freelist (core/freelist.h).   *)
(* One content is written to a page and read back.  A node is a slotted    *)
(* page: offsets and child pointers from the left, keys and values with    *)
(* their lengths from the right.  Where the machine comes to "overrun" the *)
(* program has left a buffer.                                              *)
(*                                                                         *)
(* Node, Freelist and DataAccessLayer know only what a page gives back;    *)
(* this module is what that rests on.                                      *)
(***************************************************************************)
EXTENDS Endian, Node, Freelist

CONSTANTS
  KeyBytes, ValueBytes, \* the bytes of each key and value
  Contents              \* what is written: nodes, meta pages, freelists, holes

ASSUME SerializerAssumption ==
  /\ KeyBytes \in [Key -> Seq(Bytes)] /\ ValueBytes \in [Value -> Seq(Bytes)]
  /\ Width16 = Byte * Byte
  /\ PageSize + Byte <= Width16     \* an offset and a length stay below 2^16
  /\ 2 * POINTER_SIZE <= PageSize   \* the meta page has room

\* 2^64: page numbers are uint64_t.
Width64 == LET Width32 == Byte * Byte * Byte * Byte IN Width32 * Width32

VARIABLES
  content,      \* what is written
  stage,        \* the next step of serialize, the copy to the page, deserialize
  buffer,       \* the buffer of serialize, then the page
  left, right,  \* the ends of what is free in it
  i,            \* the loop variable
  back          \* what has been read back

vars == <<content, stage, buffer, left, right, i, back>>

NoContent == [kind |-> "none"]

Init == /\ content \in Contents
        /\ stage = "start"
        /\ buffer = <<>> /\ left = 0 /\ right = 0 /\ i = 1
        /\ back = NoContent

\* A step makes an access that is not inside its buffer.
Overrun(step, inside) ==
  /\ stage = step /\ ~inside
  /\ stage' = "overrun"
  /\ UNCHANGED <<content, buffer, left, right, i, back>>

-----------------------------------------------------------------------------
\* Serializer<Node>::serialize.

\* static_cast<uint8_t>: the length that is kept of a key or a value, and the
\* bytes kept with it.
length(string) == Len(string) % Byte
Cut(string) == SubSeq(string, 1, length(string))

\* A key or value as it is in the page, its length before it.
Cell(string) == <<length(string)>> \o Cut(string)

\* The meta page is written once, for an empty database.  A node has a child for
\* each item, and the model's ItemBytes are the bytes that are kept of it.
ASSUME ContentsAssumption ==
  \A c \in Contents :
    \/ c = [kind |-> "hole"]
    \/ c = [kind |-> "meta", root |-> 0, freelist_page |-> 1]
    \/ c \in [kind : {"freelist"}, max_page : Nat, released_pages : Seq(0 .. Width64 - 1)]
    \/ /\ c \in [kind : {"node"}, page : Nat, items : Seq(Item), children : Seq(0 .. Width64 - 1)]
       /\ HasChildren(c)
       /\ \A n \in DOMAIN c.items :
            ItemBytes[c.items[n].key] =
              length(KeyBytes[c.items[n].key]) + length(ValueBytes[c.items[n].value])

items_count == Len(content.items) % Width16

WriteHeader ==
  LET s == stream(empty_buffer(DEFAULT_PAGE_SIZE), 0)
      leaf == write_bytes(s, IF is_leaf(content) THEN 1 ELSE 0, 1)
  IN  /\ stage = "start" /\ content.kind = "node"
      /\ buffer' = write_bytes(leaf, items_count, OFFSET_SIZE).buffer
      /\ left' = HEADER_SIZE /\ right' = DEFAULT_PAGE_SIZE - 1
      /\ stage' = "item"
      /\ UNCHANGED <<content, i, back>>

\* What an item, or the last child, takes on the left.
pointer_size == IF is_leaf(content) THEN 0 ELSE POINTER_SIZE

WithPointer(child) ==
  IF is_leaf(content) THEN stream(buffer, left)
  ELSE write_bytes(stream(buffer, left), child, POINTER_SIZE)

key == KeyBytes[content.items[i].key]
value == ValueBytes[content.items[i].value]

\* Where the cells of the item begin, and what is stored of that.
CellsAt == right - length(key) - length(value) - OFFSET_SIZE

ItemInside == /\ InBounds(stream(buffer, left), pointer_size + OFFSET_SIZE)
              /\ CellsAt >= 0

\* The whole lengths are counted, not what is left of them in 8 bits.
WriteItem_Uncut ==
  LET offset == right - Len(key) - Len(value) - OFFSET_SIZE
      s == write_bytes(WithPointer(content.children[i]), offset % Width16, OFFSET_SIZE)
      v == write(stream(s.buffer, right - Len(Cell(value))), Cell(value))
  IN  /\ stage = "item" /\ i <= items_count
      /\ ItemInside
      /\ buffer' = write(stream(v.buffer, CellsAt), Cell(key)).buffer
      /\ left' = s.position /\ right' = offset
      /\ i' = i + 1
      /\ UNCHANGED <<content, stage, back>>

\* The key's length is written over: `right` is not moved past it.
WriteItem_KeepsRight ==
  LET s == write_bytes(WithPointer(content.children[i]), CellsAt % Width16, OFFSET_SIZE)
      v == write(stream(s.buffer, right - Len(Cell(value))), Cell(value))
  IN  /\ stage = "item" /\ i <= items_count
      /\ ItemInside
      /\ buffer' = write(stream(v.buffer, CellsAt), Cell(key)).buffer
      /\ left' = s.position /\ right' = CellsAt + 1
      /\ i' = i + 1
      /\ UNCHANGED <<content, stage, back>>

\* The child pointer and the offset go in on the left, the value and then the
\* key, each with its length, on the right.  Nothing keeps the two ends apart.
WriteItem ==
  LET s == write_bytes(WithPointer(content.children[i]), CellsAt % Width16, OFFSET_SIZE)
      v == write(stream(s.buffer, right - Len(Cell(value))), Cell(value))
  IN  /\ stage = "item" /\ i <= items_count
      /\ ItemInside
      /\ buffer' = write(stream(v.buffer, CellsAt), Cell(key)).buffer
      /\ left' = s.position /\ right' = CellsAt
      /\ i' = i + 1
      /\ UNCHANGED <<content, stage, back>>

LastChildInside == InBounds(stream(buffer, left), pointer_size)

WriteLastChild ==
  /\ stage = "item" /\ i > items_count
  /\ LastChildInside
  /\ buffer' = IF is_leaf(content) THEN buffer
               ELSE WithPointer(Last(content.children)).buffer
  /\ stage' = "copy"
  /\ UNCHANGED <<content, left, right, i, back>>

-----------------------------------------------------------------------------
\* The other serializers, and the page all of them are copied to.

WriteMeta ==
  LET s == stream(empty_buffer(2 * POINTER_SIZE), 0)
      r == write_bytes(s, content.root, POINTER_SIZE)
  IN  /\ stage = "start" /\ content.kind = "meta"
      /\ buffer' = write_bytes(r, content.freelist_page, POINTER_SIZE).buffer
      /\ stage' = "copy"
      /\ UNCHANGED <<content, left, right, i, back>>

\* The count is cut to 16 bits, the pages behind it are not.
WriteFreelist ==
  LET pages == content.released_pages
      s == stream(empty_buffer(2 * OFFSET_SIZE + Len(pages) * POINTER_SIZE), 0)
      m == write_bytes(s, content.max_page % Width16, OFFSET_SIZE)
      c == write_bytes(m, Len(pages) % Width16, OFFSET_SIZE)
      after[n \in 0 .. Len(pages)] ==
        IF n = 0 THEN c ELSE write_bytes(after[n - 1], pages[n], POINTER_SIZE)
  IN  /\ stage = "start" /\ content.kind = "freelist"
      /\ buffer' = after[Len(pages)].buffer
      /\ stage' = "copy"
      /\ UNCHANGED <<content, left, right, i, back>>

\* A page that was skipped when the file grew.
LeaveHole ==
  /\ stage = "start" /\ content.kind = "hole"
  /\ buffer' = empty_buffer(PageSize)
  /\ stage' = "read"
  /\ UNCHANGED <<content, left, right, i, back>>

CopyInside == Cardinality(DOMAIN buffer) <= PageSize

CopyToPage ==
  /\ stage = "copy"
  /\ CopyInside
  /\ buffer' = [at \in 0 .. PageSize - 1 |-> IF at \in DOMAIN buffer THEN buffer[at] ELSE 0]
  /\ stage' = "read"
  /\ UNCHANGED <<content, left, right, i, back>>

-----------------------------------------------------------------------------
\* Serializer<Node>::deserialize, of whatever is in the page.

ReadHeader ==
  /\ stage = "read" /\ content.kind # "freelist"
  /\ back' = [kind |-> "node", items |-> <<>>, children |-> <<>>]
  /\ left' = HEADER_SIZE /\ i' = 1
  /\ stage' = "read_item"
  /\ UNCHANGED <<content, buffer, right>>

read_leaf == buffer[0] # 0
read_count == read_bytes(stream(buffer, 1), OFFSET_SIZE)

\* The bytes at an offset, their number before them.
string_at(offset) == read(stream(buffer, offset + 1), buffer[offset])

\* The item whose offset is at a place of the page: its key, then its value.
offset_at(at) == read_bytes(stream(buffer, at), OFFSET_SIZE)
value_at(at) == offset_at(at) + 1 + buffer[offset_at(at)]

\* The value is taken to come before the key.
item_at_Swapped(at) ==
  [key |-> string_at(value_at(at)), value |-> string_at(offset_at(at))]

item_at(at) == [key |-> string_at(offset_at(at)), value |-> string_at(value_at(at))]

ItemReadable(at) ==
  /\ InBounds(stream(buffer, at), OFFSET_SIZE)
  /\ offset_at(at) \in DOMAIN buffer
  /\ value_at(at) \in DOMAIN buffer
  /\ InBounds(stream(buffer, value_at(at) + 1), buffer[value_at(at)])

SlotAt == left + (IF read_leaf THEN 0 ELSE POINTER_SIZE)

Child == read_bytes(stream(buffer, left), POINTER_SIZE)

ReadItem ==
  /\ stage = "read_item" /\ i <= read_count
  /\ ItemReadable(SlotAt)
  /\ back' = [back EXCEPT !.items = Append(@, item_at(SlotAt)),
                          !.children = IF read_leaf THEN @ ELSE Append(@, Child)]
  /\ left' = SlotAt + OFFSET_SIZE /\ i' = i + 1
  /\ UNCHANGED <<content, stage, buffer, right>>

ChildReadable == read_leaf \/ InBounds(stream(buffer, left), POINTER_SIZE)

ReadLastChild ==
  /\ stage = "read_item" /\ i > read_count
  /\ ChildReadable
  /\ back' = [back EXCEPT !.children = IF read_leaf THEN @ ELSE Append(@, Child)]
  /\ stage' = "done"
  /\ UNCHANGED <<content, buffer, left, right, i>>

-----------------------------------------------------------------------------
\* The other deserializers; load_database may meet a hole with either.

ReadMeta ==
  /\ stage = "read" /\ content.kind \in {"meta", "hole"}
  /\ back' = [kind |-> "meta",
              root |-> read_bytes(stream(buffer, 0), POINTER_SIZE),
              freelist_page |-> read_bytes(stream(buffer, POINTER_SIZE), POINTER_SIZE)]
  /\ stage' = "done"
  /\ UNCHANGED <<content, buffer, left, right, i>>

released_count == read_bytes(stream(buffer, OFFSET_SIZE), OFFSET_SIZE)
released_at(n) == 2 * OFFSET_SIZE + (n - 1) * POINTER_SIZE

PagesReadable == released_at(released_count + 1) <= PageSize

ReadFreelist ==
  /\ stage = "read" /\ content.kind \in {"freelist", "hole"}
  /\ PagesReadable
  /\ back' = [kind |-> "freelist",
              max_page |-> read_bytes(stream(buffer, 0), OFFSET_SIZE),
              released_pages |-> [n \in 1 .. released_count |->
                read_bytes(stream(buffer, released_at(n)), POINTER_SIZE)]]
  /\ stage' = "done"
  /\ UNCHANGED <<content, buffer, left, right, i>>

-----------------------------------------------------------------------------
Overruns == \/ Overrun("item", IF i <= items_count THEN ItemInside ELSE LastChildInside)
            \/ Overrun("copy", CopyInside)
            \/ Overrun("read_item", IF i <= read_count THEN ItemReadable(SlotAt)
                                                       ELSE ChildReadable)

Next == \/ WriteHeader \/ WriteItem \/ WriteLastChild
        \/ WriteMeta \/ WriteFreelist \/ LeaveHole \/ CopyToPage
        \/ ReadHeader \/ ReadItem \/ ReadLastChild \/ ReadMeta \/ ReadFreelist
        \/ Overruns

Spec == Init /\ [][Next]_vars
-----------------------------------------------------------------------------
\* The content goes into its page.
Fits == CASE content.kind = "node" -> FitsPage(content)
          [] content.kind = "freelist" -> released_at(Len(content.released_pages) + 1) <= PageSize
          [] OTHER -> TRUE

CutItem(item) == [key |-> Cut(KeyBytes[item.key]), value |-> Cut(ValueBytes[item.value])]

\* What each reader is to get, of a page written as another kind too: the meta
\* page has byte 8, the lowest of its freelist_page, as the sixth of what a node
\* has as its first child.
Expected ==
  CASE back.kind = "node" /\ content.kind = "node" ->
         [Stored(content) EXCEPT !.items = [n \in DOMAIN @ |-> CutItem(@[n])]]
    [] back.kind = "node" /\ content.kind = "meta" ->
         [kind |-> "node", items |-> <<>>,
          children |-> <<Byte * Byte * Byte * Byte * Byte>>]
    [] back.kind = "node" /\ content.kind = "hole" ->
         [kind |-> "node", items |-> <<>>, children |-> <<0>>]
    [] back.kind = "meta" /\ content.kind = "hole" ->
         [kind |-> "meta", root |-> 0, freelist_page |-> 0]
    [] back.kind = "meta" /\ content.kind = "meta" -> content
    [] back.kind = "freelist" /\ content.kind = "hole" -> 
         [kind |-> "freelist", max_page |-> 0, released_pages |-> <<>>]
    [] back.kind = "freelist" /\ content.kind = "freelist" ->
         [kind |-> "freelist", max_page |-> Reloaded(content).max_page,
          released_pages |-> Reloaded(content).released_pages]

\* What fits its page comes back as Stored, Reloaded and get_node say: lengths,
\* offsets and page numbers survive their 8, 16 and 64 bits, up to what Cut and
\* the width of max_page take away.
ReadBack == stage = "done" /\ Fits => back = Expected

\* No buffer is left unless the content does not fit: the bound that the rest of
\* the model uses for the page is the serializers' own.
OverrunOnlyWhenFull == stage = "overrun" => ~Fits

\* Where the left end is, with the last child.
LeftEnd == left + (IF stage = "copy" THEN pointer_size ELSE 0)

\* While the two ends of the page are apart, every item written so far can be
\* read: no later pointer, offset or cell goes over it.
WrittenItemsStay ==
  content.kind = "node" /\ stage \in {"item", "copy"} /\ LeftEnd <= right =>
    \A n \in 1 .. i - 1 :
      LET at == HEADER_SIZE + n * pointer_size + (n - 1) * OFFSET_SIZE
      IN  ItemReadable(at) /\ item_at(at) = CutItem(content.items[n])
=============================================================================
