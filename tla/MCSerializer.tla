---------------------------- MODULE MCSerializer -----------------------------
(***************************************************************************)
(* The contents TLC writes and reads, with bytes of three bits: all nodes  *)
(* of up to three of the keys, which are empty, short, as long as a byte   *)
(* can say, and longer; and freelists on both sides of what a page and the *)
(* 16 bits of max_page, here six, can hold.                                *)
(***************************************************************************)
EXTENDS SerializerInvariant

String(from, n) == [b \in 1 .. n |-> (from + b) % Byte]

Strings == <<String(1, 0), String(2, 1), String(3, 3), String(4, 7),
             String(5, 8), String(6, 10)>>

ReverseStrings == <<Strings[4], Strings[6], Strings[2], Strings[5], Strings[3], Strings[1]>>

Sizes == [k \in Key |-> length(KeyBytes[k]) + length(ValueBytes[k])]

ItemsOf(keys) == [n \in 1 .. Cardinality(keys) |->
  LET k == CHOOSE j \in keys : Cardinality({m \in keys : m <= j}) = n
  IN  [key |-> k, value |-> k]]

NodeContents(items) ==
  {[kind |-> "node", page |-> 9, items |-> items, children |-> [c \in 1 .. n |-> 8^c + c]] :
     n \in {0, Len(items) + 1} \union (IF items = <<>> THEN {} ELSE {Len(items)})}

FreelistContents ==
  [kind : {"freelist"}, max_page : {0, 1}, released_pages : {<<>>}]
    \union [kind : {"freelist"}, max_page : {60, 63, 64, 70},
            released_pages : {[c \in 1 .. n |-> 9 * c] : n \in 0 .. 6}]

AllContents ==
  UNION {NodeContents(ItemsOf(keys)) : keys \in {s \in SUBSET Key : Cardinality(s) <= 3}}
    \union FreelistContents
    \union {[kind |-> "hole"]}
    \union [kind : {"meta"}, root : {0}, freelist_page : {1}]
=============================================================================
