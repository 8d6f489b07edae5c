--------------------------- MODULE PageAllocator ---------------------------
(***************************************************************************)
(* What toocal's page allocation promises its client: a page handed out is *)
(* not one the client still holds, and only a held page is given back.     *)
(* Freelist and its client (FreelistClient) implement it.                  *)
(***************************************************************************)
EXTENDS Integers

CONSTANT PageNum                \* the page numbers that may be handed out
VARIABLES
  in_use,       \* the pages the client holds
  nodes         \* for how many nodes it holds them

vars == <<in_use, nodes>>

Init == in_use = {} /\ nodes = 0

Allocate(p) == /\ p \notin in_use
               /\ in_use' = in_use \union {p}
               /\ nodes' = nodes + 1

Release(p) == /\ p \in in_use
              /\ in_use' = in_use \ {p}
              /\ nodes' = nodes - 1

Next == \E p \in PageNum : Allocate(p) \/ Release(p)

Spec == Init /\ [][Next]_vars
============================================================================
