--------------------------- MODULE FreelistClient ---------------------------
(***************************************************************************)
(* The freelist driven by the data access layer: new_node and write_node   *)
(* take a page, delete_node gives one back.  in_use is the set of pages    *)
(* taken and not given back, and nodes the number of nodes that have a     *)
(* page; no variable of the program records either.                        *)
(***************************************************************************)
EXTENDS Freelist, Integers, Sequences, FiniteSets

CONSTANT PageLimit      \* page numbers are at most this (2^64 - 1 in the code)

ASSUME PageLimitAssumption == PageLimit \in Nat \ {0}

VARIABLES freelist, in_use, nodes

vars == <<freelist, in_use, nodes>>

Released == {freelist.released_pages[i] :
               i \in 1 .. Len(freelist.released_pages)}

Init == /\ freelist = EmptyFreelist
        /\ in_use = {} /\ nodes = 0

new_node == /\ next_page(freelist) <= PageLimit
            /\ freelist' = get_next_page(freelist)
            /\ in_use' = in_use \union {next_page(freelist)}
            /\ nodes' = nodes + 1

delete_node(p) == /\ p \in in_use
                  /\ freelist' = release_page(freelist, p)
                  /\ in_use' = in_use \ {p}
                  /\ nodes' = nodes - 1

Next == new_node \/ \E p \in in_use : delete_node(p)

Spec == Init /\ [][Next]_vars
-----------------------------------------------------------------------------
TypeOK == /\ freelist \in Freelists
          /\ in_use \in SUBSET (1 .. PageLimit)
          /\ nodes \in Nat

\* Every node has a page of its own: get_next_page never returns a page that a
\* node still has, whatever was released before.
OneNodePerPage == nodes = Cardinality(in_use)

\* A released page is never one that is in use: handing it out again cannot
\* give two nodes the same page (freelist.cpp, get_next_page).
ReleasedNotInUse == Released \intersect in_use = {}

\* No page is on the released stack twice, however pages are taken and given
\* back, so popping the stack twice cannot return one page for two nodes.
ReleasedOnce ==
  \A i, j \in 1 .. Len(freelist.released_pages) :
    freelist.released_pages[i] = freelist.released_pages[j] => i = j

\* Every page up to max_page is in use or can be reused: none is lost, and
\* max_page really bounds the pages of the file.
NoPageLost == in_use \union Released = 1 .. freelist.max_page

\* The file grows only when there is no released page to reuse: what the
\* comment on released_pages promises (freelist.h:28-31).
GrowsOnlyWhenFull ==
  [][freelist'.max_page # freelist.max_page => in_use = 1 .. freelist.max_page]_vars

\* The freelist and its client implement the abstract page allocator.
PA == INSTANCE PageAllocator WITH PageNum <- 1 .. PageLimit

AllocatorSpec == PA!Spec
=============================================================================
