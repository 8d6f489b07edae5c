------------------------------ MODULE Freelist ------------------------------
(***************************************************************************)
(* The freelist of toocal (core/freelist.h, core/freelist.cpp): which page *)
(* number the next node gets.  A freelist is a record of the highest page  *)
(* number handed out and the stack of page numbers given back.             *)
(***************************************************************************)
LOCAL INSTANCE Naturals
LOCAL INSTANCE Sequences

CONSTANT Width16        \* 2^16: the range of the uint16_t fields of the page

ASSUME Width16Assumption == Width16 \in Nat /\ Width16 > 1

\* Freelist{}: nothing allocated, nothing released.
EmptyFreelist == [max_page |-> 0, released_pages |-> <<>>]

Freelists == [max_page : Nat, released_pages : Seq(Nat)]

\* max_page++ where the code has ++max_page.
next_page_Postfix(fl) ==
  IF fl.released_pages = <<>>
  THEN fl.max_page
  ELSE fl.released_pages[Len(fl.released_pages)]

\* The page number get_next_page returns: the page released last, or else the
\* page after the highest.
next_page(fl) ==
  IF fl.released_pages = <<>>
  THEN fl.max_page + 1
  ELSE fl.released_pages[Len(fl.released_pages)]

\* A page number taken from the released pages without removing it.
get_next_page_KeepsReleased(fl) ==
  IF fl.released_pages = <<>>
  THEN [fl EXCEPT !.max_page = @ + 1]
  ELSE fl

\* The freelist get_next_page leaves behind.
get_next_page(fl) ==
  IF fl.released_pages = <<>>
  THEN [fl EXCEPT !.max_page = @ + 1]
  ELSE [fl EXCEPT !.released_pages = SubSeq(@, 1, Len(@) - 1)]

\* The page is dropped instead of being pushed.
release_page_Drops(fl, page) == fl

release_page(fl, page) ==
  [fl EXCEPT !.released_pages = Append(@, page)]

\* What comes back from the freelist page: the serializer narrows max_page and
\* the number of released pages to 16 bits, and the reader takes that many.
Reloaded(fl) ==
  [max_page |-> fl.max_page % Width16,
   released_pages |->
     SubSeq(fl.released_pages, 1, Len(fl.released_pages) % Width16)]
=============================================================================
