-------------------------- MODULE DataAccessLayer ---------------------------
(***************************************************************************)
(* The data access layer of toocal (core/data_access_layer.h, .cpp): the   *)
(* database file, the stream it is read and written through, the meta page *)
(* and the freelist in memory, and opening and closing the database.       *)
(*                                                                         *)
(* The file is a function from page numbers to what the page holds.  A     *)
(* write through the stream is durable at once; a failed stream stays      *)
(* failed, since nothing in the program clears the error state.            *)
(***************************************************************************)
EXTENDS Freelist, Node

CONSTANT FarPage        \* what the first child pointer reads as when the meta
                        \* page is taken for a node: 2^40, past any end of file

VARIABLES
  exists,       \* the database file exists
  file,         \* what it holds: a function on 0 .. the last page written
  proc,         \* the process: "down", in the constructor at "freelist",
                \* "root" or "meta", "running", or past "astray" behaviour
  stream,       \* the std::fstream: "good", "failed" or "closed"
  meta,         \* Data_access_layer::meta
  freelist      \* Data_access_layer::freelist

dal_vars == <<exists, file, proc, stream, meta, freelist>>

META_PAGE == 0

NoMeta == [root |-> 0, freelist_page |-> 0]

MetaPage(m) == [kind |-> "meta", root |-> m.root, freelist_page |-> m.freelist_page]

FreelistPage(fl) == [kind |-> "freelist", max_page |-> Reloaded(fl).max_page,
                     released_pages |-> Reloaded(fl).released_pages]

\* A page below the end of the file that was never written reads as zeros.
Hole == [kind |-> "hole"]
-----------------------------------------------------------------------------
\* Reading and writing pages.

\* The file after page p is written: it grows to p, with holes where needed.
WithPage(f, p, content) ==
  IF p \in DOMAIN f THEN [f EXCEPT ![p] = content]
  ELSE [q \in 0 .. p |-> IF q = p THEN content
                         ELSE IF q \in DOMAIN f THEN f[q] ELSE Hole]

\* The file after write_node of each node in turn.
Written(f, nodes) ==
  LET after[i \in 0 .. Len(nodes)] ==
        IF i = 0 THEN f
        ELSE WithPage(after[i - 1], nodes[i].page, Stored(nodes[i]))
  IN  after[Len(nodes)]

\* A page read while the stream is good: the read itself fails past the end.
Readable(p) == stream = "good" /\ p \in DOMAIN file

\* A page taken for a node.  The meta page and a hole have is_leaf = 0 and no
\* item, hence one child: bytes 3 to 10 of the page.
get_node(f, p) ==
  CASE f[p].kind = "node" ->
         [page |-> p, items |-> f[p].items, children |-> f[p].children]
    [] f[p].kind = "meta" ->
         [page |-> p, items |-> <<>>, children |-> <<FarPage>>]
    [] OTHER ->
         [page |-> p, items |-> <<>>, children |-> <<0>>]

\* A page taken for the meta page, or for the freelist page.
read_meta(f, p) ==
  IF f[p].kind = "meta" THEN [root |-> f[p].root, freelist_page |-> f[p].freelist_page]
                        ELSE NoMeta

read_freelist(f, p) ==
  IF f[p].kind = "freelist"
  THEN [max_page |-> f[p].max_page, released_pages |-> f[p].released_pages]
  ELSE EmptyFreelist
-----------------------------------------------------------------------------
\* The constructor, and the end of the process.

DalInit ==
  /\ exists = FALSE
  /\ file = <<>>
  /\ proc = "down"
  /\ stream = "closed"
  /\ meta = NoMeta
  /\ freelist = EmptyFreelist

\* initialize_database up to the opened, empty file: the freelist has given
\* its first page to itself.
CreateFile ==
  /\ proc = "down" /\ ~exists
  /\ exists' = TRUE
  /\ stream' = "good"
  /\ freelist' = get_next_page(EmptyFreelist)
  /\ meta' = [NoMeta EXCEPT !.freelist_page = next_page(EmptyFreelist)]
  /\ proc' = "freelist"
  /\ UNCHANGED file

WriteFreelist ==
  /\ proc = "freelist"
  /\ file' = WithPage(file, meta.freelist_page, FreelistPage(freelist))
  /\ proc' = "root"
  /\ UNCHANGED <<exists, stream, meta, freelist>>

\* "init root": an empty node is written to a page of its own.
InitRootNode ==
  /\ proc = "root"
  /\ file' = Written(file, <<[page |-> next_page(freelist), items |-> <<>>,
                              children |-> <<>>]>>)
  /\ freelist' = get_next_page(freelist)
  /\ proc' = "meta"
  /\ UNCHANGED <<exists, stream, meta>>

WriteMeta ==
  /\ proc = "meta"
  /\ file' = WithPage(file, META_PAGE, MetaPage(meta))
  /\ proc' = "running"
  /\ UNCHANGED <<exists, stream, meta, freelist>>

\* The freelist page is not read.
LoadDatabase_NewFreelist ==
  LET m == read_meta(file, META_PAGE) IN
  /\ proc = "down" /\ exists
  /\ META_PAGE \in DOMAIN file
  /\ m.freelist_page \in DOMAIN file
  /\ meta' = m
  /\ freelist' = EmptyFreelist
  /\ stream' = "good"
  /\ proc' = "running"
  /\ UNCHANGED <<exists, file>>

\* load_database: the meta page, then the freelist page it names.  An empty
\* file cannot be read, and the constructor panics: the process stays down.
LoadDatabase ==
  LET m == read_meta(file, META_PAGE) IN
  /\ proc = "down" /\ exists
  /\ META_PAGE \in DOMAIN file
  /\ m.freelist_page \in DOMAIN file
  /\ meta' = m
  /\ freelist' = read_freelist(file, m.freelist_page)
  /\ stream' = "good"
  /\ proc' = "running"
  /\ UNCHANGED <<exists, file>>

\* The process ends, by a kill at any moment or by a panic: what it had in
\* memory is gone, the file keeps what was written.
Stop ==
  /\ proc' = "down"
  /\ stream' = "closed"
  /\ meta' = NoMeta
  /\ freelist' = EmptyFreelist
  /\ UNCHANGED exists
=============================================================================
