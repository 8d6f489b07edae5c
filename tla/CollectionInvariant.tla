------------------------- MODULE CollectionInvariant -------------------------
(***************************************************************************)
(* The inductive invariant of a collection under every call, kill and disk *)
(* fault.  It says which pages the session in progress may follow a child  *)
(* pointer to, and that everything the code holds in memory -- the root,   *)
(* the released pages, the path of the call and its copies of nodes --     *)
(* names such pages only.                                                  *)
(***************************************************************************)
EXTENDS CollectionProperties

\* No page number reaches it: a put begins below MaxPages, and splits at most
\* the nodes of a path of MaxDepth slots and the root.
PageBound == MaxPages + MaxDepth + 1

-----------------------------------------------------------------------------
\* The file, whatever process wrote it and however that ended.

\* It has no gap, and every node in it is one that Stored made.
PagesOK(f) ==
  /\ DOMAIN f \subseteq 0 .. PageBound
  /\ \A p \in DOMAIN f : 0 .. p \subseteq DOMAIN f
  /\ \A p \in DOMAIN f :
       /\ f[p] \in PageContent
       /\ f[p].kind = "node" => f[p] \in StoredNodes(Nat)

FirstMeta == [root |-> 0, freelist_page |-> 1]
FirstFreelist == [max_page |-> 1, released_pages |-> <<>>]
FirstFreelistPage == [kind |-> "freelist", max_page |-> 1, released_pages |-> <<>>]

\* The meta page is a hole until the constructor has written it, after the
\* freelist page; and nothing writes either of them a second time.
HeaderOK(f) ==
  META_PAGE \in DOMAIN f =>
    \/ f[META_PAGE] = Hole
    \/ /\ f[META_PAGE] = MetaPage(FirstMeta)
       /\ 1 \in DOMAIN f /\ f[1] = FirstFreelistPage
-----------------------------------------------------------------------------
\* The pages of the session.

\* The pages the freelist of this session has given out, or may have.
Allocated == meta.freelist_page + 1 .. freelist.max_page

\* A set of pages that hold nodes, with no child outside the set.
Closed(f, S) == S \subseteq DOMAIN f /\ \A p \in S : f[p] \in StoredNodes(S)

\* The pages among A from which child pointers lead to nodes in A only.
LargestClosed(f, A) == UNION {S \in SUBSET A : Closed(f, S)}

Session == LargestClosed(file, Allocated)
-----------------------------------------------------------------------------
\* The constructor.

ProcessOK ==
  /\ ~exists => proc = "down" /\ DOMAIN file = {}
  /\ proc \notin {"running", "astray"} => root = 0 /\ pc = "idle" /\ IdleCall
  /\ proc \in {"freelist", "root", "meta"} => meta = FirstMeta
  /\ proc \in {"freelist", "root"} => freelist = FirstFreelist
  /\ proc = "freelist" => DOMAIN file = {}
  /\ proc = "root" => DOMAIN file = 0 .. 1
  /\ proc = "meta" => DOMAIN file = 0 .. 2 /\ freelist = [FirstFreelist EXCEPT !.max_page = 2]
  /\ proc \in {"root", "meta"} => file[META_PAGE] = Hole /\ file[1] = FirstFreelistPage
-----------------------------------------------------------------------------
\* The session and the call in progress.

\* The header this process loaded is the one in the file.
HeaderLoaded ==
  /\ META_PAGE \in DOMAIN file
  /\ meta = IF file[META_PAGE] = Hole THEN NoMeta ELSE FirstMeta

PagesHeld ==
  /\ freelist.max_page \in meta.freelist_page .. PageBound
  /\ Released \subseteq Session
  /\ root # 0 => root \in Session

\* The slots of the path lead from the root to page p.
LeadsTo(f, S, slots, from, p) ==
  \E w \in [1 .. Len(slots) + 1 -> S] :
    /\ w[1] = from /\ w[Len(slots) + 1] = p
    /\ \A i \in 1 .. Len(slots) :
         /\ slots[i] \in 1 .. Len(f[w[i]].children)
         /\ w[i + 1] = f[w[i]].children[slots[i]]

PathOK == LeadsTo(file, Session, path, root, page)

\* Which call is at which step, and when it has no tree to walk: find and
\* remove then read the meta page for a node, and the page that it names.
StepOK ==
  /\ IF pc = "idle" THEN IdleCall ELSE op \in Operation
  /\ pc \in {"create", "insert", "split"} => op.kind = "put"
  /\ pc \in {"remove", "predecessor", "rebalance", "verify"} => op.kind = "remove"
  /\ pc = "create" => root = 0
  /\ pc \in {"insert", "split", "remove", "predecessor", "rebalance", "verify"} => root # 0
  /\ pc = "find" /\ root = 0 => op.kind # "put" /\ page \in {META_PAGE, FarPage}

\* The search, and the node it stopped at.
SearchOK ==
  /\ pc \in {"find", "insert", "remove", "predecessor", "verify"} /\ root # 0 => PathOK
  /\ pc \in {"insert", "remove"} =>
       node = get_node(file, page) /\ index \in 1 .. Len(node.items) + 1
  /\ pc = "remove" => is_leaf(node) /\ index <= Len(node.items)
  /\ pc = "predecessor" =>
       /\ path # <<>>
       /\ node.page \in Session /\ node = get_node(file, node.page)
       /\ ~is_leaf(node) /\ index \in 1 .. Len(node.items)

\* The copies of the nodes along the path.
CopiesOK ==
  /\ pc \in {"split", "rebalance"} =>
       /\ ancestors \in Seq(NodesOf(Session))
       /\ Len(ancestors) = Len(path) + 1
       /\ level \in 0 .. Len(path)
       /\ \A i \in 1 .. Len(path) : path[i] \in 1 .. Len(ancestors[i].children)
  /\ pc = "rebalance" /\ path = <<>> => is_leaf(ancestors[1])

\* What a put may still allocate.
BoundsOK ==
  /\ op.kind = "put" => Len(path) <= MaxDepth
  /\ pc \in {"create", "find", "insert"} /\ op.kind = "put" => freelist.max_page < MaxPages
  /\ pc = "split" => freelist.max_page + level < MaxPages + Len(path)

SessionOK == HeaderLoaded /\ PagesHeld /\ StepOK /\ SearchOK /\ CopiesOK /\ BoundsOK

IInv ==
  /\ TypeOK
  /\ PagesOK(file) /\ HeaderOK(file)
  /\ ProcessOK
  /\ proc \in {"running", "astray"} => SessionOK
=============================================================================
