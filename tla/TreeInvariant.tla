---------------------------- MODULE TreeInvariant ----------------------------
(***************************************************************************)
(* The inductive invariant of a collection under safe calls, beside the    *)
(* one for every call (CollectionInvariant): the file holds a B-tree, and  *)
(* what the call in progress has copied still agrees with it where it will *)
(* be used.                                                                *)
(*                                                                         *)
(* That pages form a tree is said with a certificate: a function that      *)
(* gives each page of the tree its place -- its depth, the page above it,  *)
(* which child of that page it is -- and a set of keys it may hold.  Every *)
(* condition is then about one page and its children, so that a step is    *)
(* judged by the few pages it writes.                                      *)
(***************************************************************************)
EXTENDS CollectionInvariant

Place == [depth : Nat, up : Nat, at : Nat, keys : SUBSET Int]

-----------------------------------------------------------------------------
\* Trees.

\* The pages c gives a place form a tree with its root at page r and its leaves
\* h levels below.
IsTreeWith(f, r, c, h) ==
  /\ r \in DOMAIN c /\ c[r].depth = 0
  /\ \A p \in DOMAIN c :
       /\ f[p] \in StoredNodes(DOMAIN c)
       /\ c[p].depth \in 0 .. h
       /\ is_leaf(f[p]) <=> c[p].depth = h
       /\ \A i \in 1 .. Len(f[p].children) :
            LET q == f[p].children[i]
            IN  c[q].up = p /\ c[q].at = i /\ c[q].depth = c[p].depth + 1
  /\ \A q \in DOMAIN c \ {r} :
       /\ c[q].up \in DOMAIN c
       /\ c[q].at \in 1 .. Len(f[c[q].up].children)
       /\ f[c[q].up].children[c[q].at] = q

\* Its keys are in order: those of a child lie between the two items next to it.
IsOrderedWith(f, c) ==
  \A p \in DOMAIN c :
    /\ c[p].keys \subseteq Int
    /\ Ordered(f[p].items)
    /\ \A i \in 1 .. Len(f[p].items) : f[p].items[i].key \in c[p].keys
    /\ \A i \in 1 .. Len(f[p].children) : \A k \in c[f[p].children[i]].keys :
         k \in c[p].keys /\ Parts(f[p].items, i, k)

\* The tree of the collection: no page of it is free.
TreeOK(c, h) ==
  /\ IsTreeWith(file, root, c, h) /\ IsOrderedWith(file, c)
  /\ h <= MaxDepth
  /\ DOMAIN c \subseteq 1 .. freelist.max_page
  /\ DOMAIN c \intersect Released = {}

-----------------------------------------------------------------------------
\* The free list.

ReleasedOK ==
  /\ \A i, j \in 1 .. Len(freelist.released_pages) :
       freelist.released_pages[i] = freelist.released_pages[j] => i = j
  /\ root = 0 => freelist.released_pages = <<>>

-----------------------------------------------------------------------------
\* The call in progress.

\* Only a search or a first put is under way on a stream that does not work.
StreamOK == pc \in {"insert", "split", "remove", "predecessor", "rebalance"} => stream = "good"

\* The guard of the call, for as long as the call has not changed the file.
GuardOK ==
  pc \in {"create", "find", "insert", "remove", "predecessor"} /\ stream = "good" => SafeCall(op)

Copied == get_nodes(file, root, path)

FoundIn(n) == find_key_in_node(n, op.key).found

\* The search has come down the path SafeCall has looked at.
DescentOK ==
  /\ pc \in {"find", "insert", "remove", "predecessor"} =>
       Trails(op.key)[Len(path)] = Copied
  /\ pc = "find" => Walk(root, op.key)[Len(path)] = get_node(file, page)
  /\ pc \in {"find", "insert", "remove"} =>
       \A n \in 1 .. Len(path) :
         ~FoundIn(Copied[n]) /\ path[n] = KeyPosition(Copied[n], op.key)
  /\ pc \in {"insert", "remove", "predecessor"} => index = KeyPosition(node, op.key)
  /\ pc = "insert" => is_leaf(node)
  /\ pc \in {"remove", "predecessor"} => FoundIn(node)
  /\ pc = "predecessor" =>
       \E n \in 1 .. Len(path) :
         /\ Copied[n] = node /\ path[n] = index
         /\ \A m \in 1 .. n - 1 : ~FoundIn(Copied[m])
         /\ \A m \in n + 1 .. Len(path) : path[m] = Len(Copied[m].children)

\* A copy whose node is out of bounds changes the node above it in the file.
Unbalanced(n) ==
  IF pc = "split" THEN is_over_populated(n) ELSE is_under_populated(n)

\* Of the copies the loop will come to, those it has not made stale itself.
IsFresh(n) == n <= level \/ n = Len(ancestors) \/ ~Unbalanced(ancestors[n + 1])

\* The copies are of a path from the root; the pages of those still to come are
\* where they were, and the fresh ones say what the file says.
CopiesOf(c) ==
  /\ ancestors[1].page = root
  /\ \A n \in 1 .. Len(path) : ancestors[n].children[path[n]] = ancestors[n + 1].page
  /\ \A n \in 1 .. level + 1 :
       /\ ancestors[n].page \in DOMAIN c
       /\ c[ancestors[n].page].depth = n - 1
       /\ IsFresh(n) => ancestors[n] = get_node(file, ancestors[n].page)

CallOK(c, h) ==
  /\ GuardOK
  /\ stream = "good" => DescentOK
  /\ pc \in {"insert", "split"} => h < MaxDepth
  /\ pc = "split" => SplitsApart(ancestors) /\ CopiesOf(c)
  /\ pc = "rebalance" => RebalancesApart(ancestors) /\ CopiesOf(c)

TreeInvariantWith(c, h) ==
  proc = "running" =>
    /\ StreamOK /\ ReleasedOK
    /\ root # 0 => TreeOK(c, h) /\ CallOK(c, h)

-----------------------------------------------------------------------------
\* The certificate, computed from the file: with the keys at or below a page.

PagesBelow(p) ==
  UNION {Iteration([S \in SUBSET Nat |-> UNION {ToSet(get_node(file, q).children) : q \in S}],
                   {p})[n] : n \in 0 .. MaxDepth}

KeysBelow(p) == UNION {{item.key : item \in ToSet(ItemsAt(q))} : q \in PagesBelow(p)}

Certificate ==
  [p \in Reachable |->
     LET depth == CHOOSE n \in 0 .. MaxDepth : p \in PagesAt[n]
         link == CHOOSE l \in Links : get_node(file, l[1]).children[l[2]] = p
     IN  [depth |-> depth, keys |-> KeysBelow(p),
          up |-> IF p = root THEN 0 ELSE link[1], at |-> IF p = root THEN 0 ELSE link[2]]]

Height == CHOOSE n \in LeafDepths : TRUE

\* The invariant holds, with the certificate the tree in the file has: whenever a
\* step of put or remove (collection.cpp) can be interrupted, the file is a tree in
\* order but for the nodes the copies still say are to be split or rebalanced.
TreeIsCertified == TreeInvariantWith(Certificate, Height)
=============================================================================
