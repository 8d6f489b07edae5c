------------------------ MODULE CollectionProperties ------------------------
(***************************************************************************)
(* The properties of a collection, and the calls for which they hold.      *)
(***************************************************************************)
EXTENDS Collection

\* The collection has a tree and no call is changing it.
Quiet == proc = "running" /\ pc \in {"idle", "find", "return"} /\ root # 0
-----------------------------------------------------------------------------
\* The tree in the file.

Nodes == [page : Nat, items : Seq(Item), children : Seq(Nat)]

\* What a function makes of a start, by how often it is applied.
Iteration(next, start) ==
  LET after[n \in 0 .. MaxDepth] == IF n = 0 THEN start ELSE next[after[n - 1]]
  IN  after

\* The pages n levels below the root.
PagesAt ==
  Iteration([S \in SUBSET Nat |-> UNION {ToSet(get_node(file, p).children) : p \in S}],
            {root})

Reachable == IF root = 0 THEN {} ELSE UNION {PagesAt[n] : n \in 0 .. MaxDepth}

\* How far below the root there are leaves.
LeafDepths ==
  {n \in 0 .. MaxDepth : \E p \in PagesAt[n] : is_leaf(get_node(file, p))}

\* Every place in the tree that names a page.
Links == UNION {{<<p, i>> : i \in DOMAIN get_node(file, p).children} : p \in Reachable}

ItemsAt(p) == get_node(file, p).items

\* The nodes the search for key k from page r is at, and the one where it ends.
Walk(r, k) ==
  Iteration([m \in Nodes |->
               IF is_leaf(m) \/ find_key_in_node(m, k).found THEN m
               ELSE get_node(file, m.children[KeyPosition(m, k)])],
            get_node(file, r))

SearchEndFrom(r, k) == Walk(r, k)[MaxDepth]

SearchEnd(k) == SearchEndFrom(root, k)

IsPresentFrom(r, k) == r # 0 /\ find_key_in_node(SearchEndFrom(r, k), k).found

IsPresent(k) == IsPresentFrom(root, k)

ItemFrom(r, k) == SearchEndFrom(r, k).items[KeyPosition(SearchEndFrom(r, k), k)]

\* The map a collection with its root at page r holds.
ContentsFrom(r) == [k \in {j \in Key : IsPresentFrom(r, j)} |-> ItemFrom(r, k).value]

Contents == ContentsFrom(IF proc = "running" /\ stream = "good" THEN root ELSE 0)

Released == ToSet(freelist.released_pages)
-----------------------------------------------------------------------------
\* The calls the B-tree code handles.  put and remove decide about each node of
\* the path on a copy made before the loop, so they go wrong when two nodes
\* that follow each other on it are both out of bounds; put adds a key that is
\* there a second time; and neither an empty collection, nor a node with a
\* single child, nor a full node without a split index is foreseen.  SafeCall
\* names the calls that meet none of this.

\* The nodes put and remove may rebalance: the path from the root for key k, and
\* on to its predecessor when k is in an internal node.
Trails(k) ==
  LET Slots(t) == IF \E n \in ToSet(Front(t)) : find_key_in_node(n, k).found
                  THEN Len(Last(t).children)
                  ELSE KeyPosition(Last(t), k)
  IN  Iteration([t \in Seq(Nodes) |->
                   IF is_leaf(Last(t)) THEN t
                   ELSE Append(t, get_node(file, Last(t).children[Slots(t)]))],
                <<get_node(file, root)>>)

Trail(k) == Trails(k)[MaxDepth]

\* Path t once an item has gone into its leaf, or one with key k out of it.
TrailAfterPut(t, item) ==
  LET leaf == Last(t)
  IN  Append(Front(t), add_item(leaf, item, KeyPosition(leaf, item.key)))

TrailAfterRemove(t, k) ==
  LET leaf == Last(t)
      at   == Min({n \in 1 .. Len(t) : find_key_in_node(t[n], k).found})
  IN  IF at = Len(t)
      THEN Append(Front(t), without_item(leaf, KeyPosition(leaf, k)))
      ELSE Append([Front(t) EXCEPT ![at].items[KeyPosition(t[at], k)] = Last(leaf.items)],
                  [leaf EXCEPT !.items = Front(@)])

\* Of two nodes in a row put splits at most one, and that one has a split index.
SplitsApart(t) ==
  \A n \in 1 .. Len(t) :
    is_over_populated(t[n]) =>
      /\ can_spare_an_element(t[n])
      /\ n > 1 => ~is_over_populated(t[n - 1])

\* Of two nodes in a row below the root remove rebalances at most one, and that
\* one has a sibling.
RebalancesApart(t) ==
  \A n \in 2 .. Len(t) :
    is_under_populated(t[n]) =>
      /\ Len(t[n - 1].children) > 1
      /\ n > 2 => ~is_under_populated(t[n - 1])

SafePut(item) ==
  \/ root = 0
  \/ /\ ~IsPresent(item.key)
     /\ SplitsApart(TrailAfterPut(Trail(item.key), item))

SafeRemove(k) ==
  /\ root # 0
  /\ IsPresent(k) =>
       /\ Last(Trail(k)).items # <<>>
       /\ RebalancesApart(TrailAfterRemove(Trail(k), k))

SafeCall(o) == /\ stream = "good"
               /\ CASE o.kind = "find"   -> root # 0
                    [] o.kind = "put"    -> SafePut([key |-> o.key, value |-> o.value])
                    [] o.kind = "remove" -> SafeRemove(o.key)

SafeNext == \/ Open \/ Close \/ Exit
            \/ \E o \in Operation : Call(o) /\ SafeCall(o)
            \/ Step

SafeSpec == Init /\ [][SafeNext]_vars

\* On a disk that may fail, with every call made after a failure or Close, as long
\* as the one thread of the process keeps running.
FaultyNext == \/ SafeNext \/ DiskFault
              \/ stream # "good" /\ \E o \in Operation : Call(o)

FaultySpec == Init /\ [][FaultyNext]_vars /\ WF_vars(Step)
-----------------------------------------------------------------------------
\* Types.

PageContent == {Hole}
  \union [kind : {"meta"}, root : Nat, freelist_page : Nat]
  \union [kind : {"freelist"}, max_page : Nat, released_pages : Seq(Nat)]
  \union [kind : {"node"}, items : Seq(Item), children : Seq(Nat)]

TypeOK ==
  /\ exists \in BOOLEAN
  /\ DOMAIN file \subseteq Nat /\ \A p \in DOMAIN file : file[p] \in PageContent
  /\ proc \in {"down", "freelist", "root", "meta", "running", "astray"}
  /\ stream \in {"good", "failed", "closed"}
  /\ meta \in [root : Nat, freelist_page : Nat]
  /\ freelist \in Freelists
  /\ root \in Nat
  /\ pc \in {"idle", "create", "find", "insert", "split", "remove",
             "predecessor", "rebalance", "verify", "return"}
  /\ op \in Operation \union {NoOperation}
  /\ page \in Nat /\ path \in Seq(Nat) /\ node \in Nodes /\ index \in Nat
  /\ ancestors \in Seq(Nodes) /\ level \in Nat
  /\ result \in {NoResult, Ok, Absent, Missing, Error} \union {Found(v) : v \in Value}
  /\ sessions \in 0 .. MaxSessions /\ faults \in 0 .. MaxFaults
-----------------------------------------------------------------------------
\* Safety of the tree, for safe calls.

\* The pages form a tree: each but the root is named from exactly one place, and
\* all leaves are at one depth.  Splits and merges decided on stale copies would
\* leave a page named twice, or drop a subtree.
IsTree ==
  Quiet =>
    /\ Cardinality(Links) = Cardinality(Reachable) - 1
    /\ \A l, m \in Links : get_node(file, l[1]).children[l[2]]
                             = get_node(file, m[1]).children[m[2]] => l = m
    /\ Cardinality(LeafDepths) = 1

\* Every item in the tree is the one the search for its key ends at: no item is
\* out of order, in the wrong subtree, or in the tree twice.
EveryItemIsFound ==
  Quiet =>
    \A p \in Reachable : \A i \in 1 .. Len(ItemsAt(p)) :
      LET end == SearchEnd(ItemsAt(p)[i].key)
      IN  end.page = p /\ find_key_in_node(end, ItemsAt(p)[i].key).position = i

\* A page of the tree is never also free, so no later put can overwrite it; and
\* no page is on the free list twice.
FreePagesAreFree ==
  Quiet => /\ Reachable \intersect Released = {}
           /\ Cardinality(Released) = Len(freelist.released_pages)

\* A page leaves the tree only by being released.  The one exception is the
\* root that an empty root is replaced by its child: that page is lost, for as
\* long as the file is used (collection.cpp:170-171 does not release it).
OnlyOldRootsLeak ==
  [][proc = "running" /\ proc' = "running"
       => Reachable \ Reachable' \subseteq Released' \union {root}]_vars

\* No safe call leaves the program with a step it has no outcome for, nor with a
\* node too large for its page.
NeverAstray == proc # "astray"

\* The collection answers every safe call as the map does.
MapReply ==
  CASE pc \in {"split", "rebalance", "verify"} -> Ok
    [] pc = "return" -> result
    [] OTHER -> NoResult

\* A map does not go astray.
MapSession == CASE proc = "running" -> stream
                [] proc = "astray"  -> "astray"
                [] OTHER            -> "down"

KV == INSTANCE KeyValueMap WITH
        session <- MapSession, map <- Contents, call <- op, reply <- MapReply

ImplementsMap == KV!Spec

\* The same when the disk fails in the middle of any step of any call: the reply
\* is still the map's or an error, and after an error there are only errors.
ImplementsFaultyMap == KV!FaultySpec

\* Every call returns, or is cut off by the end of the process: the search, the
\* way to the predecessor and both rebalancing loops come to an end.
CallsReturn == pc # "idle" ~> pc = "idle"
-----------------------------------------------------------------------------
\* Safety under kills and disk faults, for every call.

HeaderWritten == META_PAGE \in DOMAIN file /\ file[META_PAGE].kind = "meta"

HeaderPages == {META_PAGE, file[META_PAGE].freelist_page}

\* Once the meta page is written, neither it nor the freelist page it names is
\* ever overwritten, by whatever sequence of calls, kills and restarts: page
\* numbers given to nodes always lie past them.
HeaderPagesIntact ==
  [][HeaderWritten => (\A p \in HeaderPages : file'[p] = file[p])]_vars

\* A collection reads only pages allocated in its own session: what earlier
\* sessions left in the file beyond max_page never shows up in its tree.
TreeIsOfThisSession ==
  Quiet => /\ Reachable \subseteq 1 .. freelist.max_page
           /\ \A p \in Released : p \in 1 .. freelist.max_page

\* After a read or write failed, no call of the session returns anything but an
\* error, however the code drops or turns the errors in between.
FailedStreamOnlyErrs ==
  stream = "failed" /\ pc = "return" => result = Error
=============================================================================
