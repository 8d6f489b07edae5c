----------------------------- MODULE Collection -----------------------------
(***************************************************************************)
(* A collection of toocal: the B-tree behind find, put and remove          *)
(* (core/collection.h, .cpp, with core/node.cpp), over the data access     *)
(* layer.  The program is one thread; a call is broken into the steps      *)
(* between which it reads or writes the file, because the process may be   *)
(* killed, and the disk may fail, at any of them.                          *)
(***************************************************************************)
EXTENDS DataAccessLayer

CONSTANTS
  MaxPages,     \* bound: no put begins once max_page has reached it
  MaxDepth,     \* bound: depth at which find_key's recursion exhausts the stack
  MaxSessions,  \* bound: how many times the process is started
  MaxFaults     \* bound: how many times the disk fails

ASSUME CollectionAssumption ==
  /\ MaxPages \in Nat /\ MaxDepth \in Nat \ {0}
  /\ MaxSessions \in Nat \ {0} /\ MaxFaults \in Nat
  /\ FarPage \in Nat /\ FarPage > MaxPages + MaxDepth + 1  \* no file is that long

VARIABLES
  root,         \* Collection::root
  pc,           \* the step the call in progress is at
  op,           \* the call in progress
  page,         \* the page find_key reads next
  path,         \* ancestors_indexes, without the root's 0
  node,         \* the node find_key stopped at
  index,        \* the position in it
  ancestors,    \* the copies get_nodes made
  level,        \* the loop variable over them
  result,       \* what the call returns
  sessions, faults      \* counters of the bounds

call_vars == <<op, page, path, node, index, ancestors, level, result>>
bounds == <<sessions, faults>>
vars == <<dal_vars, root, pc, call_vars, bounds>>

Operation == [kind : {"find", "remove"}, key : Key]
               \union [kind : {"put"}, key : Key, value : Value]

Ok == [status |-> "ok"]
Found(v) == [status |-> "found", value |-> v]
Absent == [status |-> "absent"]
Missing == [status |-> "missing"]       \* "key not found in Collection::remove"
Error == [status |-> "error"]           \* the error of a failed read or write

NoResult == [status |-> "none"]
NoOperation == [kind |-> "none"]
NoNode == [page |-> 0, items |-> <<>>, children |-> <<>>]

NewItem == [key |-> op.key, value |-> op.value]

IdleCall == /\ op = NoOperation
            /\ page = 0 /\ path = <<>> /\ node = NoNode /\ index = 0
            /\ ancestors = <<>> /\ level = 0 /\ result = NoResult

\* The same in the next state.
ForgetCall == /\ op' = NoOperation
              /\ page' = 0 /\ path' = <<>> /\ node' = NoNode /\ index' = 0
              /\ ancestors' = <<>> /\ level' = 0 /\ result' = NoResult

Init == /\ DalInit
        /\ root = 0 /\ pc = "idle"
        /\ IdleCall
        /\ sessions = 0 /\ faults = 0
-----------------------------------------------------------------------------
\* Nodes along a path.

\* get_nodes: the root and, slot by slot, the node below.
get_nodes(f, from, slots) ==
  LET nodes[i \in 1 .. Len(slots) + 1] ==
        IF i = 1 THEN get_node(f, from)
        ELSE get_node(f, nodes[i - 1].children[slots[i - 1]])
  IN  nodes

\* The pair of nodes a rebalancing loop is at: ancestors[i] and ancestors[i+1].
Parent == ancestors[level]
Child == ancestors[level + 1]
Slot == path[level]
-----------------------------------------------------------------------------
\* The writes of each step, in the order of the code.

InsertedNode == add_item(node, NewItem, index)

\* Node::split: the new node, the parent, the node that was split.
SplitWrites ==
  LET s == split(Parent, Child, Slot, next_page(freelist))
  IN  <<s.right, s.parent, s.left>>

\* The new root is given its page before the new node of the split is, and is
\* written once more to commit it.
NewRoot == [page |-> next_page(freelist), items |-> <<>>,
            children |-> <<ancestors[1].page>>]

SplitRootWrites ==
  LET s == split(NewRoot, ancestors[1], 1, next_page(get_next_page(freelist)))
  IN  <<s.right, s.parent, s.left, s.parent>>

\* The predecessor replaces the item that is removed, and leaves its leaf.
TakePredecessorWrites ==
  LET leaf == get_node(file, page) IN
  <<[leaf EXCEPT !.items = Front(@)],
    [node EXCEPT !.items[index] = Last(leaf.items)]>>

\* rebalance_remove in its three steps.  Each takes and returns the nodes
\* written so far, the copy of the parent and the unbalanced node; a neighbour
\* is read from the file as those writes have left it.
Neighbour(r, slot) == get_node(Written(file, r.writes), r.parent.children[slot])

RightRotated(r, slot) ==
  IF slot = 1 \/ ~can_spare_an_element(Neighbour(r, slot - 1)) THEN r
  ELSE LET rot == rotate_right(Neighbour(r, slot - 1), r.parent, r.node, slot)
       IN  [writes |-> r.writes \o <<rot.a, rot.parent, rot.b>>,
            parent |-> rot.parent, node |-> rot.b]

LeftRotated(r, slot) ==
  IF slot = Len(r.parent.children) \/ ~can_spare_an_element(Neighbour(r, slot + 1))
  THEN r
  ELSE LET rot == rotate_left(r.node, r.parent, Neighbour(r, slot + 1), slot)
       IN  [writes |-> r.writes \o <<rot.a, rot.parent, rot.b>>,
            parent |-> rot.parent, node |-> rot.a]

\* The left node of the two is released instead of the right one.
Merged_ReleasesLeft(r, slot) ==
  LET right == IF slot = 1 THEN Neighbour(r, 2) ELSE r.node
      at    == IF slot = 1 THEN 2 ELSE slot
      m     == merge(r.parent, Neighbour(r, at - 1), right, at)
  IN  [writes |-> r.writes \o <<m.a, m.parent>>, released |-> m.a.page]

\* The unbalanced node is merged into its left neighbour, or, when it is the
\* first child, its right neighbour into it.  Both happen after a rotation too.
Merged(r, slot) ==
  LET right == IF slot = 1 THEN Neighbour(r, 2) ELSE r.node
      at    == IF slot = 1 THEN 2 ELSE slot
      m     == merge(r.parent, Neighbour(r, at - 1), right, at)
  IN  [writes |-> r.writes \o <<m.a, m.parent>>, released |-> right.page]

Rebalanced ==
  Merged(LeftRotated(RightRotated(
           [writes |-> <<>>, parent |-> Parent, node |-> Child], Slot), Slot), Slot)

\* The writes the call in progress makes in its next step.
PendingWrites ==
  CASE pc = "create" ->
         <<[page |-> next_page(freelist), items |-> <<NewItem>>, children |-> <<>>]>>
    [] pc = "insert" -> <<InsertedNode>>
    [] pc = "split" /\ level > 0 /\ is_over_populated(Child) -> SplitWrites
    [] pc = "split" /\ level = 0 /\ is_over_populated(ancestors[1]) -> SplitRootWrites
    [] pc = "remove" -> <<without_item(node, index)>>
    [] pc = "predecessor" /\ is_leaf(get_node(file, page)) -> TakePredecessorWrites
    [] pc = "rebalance" /\ level > 0 /\ is_under_populated(Child) -> Rebalanced.writes
    [] OTHER -> <<>>

\* The search has recursed as deep as the stack goes.
StackIsExhausted == pc \in {"find", "verify"} /\ Len(path) >= MaxDepth

\* The step uses an element that an empty or too short deque does not have: -1 as
\* split index, the last item of an empty leaf, the sibling of an only child.
ElementIsMissing ==
  \/ /\ pc = "split"
     /\ LET n == IF level > 0 THEN Child ELSE ancestors[1]
        IN  is_over_populated(n) /\ ~can_spare_an_element(n)
  \/ /\ pc = "predecessor"
     /\ is_leaf(get_node(file, page)) /\ get_node(file, page).items = <<>>
  \/ /\ pc = "rebalance" /\ level > 0
     /\ is_under_populated(Child) /\ Len(Parent.children) = 1

\* The call's next step has no outcome to go on with.
StepGoesAstray == StackIsExhausted \/ ElementIsMissing

\* A node written in this step would overrun its page, or lacks a child.
Overruns == \E w \in ToSet(PendingWrites) : ~FitsPage(w) \/ ~HasChildren(w)

At(step) == proc = "running" /\ pc = step
Proceeds == ~StepGoesAstray /\ ~Overruns

\* The step's writes all succeed.
Write(nodes) == /\ stream = "good"
                /\ Proceeds
                /\ file' = Written(file, nodes)
                /\ UNCHANGED <<exists, proc, stream, meta>>

ReturnWith(r) == pc' = "return" /\ result' = r

\* The process ends with file contents f; whatever call was in progress is lost.
Quit(f) == /\ Stop
           /\ file' = f
           /\ root' = 0 /\ pc' = "idle" /\ ForgetCall
-----------------------------------------------------------------------------
\* The life of the process.

Open == /\ sessions < MaxSessions
        /\ CreateFile \/ LoadDatabase
        /\ root' = meta'.root
        /\ sessions' = sessions + 1
        /\ UNCHANGED <<pc, call_vars, faults>>

Initialize == /\ WriteFreelist \/ InitRootNode \/ WriteMeta
              /\ root' = meta'.root
              /\ UNCHANGED <<pc, call_vars, bounds>>

Close == /\ At("idle") /\ stream # "closed"
         /\ stream' = "closed"
         /\ UNCHANGED <<exists, file, proc, meta, freelist, root, pc, call_vars, bounds>>

Exit == /\ proc \notin {"down", "astray"}
        /\ Quit(file)
        /\ UNCHANGED bounds
-----------------------------------------------------------------------------
\* Calls and the search every call but the first put begins with.

Call(o) ==
  /\ At("idle")
  /\ o.kind = "put" => freelist.max_page < MaxPages
  /\ op' = o
  /\ page' = root
  /\ pc' = IF o.kind = "put" /\ root = 0 THEN "create" ELSE "find"
  /\ UNCHANGED <<dal_vars, root, path, node, index, ancestors, level, result, bounds>>

Return == /\ At("return")
          /\ pc' = "idle" /\ ForgetCall
          /\ UNCHANGED <<dal_vars, root, bounds>>

Searching == /\ At("find") \/ At("verify")
             /\ Readable(page)
             /\ Proceeds

GoDown ==
  LET n == get_node(file, page)
      hit == find_key_in_node(n, op.key)
  IN  /\ Searching
      /\ ~hit.found /\ ~is_leaf(n)
      /\ page' = n.children[hit.position]
      /\ path' = Append(path, hit.position)
      /\ UNCHANGED <<dal_vars, root, pc, op, node, index, ancestors, level, result, bounds>>

\* The search ends: at the key, or at the leaf where it would be.
StopSearch ==
  LET n == get_node(file, page)
      hit == find_key_in_node(n, op.key)
  IN  /\ Searching
      /\ hit.found \/ is_leaf(n)
      /\ node' = n /\ index' = hit.position
      /\ \/ /\ At("verify")               \* remove only warns if it finds it
            /\ ReturnWith(Ok)
            /\ UNCHANGED <<page, path>>
         \/ /\ At("find") /\ op.kind = "find"
            /\ ReturnWith(IF hit.found THEN Found(n.items[hit.position].value)
                                       ELSE Absent)
            /\ UNCHANGED <<page, path>>
         \/ /\ op.kind = "put"
            /\ pc' = "insert"
            /\ UNCHANGED <<page, path, result>>
         \/ /\ At("find") /\ op.kind = "remove" /\ ~hit.found
            /\ ReturnWith(Missing)
            /\ UNCHANGED <<page, path>>
         \/ /\ At("find") /\ op.kind = "remove" /\ hit.found /\ is_leaf(n)
            /\ pc' = "remove"
            /\ UNCHANGED <<page, path, result>>
         \/ /\ At("find") /\ op.kind = "remove" /\ hit.found /\ ~is_leaf(n)
            /\ pc' = "predecessor"
            /\ page' = n.children[hit.position]
            /\ path' = Append(path, hit.position)
            /\ UNCHANGED result
      /\ UNCHANGED <<dal_vars, root, op, ancestors, level, bounds>>

PanicsOnRead == op.kind = "put" /\ path = <<>>

\* A search that cannot read a node reports that there is no such key.
ReadFails_SaysAbsent ==
  /\ At("find") \/ At("verify")
  /\ Proceeds
  /\ ~Readable(page)
  /\ \/ PanicsOnRead /\ Quit(file)
     \/ /\ ~PanicsOnRead
        /\ ReturnWith(Absent)
        /\ UNCHANGED <<dal_vars, root, op, page, path, node, index, ancestors, level>>
  /\ UNCHANGED bounds

\* put panics when it cannot read the root; every other failed read of a
\* search is returned as an error, and the stream stays failed.
ReadFails ==
  /\ At("find") \/ At("verify")
  /\ Proceeds
  /\ ~Readable(page)
  /\ \/ PanicsOnRead /\ Quit(file)
     \/ /\ ~PanicsOnRead
        /\ stream' = IF stream = "closed" THEN "closed" ELSE "failed"
        /\ ReturnWith(Error)
        /\ UNCHANGED <<exists, file, proc, meta, freelist, root, op, page, path,
                       node, index, ancestors, level>>
  /\ UNCHANGED bounds
-----------------------------------------------------------------------------
\* put.

\* The page of the new root is not taken from the freelist.
CreateRoot_TakesNoPage ==
  /\ At("create")
  /\ Write(PendingWrites)
  /\ root' = next_page(freelist)
  /\ ReturnWith(Ok)
  /\ UNCHANGED <<freelist, op, page, path, node, index, ancestors, level, bounds>>

CreateRoot ==
  /\ At("create")
  /\ Write(PendingWrites)
  /\ freelist' = get_next_page(freelist)
  /\ root' = next_page(freelist)
  /\ ReturnWith(Ok)
  /\ UNCHANGED <<op, page, path, node, index, ancestors, level, bounds>>

\* The error of the write is dropped.
CreateRootFails_ReturnsOk ==
  /\ At("create")
  /\ stream # "good"
  /\ freelist' = get_next_page(freelist)
  /\ ReturnWith(Ok)
  /\ UNCHANGED <<exists, file, proc, stream, meta, root, op, page, path, node,
                 index, ancestors, level, bounds>>

\* On a closed or failed stream the first put still takes a page.
CreateRootFails ==
  /\ At("create")
  /\ stream # "good"
  /\ freelist' = get_next_page(freelist)
  /\ ReturnWith(Error)
  /\ UNCHANGED <<exists, file, proc, stream, meta, root, op, page, path, node,
                 index, ancestors, level, bounds>>

\* The item goes in at the position found, whether or not the key is there
\* already: the check for that compares with a key that was moved from, and both
\* of its branches insert.  At the end of a leaf it compares the place behind the
\* last item, which the language leaves undefined: a deque always has such a
\* place, and the length read from it decides between the same two branches.
\* Then the nodes of the path are copied.
InsertItem ==
  /\ At("insert")
  /\ Write(<<InsertedNode>>)
  /\ ancestors' = get_nodes(file', root, path)
  /\ level' = Len(path)
  /\ pc' = "split"
  /\ UNCHANGED <<freelist, root, op, page, path, node, index, result, bounds>>

\* The loop over the copies: each decides on its own copy, and the parent that
\* a split changes is the copy of this iteration, not the one the next reads.
SplitChild ==
  /\ At("split") /\ level > 0
  /\ is_over_populated(Child)
  /\ Write(SplitWrites)
  /\ freelist' = get_next_page(freelist)
  /\ level' = level - 1
  /\ UNCHANGED <<root, pc, op, page, path, node, index, ancestors, result, bounds>>

\* The collection goes on using the old root.
SplitRoot_KeepsOldRoot ==
  /\ At("split") /\ level = 0
  /\ is_over_populated(ancestors[1])
  /\ Write(SplitRootWrites)
  /\ freelist' = get_next_page(get_next_page(freelist))
  /\ ReturnWith(Ok)
  /\ UNCHANGED <<root, op, page, path, node, index, ancestors, level, bounds>>

SplitRoot ==
  /\ At("split") /\ level = 0
  /\ is_over_populated(ancestors[1])
  /\ Write(SplitRootWrites)
  /\ freelist' = get_next_page(get_next_page(freelist))
  /\ root' = NewRoot.page
  /\ ReturnWith(Ok)
  /\ UNCHANGED <<op, page, path, node, index, ancestors, level, bounds>>

KeepRoot ==
  /\ At("split") /\ level = 0
  /\ ~is_over_populated(ancestors[1])
  /\ ReturnWith(Ok)
  /\ UNCHANGED <<dal_vars, root, op, page, path, node, index, ancestors, level, bounds>>
-----------------------------------------------------------------------------
\* remove.

RemoveFromLeaf ==
  /\ At("remove")
  /\ Write(PendingWrites)
  /\ ancestors' = get_nodes(file', root, path)
  /\ level' = Len(path)
  /\ pc' = "rebalance"
  /\ UNCHANGED <<freelist, root, op, page, path, node, index, result, bounds>>

\* remove_item_from_internal: down to the last leaf left of the item ...
DescendToPredecessor ==
  LET n == get_node(file, page) IN
  /\ At("predecessor")
  /\ ~is_leaf(n)
  /\ page' = Last(n.children)
  /\ path' = Append(path, Len(n.children))
  /\ UNCHANGED <<dal_vars, root, pc, op, node, index, ancestors, level, result, bounds>>

\* ... whose last item takes its place.
TakePredecessor ==
  /\ At("predecessor")
  /\ is_leaf(get_node(file, page))
  /\ Write(PendingWrites)
  /\ ancestors' = get_nodes(file', root, path)
  /\ level' = Len(path)
  /\ pc' = "rebalance"
  /\ UNCHANGED <<freelist, root, op, page, path, node, index, result, bounds>>

RebalanceChild ==
  /\ At("rebalance") /\ level > 0
  /\ is_under_populated(Child)
  /\ Write(PendingWrites)
  /\ freelist' = release_page(freelist, Rebalanced.released)
  /\ level' = level - 1
  /\ UNCHANGED <<root, pc, op, page, path, node, index, ancestors, result, bounds>>

\* The loop does not stop at the root.
KeepChild_PastRoot ==
  /\ \/ At("split") /\ ~is_over_populated(Child)
     \/ At("rebalance") /\ ~is_under_populated(Child)
  /\ level' = level - 1
  /\ UNCHANGED <<dal_vars, root, pc, op, page, path, node, index, ancestors, result, bounds>>

\* The loop variable is not decremented for a node that is left alone.
KeepChild_Stays ==
  /\ level > 0
  /\ \/ At("split") /\ ~is_over_populated(Child)
     \/ At("rebalance") /\ ~is_under_populated(Child)
  /\ UNCHANGED vars

\* A node that is in bounds is left alone, by put and by remove.
KeepChild ==
  /\ level > 0
  /\ \/ At("split") /\ ~is_over_populated(Child)
     \/ At("rebalance") /\ ~is_under_populated(Child)
  /\ level' = level - 1
  /\ UNCHANGED <<dal_vars, root, pc, op, page, path, node, index, ancestors, result, bounds>>

\* An empty root gives way to its child, on the copies made before the loop;
\* then remove searches for the key once more.
ShrinkRoot ==
  /\ At("rebalance") /\ level = 0
  /\ root' = IF ancestors[1].items = <<>> /\ ~is_leaf(ancestors[1])
             THEN ancestors[2].page ELSE root
  /\ page' = root'
  /\ path' = <<>>
  /\ pc' = "verify"
  /\ UNCHANGED <<dal_vars, op, node, index, ancestors, level, result, bounds>>
-----------------------------------------------------------------------------
\* Failures.

\* How a step answers a failed read or write once the nodes in `done` are
\* written: which steps panic, and which return the error.
Panics == \/ pc \in {"insert", "split", "remove", "predecessor", "rebalance"}
          \/ pc = "find" /\ PanicsOnRead

ReturnsError(done) ==
  \/ pc = "find" /\ ~PanicsOnRead
  \/ pc \in {"verify", "create"}
  \/ pc \in {"insert", "remove"} /\ done = PendingWrites  \* get_nodes' first read
  \/ pc = "predecessor" /\ done # <<>>    \* the second write's error is dropped

\* The disk fails in the middle of a step; a write that fails may have reached
\* the file.
DiskFault ==
  /\ faults < MaxFaults
  /\ proc = "running" /\ stream = "good"
  /\ Proceeds
  /\ pc \in {"find", "verify"} \/ PendingWrites # <<>> \/ pc = "predecessor"
  /\ faults' = faults + 1
  /\ \E done \in Prefixes(PendingWrites) :
       \/ Panics /\ Quit(Written(file, done))
       \/ /\ ReturnsError(done)
          /\ file' = Written(file, done)
          /\ stream' = "failed"
          /\ freelist' = IF pc = "create" THEN get_next_page(freelist) ELSE freelist
          /\ ReturnWith(Error)
          /\ UNCHANGED <<exists, proc, meta, root, op, page, path, node, index,
                         ancestors, level>>
  /\ UNCHANGED sessions

\* Nothing is claimed of the process after a step without a defined outcome.
GoAstray ==
  /\ proc = "running"
  /\ ~Proceeds
  /\ proc' = "astray"
  /\ UNCHANGED <<exists, file, stream, meta, freelist, root, pc, call_vars, bounds>>
-----------------------------------------------------------------------------
\* The steps a call in progress takes on its own.
Progress == \/ GoDown \/ StopSearch \/ ReadFails
            \/ CreateRoot \/ CreateRootFails \/ InsertItem
            \/ SplitChild \/ SplitRoot \/ KeepRoot
            \/ RemoveFromLeaf \/ DescendToPredecessor \/ TakePredecessor
            \/ RebalanceChild \/ KeepChild \/ ShrinkRoot
            \/ Return

\* A step of the process that no caller and no outside event makes.
Step == Initialize \/ Progress \/ GoAstray

Next == \/ Open \/ Close \/ Exit
        \/ \E o \in Operation : Call(o)
        \/ Step
        \/ DiskFault

Spec == Init /\ [][Next]_vars
=============================================================================
