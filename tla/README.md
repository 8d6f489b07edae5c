# toocal in TLA+

toocal is an embedded key-value store in C++: a B-tree whose nodes are pages of
one file. This directory holds a model of its core (`core/`), the properties
that make it correct, the TLC runs that check them and the proofs TLAPS checks.
Paths below are relative to the repository's root.

## The system

| part | state | operations | hard about it |
| --- | --- | --- | --- |
| Freelist (`core/freelist.*`) | `max_page`, stack `released_pages` | `get_next_page`, `release_page`, serializer | pages lost, doubled, or free while in use; counts cut to 16 bits on the page |
| Node (`core/node.*`) | `items`, `children`, `page_num` | search, `add_item`, `split`, `rotate_right/left`, `merge`, `rebalance_remove`, `remove_item_from_internal`, slotted-page serializer | off-by-one at every slot; a split index of -1; a page too small; merge after rotation |
| Data access layer (`core/data_access_layer.*`) | the file, the `std::fstream`, `meta`, `freelist` | constructor (`initialize_database`, `load_database`), `close`, `read_/write_` page, node, meta, freelist, thresholds | kills between the steps of initialization; a stream that stays failed; what is never written again |
| Meta (`core/meta.h`) | `root`, `freelist_page` | serializer | written once only |
| Collection (`core/collection.*`) | `root`, during a call the copies of the path | `find`, `put`, `get_nodes`, `remove` | decisions taken on copies of nodes that the call itself has changed since |
| Errors (`core/errors.hpp`), helpers (`core/utils.*`, `core/page.*`, `core/types.hpp`) | none | `panic`, `bytescmp`, page size | which failure panics, which is returned, which is dropped |
| Endian (`libs/endian/`, vendored) | a position in a buffer | `put`/`get` of an integer byte by byte, stream reads and writes | bounds are asserted only, so a build without assertions leaves the buffer |
| Program and tests (`cli/`, `tests/`) | the loop and its variable | put new keys, find, remove, find; `fatal` or panic when anything is not as expected | run again on the file of a run that was killed |

A caller builds one `Data_access_layer` and one `Collection` on it, with the root
the meta page names. `Collection` asks the layer for nodes by page number; nodes
write themselves through the layer; the layer takes page numbers from the
freelist. Nodes, the meta page and the freelist become pages through a serializer
each, over the endian library's streams. Everything runs in one thread: what interleaves with a call is only
the end of the process (a kill, a panic) and a disk that fails. The freelist
and the meta page are written when the database is created and never again, so
what one session builds is not seen by the next.

What makes each part correct: the freelist never has a page twice or a page in
use, and loses none; the nodes form a tree in which the search for the key of
any item ends at that item; a collection answers as a map; a call ends; the meta
and the freelist page are never overwritten; after a failure no call pretends to
have succeeded.

## Modules

| module | models |
| --- | --- |
| `PageAllocator` | what page allocation promises: a page handed out is not held. Abstract. |
| `Freelist` | the freelist as a record and its operations as operators; used by all that follow. |
| `FreelistClient` | the freelist driven by `new_node` and `delete_node`, with the set of pages in use and the number of nodes that have one. |
| `FreelistProofs` | the theorems about `FreelistClient`. |
| `Node` | a node as a record, its sizes and thresholds, search, insertion, split, rotations, merge, and what its page holds and gives back. |
| `Endian` | little-endian integers, and streams over a buffer of bytes. |
| `Serializer` | the serializers and deserializers of nodes, the meta page and the freelist as a machine over one page, byte by byte. |
| `SerializerInvariant` | the inductive invariant of `Serializer`. |
| `SerializerProofs` | the theorems about `Serializer`. |
| `MCSerializer` | what TLC writes and reads with it. |
| `DataAccessLayer` | the file, the stream, the constructor step by step, page reads and writes. |
| `Collection` | `find`, `put` and `remove` as steps over the data access layer, kills, restarts, disk faults. The system specification. |
| `KeyValueMap` | what a collection promises: a map, one call at a time; and the same on a disk that may fail (`FaultySpec`). Abstract. |
| `CollectionProperties` | the properties, and `SafeCall`, the calls for which they hold. |
| `CollectionClaims` | what docs and tests say, for the callers they speak of. |
| `MCCollection` | item sizes for TLC. |
| `Program` | the loops of the command line program and of the tests over `Collection`, killed and run again. |
| `MCProgram` | the order and the sizes of the program's keys for TLC. |
| `CollectionInvariant` | the inductive invariant of `Collection` under every call, kill and fault. |
| `TreeInvariant` | what is inductive with it under safe calls: the tree, and the copies of it the call in progress has made. |
| `Lemmas` | induction, least elements, and parts of sequences, for the proofs. |
| `NodeProofs` | the theorems about the operators of `Node`. |
| `PageProofs` | lemmas about the file: what writes leave in it, and what a path of child pointers leads to. |
| `SessionProofs` | the theorems about `Collection` under every call: what follows a failure, and what follows from `CollectionInvariant`. |
| `TreeProofs` | lemmas about trees in the file: what splits, rotations, merges, insertions and removals make of them, and what the search finds in them. |
| `SafeProofs` | the theorems about `Collection` under safe calls: the tree, the free pages, the elements its steps use, the map. |

`Collection` extends `DataAccessLayer`, which extends `Freelist` and `Node`;
`Program` extends `CollectionProperties`, and so `Collection`. `Serializer` extends
`Endian`, `Node` and `Freelist`: its properties say that `FitsPage`, `HasChildren`,
`Stored` and `Reloaded`, on which everything else rests, are what the bytes do.

### State and steps

`file` is a function from page numbers to page contents: the meta page, the
freelist page, a node, or a hole that reads as zeros. `Stored` is what comes back
of a node that was written: the serializer writes one child before each item and
the last child at the end, so a node with fewer children than that reads back
with its last child twice. The model's `get_node` also reads the meta page and
holes *as nodes*, since the program does so when the root is page 0.

A call is broken where the program reads or writes the file, because a kill may
separate those moments:

| step (`pc`) | actions | code |
| --- | --- | --- |
| `create` | `CreateRoot`, `CreateRootFails` | collection.cpp:34-42 |
| `find` | `GoDown`, `StopSearch`, `ReadFails` | node.cpp:53-107 |
| `insert` | `InsertItem` | collection.cpp:52-69 |
| `split` | `SplitChild`, `KeepChild`, `SplitRoot`, `KeepRoot` | collection.cpp:70-95 |
| `remove` | `RemoveFromLeaf` | node.cpp:207-214 |
| `predecessor` | `DescendToPredecessor`, `TakePredecessor` | node.cpp:216-248 |
| `rebalance` | `RebalanceChild`, `KeepChild`, `ShrinkRoot` | collection.cpp:151-171, node.cpp:329-378 |
| `verify` | the search that ends every remove | collection.cpp:177-189 |
| `return` | `Return` | the caller has the result |

`ancestors` holds the copies `get_nodes` makes before the loop, and every later
step of the loop decides on them; the neighbours that rotations and merges read
come from the file instead (`Neighbour`). This difference is the heart of the
code's behaviour and is kept exactly. A step that writes several nodes writes
them in the order of the code, and `DiskFault` ends it after any prefix. The
process is then gone where the code panics (`Panics`), or goes on with a failed
stream where it returns the error (`ReturnsError`): nothing ever clears a
failed `std::fstream`.

`GoAstray` takes the process to a state nothing is claimed of, when the next step
has no outcome to go on with: it uses an element that an empty or too short deque
does not have (`ElementIsMissing`), recurses deeper than the stack (`StackIsExhausted`),
or writes more than a page (`Overruns`). What the program does then depends on the memory
around it.

One more read past the end of a deque is not among them, because the outcomes of it can be
stated: `collection.cpp:58` compares the item after the last, when a key goes in at the
end of a leaf, with a key that line 28 has moved from. The language leaves this
undefined, and every put of a largest key does it. In a build the place
behind the last item exists, the comparison reads at most the length there,
and each of its two outcomes inserts the new item at the same place; `InsertItem` is what
both do. A library with checked subscripts stops there instead, which the model leaves
out.

Abstractions: keys are integers in `bytescmp` order; the bytes of an item are a
function of its key; positions count from 1; a write is durable when it is made
(the stream's buffer is not modelled, so a kill loses no write that came before
it); an error while the database is being created is not told apart from a kill
at that point.

### The page, byte by byte

`Serializer` writes one content to a page and reads it back. `buffer` is the buffer
of `serialize` and then the page, `left` and `right` are the ends of what is free
in it, and each iteration of the loops is an action (`WriteItem`, node.h:226-269;
`ReadItem`, node.h:296-340). The widths are those of the code, in units of `Byte`:
lengths are cut to one byte, offsets and counts to two, page numbers to eight. An
access outside of the buffer takes the machine to "overrun". Meta pages and
holes are also read as nodes, since `get_node` of page 0 does so.

### The program

`Program` runs the four loops of `cli/main.cpp`, or those of a test, over
`Collection`: `MakeCall` makes the call of the loop's body, `CheckResult` goes on when the
result is the expected one and ends the process otherwise. The keys `"Key0"`,
`"Key1"`, ... are numbered in the order `bytescmp` gives the strings (`KeyOf`), so they
do not come in ascending order, and have the bytes of the strings. `Killed` ends the
process between any two steps and starts the program anew on the file that is left.

### Safe calls

The code is right only for some calls, and `SafeCall` says which: the path of a
put must not have two over-populated nodes in a row, nor an over-populated node
without a split index; the key must not be there yet; the path of a remove must
not have two under-populated nodes in a row, except just below the root, nor an
under-populated node that is the only child of its parent; and there must be a
root and a good stream. The properties of the tree and the map are checked and proved for all
behaviours made of safe calls (`SafeSpec`), those about failures and restarts
for all calls (`Spec`), and `FaultySpec` adds to the safe calls a disk that fails and
every call made after that. `Program` uses no `SafeCall`: it makes the calls the
program makes, whatever they are. What happens at the other calls are the disagreements listed below.

## Runs

All runs of `Collection` use a page of 4096 bytes; `program_size` uses the
thresholds of the `BEST_FILE_SIZE` preset (75%: 3072 bytes), all others use those of the
`BALANCE` preset (1.25% and 2.5%: 51.2 and 102.4 bytes).

| run | bounds | shows |
| --- | --- | --- |
| `freelist` | pages up to 5 | `OneNodePerPage`, `ReleasedNotInUse`, `ReleasedOnce`, `NoPageLost`, `GrowsOnlyWhenFull`, and that the freelist implements `PageAllocator` (`AllocatorSpec`) |
| `map` | keys 1..5 of 46 and 24 bytes, no put once page 7 is allocated, 1 session | safe calls: `IsTree`, `EveryItemIsFound`, `FreePagesAreFree`, `OnlyOldRootsLeak`, the refinement of `KeyValueMap` (`ImplementsMap`), which has no state to go astray to, and the inductive invariant (`TreeIsCertified` of `TreeInvariant`) |
| `crash` | keys 1, 2, page 4, 2 sessions, 1 disk fault | all calls: `HeaderPagesIntact`, `TreeIsOfThisSession`, `FailedStreamOnlyErrs`, the type invariant and the inductive invariant (`IInv` of `CollectionInvariant`) |
| `faults` | keys 1..5 of 46 bytes, page 6, 1 session, 1 disk fault | safe calls and those after a failure: the refinement of the map that may fail (`ImplementsFaultyMap`), and `CallsReturn` under weak fairness |
| `program` | each number of keys from 1 to 44; up to 30 keys, killed at most once | `NothingIsFatal`, `NothingIsLeft`, `ProgramEnds` |
| `serializer` | bytes of 3 bits, nodes of up to 3 items in 40 bytes, pages of 44 | `ReadBack`, `OverrunOnlyWhenFull`, `WrittenItemsStay`, and the inductive invariant (`IInv` of `SerializerInvariant`) |
| `lost_key` | keys 1..5 put in any order | violated: a put loses a key |
| `put_again` | 2 keys, 2 values | violated: a key put twice is there after a remove |
| `program_check` | 45 keys | violated: the program finds a key it has removed |
| `restart` | 2 keys | violated: the next session does not hold what this one does |
| `program_size` | 241 keys, 75% thresholds | violated: the test of remove makes a node larger than its page |
| `split_index` | 3 keys of 16, 16 and 60 bytes | violated: split with the index -1 |

Why the bounds are enough. With 46-byte items a node holds one item, so that three
keys make two levels and five make three, and a put or a remove can change all of
them; the 24-byte items make nodes of two and three items and siblings that can
spare one, so rotations happen in both directions. A page bound of 7 leaves
room for a tree of all five keys and for pages reused after merges. In `crash` two
keys suffice: with the unsafe calls allowed, repeated puts of them build trees of
three levels. One disk fault is enough because the stream never recovers from the first.
`MaxDepth` stands for the depth of recursion that exhausts the stack; only a
tree with a cycle, which unsafe calls can build, comes to it. Every action of `Next`
happens in `crash`.

The numbers of keys in `program` go up to the largest for which the program still
works; with 45 keys two under-populated nodes follow each other for the first
time (`program_check`). Compiled, the program does the same: it passes with 44 keys
and ends with "is not removed" at 45. With 44 keys of 10 and 12 bytes the tree has
three levels and is split, rotated, merged and shrunk until it is empty. One kill
suffices: what a session finds depends only on the file, and after the first kill
any moment of the run has been one to restart from.

In `serializer` a byte has three bits, so keys and values of 0, 1, 3, 7, 8 and 10 bytes
lie on both sides of what a length can say; three items of all combinations of
them, with as many children as items, one more, or none, lie on both sides of a full
page; `max_page` lies on both sides of its 6 bits and freelists of up to six
pages on both sides of a page. Nothing in the code depends on a byte having 8 bits
but these limits.

`CHECK_DEADLOCK FALSE` is set where the system really may stop: after its last
session ended, after it went astray, when the workload has no call left, or
when a page has been read. In `program` deadlock is checked.

Fairness is `WF_vars(Step)` in `faults`: the program's own steps, not the caller's
calls nor kills nor faults. The code is one thread that blocks on nothing but the
file, so it goes on as long as the process lives. `Program` states the same of its
steps with the enabling condition written out (`Alive`): evaluating ENABLED of a step
that reads and writes many nodes takes TLC exponential time in trees of this size.
That `Alive` does enable a step is what the check for deadlock shows, because
`Ended`, the only other step of a process nobody kills, needs its negation.

### Where the code and its documents disagree

Each `violation` run checks one sentence of the docs, comments or tests against the
code; `PROJECT.json` quotes them. The causes are few. put and remove judge and write
back copies taken before the loop (`lost_key`, `program_check`). A key that exists is
inserted again (`put_again`). The thresholds count the bytes of the items only, neither
offsets, lengths nor child pointers, and a split, which counts 8 bytes more for each
item, leaves both halves below the minimum under `BEST_FILE_SIZE`, so that nodes outgrow
their pages (`program_size`). A split index of -1 is used (`split_index`). The meta page
is never rewritten (`restart`).

The traces of `lost_key`, `put_again` and `restart`, and the results of `program_check`
and `program_size`, were replayed with the compiled code, which does the same: with 240
keys under `BEST_FILE_SIZE` the test of remove ends, with 241 it reads outside of a
page. As they are, the tests `test_balance_remove` and `test_best_performance_remove`
end in a panic, and `test_best_file_size_remove` with an access outside of the buffer.
Other consequences of the same causes have no run of their own: a merge follows every
rotation, though node.h:133-135 has it happen only when no sibling has enough items; a
parent that a split over-populates stays so; a root that a merge empties is replaced one
remove too late; after a restart `max_page` is behind the pages of the file; `remove` on
keys that are there can reach an internal node with one child and index past it. A
`find` before the first `put` fails and takes the stream with it, and a kill right after
the file is created leaves a file that cannot be loaded.

In `program_size` a leaf of 3072 bytes is split where it reaches that number with 8 bytes for
each item added to it (data_access_layer.cpp:198), so both halves are under-populated
from the start. The right one has no item to spare, no rotation takes place, and the
first remove merges the two: 240 items of 10 to 14 bytes on one page. With smaller
items puts alone are enough: 293 of 10 bytes need 3 + 293 * (2 + 10 + 2) = 4105 bytes
where the threshold sees 2941 of 3072, and the compiled code crashes at the last of them.

## Proofs

Nothing is assumed but what the modules `ASSUME` of their constants, and TLC
evaluates every one of these assumptions. `Lemmas` has an induction over
sets of numbers (`Induction`), from which everything is derived that a recursive
function computes here: it exists (`HistoryExists`, `PrefixBytesExists`,
`AfterExists`, ...), and what it has at `n + 1` follows from what it has at `n`.

### The freelist

`FreelistProofs` proves for every page limit and every width:

- `TypeCorrect`: `Spec => []TypeOK`;
- `PagesAccountedFor`: `ReleasedNotInUse`, `ReleasedOnce` and `NoPageLost` always hold;
- `PagesAreNotShared`: `OneNodePerPage` always holds, so that no page is handed out
  while a node has it;
- `GrowthTheorem`: `max_page` changes only when all pages up to it are in use;
- `Refinement`: `Spec => AllocatorSpec`.

None of the three accounting properties is inductive alone. Popping the stack
keeps `ReleasedNotInUse` only if no page is on it twice; pushing keeps `ReleasedOnce`
only if a page in use is not on it; a fresh page is neither only if both sets lie
below `max_page`, which `NoPageLost` says. `Accounts` is their conjunction with the
shape of the state, and `IInv` adds `OneNodePerPage`, whose proof counts sets with
the lemmas on finite sets. `PopLemma`, `ReleasedAfterPop` and `ReleasedAfterPush` say what the two
operations do to the set of released pages, `NewNode` and `DeleteNode` that the
actions preserve `Accounts`, and the theorems follow
from `Invariance`. `PageLimit \in Nat \ {0}` is the only assumption besides those
on the width. `delete_node` is taken
to be called on a page in use, which is the caller's duty; that `Collection`
does so is what `FreePagesAreFree` says of safe calls.

### Nodes

`NodeProofs` proves of the operators, for nodes of any length:

- `SearchFindsItems`, `InsertionKeepsOrder`: if the keys of a node ascend, the search
  finds exactly the items that are there, and inserting where it ended keeps the order;
- `SplitKeepsItems`, `SplitKeepsOrder`: a split loses and reorders neither items nor
  children, and every key stays on its side of the item that goes up;
- `RotateRightKeepsItems`, `RotateLeftKeepsItems`: left neighbour, separator and right
  node together have the same sequence of items before and after, the two nodes the
  same sequence of children, and the parent the same children and other items;
- `MergeKeepsItems`: a merge makes one node of the items and the children of two, and takes the
  separator and one slot from the parent.

The lemmas before them (`SplitTypes`, `RotateRightTypes`, `MergeTypes`, `StoredType`, ...)
say that what each operator returns, and what is read back of it, is a node
with the pages and children it may have; the proofs about the collection use those.

### The collection under every call, kill and fault

`SessionProofs` proves `FailuresAreReported`, that `FailedStreamOnlyErrs` always
holds, for all keys, sizes, thresholds, sessions and faults. The property speaks of
a call that returns and is not inductive alone: a call that is rebalancing on a failed
stream could end with success. `FailedStreamIsFinal` adds that no such call exists. A
failed stream leaves a call only at its search or at the creation of a root, because
every write that fails later ends the process or the call (`Panics`,
`ReturnsError`), and both of those places need a good stream to go on.

It proves `Spec => []IInv` (`InvariantHolds`) for the invariant of
`CollectionInvariant`, and from it `TypeCorrect`, `HeaderIsNeverOverwritten`
(`HeaderPagesIntact`) and `ReadsOnlyItsOwnPages` (`TreeIsOfThisSession`). These hold of
`Spec`, so of unsafe calls too: a caller may break the order of keys or lose one (`lost_key`,
`put_again`), but no sequence of calls, panics, kills and restarts makes a tree
run into the header or into the nodes of an earlier session.

The difficulty is that a node is named in many places at once: by child pointers in
the file, by the stale copies in `ancestors`, by `node` and `page`, by the released
pages. What all of these have in common is `Session`, the largest set of pages that
this session has allocated, that hold nodes, and that is closed under child
pointers. It is a union of closed sets and so closed itself, and every set that is closed
is part of it. A step that writes nodes is handled by one argument: after the writes the
old `Session` together with the pages written is closed, hence part of the new one
(`NodesWritten`, `WritingStores`, `WritingKeepsChildren`), so all that was named in it
still is; a page just allocated belongs to it because the step writes a node there.
The other conjuncts are what this needs. `PathOK` is the walk along `path` in the file, from
which `get_nodes` makes copies in `Session` (`NodesAlongPath`); `CopiesOK` types the
copies and says that each slot is one of its copy; `StepOK` relates the step to the
kind of call and to the root, and says which pages a find or remove without
a root reads. A disk fault leaves any prefix of the writes and ends the session or only
returns, so `PagesOK` and `HeaderOK` speak of the file alone, whatever process wrote it.
`BoundsOK` bounds what a put may still allocate, so that page numbers stay below
`FarPage`, the one the model uses for the page number past the end of the file.
`ProcessOK` follows the constructor, which writes page 1 before it names it. There is
one lemma for each action, `IInvStep` puts them together.

Assumed are `Width16 > 1`, since with one value `max_page` would read back as 0 and the
first node would be given the page of the meta page; and
`FarPage > MaxPages + MaxDepth + 1`, that the far page is past every page.

### The pages, byte by byte

`SerializerProofs` proves `Spec => []IInv` (`InvariantHolds`) for the invariant of
`SerializerInvariant`, and from it

- `WhatIsWrittenIsRead` (`ReadBack`): whatever goes into its page comes back, bytes,
  lengths, offsets and page numbers included;
- `NothingOverrunsThatFits` (`OverrunOnlyWhenFull`): what `FitsPage` admits leaves no buffer;
- `WrittenItemsStayReadable` (`WrittenItemsStay`),

for every size of a byte, of pages and buffers, every number and length of items and
every freelist. With that, what `Stored`, `Reloaded` and `FitsPage` say in the rest of the model
is no longer taken on trust.

At the bottom is that `get` undoes `put` (`GetPutByte`, `GetPut16`, `GetPut64`): both are
recursive functions over the digits of a number, and `GetPut` goes through them by
induction. Above it, `HasAt(b, at, string)` says that a string is in a buffer, and a write
keeps every string it does not touch (`WriteKeeps`, `KeptHas`). The invariant says with
`HasAt` where each part of the content is: the slot of item `n` at `SlotOf(content, n)`,
its cells somewhere at or after `right`. As long as `left <= right`, the writes of an iteration
lie between the two (`ThreeWrites`, `PointerIn`), so the items before stay (`ItemsKept`);
`RightAfter` is where `right` is after `n` items, in terms of the sizes that `FitsPage`
adds up, so what fits never lets the ends meet (`RoomOfNode`). The reader then finds
each item by its offset (`ReadsItem`) and `back` grows by it (`OneMoreRead`). Meta pages
and holes read as nodes give what `Expected` says, because their first
bytes are 0 (`OtherAsNode`).

Assumed are that a byte's worth of bytes after any offset of the page still has a 16-bit
offset (`PageSize + Byte <= Width16`), that the meta page's two numbers go into a page,
and of what is written (`ContentsAssumption`) that page numbers have 64 bits,
that an inner node has a child for each item, and that the meta page is the one
the program writes.

### The collection under safe calls

`SafeProofs` proves, for every set of keys, all sizes and thresholds, any number of
sessions, and with kills and disk faults anywhere (`FaultySteps`: `FaultySpec` without its
fairness, of which `SafeSpec` is the case without faults):

- `FileHoldsATree` (`IsTree`): the pages are a tree with its leaves at one depth;
- `SearchFindsEveryItem` (`EveryItemIsFound`): the search for the key of any item ends at it;
- `NoPageOfTheTreeIsFree` (`FreePagesAreFree`): no page of the tree is on the free list,
  and none is there twice;
- `NoOtherPageLeaks` (`OnlyOldRootsLeak`): a page leaves the tree only to the free list,
  but for the root that an empty root is replaced by;
- `SafeCallsFindElements`: no step of a safe call uses the split index -1, the last
  item of an empty leaf, or the sibling of an only child, and none writes a node with a child
  missing. `SafeCall` looks at the path once, when the call starts; the steps that follow
  work on copies and on nodes that other steps of the call have changed;
- `RoomIsEnough`: given `RoomEnough`, it does not go astray (`NeverAstray`);
- `CollectionIsAMap` (`ImplementsMap`) and `FaultyCollectionIsAMap` (`ImplementsFaultyMap`): the
  refinements of `KeyValueMap`, given `RoomEnough`.

`RoomEnough` is about sizes alone: a search stays above `MaxDepth` levels, and what is
about to be written `FitsPage`. It cannot be proved, since it is false for some sizes,
as `program_size` shows. In `map` it always holds: a state without room is one step
from going astray, which `ImplementsMap` does not allow.

**The invariant.** The properties speak of reachable pages, links and searches, which are
computed by recursion over the tree that the steps change. None of that can be reasoned
about step by step. The invariant says the same locally, with a certificate: a function `c`
that gives each page of the tree its depth, the page above it, which child of that
it is, and the set of keys that may be at or below it. `IsTreeWith` and
`IsOrderedWith` are then conditions on one page and its children: the child knows its
parent and its slot, is one level deeper, and its keys lie between the items on its two
sides; exactly the pages of depth `h` are leaves. `TreeInv` says that some
certificate and some `h` exist (`TreeIsCertified` of the run `map` is the same with the
certificate computed from the file). Each step is proved by giving the
certificate after it: a split or a rotation changes that of the children that move,
a merge removes one page, a new root deepens all, an insertion or removal only
changes the sets of keys.

The tree alone is not inductive, because a call decides on copies. The rest of the
invariant is what the code silently relies on:

- `GuardOK`: until a call changes the file, its guard `SafeCall` still holds;
- `DescentOK`: the path the search has come down is the path the guard looked at
  (`Trails`), and the key is in none of its nodes above;
- `CopiesOf`: of the copies the loop of put or remove has yet to come to, those whose
  child is not unbalanced are what the file has (`IsFresh`). A step changes the
  file under the copy right above an unbalanced node, so that copy goes stale,
  but `SplitsApart` and `RebalancesApart` keep it from being acted on: it is
  not unbalanced itself. Without that guard this conjunct fails, and with it all others: that
  is what `lost_key` and `program_check` are;
- `ReleasedOK`: the free list has no page twice; and `StreamOK`.

**The argument.** `TreeProofs` works on trees in any file, without `Collection`'s steps. Three
facts carry most of it. `DividedTree` and `JoinedTree` say when a tree stays one if a node is
divided in two or two are joined, `DividedOrder` and `JoinedOrder` that the keys stay in
order; a split is a division, a merge is a joining, and *a rotation is a joining
followed by a division at another place*, which is how both rotations are proved with no case
of their own (`RotateStep`, with `RotateRightJoins`, `RotateLeftJoins`). `RebalancedMergesAway`
puts the two optional rotations and the merge of `rebalance_remove` in a row, each on
the file the one before has left, as `Neighbour` reads it. `PagesOfCollection`, `LinksOfTree`,
`SearchEnds` and `PresentIsHeld` tie the certificate to the recursive definitions the properties
are made of, by induction on the level (`IterationStays`, `Induction`).

`SafeProofs` then has one lemma for each action (`GoDownContinues`, `InsertContinues`,
`SplitChildContinues`, ...): from a certified tree it gives the tree after the step, with
the items it has. `ItemsAreContents` says that those items are the map `Contents`, so the refinement
comes down to what the items are after each step: the same, one more, or all but one key's.
The map changes where the item is inserted or removed, and the splits and merges after that
are stutters. `ReplyOK` adds that a reply in progress is the map's.

Assumed is nothing beyond the constants' assumptions above.

### Only model-checked

Liveness (`CallsReturn`, `ProgramEnds`: fairness and ENABLED are out of the prover's
reach); that the sizes of a given preset leave room (`ImplementsMap`
without `RoomEnough`), which depends on the numbers; and the properties of `Program`,
which hold for particular numbers of keys only.

## Not modelled

- Of the endian library: `big_endian`, `network`, `is_big_endian`, the `peek`
  operations, signed and floating-point values. toocal calls none of them.
- Logging and error texts, timing and output of the program, `sizeof_file` and
  `memcmp`, the unspecialised serializer template, the query of the system's
  page size.
- The buffer of the `std::fstream`. Every write is followed by a seek before the
  next access, which flushes it, so at most the last page written is lost by a
  kill: that is the same file as after a kill one write earlier, which the
  model has. A write error noticed only at the flush makes a later access fail
  instead of this one; `DiskFault` fails any of them.
- Several collections on one file. The code has no operation that creates a second
  one, and the name of a collection is stored nowhere.
- Items longer than 255 bytes for a key or a value, outside of `Serializer`: what
  is left of them there is what `Cut` says; `NodeAssumption` excludes them elsewhere.
- A page size smaller than `DEFAULT_PAGE_SIZE`: the first write leaves the page
  (data_access_layer.cpp:159), so there is no behaviour to check.
- The tests' numbers of keys (10000) and, for their loops, the preset
  `BEST_PERFORMANCE`. `BEST_FILE_SIZE` is run at the number of keys at which it fails.

## Plan

Done: the freelist with its proofs; nodes, the data access layer and the
collection with its calls, failures and restarts; the map it implements, also on a
failing disk; the pages byte by byte; the program and the tests; and the proofs above,
which now state every safety property that is not about particular numbers.

What is left:

1. Which sizes leave room. A put leaves a node with at most the maximum and one item more, but a
   merge with twice the minimum, or more after a rotation; a bound on what
   a merge makes would turn `RoomEnough` into an assumption on `MaxFill`, `PageSize` and
   `ItemBytes` that `BALANCE` meets and `BEST_FILE_SIZE` does not.
2. That a tree of `n` pages has fewer than `n` levels, so that `MaxDepth >= MaxPages + 1` is
   enough for the stack.
