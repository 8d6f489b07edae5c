---------------------------- MODULE SessionProofs ----------------------------
(***************************************************************************)
(* Proofs about a collection under every call, wherever the process is     *)
(* killed and the disk fails, for all values of the constants: every set   *)
(* of keys and items, every page size and preset.  First, that its         *)
(* invariant is inductive; then what follows from it.                      *)
(***************************************************************************)
EXTENDS PageProofs

-----------------------------------------------------------------------------
\* The pages of a session.

\* They are closed themselves.
LEMMA LargestClosedIsClosed ==
  ASSUME NEW f, NEW A
  PROVE  /\ LargestClosed(f, A) \subseteq A
         /\ StoredIn(f, LargestClosed(f, A), LargestClosed(f, A))
<1> DEFINE T == LargestClosed(f, A)
<1>1. T \subseteq A
  BY DEF LargestClosed
<1>2. \A S \in SUBSET A : Closed(f, S) => S \subseteq T
  BY DEF LargestClosed
<1>3. ASSUME NEW p \in T PROVE p \in DOMAIN f /\ f[p] \in StoredNodes(T)
  <2>1. PICK S \in SUBSET A : Closed(f, S) /\ p \in S
    BY <1>3 DEF LargestClosed
  <2>2. p \in DOMAIN f /\ f[p] \in StoredNodes(S)
    BY <2>1 DEF Closed
  <2>3. StoredNodes(S) \subseteq StoredNodes(T)
    BY <1>2, <2>1, StoredNodesMonotonic
  <2> QED
    BY <2>2, <2>3
<1> QED
  BY <1>1, <1>3 DEF StoredIn

LEMMA LargestClosedHasClosed ==
  ASSUME NEW f, NEW A, NEW S, S \subseteq A, StoredIn(f, S, S)
  PROVE  S \subseteq LargestClosed(f, A)
BY DEF LargestClosed, Closed, StoredIn

\* Of a session that has loaded its header: they are pages that hold nodes, and
\* none of them is a page of the header.
LEMMA PagesOfSession ==
  ASSUME TypeOK, HeaderOK(file), HeaderLoaded, PagesHeld
  PROVE  /\ Session \subseteq Allocated
         /\ StoredIn(file, Session, Session)
         /\ NodePages(file, Session)
<1>1. Session \subseteq Allocated /\ StoredIn(file, Session, Session)
  BY LargestClosedIsClosed DEF Session
<1>2. freelist.max_page <= PageBound
  BY DEF PagesHeld
<1>3. meta.freelist_page \in {0, 1} /\ freelist.max_page \in Nat
  BY DEF HeaderLoaded, FirstMeta, NoMeta, TypeOK, Freelists
<1>4. Allocated \subseteq 1 .. PageBound
  BY <1>2, <1>3, PageBoundNat DEF Allocated
<1>5. file[META_PAGE] # Hole => 1 \notin Allocated
  BY <1>3 DEF HeaderLoaded, FirstMeta, Allocated
<1> QED
  BY <1>1, <1>4, <1>5 DEF NodePages
-----------------------------------------------------------------------------
\* Steps that leave the session's pages alone.

\* A step in memory: what is left to show is about the call in progress.
LEMMA MemoryStep ==
  ASSUME IInv, proc \in {"running", "astray"}, proc' \in {"running", "astray"},
         UNCHANGED <<exists, file, meta, freelist>>, root' \in Session \union {root},
         TypeOK', StepOK', SearchOK', CopiesOK', BoundsOK'
  PROVE  IInv'
<1>1. /\ TypeOK /\ PagesOK(file) /\ HeaderOK(file) /\ ProcessOK /\ SessionOK
  BY DEF IInv
<1>2. PagesOK(file') /\ HeaderOK(file')
  BY <1>1
<1>3. ProcessOK'
  BY <1>1 DEF ProcessOK
<1>4. HeaderLoaded'
  BY <1>1 DEF SessionOK, HeaderLoaded
<1>5. Session' = Session
  BY DEF Session, Allocated
<1>6. PagesHeld'
  BY <1>1, <1>5 DEF SessionOK, PagesHeld, Released
<1>7. SessionOK'
  BY <1>4, <1>6 DEF SessionOK
<1> QED
  BY <1>2, <1>3, <1>7 DEF IInv

\* The end of the process, however much of a step it has written.
LEMMA QuitStep ==
  ASSUME IInv, NEW f, PagesOK(f), HeaderOK(f), ~exists => DOMAIN f = {}, Quit(f),
         sessions' \in 0 .. MaxSessions, faults' \in 0 .. MaxFaults
  PROVE  IInv'
<1>1. TypeOK
  BY DEF IInv
<1>2. file' = f /\ exists' = exists /\ proc' = "down"
  BY DEF Quit, Stop
<1>3. root' = 0 /\ pc' = "idle" /\ IdleCall'
  BY DEF Quit, ForgetCall, IdleCall
<1>4. DOMAIN f \subseteq Nat /\ \A p \in DOMAIN f : f[p] \in PageContent
  BY PageBoundNat DEF PagesOK
<1>5. meta' \in [root : Nat, freelist_page : Nat] /\ freelist' \in Freelists
  BY DEF Quit, Stop, NoMeta, EmptyFreelist, Freelists
<1>6. /\ op' \in Operation \union {NoOperation} /\ page' \in Nat /\ path' \in Seq(Nat)
      /\ node' \in Nodes /\ index' \in Nat /\ ancestors' \in Seq(Nodes) /\ level' \in Nat
      /\ result' = NoResult
  BY <1>3 DEF IdleCall, NoNode, Nodes
<1>7. TypeOK'
  BY <1>1, <1>2, <1>3, <1>4, <1>5, <1>6 DEF TypeOK, Quit, Stop
<1>8. ProcessOK'
  BY <1>2, <1>3 DEF ProcessOK
<1> QED
  BY <1>2, <1>7, <1>8 DEF IInv

\* A call that is over, or has been cut short: nothing is said of what it held.
LEMMA ReturnStep ==
  ASSUME TypeOK, SessionOK, pc \notin {"idle", "return"}, pc' = "return",
         UNCHANGED <<op, path>>
  PROVE  StepOK' /\ SearchOK' /\ CopiesOK' /\ BoundsOK'
<1>1. StepOK'
  BY DEF SessionOK, StepOK
<1>2. SearchOK' /\ CopiesOK'
  BY DEF SearchOK, CopiesOK
<1>3. BoundsOK'
  BY DEF SessionOK, BoundsOK
<1> QED
  BY <1>1, <1>2, <1>3

\* A call that has been forgotten.
LEMMA IdleStep ==
  ASSUME pc' = "idle", IdleCall'
  PROVE  StepOK' /\ SearchOK' /\ CopiesOK' /\ BoundsOK'
<1>1. op' = NoOperation /\ NoOperation.kind # "put"
  BY DEF IdleCall, NoOperation
<1> QED
  BY <1>1 DEF StepOK, SearchOK, CopiesOK, BoundsOK
-----------------------------------------------------------------------------
\* The constructor.

\* What a process starts with.
StartsIdle == /\ root' = 0 /\ root = 0
              /\ pc = "idle" /\ IdleCall
              /\ UNCHANGED <<pc, call_vars>>

LEMMA StartTypes ==
  ASSUME TypeOK, StartsIdle,
         exists' \in BOOLEAN, PagesOK(file'),
         proc' \in {"freelist", "root", "meta", "running"}, stream' \in {"good", "failed", "closed"},
         meta' \in {NoMeta, FirstMeta}, freelist' \in Freelists,
         sessions' \in 0 .. MaxSessions, UNCHANGED faults
  PROVE  TypeOK' /\ IdleCall'
<1>1. DOMAIN file' \subseteq Nat /\ \A p \in DOMAIN file' : file'[p] \in PageContent
  BY PageBoundNat DEF PagesOK
<1>2. meta' \in [root : Nat, freelist_page : Nat]
  BY DEF NoMeta, FirstMeta
<1>3. UNCHANGED <<pc, op, page, path, node, index, ancestors, level, result>>
  BY DEF StartsIdle, call_vars
<1>4. root' \in Nat
  BY DEF StartsIdle
<1>5. TypeOK'
  BY <1>1, <1>2, <1>3, <1>4 DEF TypeOK
<1>6. IdleCall'
  BY <1>3 DEF StartsIdle, IdleCall
<1> QED
  BY <1>5, <1>6

\* A process that has no tree, and has released nothing.
LEMMA StartsRunning ==
  ASSUME PagesOK(file'), HeaderOK(file'), TypeOK', IdleCall', StartsIdle, exists',
         proc' = "running", HeaderLoaded',
         freelist'.max_page \in meta'.freelist_page .. PageBound,
         freelist'.released_pages = <<>>
  PROVE  IInv'
<1>1. root' = 0 /\ pc' = "idle"
  BY DEF StartsIdle
<1>2. Released' = {}
  BY DEF Released, ToSet
<1>3. PagesHeld'
  BY <1>1, <1>2 DEF PagesHeld
<1>4. StepOK' /\ SearchOK' /\ CopiesOK' /\ BoundsOK'
  BY <1>1, IdleStep
<1>5. SessionOK'
  BY <1>3, <1>4 DEF SessionOK
<1>6. ProcessOK'
  BY DEF ProcessOK
<1> QED
  BY <1>5, <1>6 DEF IInv

LEMMA CreateFileStep ==
  ASSUME IInv, CreateFile, StartsIdle, sessions' \in 0 .. MaxSessions, UNCHANGED faults
  PROVE  IInv'
<1>1. DOMAIN file = {} /\ file' = file /\ exists' = TRUE /\ proc' = "freelist"
  BY DEF IInv, ProcessOK, CreateFile
<1>2. freelist' = FirstFreelist
  BY DEF CreateFile, get_next_page, EmptyFreelist, FirstFreelist
<1>3. meta' = FirstMeta
  BY DEF CreateFile, next_page, EmptyFreelist, NoMeta, FirstMeta
<1>4. freelist' \in Freelists /\ stream' = "good"
  BY <1>2 DEF FirstFreelist, Freelists, CreateFile
<1>5. PagesOK(file') /\ HeaderOK(file')
  BY <1>1 DEF PagesOK, HeaderOK
<1>6. TypeOK' /\ IdleCall'
  BY <1>1, <1>3, <1>4, <1>5, StartTypes DEF IInv
<1>7. ProcessOK'
  BY <1>1, <1>2, <1>3, <1>6 DEF ProcessOK, StartsIdle
<1> QED
  BY <1>1, <1>5, <1>6, <1>7 DEF IInv

LEMMA WriteFreelistStep ==
  ASSUME IInv, WriteFreelist, StartsIdle, UNCHANGED bounds
  PROVE  IInv'
<1>1. /\ TypeOK /\ PagesOK(file) /\ HeaderOK(file) /\ ProcessOK
  BY DEF IInv
<1>2. /\ exists /\ DOMAIN file = {} /\ meta = FirstMeta /\ freelist = FirstFreelist
      /\ proc = "freelist" /\ proc' = "root"
      /\ UNCHANGED <<exists, stream, meta, freelist>>
  BY <1>1 DEF ProcessOK, WriteFreelist, TypeOK
<1>3. FreelistPage(freelist) = FirstFreelistPage
  <2>1. 1 % Width16 = 1 /\ 0 % Width16 = 0
    BY Width16Assumption
  <2>2. Reloaded(FirstFreelist) = FirstFreelist
    BY <2>1 DEF Reloaded, FirstFreelist
  <2> QED
    BY <1>2, <2>2 DEF FreelistPage, FirstFreelist, FirstFreelistPage
<1>4. file' = WithPage(file, 1, FirstFreelistPage)
  BY <1>2, <1>3 DEF WriteFreelist, FirstMeta
<1>5. WritesPage(file, 1, FirstFreelistPage, file')
  <2>1. HasNoGap(file)
    BY <1>2 DEF HasNoGap
  <2> QED
    BY <1>4, <2>1, WithPageWrites
<1>6. DOMAIN file' = 0 .. 1 /\ file'[1] = FirstFreelistPage /\ file'[0] = Hole
  BY <1>2, <1>5 DEF WritesPage
<1>7. Hole \in PageContent /\ FirstFreelistPage \in PageContent
      /\ Hole.kind # "node" /\ FirstFreelistPage.kind # "node"
  BY DEF Hole, FirstFreelistPage, PageContent
<1>8. \A p \in 0 .. 1 : p = 0 \/ p = 1
  OBVIOUS
<1>9. 0 .. 1 \subseteq 0 .. PageBound
  BY CollectionAssumption DEF PageBound
<1>10. PagesOK(file') /\ HeaderOK(file')
  BY <1>6, <1>7, <1>8, <1>9 DEF PagesOK, HeaderOK, META_PAGE
<1>11. sessions' \in 0 .. MaxSessions /\ UNCHANGED faults
       /\ freelist' \in Freelists /\ exists' \in BOOLEAN /\ stream' \in {"good", "failed", "closed"}
  BY <1>1, <1>2 DEF TypeOK, bounds
<1>12. TypeOK' /\ IdleCall'
  BY <1>1, <1>2, <1>10, <1>11, StartTypes
<1>13. ProcessOK'
  BY <1>2, <1>6, <1>12 DEF ProcessOK, StartsIdle, META_PAGE
<1> QED
  BY <1>2, <1>10, <1>12, <1>13 DEF IInv

LEMMA InitRootNodeStep ==
  ASSUME IInv, InitRootNode, StartsIdle, UNCHANGED bounds
  PROVE  IInv'
<1>1. /\ TypeOK /\ PagesOK(file) /\ HeaderOK(file) /\ ProcessOK
  BY DEF IInv
<1>2. /\ exists /\ DOMAIN file = 0 .. 1 /\ meta = FirstMeta /\ freelist = FirstFreelist
      /\ file[0] = Hole /\ file[1] = FirstFreelistPage
      /\ proc = "root" /\ proc' = "meta"
      /\ UNCHANGED <<exists, stream, meta>>
  BY <1>1 DEF ProcessOK, InitRootNode, TypeOK, META_PAGE
<1>3. next_page(freelist) = 2 /\ freelist' = [FirstFreelist EXCEPT !.max_page = 2]
  BY <1>2 DEF InitRootNode, next_page, get_next_page, FirstFreelist
<1> DEFINE T == {2}
           first == [page |-> 2, items |-> <<>>, children |-> <<>>]
           nodes == <<first>>
<1>4. first \in NodesOver(T, T)
  BY DEF NodesOver
<1>5. file' = Written(file, nodes)
  BY <1>3 DEF InitRootNode
<1>6. nodes \in Seq(NodesOver(T, T)) /\ Len(nodes) = 1 /\ nodes[1] = first
  <2> HIDE DEF first, T
  <2> QED
    BY <1>4, OneElement
<1> HIDE DEF nodes
<1>7. NodePages(file, T)
  <2>1. 2 \in 1 .. PageBound
    BY CollectionAssumption DEF PageBound
  <2> QED
    BY <1>2, <2>1 DEF NodePages, META_PAGE
<1> HIDE DEF T
<1>8. PagesOK(file') /\ HeaderOK(file')
  BY <1>1, <1>5, <1>6, <1>7, WritingKeepsFile
<1>9. HasWrites(file, nodes, 1, file')
  BY <1>1, <1>5, <1>6, <1>7, NodesWritten
<1>10. DOMAIN file' = 0 .. 2 /\ file'[0] = Hole /\ file'[1] = FirstFreelistPage
  <2>1. nodes[1].page = 2 /\ \A i \in 1 .. 1 : i = 1
    BY <1>6
  <2>2. DOMAIN file' = 0 .. 2
    <3>1. DOMAIN file' = 0 .. 1 \union UNION {0 .. nodes[i].page : i \in 1 .. 1}
      BY <1>2, <1>9 DEF HasWrites
    <3>2. 1 \in 1 .. 1 /\ \A i \in 1 .. 1 : 0 .. nodes[i].page = 0 .. 2
      BY <2>1
    <3>3. UNION {0 .. nodes[i].page : i \in 1 .. 1} = 0 .. 2
      BY <3>2
    <3>4. DOMAIN file' = 0 .. 1 \union 0 .. 2
      BY <3>1, <3>3
    <3> QED
      BY <3>4
  <2>3. 0 \in 0 .. 2 /\ 1 \in 0 .. 2 /\ 0 \in 0 .. 1 /\ 1 \in 0 .. 1
    OBVIOUS
  <2> QED
    BY <1>2, <1>9, <2>1, <2>2, <2>3 DEF HasWrites
<1>11. sessions' \in 0 .. MaxSessions /\ UNCHANGED faults
       /\ freelist' \in Freelists /\ exists' \in BOOLEAN /\ stream' \in {"good", "failed", "closed"}
  BY <1>1, <1>2, <1>3 DEF TypeOK, bounds, FirstFreelist, Freelists
<1>12. TypeOK' /\ IdleCall'
  BY <1>1, <1>2, <1>8, <1>11, StartTypes
<1>13. ProcessOK'
  BY <1>2, <1>3, <1>10, <1>12 DEF ProcessOK, StartsIdle, META_PAGE
<1> QED
  BY <1>2, <1>8, <1>12, <1>13 DEF IInv

LEMMA WriteMetaStep ==
  ASSUME IInv, WriteMeta, StartsIdle, UNCHANGED bounds
  PROVE  IInv'
<1>1. /\ TypeOK /\ PagesOK(file) /\ HeaderOK(file) /\ ProcessOK
  BY DEF IInv
<1>2. /\ exists /\ DOMAIN file = 0 .. 2 /\ meta = FirstMeta
      /\ freelist = [FirstFreelist EXCEPT !.max_page = 2]
      /\ file[1] = FirstFreelistPage
      /\ proc = "meta" /\ proc' = "running"
      /\ UNCHANGED <<exists, stream, meta, freelist>>
  BY <1>1 DEF ProcessOK, WriteMeta, TypeOK
<1>3. file' = [file EXCEPT ![0] = MetaPage(FirstMeta)]
  <2>1. 0 \in DOMAIN file
    BY <1>2
  <2> QED
    BY <1>2, <2>1 DEF WriteMeta, WithPage, META_PAGE
<1>4. /\ DOMAIN file' = DOMAIN file
      /\ file'[0] = MetaPage(FirstMeta)
      /\ \A p \in DOMAIN file \ {0} : file'[p] = file[p]
      /\ 0 \in DOMAIN file' /\ 1 \in DOMAIN file \ {0}
  BY <1>2, <1>3
<1>5. MetaPage(FirstMeta) \in PageContent /\ MetaPage(FirstMeta).kind = "meta"
  BY DEF MetaPage, FirstMeta, PageContent
<1>6. PagesOK(file')
  BY <1>1, <1>4, <1>5 DEF PagesOK
<1>7. HeaderOK(file')
  BY <1>2, <1>4 DEF HeaderOK, META_PAGE
<1>8. sessions' \in 0 .. MaxSessions /\ UNCHANGED faults
      /\ freelist' \in Freelists /\ exists' \in BOOLEAN /\ stream' \in {"good", "failed", "closed"}
  BY <1>1, <1>2 DEF TypeOK, bounds
<1>9. TypeOK' /\ IdleCall'
  BY <1>1, <1>2, <1>6, <1>8, StartTypes
<1>10. HeaderLoaded'
  BY <1>2, <1>4, <1>5 DEF HeaderLoaded, META_PAGE, Hole
<1>11. freelist'.max_page \in meta'.freelist_page .. PageBound /\ freelist'.released_pages = <<>>
  <2>1. PageBound \in Nat /\ PageBound >= 2
    BY CollectionAssumption DEF PageBound
  <2> QED
    BY <1>2, <2>1 DEF FirstFreelist, FirstMeta
<1> QED
  BY <1>2, <1>6, <1>7, <1>9, <1>10, <1>11, StartsRunning

LEMMA LoadDatabaseStep ==
  ASSUME IInv, LoadDatabase, StartsIdle, sessions' \in 0 .. MaxSessions, UNCHANGED faults
  PROVE  IInv'
<1>1. /\ TypeOK /\ PagesOK(file) /\ HeaderOK(file) /\ ProcessOK
  BY DEF IInv
<1>2. /\ exists /\ META_PAGE \in DOMAIN file /\ proc' = "running" /\ stream' = "good"
      /\ meta' = read_meta(file, META_PAGE)
      /\ freelist' = read_freelist(file, meta'.freelist_page)
      /\ UNCHANGED <<exists, file>>
  BY DEF LoadDatabase
<1>3. ASSUME file[META_PAGE] = Hole
      PROVE  meta' = NoMeta /\ freelist' = EmptyFreelist
  <2>1. Hole.kind # "meta" /\ Hole.kind # "freelist"
    BY DEF Hole
  <2>2. meta' = NoMeta
    BY <1>2, <1>3, <2>1 DEF read_meta
  <2>3. meta'.freelist_page = META_PAGE
    BY <2>2 DEF NoMeta, META_PAGE
  <2> QED
    BY <1>2, <1>3, <2>1, <2>2, <2>3 DEF read_freelist
<1>4. ASSUME file[META_PAGE] # Hole
      PROVE  meta' = FirstMeta /\ freelist' = FirstFreelist
  <2>1. file[META_PAGE] = MetaPage(FirstMeta) /\ file[1] = FirstFreelistPage
    BY <1>1, <1>2, <1>4 DEF HeaderOK
  <2>2. meta' = FirstMeta
    BY <1>2, <2>1 DEF read_meta, MetaPage, FirstMeta
  <2>3. freelist' = FirstFreelist
    BY <1>2, <2>1, <2>2 DEF read_freelist, FirstMeta, FirstFreelistPage, FirstFreelist
  <2> QED
    BY <2>2, <2>3
<1>5. /\ HeaderLoaded' /\ meta' \in {NoMeta, FirstMeta}
      /\ freelist' \in {EmptyFreelist, FirstFreelist}
      /\ freelist'.max_page = meta'.freelist_page
      /\ meta'.freelist_page \in {0, 1}
  <2>1. CASE file[META_PAGE] = Hole
    BY <1>2, <1>3, <2>1 DEF HeaderLoaded, EmptyFreelist, NoMeta
  <2>2. CASE file[META_PAGE] # Hole
    BY <1>2, <1>4, <2>2 DEF HeaderLoaded, FirstFreelist, FirstMeta
  <2> QED
    BY <2>1, <2>2
<1>6. freelist' \in Freelists /\ freelist'.released_pages = <<>>
  <2>1. /\ EmptyFreelist \in Freelists /\ EmptyFreelist.released_pages = <<>>
        /\ FirstFreelist \in Freelists /\ FirstFreelist.released_pages = <<>>
    BY DEF EmptyFreelist, FirstFreelist, Freelists
  <2> QED
    BY <1>5, <2>1
<1>7. freelist'.max_page \in meta'.freelist_page .. PageBound
  BY <1>5, CollectionAssumption DEF PageBound
<1>8. PagesOK(file') /\ HeaderOK(file') /\ exists' /\ exists' \in BOOLEAN
      /\ stream' \in {"good", "failed", "closed"}
  BY <1>1, <1>2 DEF TypeOK
<1>9. TypeOK' /\ IdleCall'
  BY <1>1, <1>2, <1>5, <1>6, <1>8, StartTypes
<1> QED
  BY <1>2, <1>5, <1>6, <1>7, <1>8, <1>9, StartsRunning

\* Opening, the constructor's writes, and the end of the process.
LEMMA OpenStep ==
  ASSUME IInv, Open
  PROVE  IInv'
<1>1. TypeOK /\ ProcessOK /\ proc = "down"
  BY DEF IInv, Open, CreateFile, LoadDatabase
<1>2. meta'.root = 0
  <2>1. CASE CreateFile
    BY <2>1 DEF CreateFile, NoMeta
  <2>2. CASE LoadDatabase
    <3>1. META_PAGE \in DOMAIN file /\ HeaderOK(file) /\ meta' = read_meta(file, META_PAGE)
      BY <2>2 DEF LoadDatabase, IInv
    <3>2. file[META_PAGE] = Hole \/ file[META_PAGE] = MetaPage(FirstMeta)
      BY <3>1 DEF HeaderOK
    <3> QED
      BY <3>1, <3>2 DEF Hole, MetaPage, FirstMeta, read_meta, NoMeta
  <2> QED
    BY <2>1, <2>2 DEF Open
<1>3. StartsIdle
  BY <1>1, <1>2 DEF StartsIdle, ProcessOK, Open
<1>4. sessions' \in 0 .. MaxSessions /\ UNCHANGED faults
  BY <1>1, CollectionAssumption DEF TypeOK, Open
<1> QED
  BY <1>3, <1>4, CreateFileStep, LoadDatabaseStep DEF Open

LEMMA InitializeStep ==
  ASSUME IInv, Initialize
  PROVE  IInv'
<1>1. ProcessOK /\ proc \in {"freelist", "root", "meta"} /\ meta' = meta
  BY DEF IInv, Initialize, WriteFreelist, InitRootNode, WriteMeta
<1>2. meta'.root = 0
  BY <1>1 DEF ProcessOK, FirstMeta
<1>3. StartsIdle /\ UNCHANGED bounds
  BY <1>1, <1>2 DEF StartsIdle, ProcessOK, Initialize
<1> QED
  BY <1>3, WriteFreelistStep, InitRootNodeStep, WriteMetaStep DEF Initialize

LEMMA ExitStep ==
  ASSUME IInv, Exit
  PROVE  IInv'
<1>1. PagesOK(file) /\ HeaderOK(file) /\ (~exists => DOMAIN file = {})
  BY DEF IInv, ProcessOK
<1>2. sessions' \in 0 .. MaxSessions /\ faults' \in 0 .. MaxFaults
  BY DEF IInv, TypeOK, Exit, bounds
<1> QED
  BY <1>1, <1>2, QuitStep DEF Exit
-----------------------------------------------------------------------------
\* Steps of a running process that leave the file alone.

LEMMA CloseStep ==
  ASSUME IInv, Close
  PROVE  IInv'
<1>1. TypeOK /\ SessionOK /\ proc = "running"
  BY DEF IInv, Close, At
<1>2. UNCHANGED <<exists, file, proc, meta, freelist, root, pc, op, page, path, node,
                  index, ancestors, level, result, sessions, faults>>
      /\ stream' = "closed"
  BY DEF Close, call_vars, bounds
<1>3. TypeOK'
  BY <1>1, <1>2 DEF TypeOK
<1>4. pc' = "idle" /\ IdleCall'
  BY <1>1, <1>2 DEF Close, At, SessionOK, StepOK, IdleCall
<1>5. StepOK' /\ SearchOK' /\ CopiesOK' /\ BoundsOK'
  BY <1>4, IdleStep
<1> QED
  BY <1>1, <1>2, <1>3, <1>5, MemoryStep

LEMMA ReturnStepIdle ==
  ASSUME IInv, Return
  PROVE  IInv'
<1>1. TypeOK /\ proc = "running"
  BY DEF IInv, Return, At
<1>2. UNCHANGED <<exists, file, proc, stream, meta, freelist, root, sessions, faults>>
      /\ pc' = "idle" /\ IdleCall'
  BY DEF Return, dal_vars, bounds, ForgetCall, IdleCall
<1>3. TypeOK'
  <2>1. /\ op' \in Operation \union {NoOperation} /\ page' \in Nat /\ path' \in Seq(Nat)
        /\ node' \in Nodes /\ index' \in Nat /\ ancestors' \in Seq(Nodes) /\ level' \in Nat
        /\ result' = NoResult
    BY <1>2 DEF IdleCall, NoNode, Nodes
  <2> QED
    BY <1>1, <1>2, <2>1 DEF TypeOK
<1>4. StepOK' /\ SearchOK' /\ CopiesOK' /\ BoundsOK'
  BY <1>2, IdleStep
<1> QED
  BY <1>1, <1>2, <1>3, <1>4, MemoryStep

\* No operation is a put or a remove and something else.
LEMMA OperationKinds ==
  ASSUME NEW o \in Operation
  PROVE  o.kind \in {"put", "find", "remove"} /\ o.key \in Key
                /\ (o.kind = "put" => o.value \in Value)
BY DEF Operation

LEMMA CallStep ==
  ASSUME IInv, NEW o \in Operation, Call(o)
  PROVE  IInv'
<1>1. TypeOK /\ SessionOK /\ proc = "running" /\ pc = "idle"
  BY DEF IInv, Call, At
<1>2. IdleCall
  BY <1>1 DEF SessionOK, StepOK
<1>3. UNCHANGED <<exists, file, proc, stream, meta, freelist, root, path, node,
                  index, ancestors, level, result, sessions, faults>>
      /\ op' = o /\ page' = root
      /\ pc' = IF o.kind = "put" /\ root = 0 THEN "create" ELSE "find"
  BY DEF Call, dal_vars, bounds
<1>4. TypeOK'
  BY <1>1, <1>3 DEF TypeOK
<1>5. path' = <<>> /\ Len(path') = 0
  BY <1>2, <1>3 DEF IdleCall
<1>6. StepOK'
  BY <1>3 DEF StepOK, META_PAGE
<1>7. SearchOK'
  <2>1. root # 0 => root \in Session
    BY <1>1 DEF SessionOK, PagesHeld
  <2>2. root # 0 => LeadsTo(file, Session, <<>>, root, root)
    BY <2>1, PathOfRoot
  <2>3. Session' = Session
    BY <1>3 DEF Session, Allocated
  <2>4. root' # 0 => PathOK'
    BY <1>3, <1>5, <2>2, <2>3 DEF PathOK
  <2> QED
    BY <1>3, <2>4 DEF SearchOK
<1>8. CopiesOK'
  BY <1>3 DEF CopiesOK
<1>9. BoundsOK'
  <2>1. o.kind = "put" => freelist.max_page < MaxPages
    BY DEF Call
  <2> QED
    BY <1>3, <1>5, <2>1, CollectionAssumption DEF BoundsOK
<1> QED
  BY <1>1, <1>3, <1>4, <1>6, <1>7, <1>8, <1>9, MemoryStep

LEMMA GoAstrayStep ==
  ASSUME IInv, GoAstray
  PROVE  IInv'
<1>1. TypeOK /\ SessionOK /\ proc = "running" /\ proc' = "astray"
  BY DEF IInv, GoAstray
<1>2. UNCHANGED <<exists, file, stream, meta, freelist, root, pc, op, page, path, node,
                  index, ancestors, level, result, sessions, faults>>
  BY DEF GoAstray, call_vars, bounds
<1>3. TypeOK'
  BY <1>1, <1>2 DEF TypeOK
<1>4. Session' = Session
  BY <1>2 DEF Session, Allocated
<1>5. StepOK' /\ BoundsOK' /\ CopiesOK'
  BY <1>1, <1>2, <1>4 DEF SessionOK, StepOK, IdleCall, BoundsOK, CopiesOK
<1>6. SearchOK'
  BY <1>1, <1>2, <1>4 DEF SessionOK, SearchOK, PathOK
<1> QED
  BY <1>1, <1>2, <1>3, <1>5, <1>6, MemoryStep
-----------------------------------------------------------------------------
\* The search.

LEMMA PathEnds ==
  ASSUME NEW f, NEW S, NEW slots \in Seq(Nat), NEW from, NEW p,
         LeadsTo(f, S, slots, from, p)
  PROVE  p \in S /\ from \in S
<1>1. Len(slots) \in Nat
  BY LenProperties
<1>2. Len(slots) + 1 \in 1 .. Len(slots) + 1 /\ 1 \in 1 .. Len(slots) + 1
  BY <1>1
<1> QED
  BY <1>2 DEF LeadsTo

LEMMA NodesOfTypes ==
  ASSUME NEW S, NEW n \in NodesOf(S)
  PROVE  /\ n \in NodesOver(S, S) /\ n.page \in S /\ n.items \in Seq(Item)
         /\ n.children \in Seq(S) /\ IsShaped(n)
BY DEF NodesOf, NodesOver

LEMMA NodesOfAreNodes ==
  ASSUME NEW S, S \subseteq Nat
  PROVE  NodesOf(S) \subseteq Nodes /\ NodesOver(S, S) \subseteq Nodes
<1>1. ASSUME NEW n \in NodesOver(S, S) PROVE n \in Nodes
  <2>1. n.children \in Seq(S)
    BY <1>1 DEF NodesOver
  <2>2. n.children \in Seq(Nat)
    BY <2>1, SeqMonotonic
  <2> QED
    BY <1>1, <2>2 DEF NodesOver, Nodes
<1> QED
  BY <1>1 DEF NodesOf

\* The page a search of the tree is at, and where it may go from there.
LEMMA SearchIsAtNode ==
  ASSUME NEW n, n = get_node(file, page), NEW S, StoredIn(file, S, S),
         path \in Seq(Nat), LeadsTo(file, S, path, root, page), NEW k
  PROVE  /\ page \in S /\ n \in NodesOf(S) /\ n.page = page
         /\ KeyPosition(n, k) \in 1 .. Len(n.items) + 1
         /\ \A i \in 1 .. Len(n.children) :
              /\ i \in Nat /\ n.children[i] \in S
              /\ LeadsTo(file, S, Append(path, i), root, n.children[i])
         /\ ~is_leaf(n) => Len(n.children) = Len(n.items) + 1
<1>1. page \in S
  BY PathEnds
<1>2. n \in NodesOf(S) /\ n.page = page /\ n.children = file[page].children
  BY <1>1, GetNodeOf
<1>3. n.items \in Seq(Item) /\ n.children \in Seq(S) /\ IsShaped(n)
  BY <1>2, NodesOfTypes
<1>4. KeyPosition(n, k) \in 1 .. Len(n.items) + 1
  BY <1>3, KeyPositionInRange
<1>5. ASSUME NEW i \in 1 .. Len(n.children)
      PROVE  /\ i \in Nat /\ n.children[i] \in S
             /\ LeadsTo(file, S, Append(path, i), root, n.children[i])
  <2>1. i \in 1 .. Len(file[page].children)
    BY <1>2
  <2>2. LeadsTo(file, S, Append(path, i), root, file[page].children[i])
    BY <2>1, PathGrows
  <2>3. n.children[i] \in S
    BY <1>3, ElementOfSeq
  <2> QED
    BY <1>2, <2>2, <2>3
<1> QED
  BY <1>1, <1>2, <1>3, <1>4, <1>5 DEF IsShaped

\* A search without a tree is at the meta page, and knows of one page beyond the
\* end of every file.
LEMMA SearchOfNoTree ==
  ASSUME PagesOK(file), HeaderOK(file), page \in {META_PAGE, FarPage}, page \in DOMAIN file, NEW k
  PROVE  LET n == get_node(file, page)
         IN  /\ KeyPosition(n, k) = 1 /\ n.items = <<>>
             /\ n.children[1] \in {META_PAGE, FarPage}
             /\ n \in Nodes /\ Len(n.items) = 0 /\ ~is_leaf(n)
<1> DEFINE n == get_node(file, page)
<1>1. page = 0
  <2>1. page \in 0 .. PageBound
    BY DEF PagesOK
  <2> QED
    BY <2>1, PageBoundNat DEF META_PAGE
<1>2. file[page] = Hole \/ file[page] = MetaPage(FirstMeta)
  BY <1>1 DEF HeaderOK, META_PAGE
<1>3. FarPage \in Nat
  BY CollectionAssumption
<1>4. /\ n.items = <<>> /\ n.page = 0
      /\ n = [page |-> 0, items |-> <<>>, children |-> <<FarPage>>]
         \/ n = [page |-> 0, items |-> <<>>, children |-> <<0>>]
  <2>1. file[page].kind = "hole" \/ file[page].kind = "meta"
    BY <1>2 DEF Hole, MetaPage
  <2> QED
    BY <1>1, <2>1 DEF get_node
<1> HIDE DEF n
<1>5. n \in Nodes
  <2>1. <<FarPage>> \in Seq(Nat) /\ <<0>> \in Seq(Nat) /\ <<>> \in Seq(Item)
    BY <1>3
  <2>2. [page |-> 0, items |-> <<>>, children |-> <<FarPage>>] \in Nodes
    BY <2>1 DEF Nodes
  <2>3. [page |-> 0, items |-> <<>>, children |-> <<0>>] \in Nodes
    BY <2>1 DEF Nodes
  <2> QED
    BY <1>4, <2>2, <2>3
<1>6. n.children[1] \in {META_PAGE, FarPage} /\ ~is_leaf(n)
  BY <1>4 DEF META_PAGE, is_leaf
<1>7. KeyPosition(n, k) \in 1 .. Len(n.items) + 1 /\ Len(n.items) = 0
  <2>1. n.items \in Seq(Item)
    BY <1>4
  <2>2. KeyPosition(n, k) \in 1 .. Len(n.items) + 1
    BY <2>1, KeyPositionInRange
  <2> QED
    BY <1>4, <2>2
<1> QED
  BY <1>4, <1>5, <1>6, <1>7 DEF n

\* What is known of a call at its search.
LEMMA AtSearch ==
  ASSUME IInv, At("find") \/ At("verify")
  PROVE  /\ TypeOK /\ SessionOK /\ PagesOK(file) /\ HeaderOK(file)
         /\ proc = "running" /\ pc \in {"find", "verify"} /\ op \in Operation
         /\ Session \subseteq Nat /\ StoredIn(file, Session, Session)
         /\ root # 0 => LeadsTo(file, Session, path, root, page)
         /\ root = 0 => pc = "find" /\ op.kind # "put" /\ page \in {META_PAGE, FarPage}
         /\ path \in Seq(Nat)
         /\ pc = "verify" => op.kind = "remove"
<1>1. TypeOK /\ SessionOK /\ PagesOK(file) /\ HeaderOK(file)
      /\ proc = "running" /\ pc \in {"find", "verify"}
  BY DEF IInv, At
<1>2. NodePages(file, Session) /\ StoredIn(file, Session, Session)
  BY <1>1, PagesOfSession DEF SessionOK
<1>3. Session \subseteq Nat
  BY <1>2 DEF NodePages
<1>4. op \in Operation
  BY <1>1 DEF SessionOK, StepOK
<1>5. root # 0 => LeadsTo(file, Session, path, root, page)
  BY <1>1 DEF SessionOK, SearchOK, PathOK
<1>6. /\ root = 0 => pc = "find" /\ op.kind # "put" /\ page \in {META_PAGE, FarPage}
      /\ pc = "verify" => op.kind = "remove"
  BY <1>1 DEF SessionOK, StepOK
<1> QED
  BY <1>1, <1>2, <1>3, <1>4, <1>5, <1>6 DEF TypeOK

LEMMA GoDownStep ==
  ASSUME IInv, GoDown
  PROVE  IInv'
<1> DEFINE n == get_node(file, page)
           i == KeyPosition(n, op.key)
<1>1. (At("find") \/ At("verify")) /\ page \in DOMAIN file /\ ~StepGoesAstray
  BY DEF GoDown, Searching, Readable, Proceeds
<1>2. /\ TypeOK /\ SessionOK /\ PagesOK(file) /\ HeaderOK(file)
      /\ proc = "running" /\ pc \in {"find", "verify"} /\ op \in Operation
      /\ Session \subseteq Nat /\ StoredIn(file, Session, Session)
      /\ root # 0 => LeadsTo(file, Session, path, root, page)
      /\ root = 0 => pc = "find" /\ op.kind # "put" /\ page \in {META_PAGE, FarPage}
      /\ path \in Seq(Nat)
  BY <1>1, AtSearch
<1>3. /\ ~is_leaf(n)
      /\ page' = n.children[i] /\ path' = Append(path, i)
      /\ UNCHANGED <<exists, file, proc, stream, meta, freelist, root, pc, op, node, index,
                     ancestors, level, result, sessions, faults>>
  BY DEF GoDown, find_key_in_node, dal_vars, bounds
<1>4. /\ i \in Nat /\ page' \in Nat
      /\ root # 0 => LeadsTo(file, Session, path', root, page')
      /\ root = 0 => page' \in {META_PAGE, FarPage}
  <2>1. CASE root # 0
    <3>1. /\ i \in 1 .. Len(n.items) + 1
          /\ \A j \in 1 .. Len(n.children) :
               /\ j \in Nat /\ n.children[j] \in Session
               /\ LeadsTo(file, Session, Append(path, j), root, n.children[j])
          /\ Len(n.children) = Len(n.items) + 1
      BY <1>2, <1>3, <2>1, SearchIsAtNode
    <3> HIDE DEF n, i
    <3> QED
      BY <1>2, <1>3, <2>1, <3>1
  <2>2. CASE root = 0
    <3>1. i = 1 /\ n.children[1] \in {META_PAGE, FarPage}
      BY <1>1, <1>2, <2>2, SearchOfNoTree
    <3>2. META_PAGE \in Nat /\ FarPage \in Nat
      BY CollectionAssumption DEF META_PAGE
    <3> HIDE DEF n, i
    <3> QED
      BY <1>3, <2>2, <3>1, <3>2
  <2> QED
    BY <2>1, <2>2
<1> HIDE DEF n, i
<1>5. path' \in Seq(Nat) /\ Len(path') = Len(path) + 1 /\ Len(path) \in Nat
  BY <1>2, <1>3, <1>4, AppendProperties, LenProperties
<1>6. TypeOK'
  BY <1>2, <1>3, <1>4, <1>5 DEF TypeOK
<1>7. StepOK'
  BY <1>2, <1>3, <1>4 DEF SessionOK, StepOK
<1>8. Session' = Session
  BY <1>3 DEF Session, Allocated
<1>9. SearchOK'
  BY <1>2, <1>3, <1>4, <1>8 DEF SearchOK, PathOK
<1>10. CopiesOK'
  BY <1>2, <1>3 DEF CopiesOK
<1>11. BoundsOK'
  <2>1. Len(path) < MaxDepth
    BY <1>1, <1>2, <1>5, CollectionAssumption DEF StepGoesAstray, StackIsExhausted
  <2> QED
    BY <1>2, <1>3, <1>5, <2>1, CollectionAssumption DEF SessionOK, BoundsOK
<1> QED
  BY <1>2, <1>3, <1>6, <1>7, <1>9, <1>10, <1>11, MemoryStep

LEMMA ReadFailsStep ==
  ASSUME IInv, ReadFails
  PROVE  IInv'
<1>1. /\ TypeOK /\ SessionOK /\ PagesOK(file) /\ HeaderOK(file) /\ ProcessOK
      /\ proc = "running" /\ pc \in {"find", "verify"}
      /\ UNCHANGED <<sessions, faults>>
  BY DEF IInv, ReadFails, At, bounds
<1>2. CASE Quit(file)
  <2>1. (~exists => DOMAIN file = {}) /\ sessions' \in 0 .. MaxSessions /\ faults' \in 0 .. MaxFaults
    BY <1>1 DEF TypeOK, ProcessOK
  <2> QED
    BY <1>1, <1>2, <2>1, QuitStep
<1>3. CASE /\ stream' = IF stream = "closed" THEN "closed" ELSE "failed"
           /\ ReturnWith(Error)
           /\ UNCHANGED <<exists, file, proc, meta, freelist, root, op, page, path,
                          node, index, ancestors, level>>
  <2>1. TypeOK'
    BY <1>1, <1>3 DEF TypeOK, ReturnWith
  <2>2. StepOK' /\ SearchOK' /\ CopiesOK' /\ BoundsOK'
    BY <1>1, <1>3, ReturnStep DEF ReturnWith
  <2> QED
    BY <1>1, <1>3, <2>1, <2>2, MemoryStep
<1> QED
  BY <1>2, <1>3 DEF ReadFails

\* The search ends in a tree only, and at a node of it.
LEMMA AtEndOfSearch ==
  ASSUME IInv, StopSearch
  PROVE  LET n == get_node(file, page)
             i == KeyPosition(n, op.key)
         IN  /\ root # 0 /\ LeadsTo(file, Session, path, root, page)
             /\ node' = n /\ index' = i
             /\ page \in Session /\ n \in NodesOf(Session) /\ n.page = page /\ n \in Nodes
             /\ i \in Nat /\ i \in 1 .. Len(n.items) + 1
             /\ find_key_in_node(n, op.key).found => i \in 1 .. Len(n.items) /\ n.items[i] \in Item
             /\ find_key_in_node(n, op.key).position = i
             /\ ~is_leaf(n) => Len(n.children) = Len(n.items) + 1
             /\ \A j \in 1 .. Len(n.children) :
                  /\ j \in Nat /\ n.children[j] \in Session
                  /\ LeadsTo(file, Session, Append(path, j), root, n.children[j])
<1> DEFINE n == get_node(file, page)
           i == KeyPosition(n, op.key)
           found == find_key_in_node(n, op.key).found
<1>1. (At("find") \/ At("verify")) /\ page \in DOMAIN file
  BY DEF StopSearch, Searching, Readable
<1>2. /\ PagesOK(file) /\ HeaderOK(file)
      /\ Session \subseteq Nat /\ StoredIn(file, Session, Session)
      /\ root # 0 => LeadsTo(file, Session, path, root, page)
      /\ root = 0 => page \in {META_PAGE, FarPage}
      /\ path \in Seq(Nat)
  BY <1>1, AtSearch
<1>3. /\ found \/ is_leaf(n)
      /\ find_key_in_node(n, op.key).position = i
      /\ node' = n /\ index' = i
      /\ found => i <= Len(n.items)
  BY DEF StopSearch, find_key_in_node
<1>4. root # 0
  <2>1. SUFFICES ASSUME root = 0 PROVE FALSE
    OBVIOUS
  <2>2. i = 1 /\ Len(n.items) = 0 /\ ~is_leaf(n)
    BY <1>1, <1>2, <2>1, SearchOfNoTree
  <2> QED
    BY <1>3, <2>2
<1>5. /\ page \in Session /\ n \in NodesOf(Session) /\ n.page = page
      /\ i \in 1 .. Len(n.items) + 1
      /\ \A j \in 1 .. Len(n.children) :
           /\ j \in Nat /\ n.children[j] \in Session
           /\ LeadsTo(file, Session, Append(path, j), root, n.children[j])
      /\ ~is_leaf(n) => Len(n.children) = Len(n.items) + 1
  BY <1>2, <1>4, SearchIsAtNode
<1>6. n.items \in Seq(Item) /\ n \in Nodes
  BY <1>2, <1>5, NodesOfTypes, NodesOfAreNodes
<1> HIDE DEF n, i, found
<1>7. i \in Nat /\ (found => i \in 1 .. Len(n.items) /\ n.items[i] \in Item)
  <2>1. Len(n.items) \in Nat
    BY <1>6, LenProperties
  <2>2. found => i \in 1 .. Len(n.items)
    BY <1>3, <1>5, <2>1
  <2> QED
    BY <1>5, <1>6, <2>2, ElementOfSeq
<1> QED
  BY <1>2, <1>3, <1>4, <1>5, <1>6, <1>7 DEF n, i, found

LEMMA StopSearchStep ==
  ASSUME IInv, StopSearch
  PROVE  IInv'
<1> DEFINE n == get_node(file, page)
           i == KeyPosition(n, op.key)
           found == find_key_in_node(n, op.key).found
<1>1. /\ TypeOK /\ SessionOK /\ proc = "running" /\ pc \in {"find", "verify"}
      /\ op \in Operation /\ path \in Seq(Nat) /\ Session \subseteq Nat
      /\ pc = "verify" => op.kind = "remove"
  <2>1. At("find") \/ At("verify")
    BY DEF StopSearch, Searching
  <2> QED
    BY <2>1, AtSearch
<1>2. /\ root # 0 /\ LeadsTo(file, Session, path, root, page)
      /\ node' = n /\ index' = i
      /\ page \in Session /\ n \in NodesOf(Session) /\ n.page = page /\ n \in Nodes
      /\ i \in Nat /\ i \in 1 .. Len(n.items) + 1
      /\ found => i \in 1 .. Len(n.items) /\ n.items[i] \in Item
      /\ find_key_in_node(n, op.key).position = i
      /\ ~is_leaf(n) => Len(n.children) = Len(n.items) + 1
      /\ \A j \in 1 .. Len(n.children) :
           /\ j \in Nat /\ n.children[j] \in Session
           /\ LeadsTo(file, Session, Append(path, j), root, n.children[j])
  BY AtEndOfSearch
<1>3. UNCHANGED <<exists, file, proc, stream, meta, freelist, root, op, ancestors, level,
                  sessions, faults>>
  BY DEF StopSearch, dal_vars, bounds
<1>4. Session' = Session
  BY <1>3 DEF Session, Allocated
<1>5. found => Found(n.items[i].value) \in {Found(v) : v \in Value}
  BY <1>2 DEF Item
<1>6. \/ /\ pc' = "return"
         /\ result' \in {Ok, Absent, Missing} \union {Found(v) : v \in Value}
         /\ UNCHANGED <<page, path>>
      \/ /\ pc = "find" /\ op.kind = "put" /\ pc' = "insert"
         /\ UNCHANGED <<page, path, result>>
      \/ /\ pc = "find" /\ op.kind = "remove" /\ found /\ is_leaf(n) /\ pc' = "remove"
         /\ UNCHANGED <<page, path, result>>
      \/ /\ pc = "find" /\ op.kind = "remove" /\ found /\ ~is_leaf(n) /\ pc' = "predecessor"
         /\ page' = n.children[i] /\ path' = Append(path, i)
         /\ UNCHANGED result
  BY <1>1, <1>2, <1>5 DEF StopSearch, At, ReturnWith
<1> HIDE DEF n, i, found
<1>7. CASE /\ pc' = "return"
           /\ result' \in {Ok, Absent, Missing} \union {Found(v) : v \in Value}
           /\ UNCHANGED <<page, path>>
  <2>1. TypeOK'
    BY <1>1, <1>2, <1>3, <1>7 DEF TypeOK
  <2>2. StepOK' /\ SearchOK' /\ CopiesOK' /\ BoundsOK'
    BY <1>1, <1>3, <1>7, ReturnStep
  <2> QED
    BY <1>1, <1>3, <2>1, <2>2, MemoryStep
<1>8. CASE /\ pc = "find" /\ op.kind = "put" /\ pc' = "insert"
           /\ UNCHANGED <<page, path, result>>
  <2>1. TypeOK'
    BY <1>1, <1>2, <1>3, <1>8 DEF TypeOK
  <2>2. StepOK' /\ CopiesOK' /\ BoundsOK'
    BY <1>1, <1>2, <1>3, <1>8 DEF SessionOK, StepOK, CopiesOK, BoundsOK
  <2>3. SearchOK'
    BY <1>2, <1>3, <1>4, <1>8 DEF SearchOK, PathOK, n
  <2> QED
    BY <1>1, <1>3, <2>1, <2>2, <2>3, MemoryStep
<1>9. CASE /\ pc = "find" /\ op.kind = "remove" /\ found /\ is_leaf(n) /\ pc' = "remove"
           /\ UNCHANGED <<page, path, result>>
  <2>1. TypeOK'
    BY <1>1, <1>2, <1>3, <1>9 DEF TypeOK
  <2>2. StepOK' /\ CopiesOK' /\ BoundsOK'
    BY <1>1, <1>2, <1>3, <1>9 DEF SessionOK, StepOK, CopiesOK, BoundsOK
  <2>3. SearchOK'
    BY <1>2, <1>3, <1>4, <1>9 DEF SearchOK, PathOK, n
  <2> QED
    BY <1>1, <1>3, <2>1, <2>2, <2>3, MemoryStep
<1>10. CASE /\ pc = "find" /\ op.kind = "remove" /\ found /\ ~is_leaf(n) /\ pc' = "predecessor"
            /\ page' = n.children[i] /\ path' = Append(path, i)
            /\ UNCHANGED result
  <2>1. i \in 1 .. Len(n.children)
    <3>1. Len(n.items) \in Nat
      BY <1>2, NodesOfTypes, LenProperties
    <3> QED
      BY <1>2, <1>10, <3>1
  <2>2. page' \in Session /\ LeadsTo(file, Session, path', root, page')
    BY <1>2, <1>10, <2>1
  <2>3. path' \in Seq(Nat) /\ path' # <<>> /\ page' \in Nat
    <3>1. path' \in Seq(Nat) /\ Len(path') = Len(path) + 1 /\ Len(path) \in Nat
      BY <1>1, <1>2, <1>10, AppendProperties, LenProperties
    <3>2. path' # <<>>
      BY <3>1
    <3> QED
      BY <1>1, <2>2, <3>1, <3>2
  <2>4. TypeOK'
    BY <1>1, <1>2, <1>3, <1>10, <2>3 DEF TypeOK
  <2>5. StepOK' /\ CopiesOK' /\ BoundsOK'
    BY <1>1, <1>2, <1>3, <1>10 DEF SessionOK, StepOK, CopiesOK, BoundsOK
  <2>6. SearchOK'
    BY <1>2, <1>3, <1>4, <1>10, <2>2, <2>3 DEF SearchOK, PathOK, n
  <2> QED
    BY <1>1, <1>3, <2>4, <2>5, <2>6, MemoryStep
<1> QED
  BY <1>6, <1>7, <1>8, <1>9, <1>10

LEMMA DescendToPredecessorStep ==
  ASSUME IInv, DescendToPredecessor
  PROVE  IInv'
<1> DEFINE n == get_node(file, page)
           i == Len(n.children)
<1>1. /\ TypeOK /\ SessionOK /\ proc = "running" /\ pc = "predecessor" /\ path \in Seq(Nat)
  BY DEF IInv, DescendToPredecessor, At, TypeOK
<1>2. NodePages(file, Session) /\ StoredIn(file, Session, Session)
  BY <1>1, PagesOfSession DEF SessionOK, IInv
<1>3. root # 0 /\ LeadsTo(file, Session, path, root, page)
  BY <1>1 DEF SessionOK, StepOK, SearchOK, PathOK
<1>4. /\ ~is_leaf(n) /\ page' = Last(n.children) /\ path' = Append(path, i)
      /\ UNCHANGED <<exists, file, proc, stream, meta, freelist, root, pc, op, node, index,
                     ancestors, level, result, sessions, faults>>
  BY DEF DescendToPredecessor, dal_vars, bounds
<1>5. /\ n \in NodesOf(Session)
      /\ \A j \in 1 .. Len(n.children) :
           /\ j \in Nat /\ n.children[j] \in Session
           /\ LeadsTo(file, Session, Append(path, j), root, n.children[j])
  BY <1>1, <1>2, <1>3, SearchIsAtNode
<1>6. page' = n.children[i] /\ i \in 1 .. Len(n.children)
  <2>1. n.children \in Seq(Session) /\ n.children # <<>>
    BY <1>4, <1>5, NodesOfTypes DEF is_leaf
  <2> HIDE DEF n
  <2>2. Len(n.children) \in Nat \ {0} /\ Last(n.children) = n.children[Len(n.children)]
    BY <2>1, FrontProperties
  <2> QED
    BY <1>4, <2>2
<1> HIDE DEF n, i
<1>7. page' \in Session /\ i \in Nat /\ LeadsTo(file, Session, path', root, page')
  BY <1>4, <1>5, <1>6
<1>8. page' \in Nat
  BY <1>2, <1>7 DEF NodePages
<1>9. path' \in Seq(Nat) /\ Len(path') = Len(path) + 1 /\ Len(path) \in Nat
  BY <1>1, <1>4, <1>7, AppendProperties, LenProperties
<1>10. path' # <<>>
  BY <1>9
<1>11. TypeOK'
  BY <1>1, <1>4, <1>8, <1>9 DEF TypeOK
<1>12. StepOK' /\ CopiesOK' /\ BoundsOK'
  BY <1>1, <1>4 DEF SessionOK, StepOK, CopiesOK, BoundsOK
<1>13. Session' = Session
  BY <1>4 DEF Session, Allocated
<1>14. SearchOK'
  BY <1>1, <1>4, <1>7, <1>10, <1>13 DEF SessionOK, SearchOK, PathOK
<1> QED
  BY <1>1, <1>4, <1>11, <1>12, <1>14, MemoryStep
-----------------------------------------------------------------------------
\* Steps on the copies of the nodes.

LEMMA KeepRootStep ==
  ASSUME IInv, KeepRoot
  PROVE  IInv'
<1>1. TypeOK /\ SessionOK /\ proc = "running" /\ pc = "split"
  BY DEF IInv, KeepRoot, At
<1>2. /\ UNCHANGED <<exists, file, proc, stream, meta, freelist, root, op, page, path, node,
                     index, ancestors, level, sessions, faults>>
      /\ pc' = "return" /\ result' = Ok
  BY DEF KeepRoot, dal_vars, bounds, ReturnWith
<1>3. TypeOK'
  BY <1>1, <1>2 DEF TypeOK
<1>4. StepOK' /\ SearchOK' /\ CopiesOK' /\ BoundsOK'
  BY <1>1, <1>2, ReturnStep
<1> QED
  BY <1>1, <1>2, <1>3, <1>4, MemoryStep

LEMMA KeepChildStep ==
  ASSUME IInv, KeepChild
  PROVE  IInv'
<1>1. TypeOK /\ SessionOK /\ proc = "running" /\ pc \in {"split", "rebalance"} /\ level > 0
  BY DEF IInv, KeepChild, At
<1>2. /\ UNCHANGED <<exists, file, proc, stream, meta, freelist, root, pc, op, page, path,
                     node, index, ancestors, result, sessions, faults>>
      /\ level' = level - 1
  BY DEF KeepChild, dal_vars, bounds
<1>3. Len(path) \in Nat /\ level \in 0 .. Len(path) /\ freelist.max_page \in Nat
  <2>1. path \in Seq(Nat)
    BY <1>1 DEF TypeOK
  <2> QED
    BY <1>1, <2>1, LenProperties DEF TypeOK, Freelists, SessionOK, CopiesOK
<1>4. level' \in 0 .. Len(path)
  BY <1>1, <1>2, <1>3
<1>5. TypeOK'
  BY <1>1, <1>2, <1>4 DEF TypeOK
<1>6. StepOK' /\ SearchOK'
  BY <1>1, <1>2 DEF SessionOK, StepOK, SearchOK
<1>7. Session' = Session
  BY <1>2 DEF Session, Allocated
<1>8. CopiesOK'
  BY <1>1, <1>2, <1>4, <1>7 DEF SessionOK, CopiesOK
<1>9. BoundsOK'
  BY <1>1, <1>2, <1>3, CollectionAssumption DEF SessionOK, BoundsOK
<1> QED
  BY <1>1, <1>2, <1>5, <1>6, <1>8, <1>9, MemoryStep

LEMMA ShrinkRootStep ==
  ASSUME IInv, ShrinkRoot
  PROVE  IInv'
<1>1. TypeOK /\ SessionOK /\ proc = "running" /\ pc = "rebalance"
  BY DEF IInv, ShrinkRoot, At
<1>2. /\ UNCHANGED <<exists, file, proc, stream, meta, freelist, op, node,
                     index, ancestors, level, result, sessions, faults>>
      /\ root' = IF ancestors[1].items = <<>> /\ ~is_leaf(ancestors[1])
                 THEN ancestors[2].page ELSE root
      /\ page' = root' /\ path' = <<>> /\ pc' = "verify"
  BY DEF ShrinkRoot, dal_vars, bounds
<1>3. NodePages(file, Session) /\ StoredIn(file, Session, Session)
  BY <1>1, PagesOfSession DEF SessionOK, IInv
<1>4. root \in Session
  BY <1>1 DEF SessionOK, StepOK, PagesHeld
<1>5. ~is_leaf(ancestors[1]) => ancestors[2].page \in Session
  <2>1. SUFFICES ASSUME ~is_leaf(ancestors[1]) PROVE ancestors[2].page \in Session
    OBVIOUS
  <2>2. /\ path # <<>> /\ ancestors \in Seq(NodesOf(Session))
        /\ Len(ancestors) = Len(path) + 1
    BY <1>1, <2>1 DEF SessionOK, CopiesOK
  <2>3. Len(path) \in Nat /\ Len(path) # 0
    <3>1. path \in Seq(Nat)
      BY <1>1 DEF TypeOK
    <3> QED
      BY <2>2, <3>1, LenProperties, EmptySeq
  <2>4. 2 \in 1 .. Len(ancestors)
    BY <2>2, <2>3
  <2>5. ancestors[2] \in NodesOf(Session)
    BY <2>2, <2>4, ElementOfSeq
  <2> QED
    BY <2>5, NodesOfTypes
<1>6. root' \in Session
  BY <1>2, <1>4, <1>5
<1>7. root' \in Nat /\ root' # 0
  BY <1>3, <1>6 DEF NodePages
<1>8. TypeOK'
  BY <1>1, <1>2, <1>7 DEF TypeOK
<1>9. StepOK' /\ CopiesOK' /\ BoundsOK'
  BY <1>1, <1>2, <1>7 DEF SessionOK, StepOK, CopiesOK, BoundsOK
<1>10. Session' = Session
  BY <1>2 DEF Session, Allocated
<1>11. SearchOK'
  <2>1. LeadsTo(file, Session, <<>>, root', root')
    BY <1>6, PathOfRoot
  <2>2. PathOK'
    BY <1>2, <1>10, <2>1 DEF PathOK
  <2> QED
    BY <1>2, <2>2 DEF SearchOK
<1> QED
  BY <1>1, <1>2, <1>6, <1>8, <1>9, <1>11, MemoryStep
-----------------------------------------------------------------------------
\* Pages for new nodes.

\* The freelist gives out a page it was given back, or the one after the highest.
LEMMA PageGiven ==
  ASSUME NEW fl \in Freelists, NEW m \in Nat, m <= fl.max_page,
         NEW S, S \subseteq m + 1 .. fl.max_page, ToSet(fl.released_pages) \subseteq S,
         NEW g, g = get_next_page(fl)
  PROVE  /\ g \in Freelists /\ g.max_page \in fl.max_page .. fl.max_page + 1
         /\ next_page(fl) \in m + 1 .. g.max_page
         /\ S \subseteq m + 1 .. g.max_page
         /\ ToSet(g.released_pages) \subseteq S
<1> DEFINE r == fl.released_pages
<1>1. fl.max_page \in Nat /\ r \in Seq(Nat)
  BY DEF Freelists
<1>2. CASE r = <<>>
  <2>1. g = [fl EXCEPT !.max_page = @ + 1] /\ next_page(fl) = fl.max_page + 1
    BY <1>2 DEF get_next_page, next_page
  <2>2. g \in Freelists /\ g.max_page = fl.max_page + 1 /\ g.released_pages = r
    BY <1>1, <2>1 DEF Freelists
  <2> QED
    BY <1>1, <2>1, <2>2
<1>3. CASE r # <<>>
  <2>1. g = [fl EXCEPT !.released_pages = SubSeq(@, 1, Len(@) - 1)]
        /\ next_page(fl) = r[Len(r)]
    BY <1>3 DEF get_next_page, next_page
  <2>2. Len(r) \in Nat \ {0}
    BY <1>1, <1>3, LenProperties, EmptySeq
  <2>3. 1 \in Nat \ {0} /\ Len(r) - 1 \in 0 .. Len(r) /\ 1 <= (Len(r) - 1) + 1
    BY <2>2
  <2> DEFINE s == SubSeq(r, 1, Len(r) - 1)
  <2>4. /\ s \in Seq(Nat) /\ Len(s) = Len(r) - 1 - 1 + 1
        /\ \A i \in 1 .. Len(r) - 1 - 1 + 1 : s[i] = r[1 + i - 1]
    BY <1>1, <2>3, Slice
  <2>5. g \in Freelists /\ g.max_page = fl.max_page /\ g.released_pages = s
    BY <1>1, <2>1, <2>4 DEF Freelists
  <2> HIDE DEF s
  <2>6. \A i \in 1 .. Len(s) : s[i] = r[i] /\ i \in 1 .. Len(r)
    BY <2>2, <2>4
  <2>7. ToSet(s) = {s[i] : i \in 1 .. Len(s)} /\ ToSet(r) = {r[i] : i \in 1 .. Len(r)}
    BY <1>1, <2>4, ToSetOfSeq
  <2>8. ToSet(s) \subseteq ToSet(r)
    BY <2>6, <2>7
  <2>9. r[Len(r)] \in ToSet(r)
    BY <2>2, <2>7
  <2> HIDE DEF r
  <2>10. fl.max_page \in fl.max_page .. fl.max_page + 1
    BY <1>1
  <2>11. next_page(fl) \in S
    BY <2>1, <2>9 DEF r
  <2>12. ToSet(g.released_pages) \subseteq S
    BY <2>5, <2>8 DEF r
  <2> QED
    BY <2>5, <2>10, <2>11, <2>12
<1> QED
  BY <1>2, <1>3

\* Pages the collection gives back.
LEMMA PageReleased ==
  ASSUME NEW fl \in Freelists, NEW p \in Nat, NEW g, g = release_page(fl, p)
  PROVE  /\ g \in Freelists /\ g.max_page = fl.max_page
         /\ ToSet(g.released_pages) = ToSet(fl.released_pages) \union {p}
<1> DEFINE r == fl.released_pages
           s == Append(r, p)
<1>1. r \in Seq(Nat)
  BY DEF Freelists
<1>2. s \in Seq(Nat) /\ Len(s) = Len(r) + 1 /\ s[Len(r) + 1] = p
      /\ \A i \in 1 .. Len(r) : s[i] = r[i]
  BY <1>1, AppendProperties
<1>3. g \in Freelists /\ g.max_page = fl.max_page /\ g.released_pages = s
  BY <1>2 DEF release_page, Freelists
<1> HIDE DEF s
<1>4. ToSet(s) = {s[i] : i \in 1 .. Len(s)} /\ ToSet(r) = {r[i] : i \in 1 .. Len(r)}
  BY <1>1, <1>2, ToSetOfSeq
<1>5. Len(r) \in Nat
  BY <1>1, LenProperties
<1>6. \A i : i \in 1 .. Len(r) + 1 <=> i \in 1 .. Len(r) \/ i = Len(r) + 1
  BY <1>5
<1>7. ToSet(s) = ToSet(r) \union {p}
  BY <1>2, <1>4, <1>6
<1> QED
  BY <1>3, <1>7
-----------------------------------------------------------------------------
\* Steps that write.

LEMMA WritingStep ==
  ASSUME IInv, proc = "running",
         NEW T, Session \subseteq T, T \subseteq Allocated',
         NEW nodes \in Seq(NodesOver(T, T)),
         T \subseteq Session \union {nodes[i].page : i \in 1 .. Len(nodes)},
         file' = Written(file, nodes), UNCHANGED <<exists, proc, meta>>,
         freelist' \in Freelists, freelist'.max_page \in freelist.max_page .. PageBound,
         Released' \subseteq T, root' \in T \union {0}
  PROVE  /\ PagesOK(file') /\ HeaderOK(file') /\ ProcessOK'
         /\ HeaderLoaded' /\ PagesHeld'
         /\ T \subseteq Session' /\ StoredIn(file', T, T)
         /\ HeaderKept(file, file')
<1>1. /\ TypeOK /\ PagesOK(file) /\ HeaderOK(file) /\ ProcessOK /\ SessionOK
  BY DEF IInv
<1>2. NodePages(file, Session) /\ StoredIn(file, Session, Session)
  BY <1>1, PagesOfSession DEF SessionOK
<1>3. /\ META_PAGE \in DOMAIN file
      /\ meta.freelist_page = IF file[META_PAGE] = Hole THEN 0 ELSE 1
  BY <1>1 DEF SessionOK, HeaderLoaded, NoMeta, FirstMeta
<1>4. NodePages(file, T)
  <2>1. freelist'.max_page \in Nat
    BY DEF Freelists
  <2>2. Allocated' = meta.freelist_page + 1 .. freelist'.max_page
    BY DEF Allocated
  <2>3. Allocated' \subseteq 1 .. PageBound
    BY <1>3, <2>1, <2>2, PageBoundNat
  <2>4. file[META_PAGE] # Hole => 1 \notin Allocated'
    BY <1>3, <2>2
  <2> QED
    BY <2>3, <2>4 DEF NodePages
<1>5. PagesOK(file') /\ HeaderOK(file') /\ HeaderKept(file, file')
  BY <1>1, <1>4, WritingKeepsFile
<1>6. StoredIn(file', T, T)
  <2>1. StoredNodes(Session) \subseteq StoredNodes(T)
    BY StoredNodesMonotonic
  <2>2. StoredIn(file, Session, T)
    BY <1>2, <2>1 DEF StoredIn
  <2>3. StoredIn(file', Session \union {nodes[i].page : i \in 1 .. Len(nodes)}, T)
    BY <1>1, <1>4, <2>2, WritingStores
  <2> QED
    BY <2>3 DEF StoredIn
<1>7. T \subseteq Session'
  BY <1>6, LargestClosedHasClosed DEF Session
<1>8. HeaderLoaded'
  BY <1>1, <1>3, <1>5 DEF SessionOK, HeaderLoaded, HeaderKept
<1>9. PagesHeld'
  <2>1. freelist.max_page \in Nat /\ meta.freelist_page \in Nat /\ freelist.max_page >= meta.freelist_page
    BY <1>1, <1>3 DEF TypeOK, Freelists, SessionOK, PagesHeld
  <2>2. freelist'.max_page \in meta'.freelist_page .. PageBound
    BY <2>1, PageBoundNat
  <2> QED
    BY <1>7, <2>2 DEF PagesHeld
<1>10. ProcessOK'
  BY <1>1 DEF ProcessOK
<1> QED
  BY <1>5, <1>6, <1>7, <1>8, <1>9, <1>10

LEMMA NothingWritten ==
  ASSUME NEW f
  PROVE  Written(f, <<>>) = f
<1>1. Len(<<>>) \in Nat /\ Len(<<>>) = 0
  OBVIOUS
<1>2. PICK h : IsHistory(f, <<>>, h) /\ Written(f, <<>>) = h[Len(<<>>)]
  BY <1>1, WrittenIsLast
<1>3. h[0] = f
  BY <1>1, <1>2 DEF IsHistory
<1> QED
  BY <1>1, <1>2, <1>3

LEMMA Running ==
  ASSUME IInv, proc = "running"
  PROVE  /\ TypeOK /\ PagesOK(file) /\ HeaderOK(file) /\ ProcessOK /\ SessionOK
         /\ HeaderLoaded /\ PagesHeld /\ StepOK /\ SearchOK /\ CopiesOK /\ BoundsOK
         /\ Session \subseteq Allocated /\ Session \subseteq Nat \ {0}
         /\ StoredIn(file, Session, Session) /\ NodePages(file, Session)
         /\ path \in Seq(Nat) /\ Len(path) \in Nat
         /\ freelist \in Freelists /\ freelist.max_page \in Nat
<1>1. /\ TypeOK /\ PagesOK(file) /\ HeaderOK(file) /\ ProcessOK /\ SessionOK
  BY DEF IInv
<1>2. HeaderLoaded /\ PagesHeld /\ StepOK /\ SearchOK /\ CopiesOK /\ BoundsOK
  BY <1>1 DEF SessionOK
<1>3. /\ Session \subseteq Allocated
      /\ StoredIn(file, Session, Session) /\ NodePages(file, Session)
  BY <1>1, <1>2, PagesOfSession
<1>4. Session \subseteq Nat \ {0}
  BY <1>3 DEF NodePages
<1>5. path \in Seq(Nat) /\ freelist \in Freelists /\ freelist.max_page \in Nat
  BY <1>1 DEF TypeOK, Freelists
<1> QED
  BY <1>1, <1>2, <1>3, <1>4, <1>5, LenProperties

\* The next page, and the freelist without it.
LEMMA NextPageGiven ==
  ASSUME IInv, proc = "running", NEW g, g = get_next_page(freelist)
  PROVE  /\ g \in Freelists /\ g.max_page \in freelist.max_page .. freelist.max_page + 1
         /\ Session \union {next_page(freelist)} \subseteq meta.freelist_page + 1 .. g.max_page
         /\ ToSet(g.released_pages) \subseteq Session
<1>1. /\ TypeOK /\ PagesHeld /\ Session \subseteq Allocated
      /\ freelist \in Freelists /\ freelist.max_page \in Nat
  BY Running
<1>2. meta.freelist_page \in Nat /\ meta.freelist_page <= freelist.max_page
  BY <1>1 DEF TypeOK, PagesHeld
<1>3. Session \subseteq meta.freelist_page + 1 .. freelist.max_page
  BY <1>1 DEF Allocated
<1>4. ToSet(freelist.released_pages) \subseteq Session
  BY <1>1 DEF PagesHeld, Released
<1>5. /\ g \in Freelists /\ g.max_page \in freelist.max_page .. freelist.max_page + 1
      /\ next_page(freelist) \in meta.freelist_page + 1 .. g.max_page
      /\ Session \subseteq meta.freelist_page + 1 .. g.max_page
      /\ ToSet(g.released_pages) \subseteq Session
  BY <1>1, <1>2, <1>3, <1>4, PageGiven
<1> QED
  BY <1>5

LEMMA FileTypes ==
  ASSUME NEW f, PagesOK(f)
  PROVE  DOMAIN f \subseteq Nat /\ \A p \in DOMAIN f : f[p] \in PageContent
BY PageBoundNat DEF PagesOK

\* The first put writes a leaf to a page of its own, or nothing.
LEMMA FirstPutStep ==
  ASSUME IInv, At("create"),
         NEW done, done \in {<<>>, PendingWrites}, file' = Written(file, done),
         freelist' = get_next_page(freelist),
         root' \in {root} \union (IF done = <<>> THEN {} ELSE {next_page(freelist)}),
         stream' \in {"good", "failed", "closed"}, faults' \in 0 .. MaxFaults,
         pc' = "return", result' \in {Ok, Error},
         UNCHANGED <<exists, proc, meta, op, page, path, node, index, ancestors, level, sessions>>
  PROVE  IInv'
<1> DEFINE p == next_page(freelist)
           leaf == [page |-> p, items |-> <<NewItem>>, children |-> <<>>]
           T == Session \union (IF done = <<>> THEN {} ELSE {p})
<1>1. proc = "running" /\ pc = "create"
  BY DEF At
<1>2. /\ TypeOK /\ SessionOK /\ StepOK /\ BoundsOK /\ Session \subseteq Nat \ {0}
      /\ freelist.max_page \in Nat
  BY <1>1, Running
<1>3. op \in Operation /\ op.kind = "put" /\ root = 0 /\ freelist.max_page < MaxPages
  BY <1>1, <1>2 DEF StepOK, BoundsOK
<1>4. /\ freelist' \in Freelists /\ freelist'.max_page \in freelist.max_page .. freelist.max_page + 1
      /\ Session \union {p} \subseteq Allocated'
      /\ Released' \subseteq Session
  BY <1>1, NextPageGiven DEF Allocated, Released
<1>5. NewItem \in Item
  BY <1>3, OperationKinds DEF NewItem, Item
<1>6. PendingWrites = <<leaf>>
  BY <1>1 DEF PendingWrites
<1> HIDE DEF p
<1>7. leaf \in NodesOver({p}, T)
  BY <1>5 DEF NodesOver
<1>8. done \in Seq(NodesOver(T, T)) /\ T \subseteq Session \union {done[i].page : i \in 1 .. Len(done)}
  <2>1. CASE done = <<>>
    BY <2>1
  <2>2. CASE done # <<>>
    <3>1. leaf \in NodesOver(T, T)
      BY <1>7, <2>2 DEF NodesOver
    <3>2. leaf.page = p /\ T = Session \union {p}
      BY <2>2
    <3> HIDE DEF leaf, T
    <3>3. done = <<leaf>>
      BY <1>6, <2>2
    <3>4. done \in Seq(NodesOver(T, T)) /\ Len(done) = 1 /\ done[1] = leaf
      BY <3>1, <3>3, OneElement
    <3>5. done[1].page = p /\ 1 \in 1 .. Len(done)
      BY <3>2, <3>4
    <3> QED
      BY <3>2, <3>4, <3>5
  <2> QED
    BY <2>1, <2>2
<1>9. freelist'.max_page \in freelist.max_page .. PageBound
  BY <1>2, <1>3, <1>4, CollectionAssumption DEF PageBound
<1>10. Session \subseteq T /\ T \subseteq Allocated' /\ Released' \subseteq T /\ root' \in T \union {0}
  BY <1>3, <1>4 DEF p
<1> HIDE DEF leaf, T
<1>11. /\ PagesOK(file') /\ HeaderOK(file') /\ ProcessOK'
       /\ HeaderLoaded' /\ PagesHeld'
  BY <1>1, <1>4, <1>8, <1>9, <1>10, WritingStep
<1>12. root' \in Nat
  <2>1. Allocated' \subseteq Nat
    BY <1>2 DEF Allocated, TypeOK
  <2> QED
    BY <1>10, <2>1
<1>13. TypeOK'
  BY <1>2, <1>4, <1>11, <1>12, FileTypes DEF TypeOK
<1>14. StepOK' /\ SearchOK' /\ CopiesOK' /\ BoundsOK'
  BY <1>1, <1>2, ReturnStep
<1>15. SessionOK'
  BY <1>11, <1>14 DEF SessionOK
<1> QED
  BY <1>11, <1>13, <1>15 DEF IInv

LEMMA CreateRootStep ==
  ASSUME IInv, CreateRoot
  PROVE  IInv'
<1>1. /\ At("create") /\ file' = Written(file, PendingWrites) /\ stream' = "good"
      /\ freelist' = get_next_page(freelist) /\ root' = next_page(freelist)
      /\ pc' = "return" /\ result' = Ok /\ UNCHANGED faults
      /\ UNCHANGED <<exists, proc, meta, op, page, path, node, index, ancestors, level, sessions>>
  BY DEF CreateRoot, Write, ReturnWith, bounds
<1>2. PendingWrites # <<>>
  BY <1>1 DEF At, PendingWrites
<1>3. faults' \in 0 .. MaxFaults
  BY <1>1 DEF IInv, TypeOK
<1> QED
  BY <1>1, <1>2, <1>3, FirstPutStep

LEMMA CreateRootFailsStep ==
  ASSUME IInv, CreateRootFails
  PROVE  IInv'
<1>1. /\ At("create") /\ file' = file
      /\ freelist' = get_next_page(freelist) /\ root' = root
      /\ pc' = "return" /\ result' = Error /\ UNCHANGED <<stream, faults>>
      /\ UNCHANGED <<exists, proc, meta, op, page, path, node, index, ancestors, level, sessions>>
  BY DEF CreateRootFails, ReturnWith, bounds
<1>2. file' = Written(file, <<>>)
  BY <1>1, NothingWritten
<1>3. faults' \in 0 .. MaxFaults /\ stream' \in {"good", "failed", "closed"}
  BY <1>1 DEF IInv, TypeOK
<1> QED
  BY <1>1, <1>2, <1>3, FirstPutStep
-----------------------------------------------------------------------------
\* Steps that write nodes of the session and keep their children.

\* The children of a node are the first children of what its page holds.
LEMMA StoredChildren ==
  ASSUME NEW P, NEW S, NEW n \in NodesOver(P, S), Len(n.children) <= Len(n.items) + 1
  PROVE  \A j \in 1 .. Len(n.children) :
           j \in 1 .. Len(Stored(n).children) /\ Stored(n).children[j] = n.children[j]
<1> DEFINE c == Len(n.children)
           m == Len(n.items)
           cs == [i \in 1 .. m + 1 |->
                    IF i \in 1 .. m \intersect DOMAIN n.children
                    THEN n.children[i] ELSE Last(n.children)]
<1>1. SUFFICES ASSUME NEW j \in 1 .. c
               PROVE  j \in 1 .. Len(Stored(n).children) /\ Stored(n).children[j] = n.children[j]
  OBVIOUS
<1>2. n.items \in Seq(Item) /\ n.children \in Seq(S)
  BY DEF NodesOver
<1>3. c \in Nat /\ m \in Nat /\ DOMAIN n.children = 1 .. c /\ c <= m + 1
  BY <1>2, LenProperties
<1>4. n.children # <<>>
  BY <1>1, <1>3
<1>5. Stored(n).children = cs
  BY <1>4 DEF Stored, is_leaf
<1>6. Last(n.children) = n.children[c]
  BY <1>2, <1>4, FrontProperties
<1>7. j \in 1 .. m + 1 /\ cs[j] = n.children[j]
  <2>1. j \in 1 .. m + 1
    BY <1>1, <1>3
  <2>2. CASE j \in 1 .. m
    BY <1>1, <1>3, <2>1, <2>2
  <2>3. CASE j \notin 1 .. m
    <3>1. j = c /\ j = m + 1
      BY <1>1, <1>3, <2>1, <2>3
    <3>2. cs[j] = Last(n.children)
      BY <2>1, <2>3
    <3> QED
      BY <1>6, <2>1, <3>1, <3>2
  <2> QED
    BY <2>2, <2>3
<1>8. Len(cs) = m + 1
  BY <1>3
<1> HIDE DEF cs
<1> QED
  BY <1>5, <1>7, <1>8

\* A node to be written that has the children its page has now.
KeepsItsChildren(n) ==
  n.children = file[n.page].children /\ Len(n.children) <= Len(n.items) + 1

\* Such writes leave the tree and the path as they are; the copies of the path's
\* nodes are taken from the new file.
LEMMA ItemsWritten ==
  ASSUME IInv, proc = "running", root # 0, PathOK,
         NEW done \in Seq(NodesOver(Session, Session)),
         \A i \in 1 .. Len(done) : KeepsItsChildren(done[i]),
         file' = Written(file, done), UNCHANGED <<exists, proc, meta, freelist, root>>
  PROVE  /\ PagesOK(file') /\ HeaderOK(file') /\ ProcessOK'
         /\ HeaderLoaded' /\ PagesHeld'
         /\ IsCopyOfPath(Session', path, root, get_nodes(file', root, path))
         /\ get_nodes(file', root, path)[Len(path) + 1] = get_node(file', page)
         /\ Session' \subseteq Nat /\ page \in Session'
<1>1. /\ TypeOK /\ PagesOK(file) /\ HeaderOK(file) /\ PagesHeld
      /\ Session \subseteq Allocated
      /\ StoredIn(file, Session, Session) /\ NodePages(file, Session)
      /\ path \in Seq(Nat)
      /\ freelist \in Freelists /\ freelist.max_page \in Nat
  BY Running
<1>2. freelist.max_page \in freelist.max_page .. PageBound
  BY <1>1, PageBoundNat DEF PagesHeld
<1>3. Released' \subseteq Session /\ root' \in Session \union {0} /\ Allocated' = Allocated
  BY <1>1 DEF PagesHeld, Released, Allocated
<1>4. /\ PagesOK(file') /\ HeaderOK(file') /\ ProcessOK'
      /\ HeaderLoaded' /\ PagesHeld' /\ Session \subseteq Session'
  BY <1>1, <1>2, <1>3, WritingStep
<1>5. Session' \subseteq Nat /\ StoredIn(file', Session', Session')
  <2>1. Session' \subseteq Allocated' /\ StoredIn(file', Session', Session')
    BY LargestClosedIsClosed DEF Session
  <2>2. Allocated \subseteq Nat
    BY <1>1 DEF Allocated, TypeOK
  <2> QED
    BY <1>3, <2>1, <2>2
<1>6. KeepsChildren(file, file', Session)
  <2>1. ASSUME NEW i \in 1 .. Len(done), NEW j \in 1 .. Len(file[done[i].page].children)
        PROVE  /\ j \in 1 .. Len(Stored(done[i]).children)
               /\ Stored(done[i]).children[j] = file[done[i].page].children[j]
    <3>1. done[i] \in NodesOver(Session, Session)
      BY ElementOfSeq
    <3>2. done[i].children = file[done[i].page].children
          /\ Len(done[i].children) <= Len(done[i].items) + 1
      BY DEF KeepsItsChildren
    <3> QED
      BY <3>1, <3>2, StoredChildren
  <2> QED
    BY <1>1, <2>1, WritingKeepsChildren
<1>7. LeadsTo(file', Session', path, root, page)
  <2>1. LeadsTo(file, Session, path, root, page)
    BY DEF PathOK
  <2> QED
    BY <1>1, <1>4, <1>6, <2>1, PathKept
<1>8. page \in Session'
  BY <1>1, <1>7, PathEnds
<1>9. /\ IsCopyOfPath(Session', path, root, get_nodes(file', root, path))
      /\ get_nodes(file', root, path)[Len(path) + 1] = get_node(file', page)
  BY <1>1, <1>5, <1>7, GetNodesOf
<1> QED
  BY <1>4, <1>5, <1>8, <1>9

\* A node read from a page of the session has as many children as it may.
LEMMA ReadNode ==
  ASSUME NEW S, StoredIn(file, S, S), NEW p \in S, NEW n, n = get_node(file, p)
  PROVE  /\ n \in NodesOver(S, S) /\ n.page = p /\ IsShaped(n)
         /\ n.items \in Seq(Item) /\ n.children \in Seq(S)
         /\ Len(n.items) \in Nat /\ Len(n.children) \in Nat
         /\ KeepsItsChildren(n)
<1>1. n \in NodesOf(S) /\ n.page = p /\ n.children = file[p].children
  BY GetNodeOf
<1>2. /\ n \in NodesOver(S, S) /\ n.items \in Seq(Item) /\ n.children \in Seq(S)
      /\ IsShaped(n)
  BY <1>1, NodesOfTypes
<1>3. Len(n.items) \in Nat /\ Len(n.children) \in Nat
  BY <1>2, LenProperties
<1>4. Len(n.children) <= Len(n.items) + 1
  <2>1. CASE is_leaf(n)
    <3>1. Len(n.children) = 0
      BY <2>1 DEF is_leaf
    <3> QED
      BY <1>3, <3>1
  <2>2. CASE Len(n.children) = Len(n.items) + 1
    BY <1>3, <2>2
  <2> QED
    BY <1>2, <2>1, <2>2 DEF IsShaped
<1> QED
  BY <1>1, <1>2, <1>3, <1>4 DEF KeepsItsChildren

LEMMA InsertWrites ==
  ASSUME IInv, At("insert")
  PROVE  /\ PendingWrites = <<InsertedNode>>
         /\ InsertedNode \in NodesOver(Session, Session)
         /\ KeepsItsChildren(InsertedNode)
<1>1. proc = "running" /\ pc = "insert"
  BY DEF At
<1>2. /\ StepOK /\ SearchOK /\ path \in Seq(Nat)
      /\ StoredIn(file, Session, Session)
  BY <1>1, Running
<1>3. /\ op \in Operation /\ op.kind = "put" /\ root # 0 /\ PathOK
      /\ node = get_node(file, page) /\ index \in 1 .. Len(node.items) + 1
  BY <1>1, <1>2 DEF StepOK, SearchOK
<1>4. page \in Session
  BY <1>2, <1>3, PathEnds DEF PathOK
<1>5. /\ node \in NodesOver(Session, Session) /\ node.items \in Seq(Item)
      /\ Len(node.items) \in Nat /\ Len(node.children) \in Nat /\ KeepsItsChildren(node)
  BY <1>2, <1>3, <1>4, ReadNode
<1>6. NewItem \in Item
  BY <1>3, OperationKinds DEF NewItem, Item
<1>7. InsertedNode \in NodesOver(Session, Session)
  BY <1>3, <1>5, <1>6, AddItemType DEF InsertedNode
<1>8. Len(InsertAt(node.items, index, NewItem)) = Len(node.items) + 1
  BY <1>3, <1>5, <1>6, InsertAtProperties
<1>9. /\ InsertedNode.page = node.page /\ InsertedNode.children = node.children
      /\ InsertedNode.items = InsertAt(node.items, index, NewItem)
  BY <1>5 DEF InsertedNode, add_item, NodesOver
<1>10. KeepsItsChildren(InsertedNode)
  BY <1>5, <1>8, <1>9 DEF KeepsItsChildren
<1>11. PendingWrites = <<InsertedNode>>
  BY <1>1 DEF PendingWrites
<1> QED
  BY <1>7, <1>10, <1>11

LEMMA RemoveWrites ==
  ASSUME IInv, At("remove"), NEW n, n = without_item(node, index)
  PROVE  /\ PendingWrites = <<n>>
         /\ n \in NodesOver(Session, Session)
         /\ KeepsItsChildren(n)
         /\ is_leaf(n) /\ n.page = page
<1>1. proc = "running" /\ pc = "remove"
  BY DEF At
<1>2. /\ StepOK /\ SearchOK /\ path \in Seq(Nat)
      /\ StoredIn(file, Session, Session)
  BY <1>1, Running
<1>3. /\ root # 0 /\ PathOK /\ is_leaf(node)
      /\ node = get_node(file, page) /\ index \in 1 .. Len(node.items) + 1
      /\ index <= Len(node.items)
  BY <1>1, <1>2 DEF StepOK, SearchOK
<1>4. page \in Session
  BY <1>2, <1>3, PathEnds DEF PathOK
<1>5. /\ node \in NodesOver(Session, Session) /\ node.items \in Seq(Item) /\ node.page = page
      /\ Len(node.items) \in Nat /\ KeepsItsChildren(node)
  BY <1>2, <1>3, <1>4, ReadNode
<1>6. index \in 1 .. Len(node.items)
  BY <1>3, <1>5
<1>7. n \in NodesOver(Session, Session)
  BY <1>5, <1>6, WithoutItemType
<1>8. Len(RemoveAt(node.items, index)) = Len(node.items) - 1
  BY <1>5, <1>6, RemoveAtProperties
<1>9. /\ n.page = page /\ n.children = node.children /\ node.children = <<>>
      /\ n.items = RemoveAt(node.items, index)
  BY <1>3, <1>5 DEF without_item, NodesOver, is_leaf
<1>10. Len(n.children) = 0
  BY <1>9
<1>11. KeepsItsChildren(n)
  BY <1>5, <1>6, <1>8, <1>9, <1>10 DEF KeepsItsChildren
<1>12. PendingWrites = <<n>>
  BY <1>1 DEF PendingWrites
<1> QED
  BY <1>7, <1>9, <1>11, <1>12 DEF is_leaf

LEMMA PredecessorWrites ==
  ASSUME IInv, At("predecessor"), is_leaf(get_node(file, page)), ~StepGoesAstray
  PROVE  /\ PendingWrites \in Seq(NodesOver(Session, Session))
         /\ \A i \in 1 .. Len(PendingWrites) : KeepsItsChildren(PendingWrites[i])
<1> DEFINE leaf == get_node(file, page)
           a == [leaf EXCEPT !.items = Front(@)]
           b == [node EXCEPT !.items[index] = Last(leaf.items)]
<1>1. proc = "running" /\ pc = "predecessor"
  BY DEF At
<1>2. /\ StepOK /\ SearchOK /\ path \in Seq(Nat)
      /\ StoredIn(file, Session, Session)
  BY <1>1, Running
<1>3. /\ root # 0 /\ PathOK
      /\ node.page \in Session /\ node = get_node(file, node.page)
      /\ index \in 1 .. Len(node.items)
  BY <1>1, <1>2 DEF StepOK, SearchOK
<1>4. page \in Session
  BY <1>2, <1>3, PathEnds DEF PathOK
<1>5. /\ node \in NodesOver(Session, Session) /\ node.items \in Seq(Item)
      /\ Len(node.items) \in Nat /\ Len(node.children) \in Nat /\ KeepsItsChildren(node)
  BY <1>2, <1>3, ReadNode
<1>6. /\ leaf \in NodesOver(Session, Session) /\ leaf.items \in Seq(Item)
      /\ Len(leaf.items) \in Nat /\ KeepsItsChildren(leaf) /\ leaf.page = page
  BY <1>2, <1>4, ReadNode
<1>7. leaf.items # <<>> /\ leaf.children = <<>>
  BY <1>1 DEF StepGoesAstray, ElementIsMissing, is_leaf
<1>8. PendingWrites = <<a, b>>
  BY <1>1 DEF PendingWrites, TakePredecessorWrites
<1> HIDE DEF leaf
<1>9. /\ Front(leaf.items) \in Seq(Item) /\ Last(leaf.items) \in Item
      /\ Len(Front(leaf.items)) = Len(leaf.items) - 1 /\ Len(leaf.items) \in Nat \ {0}
  BY <1>6, <1>7, FrontProperties
<1>10. a \in NodesOver(Session, Session) /\ KeepsItsChildren(a)
  <2>1. a.page = leaf.page /\ a.children = leaf.children /\ a.items = Front(leaf.items)
    BY <1>6 DEF NodesOver
  <2>2. Len(a.children) = 0
    BY <1>7, <2>1
  <2>3. a \in NodesOver(Session, Session)
    BY <1>6, <1>9 DEF NodesOver
  <2> HIDE DEF a
  <2> QED
    BY <1>6, <1>9, <2>1, <2>2, <2>3 DEF KeepsItsChildren
<1>11. b \in NodesOver(Session, Session) /\ KeepsItsChildren(b)
  <2> DEFINE items == [node.items EXCEPT ![index] = Last(leaf.items)]
  <2>1. b.page = node.page /\ b.children = node.children /\ b.items = items
        /\ b = [node EXCEPT !.items = items]
    BY <1>5 DEF NodesOver
  <2>2. items \in Seq(Item) /\ Len(items) = Len(node.items)
    BY <1>3, <1>5, <1>9, ExceptSeq
  <2> HIDE DEF items, b
  <2>3. b \in NodesOver(Session, Session)
    BY <1>5, <2>1, <2>2 DEF NodesOver
  <2> QED
    BY <1>5, <2>1, <2>2, <2>3 DEF KeepsItsChildren
<1> HIDE DEF a, b
<1>12. /\ <<a, b>> \in Seq(NodesOver(Session, Session)) /\ Len(<<a, b>>) = 2
       /\ <<a, b>>[1] = a /\ <<a, b>>[2] = b
  BY <1>10, <1>11
<1>13. \A i \in 1 .. 2 : i = 1 \/ i = 2
  OBVIOUS
<1> QED
  BY <1>8, <1>10, <1>11, <1>12, <1>13

\* The step goes on to the copies of the path's nodes.
LEMMA CopyStep ==
  ASSUME IInv, proc = "running", pc \in {"insert", "remove", "predecessor"},
         NEW done \in Seq(NodesOver(Session, Session)),
         \A i \in 1 .. Len(done) : KeepsItsChildren(done[i]),
         file' = Written(file, done),
         UNCHANGED <<exists, proc, meta, freelist, root, op, page, path, node, index, result,
                     sessions, faults>>,
         stream' \in {"good", "failed", "closed"},
         ancestors' = get_nodes(file', root, path), level' = Len(path),
         pc' = IF pc = "insert" THEN "split" ELSE "rebalance",
         pc # "insert" /\ path = <<>> => is_leaf(get_node(file', page))
  PROVE  IInv'
<1>1. /\ TypeOK /\ StepOK /\ SearchOK /\ BoundsOK
      /\ path \in Seq(Nat) /\ Len(path) \in Nat /\ freelist.max_page \in Nat
  BY Running
<1>2. root # 0 /\ PathOK /\ op \in Operation
  BY <1>1 DEF StepOK, SearchOK
<1>3. /\ PagesOK(file') /\ HeaderOK(file') /\ ProcessOK' /\ HeaderLoaded' /\ PagesHeld'
      /\ IsCopyOfPath(Session', path, root, ancestors')
      /\ ancestors'[Len(path) + 1] = get_node(file', page)
      /\ Session' \subseteq Nat
  BY <1>2, ItemsWritten
<1>4. /\ ancestors' \in Seq(NodesOf(Session')) /\ Len(ancestors') = Len(path) + 1
      /\ \A i \in 1 .. Len(path) : path[i] \in 1 .. Len(ancestors'[i].children)
  BY <1>3 DEF IsCopyOfPath
<1>5. ancestors' \in Seq(Nodes)
  <2>1. NodesOf(Session') \subseteq Nodes
    BY <1>3, NodesOfAreNodes
  <2> QED
    BY <1>4, <2>1, SeqMonotonic
<1>6. TypeOK'
  BY <1>1, <1>3, <1>5, FileTypes DEF TypeOK
<1>7. StepOK' /\ SearchOK'
  BY <1>1, <1>2 DEF StepOK, SearchOK
<1>8. CopiesOK'
  <2>1. path = <<>> => Len(path) + 1 = 1
    OBVIOUS
  <2> QED
    BY <1>1, <1>3, <1>4, <2>1 DEF CopiesOK
<1>9. BoundsOK'
  <2>1. op.kind = "put" => Len(path) <= MaxDepth
    BY <1>1 DEF BoundsOK
  <2>2. pc' = "split" => freelist.max_page + Len(path) < MaxPages + Len(path)
    <3>1. pc = "insert" => freelist.max_page < MaxPages
      BY <1>1 DEF BoundsOK, StepOK
    <3> QED
      BY <1>1, <3>1, CollectionAssumption
  <2> QED
    BY <2>1, <2>2 DEF BoundsOK
<1>10. SessionOK'
  BY <1>3, <1>7, <1>8, <1>9 DEF SessionOK
<1> QED
  BY <1>3, <1>6, <1>10 DEF IInv

\* The step is cut short by a failure that it returns.
LEMMA CutShortStep ==
  ASSUME IInv, proc = "running", pc \in {"insert", "remove", "predecessor"},
         NEW done \in Seq(NodesOver(Session, Session)),
         \A i \in 1 .. Len(done) : KeepsItsChildren(done[i]),
         file' = Written(file, done),
         UNCHANGED <<exists, proc, meta, freelist, root, op, page, path, node, index,
                     ancestors, level, sessions>>,
         stream' \in {"good", "failed", "closed"}, faults' \in 0 .. MaxFaults,
         pc' = "return", result' = Error
  PROVE  IInv'
<1>1. TypeOK /\ SessionOK /\ StepOK /\ SearchOK
  BY Running
<1>2. root # 0 /\ PathOK
  BY <1>1 DEF StepOK, SearchOK
<1>3. /\ PagesOK(file') /\ HeaderOK(file') /\ ProcessOK' /\ HeaderLoaded' /\ PagesHeld'
  BY <1>2, ItemsWritten
<1>4. TypeOK'
  BY <1>1, <1>3, FileTypes DEF TypeOK
<1>5. StepOK' /\ SearchOK' /\ CopiesOK' /\ BoundsOK'
  BY <1>1, ReturnStep
<1>6. SessionOK'
  BY <1>3, <1>5 DEF SessionOK
<1> QED
  BY <1>3, <1>4, <1>6 DEF IInv

LEMMA InsertItemStep ==
  ASSUME IInv, InsertItem
  PROVE  IInv'
<1> DEFINE done == <<InsertedNode>>
<1>1. /\ At("insert") /\ proc = "running" /\ pc = "insert"
      /\ file' = Written(file, done)
      /\ UNCHANGED <<exists, proc, stream, meta, freelist, root, op, page, path, node, index,
                     result, sessions, faults>>
      /\ ancestors' = get_nodes(file', root, path) /\ level' = Len(path) /\ pc' = "split"
  BY DEF InsertItem, Write, At, bounds
<1>2. InsertedNode \in NodesOver(Session, Session) /\ KeepsItsChildren(InsertedNode)
  BY <1>1, InsertWrites
<1>3. done \in Seq(NodesOver(Session, Session)) /\ Len(done) = 1 /\ done[1] = InsertedNode
  BY <1>2, OneElement
<1> HIDE DEF done
<1>4. \A i \in 1 .. Len(done) : KeepsItsChildren(done[i])
  <2>1. \A i \in 1 .. 1 : i = 1
    OBVIOUS
  <2> QED
    BY <1>2, <1>3, <2>1
<1>5. stream' \in {"good", "failed", "closed"}
  BY <1>1 DEF IInv, TypeOK
<1> QED
  BY <1>1, <1>3, <1>4, <1>5, CopyStep

LEMMA RemoveFromLeafStep ==
  ASSUME IInv, RemoveFromLeaf
  PROVE  IInv'
<1> DEFINE n == without_item(node, index)
           done == PendingWrites
<1>1. /\ At("remove") /\ proc = "running" /\ pc = "remove"
      /\ file' = Written(file, done)
      /\ UNCHANGED <<exists, proc, stream, meta, freelist, root, op, page, path, node, index,
                     result, sessions, faults>>
      /\ ancestors' = get_nodes(file', root, path) /\ level' = Len(path) /\ pc' = "rebalance"
  BY DEF RemoveFromLeaf, Write, At, bounds
<1>2. /\ done = <<n>> /\ n \in NodesOver(Session, Session) /\ KeepsItsChildren(n)
      /\ is_leaf(n) /\ n.page = page
  BY <1>1, RemoveWrites
<1> HIDE DEF n, done
<1>3. done \in Seq(NodesOver(Session, Session)) /\ Len(done) = 1 /\ done[1] = n
  BY <1>2, OneElement
<1>4. \A i \in 1 .. 1 : i = 1
  OBVIOUS
<1>5. \A i \in 1 .. Len(done) : KeepsItsChildren(done[i])
  BY <1>2, <1>3, <1>4
<1>6. stream' \in {"good", "failed", "closed"}
  BY <1>1 DEF IInv, TypeOK
<1>7. is_leaf(get_node(file', page))
  <2>1. PagesOK(file) /\ NodePages(file, Session)
    BY <1>1, Running
  <2>2. HasWrites(file, done, Len(done), file')
    BY <1>1, <1>3, <2>1, NodesWritten
  <2>3. page \in DOMAIN file'
    <3>1. page \in Nat
      BY <1>1 DEF IInv, TypeOK
    <3>2. 1 \in 1 .. Len(done) /\ done[1].page = page /\ page \in 0 .. page
      BY <1>2, <1>3, <3>1
    <3> QED
      BY <2>2, <3>2 DEF HasWrites
  <2>4. file'[page] = Stored(n)
    <3>1. 1 \in 1 .. Len(done) /\ done[1].page = page
      BY <1>2, <1>3
    <3> QED
      BY <1>3, <1>4, <2>2, <2>3, <3>1 DEF HasWrites
  <2>5. Stored(n).kind = "node" /\ Stored(n).children = <<>>
    BY <1>2 DEF Stored
  <2> QED
    BY <2>4, <2>5 DEF get_node, is_leaf
<1> QED
  BY <1>1, <1>3, <1>5, <1>6, <1>7, CopyStep

LEMMA TakePredecessorStep ==
  ASSUME IInv, TakePredecessor
  PROVE  IInv'
<1> DEFINE done == PendingWrites
<1>1. /\ At("predecessor") /\ proc = "running" /\ pc = "predecessor"
      /\ is_leaf(get_node(file, page)) /\ ~StepGoesAstray
      /\ file' = Written(file, done)
      /\ UNCHANGED <<exists, proc, stream, meta, freelist, root, op, page, path, node, index,
                     result, sessions, faults>>
      /\ ancestors' = get_nodes(file', root, path) /\ level' = Len(path) /\ pc' = "rebalance"
  BY DEF TakePredecessor, Write, At, bounds, Proceeds
<1>2. /\ done \in Seq(NodesOver(Session, Session))
      /\ \A i \in 1 .. Len(done) : KeepsItsChildren(done[i])
  BY <1>1, PredecessorWrites
<1> HIDE DEF done
<1>3. path # <<>> /\ stream' \in {"good", "failed", "closed"}
  BY <1>1, Running DEF SearchOK, TypeOK
<1> QED
  BY <1>1, <1>2, <1>3, CopyStep
-----------------------------------------------------------------------------
\* Splitting.

LEMMA NodesOverMonotonic ==
  ASSUME NEW P, NEW Q, P \subseteq Q, NEW S, NEW T, S \subseteq T, NEW n \in NodesOver(P, S)
  PROVE  n \in NodesOver(Q, T)
<1>1. n.children \in Seq(S)
  BY DEF NodesOver
<1>2. n.children \in Seq(T)
  BY <1>1, SeqMonotonic
<1> QED
  BY <1>2 DEF NodesOver

LEMMA NodesOfMonotonic ==
  ASSUME NEW S, NEW T, S \subseteq T
  PROVE  NodesOf(S) \subseteq NodesOf(T)
BY NodesOverMonotonic DEF NodesOf

\* The copies a rebalancing loop is at.
LEMMA AtCopies ==
  ASSUME IInv, proc = "running", pc \in {"split", "rebalance"}
  PROVE  /\ ancestors \in Seq(NodesOf(Session))
         /\ level \in 0 .. Len(path) /\ Len(ancestors) = Len(path) + 1
         /\ ancestors[1] \in NodesOf(Session)
         /\ level > 0 =>
              /\ Parent \in NodesOf(Session) /\ Child \in NodesOf(Session)
              /\ Slot \in 1 .. Len(Parent.children)
              /\ Len(Parent.children) = Len(Parent.items) + 1
              /\ Len(Parent.children) \in Nat /\ Len(Parent.items) \in Nat
<1>1. CopiesOK /\ Len(path) \in Nat
  BY Running
<1>2. /\ ancestors \in Seq(NodesOf(Session))
      /\ level \in 0 .. Len(path) /\ Len(ancestors) = Len(path) + 1
      /\ \A i \in 1 .. Len(path) : path[i] \in 1 .. Len(ancestors[i].children)
  BY <1>1 DEF CopiesOK
<1>3. ancestors[1] \in NodesOf(Session)
  <2>1. 1 \in 1 .. Len(ancestors)
    BY <1>1, <1>2
  <2> QED
    BY <1>2, <2>1, ElementOfSeq
<1>4. ASSUME level > 0
      PROVE  /\ Parent \in NodesOf(Session) /\ Child \in NodesOf(Session)
             /\ Slot \in 1 .. Len(Parent.children)
             /\ Len(Parent.children) = Len(Parent.items) + 1
             /\ Len(Parent.children) \in Nat /\ Len(Parent.items) \in Nat
  <2>1. level \in 1 .. Len(path) /\ level \in 1 .. Len(ancestors) /\ level + 1 \in 1 .. Len(ancestors)
    BY <1>1, <1>2, <1>4
  <2>2. Parent \in NodesOf(Session) /\ Child \in NodesOf(Session)
    BY <1>2, <2>1, ElementOfSeq DEF Parent, Child
  <2>3. Slot \in 1 .. Len(Parent.children)
    BY <1>2, <2>1 DEF Parent, Slot
  <2>4. Parent.items \in Seq(Item) /\ Parent.children \in Seq(Session) /\ IsShaped(Parent)
    BY <2>2, NodesOfTypes
  <2>5. Len(Parent.children) \in Nat /\ Len(Parent.items) \in Nat
    BY <2>4, LenProperties
  <2>6. Parent.children # <<>>
    <3>1. Len(Parent.children) # 0
      BY <2>3, <2>5
    <3> QED
      BY <3>1
  <2>7. Len(Parent.children) = Len(Parent.items) + 1
    BY <2>4, <2>6 DEF IsShaped, is_leaf
  <2> QED
    BY <2>2, <2>3, <2>5, <2>7
<1> QED
  BY <1>2, <1>3, <1>4

LEMMA SplitWritesTypes ==
  ASSUME IInv, proc = "running", pc = "split", level > 0, can_spare_an_element(Child),
         NEW T, T = Session \union {next_page(freelist)}
  PROVE  /\ SplitWrites \in Seq(NodesOver(T, T))
         /\ T \subseteq Session \union {SplitWrites[i].page : i \in 1 .. Len(SplitWrites)}
<1> DEFINE p == next_page(freelist)
           s == split(Parent, Child, Slot, p)
<1>1. /\ Parent \in NodesOf(Session) /\ Child \in NodesOf(Session)
      /\ Slot \in 1 .. Len(Parent.children)
      /\ Len(Parent.children) = Len(Parent.items) + 1
      /\ Len(Parent.children) \in Nat /\ Len(Parent.items) \in Nat
  BY AtCopies
<1>2. /\ Parent \in NodesOver(Session, Session) /\ Child \in NodesOver(Session, Session)
      /\ is_leaf(Child) \/ Len(Child.children) = Len(Child.items) + 1
  BY <1>1, NodesOfTypes DEF IsShaped
<1>3. Session \subseteq T /\ p \in T
  OBVIOUS
<1>4. Parent \in NodesOver(Session, T)
  BY <1>2, <1>3, NodesOverMonotonic
<1>5. Slot \in Nat \ {0} /\ Slot <= Len(Parent.items) + 1 /\ Slot <= Len(Parent.children)
  BY <1>1
<1> HIDE DEF p
<1>6. /\ s.left \in NodesOver(Session, Session)
      /\ s.right \in NodesOver({p}, Session)
      /\ s.parent \in NodesOver(Session, T)
  BY <1>2, <1>3, <1>4, <1>5, SplitTypes
<1>7. SplitWrites = <<s.right, s.parent, s.left>>
  BY DEF SplitWrites, p
<1> HIDE DEF s
<1> DEFINE a == s.right
           b == s.parent
           c == s.left
<1>8. {p} \subseteq T
  BY <1>3
<1>9. a \in NodesOver(T, T) /\ b \in NodesOver(T, T) /\ c \in NodesOver(T, T)
  BY <1>3, <1>6, <1>8, NodesOverMonotonic
<1>10. a.page = p
  BY <1>6 DEF NodesOver
<1>11. SplitWrites = <<a, b, c>>
  BY <1>7
<1> HIDE DEF a, b, c
<1>12. SplitWrites \in Seq(NodesOver(T, T)) /\ Len(SplitWrites) = 3 /\ SplitWrites[1] = a
  BY <1>9, <1>11
<1>13. 1 \in 1 .. Len(SplitWrites) /\ SplitWrites[1].page = p
  BY <1>10, <1>12
<1> QED
  BY <1>12, <1>13 DEF p

LEMMA SplitRootWritesTypes ==
  ASSUME IInv, proc = "running", pc = "split", can_spare_an_element(ancestors[1]),
         NEW T, T = Session \union {next_page(freelist), next_page(get_next_page(freelist))}
  PROVE  /\ SplitRootWrites \in Seq(NodesOver(T, T))
         /\ T \subseteq Session \union {SplitRootWrites[i].page : i \in 1 .. Len(SplitRootWrites)}
<1> DEFINE p == next_page(freelist)
           q == next_page(get_next_page(freelist))
           old == ancestors[1]
           s == split(NewRoot, old, 1, q)
<1>1. ancestors[1] \in NodesOf(Session)
  BY AtCopies
<1>2. /\ old \in NodesOver(Session, Session) /\ old.page \in Session
      /\ is_leaf(old) \/ Len(old.children) = Len(old.items) + 1
  BY <1>1, NodesOfTypes DEF IsShaped
<1>3. Session \subseteq T /\ {p} \subseteq T /\ {q} \subseteq T /\ q \in T /\ T = Session \union {p, q}
  OBVIOUS
<1>4. NewRoot = [page |-> p, items |-> <<>>, children |-> <<old.page>>]
  BY DEF NewRoot
<1> HIDE DEF p, q, old
<1>5. NewRoot \in NodesOver({p}, T)
  BY <1>2, <1>3, <1>4 DEF NodesOver
<1>6. 1 <= Len(NewRoot.items) + 1 /\ 1 <= Len(NewRoot.children) /\ 1 \in Nat \ {0}
  BY <1>4
<1>7. can_spare_an_element(old)
  BY DEF old
<1>8. /\ s.left \in NodesOver(Session, Session)
      /\ s.right \in NodesOver({q}, Session)
      /\ s.parent \in NodesOver({p}, T)
  BY <1>2, <1>3, <1>5, <1>6, <1>7, SplitTypes
<1>9. SplitRootWrites = <<s.right, s.parent, s.left, s.parent>>
  BY DEF SplitRootWrites, q, old
<1> HIDE DEF s
<1> DEFINE a == s.right
           b == s.parent
           c == s.left
<1>10. a \in NodesOver(T, T) /\ b \in NodesOver(T, T) /\ c \in NodesOver(T, T)
  BY <1>3, <1>8, NodesOverMonotonic
<1>11. a.page = q /\ b.page = p
  BY <1>8 DEF NodesOver
<1>12. SplitRootWrites = <<a, b, c, b>>
  BY <1>9
<1> HIDE DEF a, b, c
<1>13. /\ SplitRootWrites \in Seq(NodesOver(T, T)) /\ Len(SplitRootWrites) = 4
       /\ SplitRootWrites[1] = a /\ SplitRootWrites[2] = b
  BY <1>10, <1>12
<1>14. /\ 1 \in 1 .. Len(SplitRootWrites) /\ SplitRootWrites[1].page = q
       /\ 2 \in 1 .. Len(SplitRootWrites) /\ SplitRootWrites[2].page = p
  BY <1>11, <1>13
<1> QED
  BY <1>3, <1>13, <1>14

LEMMA SplitChildStep ==
  ASSUME IInv, SplitChild
  PROVE  IInv'
<1> DEFINE T == Session \union {next_page(freelist)}
           done == SplitWrites
<1>1. /\ proc = "running" /\ pc = "split" /\ level > 0 /\ is_over_populated(Child)
      /\ ~StepGoesAstray
      /\ file' = Written(file, done)
      /\ UNCHANGED <<exists, proc, stream, meta, root, pc, op, page, path, node, index,
                     ancestors, result, sessions, faults>>
      /\ freelist' = get_next_page(freelist) /\ level' = level - 1
  BY DEF SplitChild, Write, At, bounds, Proceeds
<1>2. can_spare_an_element(Child)
  BY <1>1 DEF StepGoesAstray, ElementIsMissing
<1>3. done \in Seq(NodesOver(T, T)) /\ T \subseteq Session \union {done[i].page : i \in 1 .. Len(done)}
  BY <1>1, <1>2, SplitWritesTypes
<1>4. /\ TypeOK /\ StepOK /\ CopiesOK /\ BoundsOK /\ PagesHeld
      /\ Len(path) \in Nat /\ freelist.max_page \in Nat
  BY <1>1, Running
<1>5. /\ freelist' \in Freelists
      /\ freelist'.max_page \in freelist.max_page .. freelist.max_page + 1
      /\ T \subseteq Allocated' /\ Released' \subseteq Session
  BY <1>1, NextPageGiven DEF Allocated, Released
<1>6. /\ level \in 1 .. Len(path) /\ op.kind = "put" /\ Len(path) <= MaxDepth
      /\ freelist.max_page + level < MaxPages + Len(path)
  BY <1>1, <1>4 DEF CopiesOK, StepOK, BoundsOK
<1>7. freelist'.max_page \in freelist.max_page .. PageBound
  BY <1>4, <1>5, <1>6, CollectionAssumption DEF PageBound
<1>8. root' \in Session \union {0}
  BY <1>1, <1>4 DEF PagesHeld
<1>9. Session \subseteq T /\ Released' \subseteq T /\ root' \in T \union {0}
  BY <1>5, <1>8
<1> HIDE DEF T, done
<1>10. /\ PagesOK(file') /\ HeaderOK(file') /\ ProcessOK'
       /\ HeaderLoaded' /\ PagesHeld' /\ T \subseteq Session'
  BY <1>1, <1>3, <1>5, <1>7, <1>9, WritingStep
<1>11. TypeOK'
  BY <1>1, <1>4, <1>5, <1>6, <1>10, FileTypes DEF TypeOK
<1>12. StepOK' /\ SearchOK'
  BY <1>1, <1>4 DEF StepOK, SearchOK
<1>13. CopiesOK'
  <2>1. NodesOf(Session) \subseteq NodesOf(Session')
    BY <1>9, <1>10, NodesOfMonotonic
  <2>2. ancestors \in Seq(NodesOf(Session'))
    BY <1>1, <1>4, <2>1, SeqMonotonic DEF CopiesOK
  <2>3. level' \in 0 .. Len(path)
    BY <1>1, <1>4, <1>6
  <2> QED
    BY <1>1, <1>4, <2>2, <2>3 DEF CopiesOK
<1>14. BoundsOK'
  <2>1. freelist'.max_page + level' < MaxPages + Len(path)
    BY <1>1, <1>4, <1>5, <1>6, CollectionAssumption
  <2> QED
    BY <1>1, <1>6, <2>1 DEF BoundsOK
<1>15. SessionOK'
  BY <1>10, <1>12, <1>13, <1>14 DEF SessionOK
<1> QED
  BY <1>10, <1>11, <1>15 DEF IInv

LEMMA SplitRootStep ==
  ASSUME IInv, SplitRoot
  PROVE  IInv'
<1> DEFINE p == next_page(freelist)
           g == get_next_page(freelist)
           T == Session \union {p, next_page(g)}
           done == SplitRootWrites
<1>1. /\ proc = "running" /\ pc = "split" /\ level = 0 /\ is_over_populated(ancestors[1])
      /\ ~StepGoesAstray
      /\ file' = Written(file, done)
      /\ UNCHANGED <<exists, proc, stream, meta, op, page, path, node, index,
                     ancestors, level, sessions, faults>>
      /\ freelist' = get_next_page(g) /\ root' = p
      /\ pc' = "return" /\ result' = Ok
  BY DEF SplitRoot, Write, At, bounds, Proceeds, NewRoot, ReturnWith
<1>2. can_spare_an_element(ancestors[1])
  BY <1>1 DEF StepGoesAstray, ElementIsMissing
<1>3. done \in Seq(NodesOver(T, T)) /\ T \subseteq Session \union {done[i].page : i \in 1 .. Len(done)}
  BY <1>1, <1>2, SplitRootWritesTypes
<1>4. /\ TypeOK /\ StepOK /\ CopiesOK /\ BoundsOK /\ PagesHeld /\ SessionOK
      /\ Len(path) \in Nat /\ freelist.max_page \in Nat
  BY <1>1, Running
<1>5. meta.freelist_page \in Nat /\ meta.freelist_page <= freelist.max_page
  BY <1>4 DEF TypeOK, PagesHeld
<1>6. /\ g \in Freelists /\ g.max_page \in freelist.max_page .. freelist.max_page + 1
      /\ Session \union {p} \subseteq meta.freelist_page + 1 .. g.max_page
      /\ ToSet(g.released_pages) \subseteq Session \union {p}
  BY <1>1, NextPageGiven
<1>7. /\ freelist' \in Freelists /\ freelist'.max_page \in g.max_page .. g.max_page + 1
      /\ next_page(g) \in meta.freelist_page + 1 .. freelist'.max_page
      /\ Session \union {p} \subseteq meta.freelist_page + 1 .. freelist'.max_page
      /\ ToSet(freelist'.released_pages) \subseteq Session \union {p}
  <2> HIDE DEF g, p
  <2>1. meta.freelist_page <= g.max_page
    BY <1>4, <1>5, <1>6
  <2> QED
    BY <1>1, <1>5, <1>6, <2>1, PageGiven
<1> HIDE DEF g, p
<1>8. T \subseteq Allocated' /\ Released' \subseteq T /\ Session \subseteq T
      /\ root' \in T \union {0} /\ root' \in Nat
  <2>1. root' \in Nat
    BY <1>1, <1>5, <1>6
  <2> QED
    BY <1>1, <1>7, <2>1 DEF Allocated, Released
<1>9. /\ op.kind = "put" /\ Len(path) <= MaxDepth
      /\ freelist.max_page < MaxPages + Len(path)
  BY <1>1, <1>4 DEF StepOK, BoundsOK
<1>10. freelist'.max_page \in freelist.max_page .. PageBound
  <2>1. g.max_page \in Nat /\ freelist'.max_page \in Nat
    BY <1>6, <1>7 DEF Freelists
  <2> QED
    BY <1>4, <1>6, <1>7, <1>9, <2>1, CollectionAssumption DEF PageBound
<1> HIDE DEF T, done
<1>11. /\ PagesOK(file') /\ HeaderOK(file') /\ ProcessOK'
       /\ HeaderLoaded' /\ PagesHeld'
  BY <1>1, <1>3, <1>7, <1>8, <1>10, WritingStep
<1>12. TypeOK'
  BY <1>1, <1>4, <1>7, <1>8, <1>11, FileTypes DEF TypeOK
<1>13. StepOK' /\ SearchOK' /\ CopiesOK' /\ BoundsOK'
  BY <1>1, <1>4, ReturnStep
<1>14. SessionOK'
  BY <1>11, <1>13 DEF SessionOK
<1> QED
  BY <1>11, <1>12, <1>14 DEF IInv
-----------------------------------------------------------------------------
\* Rotating and merging.

\* The state of rebalance_remove between its steps, all of it over pages S.
IsOver(r, S) ==
  /\ r.writes \in Seq(NodesOver(S, S))
  /\ r.parent \in NodesOver(S, S) /\ r.node \in NodesOver(S, S)
  /\ r.parent.children = Parent.children
  /\ Len(r.parent.items) = Len(Parent.items)

LEMMA NeighbourType ==
  ASSUME PagesOK(file), NEW S, NodePages(file, S), StoredIn(file, S, S),
         NEW r, IsOver(r, S), NEW slot \in 1 .. Len(r.parent.children)
  PROVE  Neighbour(r, slot) \in NodesOf(S)
<1> DEFINE g == Written(file, r.writes)
           p == r.parent.children[slot]
<1>1. r.writes \in Seq(NodesOver(S, S)) /\ r.parent.children \in Seq(S)
  BY DEF IsOver, NodesOver
<1>2. StoredIn(g, S \union {r.writes[i].page : i \in 1 .. Len(r.writes)}, S)
  BY <1>1, WritingStores
<1>3. StoredIn(g, S, S)
  BY <1>2 DEF StoredIn
<1>4. p \in S
  BY <1>1, ElementOfSeq
<1> HIDE DEF g, p
<1>5. get_node(g, p) \in NodesOf(S)
  BY <1>3, <1>4, GetNodeOf
<1> QED
  BY <1>5 DEF Neighbour, g, p

\* A node that can spare an element has one.
LEMMA SparesElement ==
  ASSUME NEW S, NEW n \in NodesOf(S), can_spare_an_element(n)
  PROVE  n \in NodesOver(S, S) /\ n.items # <<>> /\ IsShaped(n)
         /\ n.items \in Seq(Item) /\ 1 \in 1 .. Len(n.items)
<1>1. n \in NodesOver(S, S) /\ IsShaped(n) /\ n.items \in Seq(Item)
  BY NodesOfTypes
<1>2. get_split_index(n) \in 2 .. Len(n.items) /\ Len(n.items) \in Nat
  BY <1>1, SplitIndexInRange, LenProperties
<1>3. n.items # <<>>
  <2>1. Len(n.items) # 0
    BY <1>2
  <2> QED
    BY <2>1
<1> QED
  BY <1>1, <1>2, <1>3

\* Three more writes.
LEMMA MoreWrites ==
  ASSUME NEW X, NEW s \in Seq(X), NEW a \in X, NEW b \in X, NEW c \in X
  PROVE  s \o <<a, b, c>> \in Seq(X) /\ s \o <<a, b>> \in Seq(X)
<1>1. <<a, b, c>> \in Seq(X) /\ <<a, b>> \in Seq(X)
  OBVIOUS
<1> QED
  BY <1>1, ConcatProperties

LEMMA RightRotatedType ==
  ASSUME PagesOK(file), NEW S, NodePages(file, S), StoredIn(file, S, S),
         NEW r, IsOver(r, S), NEW slot \in 1 .. Len(Parent.children),
         Len(Parent.children) = Len(Parent.items) + 1,
         Len(Parent.children) \in Nat, Len(Parent.items) \in Nat
  PROVE  IsOver(RightRotated(r, slot), S)
<1> DEFINE a == Neighbour(r, slot - 1)
           rot == rotate_right(a, r.parent, r.node, slot)
<1>1. CASE slot = 1 \/ ~can_spare_an_element(a)
  <2>1. RightRotated(r, slot) = r
    BY <1>1 DEF RightRotated
  <2> QED
    BY <2>1
<1>2. CASE slot # 1 /\ can_spare_an_element(a)
  <2>1. slot - 1 \in 1 .. Len(Parent.items) /\ slot \in Nat
        /\ slot - 1 \in 1 .. Len(Parent.children)
    BY <1>2
  <2>2. /\ r.writes \in Seq(NodesOver(S, S))
        /\ r.parent \in NodesOver(S, S) /\ r.node \in NodesOver(S, S)
        /\ r.parent.children = Parent.children
        /\ Len(r.parent.items) = Len(Parent.items)
        /\ r.parent.items \in Seq(Item)
    BY DEF IsOver, NodesOver
  <2>3. a \in NodesOf(S)
    BY <2>1, <2>2, NeighbourType
  <2>4. RightRotated(r, slot)
          = [writes |-> r.writes \o <<rot.a, rot.parent, rot.b>>,
             parent |-> rot.parent, node |-> rot.b]
    BY <1>2 DEF RightRotated
  <2> HIDE DEF a
  <2>5. a \in NodesOver(S, S) /\ a.items # <<>> /\ IsShaped(a) /\ a.items \in Seq(Item)
    BY <1>2, <2>3, SparesElement
  <2>6. slot - 1 \in 1 .. Len(r.parent.items)
    BY <2>1, <2>2
  <2>7. /\ rot.a \in NodesOver(S, S) /\ rot.b \in NodesOver(S, S)
        /\ rot.parent \in NodesOver(S, S)
        /\ rot.parent.children = r.parent.children
    BY <2>1, <2>2, <2>5, <2>6, RotateRightTypes
  <2>8. Len(rot.parent.items) = Len(r.parent.items)
    <3>1. Last(a.items) \in Item
      BY <2>5, FrontProperties
    <3>2. rot.parent.items = [r.parent.items EXCEPT ![slot - 1] = Last(a.items)]
      BY <2>2 DEF rotate_right, NodesOver
    <3> QED
      BY <2>2, <2>6, <3>1, <3>2, ExceptSeq
  <2> HIDE DEF rot
  <2>9. r.writes \o <<rot.a, rot.parent, rot.b>> \in Seq(NodesOver(S, S))
    BY <2>2, <2>7, MoreWrites
  <2> QED
    BY <2>2, <2>4, <2>7, <2>8, <2>9 DEF IsOver
<1> QED
  BY <1>1, <1>2

LEMMA LeftRotatedType ==
  ASSUME PagesOK(file), NEW S, NodePages(file, S), StoredIn(file, S, S),
         NEW r, IsOver(r, S), NEW slot \in 1 .. Len(Parent.children),
         Len(Parent.children) = Len(Parent.items) + 1,
         Len(Parent.children) \in Nat, Len(Parent.items) \in Nat
  PROVE  IsOver(LeftRotated(r, slot), S)
<1> DEFINE b == Neighbour(r, slot + 1)
           rot == rotate_left(r.node, r.parent, b, slot)
<1>0. /\ r.writes \in Seq(NodesOver(S, S))
      /\ r.parent \in NodesOver(S, S) /\ r.node \in NodesOver(S, S)
      /\ r.parent.children = Parent.children
      /\ Len(r.parent.items) = Len(Parent.items)
      /\ r.parent.items \in Seq(Item)
  BY DEF IsOver, NodesOver
<1>1. CASE slot = Len(r.parent.children) \/ ~can_spare_an_element(b)
  <2>1. LeftRotated(r, slot) = r
    BY <1>1 DEF LeftRotated
  <2> QED
    BY <2>1
<1>2. CASE slot # Len(r.parent.children) /\ can_spare_an_element(b)
  <2>1. slot \in 1 .. Len(Parent.items) /\ slot + 1 \in 1 .. Len(Parent.children)
    BY <1>0, <1>2
  <2>2. b \in NodesOf(S)
    BY <1>0, <2>1, NeighbourType
  <2>3. LeftRotated(r, slot)
          = [writes |-> r.writes \o <<rot.a, rot.parent, rot.b>>,
             parent |-> rot.parent, node |-> rot.a]
    BY <1>2 DEF LeftRotated
  <2> HIDE DEF b
  <2>4. b \in NodesOver(S, S) /\ b.items # <<>> /\ IsShaped(b) /\ b.items \in Seq(Item)
        /\ 1 \in 1 .. Len(b.items)
    BY <1>2, <2>2, SparesElement
  <2>5. slot \in 1 .. Len(r.parent.items)
    BY <1>0, <2>1
  <2>6. /\ rot.a \in NodesOver(S, S) /\ rot.b \in NodesOver(S, S)
        /\ rot.parent \in NodesOver(S, S)
        /\ rot.parent.children = r.parent.children
    BY <1>0, <2>4, <2>5, RotateLeftTypes
  <2>7. Len(rot.parent.items) = Len(r.parent.items)
    <3>1. Head(b.items) \in Item
      BY <2>4, HeadTailProperties
    <3>2. rot.parent.items = [r.parent.items EXCEPT ![slot] = Head(b.items)]
      BY <1>0 DEF rotate_left, NodesOver
    <3> QED
      BY <1>0, <2>5, <3>1, <3>2, ExceptSeq
  <2> HIDE DEF rot
  <2>8. r.writes \o <<rot.a, rot.parent, rot.b>> \in Seq(NodesOver(S, S))
    BY <1>0, <2>6, MoreWrites
  <2> QED
    BY <1>0, <2>3, <2>6, <2>7, <2>8 DEF IsOver
<1> QED
  BY <1>1, <1>2

LEMMA MergedType ==
  ASSUME PagesOK(file), NEW S, NodePages(file, S), StoredIn(file, S, S),
         NEW r, IsOver(r, S), NEW slot \in 1 .. Len(Parent.children),
         Len(Parent.children) = Len(Parent.items) + 1, Len(Parent.children) # 1,
         Len(Parent.children) \in Nat, Len(Parent.items) \in Nat
  PROVE  Merged(r, slot).writes \in Seq(NodesOver(S, S)) /\ Merged(r, slot).released \in S
<1> DEFINE right == IF slot = 1 THEN Neighbour(r, 2) ELSE r.node
           at == IF slot = 1 THEN 2 ELSE slot
           a == Neighbour(r, at - 1)
           m == merge(r.parent, a, right, at)
<1>0. /\ r.writes \in Seq(NodesOver(S, S))
      /\ r.parent \in NodesOver(S, S) /\ r.node \in NodesOver(S, S)
      /\ r.parent.children = Parent.children
      /\ Len(r.parent.items) = Len(Parent.items)
  BY DEF IsOver
<1>1. /\ at \in Nat /\ at - 1 \in 1 .. Len(r.parent.items)
      /\ at \in 1 .. Len(r.parent.children) /\ at - 1 \in 1 .. Len(r.parent.children)
      /\ 2 \in 1 .. Len(r.parent.children)
  BY <1>0
<1> HIDE DEF at
<1>2. a \in NodesOver(S, S)
  BY <1>1, NeighbourType, NodesOfTypes
<1>3. right \in NodesOver(S, S)
  <2>1. Neighbour(r, 2) \in NodesOver(S, S)
    BY <1>1, NeighbourType, NodesOfTypes
  <2> QED
    BY <1>0, <2>1
<1>4. Merged(r, slot) = [writes |-> r.writes \o <<m.a, m.parent>>, released |-> right.page]
  BY DEF Merged, at
<1> HIDE DEF right, a
<1>5. m.a \in NodesOver(S, S) /\ m.parent \in NodesOver(S, S)
  BY <1>0, <1>1, <1>2, <1>3, MergeTypes
<1>6. right.page \in S
  BY <1>3 DEF NodesOver
<1> HIDE DEF m
<1>7. r.writes \o <<m.a, m.parent>> \in Seq(NodesOver(S, S))
  BY <1>0, <1>5, MoreWrites
<1> QED
  BY <1>4, <1>6, <1>7

LEMMA RebalancedType ==
  ASSUME IInv, proc = "running", pc = "rebalance", level > 0, Len(Parent.children) # 1
  PROVE  Rebalanced.writes \in Seq(NodesOver(Session, Session))
         /\ Rebalanced.released \in Session
<1> DEFINE r == [writes |-> <<>>, parent |-> Parent, node |-> Child]
           right == RightRotated(r, Slot)
           left == LeftRotated(right, Slot)
<1>1. PagesOK(file) /\ NodePages(file, Session) /\ StoredIn(file, Session, Session)
  BY Running
<1>2. /\ Parent \in NodesOf(Session) /\ Child \in NodesOf(Session)
      /\ Slot \in 1 .. Len(Parent.children)
      /\ Len(Parent.children) = Len(Parent.items) + 1
      /\ Len(Parent.children) \in Nat /\ Len(Parent.items) \in Nat
  BY AtCopies
<1>3. IsOver(r, Session)
  <2>1. Parent \in NodesOver(Session, Session) /\ Child \in NodesOver(Session, Session)
    BY <1>2, NodesOfTypes
  <2> QED
    BY <2>1 DEF IsOver
<1> HIDE DEF r
<1>4. IsOver(right, Session)
  BY <1>1, <1>2, <1>3, RightRotatedType
<1> HIDE DEF right
<1>5. IsOver(left, Session)
  BY <1>1, <1>2, <1>4, LeftRotatedType
<1> HIDE DEF left
<1>6. Merged(left, Slot).writes \in Seq(NodesOver(Session, Session))
      /\ Merged(left, Slot).released \in Session
  BY <1>1, <1>2, <1>5, MergedType
<1> QED
  BY <1>6 DEF Rebalanced, left, right, r

LEMMA RebalanceChildStep ==
  ASSUME IInv, RebalanceChild
  PROVE  IInv'
<1> DEFINE done == PendingWrites
           p == Rebalanced.released
<1>1. /\ proc = "running" /\ pc = "rebalance" /\ level > 0 /\ is_under_populated(Child)
      /\ ~StepGoesAstray
      /\ file' = Written(file, done)
      /\ UNCHANGED <<exists, proc, stream, meta, root, pc, op, page, path, node, index,
                     ancestors, result, sessions, faults>>
      /\ freelist' = release_page(freelist, p) /\ level' = level - 1
  BY DEF RebalanceChild, Write, At, bounds, Proceeds
<1>2. Len(Parent.children) # 1
  BY <1>1 DEF StepGoesAstray, ElementIsMissing
<1>3. done = Rebalanced.writes
  BY <1>1 DEF PendingWrites
<1>4. done \in Seq(NodesOver(Session, Session)) /\ p \in Session
  BY <1>1, <1>2, <1>3, RebalancedType
<1> HIDE DEF done, p
<1>5. /\ TypeOK /\ StepOK /\ CopiesOK /\ BoundsOK /\ PagesHeld
      /\ Session \subseteq Allocated /\ Session \subseteq Nat \ {0}
      /\ Len(path) \in Nat /\ freelist \in Freelists /\ freelist.max_page \in Nat
  BY <1>1, Running
<1>6. /\ freelist' \in Freelists /\ freelist'.max_page = freelist.max_page
      /\ Released' = Released \union {p}
  <2>1. p \in Nat
    BY <1>4, <1>5
  <2> QED
    BY <1>1, <1>5, <2>1, PageReleased DEF Released
<1>7. freelist'.max_page \in freelist.max_page .. PageBound
  BY <1>5, <1>6, PageBoundNat DEF PagesHeld
<1>8. /\ Session \subseteq Allocated' /\ Released' \subseteq Session
      /\ root' \in Session \union {0}
  BY <1>1, <1>4, <1>5, <1>6 DEF Allocated, PagesHeld
<1>9. /\ PagesOK(file') /\ HeaderOK(file') /\ ProcessOK'
      /\ HeaderLoaded' /\ PagesHeld' /\ Session \subseteq Session'
  BY <1>1, <1>4, <1>6, <1>7, <1>8, WritingStep
<1>10. level \in 1 .. Len(path) /\ op.kind = "remove"
  BY <1>1, <1>5 DEF CopiesOK, StepOK
<1>11. TypeOK'
  <2>1. DOMAIN file' \subseteq Nat /\ \A q \in DOMAIN file' : file'[q] \in PageContent
    BY <1>9, FileTypes
  <2>2. level' \in Nat
    BY <1>1, <1>5, <1>10
  <2>3. UNCHANGED <<exists, proc, stream, meta, root, pc, op, page, path, node, index,
                    ancestors, result, sessions, faults>>
    BY <1>1
  <2> QED
    BY <1>5, <1>6, <2>1, <2>2, <2>3 DEF TypeOK
<1>12. StepOK' /\ SearchOK'
  BY <1>1, <1>5 DEF StepOK, SearchOK
<1>13. CopiesOK'
  <2>1. NodesOf(Session) \subseteq NodesOf(Session')
    BY <1>9, NodesOfMonotonic
  <2>2. ancestors \in Seq(NodesOf(Session'))
    BY <1>1, <1>5, <2>1, SeqMonotonic DEF CopiesOK
  <2>3. level' \in 0 .. Len(path)
    BY <1>1, <1>5, <1>10
  <2> QED
    BY <1>1, <1>5, <2>2, <2>3 DEF CopiesOK
<1>14. BoundsOK'
  BY <1>1, <1>10 DEF BoundsOK
<1>15. SessionOK'
  BY <1>9, <1>12, <1>13, <1>14 DEF SessionOK
<1> QED
  BY <1>9, <1>11, <1>15 DEF IInv
-----------------------------------------------------------------------------
\* Faults of the disk.

LEMMA PrefixProperties ==
  ASSUME NEW X, NEW s \in Seq(X), NEW t \in Prefixes(s)
  PROVE  /\ t \in Seq(X) /\ Len(t) \in 0 .. Len(s)
         /\ \A i \in 1 .. Len(t) : i \in 1 .. Len(s) /\ t[i] = s[i]
<1>1. PICK l \in 0 .. Len(s) : t = SubSeq(s, 1, l)
  BY DEF Prefixes
<1>2. Len(s) \in Nat /\ 1 \in Nat \ {0} /\ 1 <= l + 1
  BY LenProperties
<1>3. /\ t \in Seq(X) /\ Len(t) = l - 1 + 1
      /\ \A i \in 1 .. l - 1 + 1 : t[i] = s[1 + i - 1]
  BY <1>1, <1>2, Slice
<1> QED
  BY <1>2, <1>3

\* What a step writes are nodes on pages past the header.
LEMMA WritesArePossible ==
  ASSUME IInv, proc = "running", ~StepGoesAstray
  PROVE  \E T : NodePages(file, T) /\ PendingWrites \in Seq(NodesOver(T, T))
<1> DEFINE fl == get_next_page(freelist)
           p == next_page(freelist)
           q == next_page(fl)
<1>1. /\ TypeOK /\ PagesHeld /\ HeaderLoaded /\ StepOK /\ BoundsOK /\ CopiesOK
      /\ Session \subseteq Allocated /\ NodePages(file, Session)
      /\ freelist \in Freelists /\ freelist.max_page \in Nat /\ Len(path) \in Nat
  BY Running
<1>2. meta.freelist_page \in Nat /\ meta.freelist_page <= freelist.max_page
      /\ freelist.max_page <= PageBound
  BY <1>1 DEF TypeOK, PagesHeld
<1>3. ASSUME NEW T, NEW n \in Nat, T \subseteq meta.freelist_page + 1 .. n, n <= PageBound
      PROVE  NodePages(file, T)
  <2>1. file[META_PAGE] # Hole => meta.freelist_page = 1
    BY <1>1 DEF HeaderLoaded, FirstMeta
  <2> QED
    BY <1>2, <1>3, <2>1, PageBoundNat DEF NodePages
<1>4. /\ fl \in Freelists /\ fl.max_page \in freelist.max_page .. freelist.max_page + 1
      /\ Session \union {p} \subseteq meta.freelist_page + 1 .. fl.max_page
      /\ ToSet(fl.released_pages) \subseteq Session \union {p}
  BY NextPageGiven
<1>5. fl.max_page \in Nat
  BY <1>4 DEF Freelists
<1> HIDE DEF fl, p
<1>6. freelist.max_page + 1 <= PageBound => NodePages(file, Session \union {p})
  BY <1>1, <1>2, <1>3, <1>4, <1>5, PageBoundNat
<1>7. CASE pc = "create"
  <2> DEFINE leaf == [page |-> p, items |-> <<NewItem>>, children |-> <<>>]
             T == Session \union {p}
  <2>1. PendingWrites = <<leaf>>
    BY <1>7 DEF PendingWrites, p
  <2>2. op \in Operation /\ op.kind = "put" /\ freelist.max_page < MaxPages
    BY <1>1, <1>7 DEF StepOK, BoundsOK
  <2>3. NewItem \in Item
    BY <2>2, OperationKinds DEF NewItem, Item
  <2>4. leaf \in NodesOver(T, T)
    BY <2>3 DEF NodesOver
  <2>5. NodePages(file, T)
    BY <1>1, <1>6, <2>2, CollectionAssumption DEF PageBound
  <2> HIDE DEF leaf, T
  <2>6. PendingWrites \in Seq(NodesOver(T, T))
    BY <2>1, <2>4, OneElement
  <2> QED
    BY <2>5, <2>6
<1>8. CASE pc = "insert"
  <2>1. At("insert")
    BY <1>8 DEF At
  <2>2. PendingWrites = <<InsertedNode>> /\ InsertedNode \in NodesOver(Session, Session)
    BY <2>1, InsertWrites
  <2>3. PendingWrites \in Seq(NodesOver(Session, Session))
    BY <2>2, OneElement
  <2> QED
    BY <1>1, <2>3
<1>9. CASE pc = "remove"
  <2> DEFINE n == without_item(node, index)
  <2>1. At("remove")
    BY <1>9 DEF At
  <2>2. PendingWrites = <<n>> /\ n \in NodesOver(Session, Session)
    BY <2>1, RemoveWrites
  <2> HIDE DEF n
  <2>3. PendingWrites \in Seq(NodesOver(Session, Session))
    BY <2>2, OneElement
  <2> QED
    BY <1>1, <2>3
<1>10. CASE pc = "predecessor" /\ is_leaf(get_node(file, page))
  <2>1. At("predecessor")
    BY <1>10 DEF At
  <2>2. PendingWrites \in Seq(NodesOver(Session, Session))
    BY <1>10, <2>1, PredecessorWrites
  <2> QED
    BY <1>1, <2>2
<1>11. CASE pc = "split" /\ level > 0 /\ is_over_populated(Child)
  <2> DEFINE T == Session \union {p}
  <2>1. PendingWrites = SplitWrites
    BY <1>11 DEF PendingWrites
  <2>2. can_spare_an_element(Child)
    BY <1>11 DEF StepGoesAstray, ElementIsMissing
  <2>3. SplitWrites \in Seq(NodesOver(T, T))
    BY <1>11, <2>2, SplitWritesTypes DEF p
  <2>4. /\ level \in 1 .. Len(path) /\ op.kind = "put" /\ Len(path) <= MaxDepth
        /\ freelist.max_page + level < MaxPages + Len(path)
    BY <1>1, <1>11 DEF CopiesOK, StepOK, BoundsOK
  <2>5. NodePages(file, T)
    BY <1>1, <1>6, <2>4, CollectionAssumption DEF PageBound
  <2> HIDE DEF T
  <2> QED
    BY <2>1, <2>3, <2>5
<1>12. CASE pc = "split" /\ level = 0 /\ is_over_populated(ancestors[1])
  <2> DEFINE T == Session \union {p, q}
             g == get_next_page(fl)
  <2>1. PendingWrites = SplitRootWrites
    BY <1>12 DEF PendingWrites
  <2>2. can_spare_an_element(ancestors[1])
    BY <1>12 DEF StepGoesAstray, ElementIsMissing
  <2>3. SplitRootWrites \in Seq(NodesOver(T, T))
    BY <1>12, <2>2, SplitRootWritesTypes DEF p, fl
  <2>4. /\ op.kind = "put" /\ Len(path) <= MaxDepth
        /\ freelist.max_page < MaxPages + Len(path)
    BY <1>1, <1>12 DEF StepOK, BoundsOK
  <2>5. meta.freelist_page <= fl.max_page
    BY <1>1, <1>2, <1>4, <1>5
  <2>6. /\ g \in Freelists /\ g.max_page \in fl.max_page .. fl.max_page + 1
        /\ q \in meta.freelist_page + 1 .. g.max_page
        /\ Session \union {p} \subseteq meta.freelist_page + 1 .. g.max_page
    BY <1>2, <1>4, <2>5, PageGiven
  <2> HIDE DEF g
  <2>7. g.max_page \in Nat /\ g.max_page <= PageBound
    BY <1>1, <1>4, <1>5, <2>4, <2>6, CollectionAssumption DEF PageBound
  <2>8. T \subseteq meta.freelist_page + 1 .. g.max_page
    BY <2>6
  <2>9. NodePages(file, T)
    BY <1>3, <2>7, <2>8
  <2> HIDE DEF T
  <2> QED
    BY <2>1, <2>3, <2>9
<1>13. CASE pc = "rebalance" /\ level > 0 /\ is_under_populated(Child)
  <2>1. PendingWrites = Rebalanced.writes
    BY <1>13 DEF PendingWrites
  <2>2. Len(Parent.children) # 1
    BY <1>13 DEF StepGoesAstray, ElementIsMissing
  <2>3. PendingWrites \in Seq(NodesOver(Session, Session))
    BY <1>13, <2>1, <2>2, RebalancedType
  <2> QED
    BY <1>1, <2>3
<1>14. CASE /\ pc \notin {"create", "insert", "remove"}
            /\ ~(pc = "predecessor" /\ is_leaf(get_node(file, page)))
            /\ ~(pc = "split" /\ level > 0 /\ is_over_populated(Child))
            /\ ~(pc = "split" /\ level = 0 /\ is_over_populated(ancestors[1]))
            /\ ~(pc = "rebalance" /\ level > 0 /\ is_under_populated(Child))
  <2>1. PendingWrites = <<>>
    BY <1>14 DEF PendingWrites
  <2> QED
    BY <1>1, <2>1
<1> QED
  BY <1>7, <1>8, <1>9, <1>10, <1>11, <1>12, <1>13, <1>14

LEMMA PartlyWritten ==
  ASSUME IInv, proc = "running", ~StepGoesAstray, NEW done \in Prefixes(PendingWrites)
  PROVE  LET g == Written(file, done)
         IN  PagesOK(g) /\ HeaderOK(g) /\ HeaderKept(file, g)
<1>1. PagesOK(file) /\ HeaderOK(file)
  BY Running
<1>2. PICK T : NodePages(file, T) /\ PendingWrites \in Seq(NodesOver(T, T))
  BY WritesArePossible
<1>3. done \in Seq(NodesOver(T, T))
  BY <1>2, PrefixProperties
<1> QED
  BY <1>1, <1>2, <1>3, WritingKeepsFile

LEMMA FaultEndsProcess ==
  ASSUME IInv, proc = "running", ~StepGoesAstray, NEW done \in Prefixes(PendingWrites),
         Quit(Written(file, done)), sessions' \in 0 .. MaxSessions, faults' \in 0 .. MaxFaults
  PROVE  IInv'
<1>1. PagesOK(Written(file, done)) /\ HeaderOK(Written(file, done))
  BY PartlyWritten
<1>2. exists
  BY DEF IInv, ProcessOK
<1> QED
  BY <1>1, <1>2, QuitStep

LEMMA FaultIsReturned ==
  ASSUME IInv, proc = "running", ~StepGoesAstray, NEW done \in Prefixes(PendingWrites),
         ReturnsError(done), file' = Written(file, done), stream' = "failed",
         freelist' = IF pc = "create" THEN get_next_page(freelist) ELSE freelist,
         pc' = "return", result' = Error,
         UNCHANGED <<exists, proc, meta, root, op, page, path, node, index,
                     ancestors, level, sessions>>,
         faults' \in 0 .. MaxFaults
  PROVE  IInv'
<1>1. TypeOK /\ SessionOK
  BY Running
<1>2. stream' \in {"good", "failed", "closed"}
  OBVIOUS
<1>3. CASE pc \in {"find", "verify"}
  <2>1. PendingWrites = <<>>
    BY <1>3 DEF PendingWrites
  <2>2. done = <<>>
    <3>1. PendingWrites \in Seq(Nat) /\ Len(PendingWrites) = 0
      BY <2>1
    <3>2. done \in Seq(Nat) /\ Len(done) \in 0 .. Len(PendingWrites)
      BY <3>1, PrefixProperties
    <3> QED
      BY <3>1, <3>2, EmptySeq
  <2>3. file' = file
    BY <2>2, NothingWritten
  <2>4. UNCHANGED <<meta, freelist, root>>
    BY <1>3
  <2>5. TypeOK'
    BY <1>1, <1>2, <2>3, <2>4 DEF TypeOK
  <2>6. StepOK' /\ SearchOK' /\ CopiesOK' /\ BoundsOK'
    BY <1>1, <1>3, ReturnStep
  <2> QED
    BY <2>3, <2>4, <2>5, <2>6, MemoryStep
<1>4. CASE pc = "create"
  <2>1. At("create")
    BY <1>4 DEF At
  <2>2. PICK T : NodePages(file, T) /\ PendingWrites \in Seq(NodesOver(T, T))
    BY WritesArePossible
  <2>3. Len(PendingWrites) = 1
    BY <1>4 DEF PendingWrites
  <2>4. /\ done \in Seq(NodesOver(T, T)) /\ Len(done) \in 0 .. 1
        /\ \A i \in 1 .. Len(done) : done[i] = PendingWrites[i]
    BY <2>2, <2>3, PrefixProperties
  <2>5. done \in {<<>>, PendingWrites}
    <3>1. CASE Len(done) = 0
      BY <2>4, <3>1, EmptySeq
    <3>2. CASE Len(done) = 1
      <4> HIDE DEF PendingWrites
      <4>1. done = PendingWrites
        BY <2>2, <2>3, <2>4, <3>2, SeqEqual
      <4> QED
        BY <4>1
    <3>3. Len(done) = 0 \/ Len(done) = 1
      BY <2>4
    <3> QED
      BY <3>1, <3>2, <3>3
  <2>6. freelist' = get_next_page(freelist) /\ result' \in {Ok, Error}
    BY <1>4
  <2> QED
    BY <1>2, <2>1, <2>5, <2>6, FirstPutStep
<1>5. CASE pc \in {"insert", "remove", "predecessor"}
  <2>1. /\ PendingWrites \in Seq(NodesOver(Session, Session))
        /\ \A i \in 1 .. Len(PendingWrites) : KeepsItsChildren(PendingWrites[i])
    <3>0. \A i \in 1 .. 1 : i = 1
      OBVIOUS
    <3>1. CASE pc = "insert"
      <4>1. /\ PendingWrites = <<InsertedNode>>
            /\ InsertedNode \in NodesOver(Session, Session)
            /\ KeepsItsChildren(InsertedNode)
        BY <3>1, InsertWrites DEF At
      <4> HIDE DEF PendingWrites, InsertedNode
      <4>2. PendingWrites \in Seq(NodesOver(Session, Session)) /\ Len(PendingWrites) = 1
            /\ PendingWrites[1] = InsertedNode
        BY <4>1, OneElement
      <4> QED
        BY <3>0, <4>1, <4>2
    <3>2. CASE pc = "remove"
      <4> DEFINE n == without_item(node, index)
      <4>1. /\ PendingWrites = <<n>>
            /\ n \in NodesOver(Session, Session)
            /\ KeepsItsChildren(n)
        BY <3>2, RemoveWrites DEF At
      <4> HIDE DEF n
      <4>2. PendingWrites \in Seq(NodesOver(Session, Session)) /\ Len(PendingWrites) = 1
            /\ PendingWrites[1] = n
        BY <4>1, OneElement
      <4> QED
        BY <3>0, <4>1, <4>2
    <3>3. CASE pc = "predecessor"
      <4>1. CASE is_leaf(get_node(file, page))
        BY <3>3, <4>1, PredecessorWrites DEF At
      <4>2. CASE ~is_leaf(get_node(file, page))
        <5>1. PendingWrites = <<>>
          BY <3>3, <4>2 DEF PendingWrites
        <5>2. <<>> \in Seq(NodesOver(Session, Session)) /\ Len(<<>>) = 0 /\ 1 .. 0 = {}
          OBVIOUS
        <5> QED
          BY <5>1, <5>2
      <4> QED
        BY <4>1, <4>2
    <3> QED
      BY <1>5, <3>1, <3>2, <3>3
  <2>2. /\ done \in Seq(NodesOver(Session, Session))
        /\ \A i \in 1 .. Len(done) : KeepsItsChildren(done[i])
    BY <2>1, PrefixProperties
  <2>3. UNCHANGED freelist
    BY <1>5
  <2> QED
    BY <1>2, <1>5, <2>2, <2>3, CutShortStep
<1> QED
  BY <1>3, <1>4, <1>5 DEF ReturnsError

LEMMA DiskFaultStep ==
  ASSUME IInv, DiskFault
  PROVE  IInv'
<1>1. /\ proc = "running" /\ ~StepGoesAstray
      /\ faults' = faults + 1 /\ faults < MaxFaults /\ UNCHANGED sessions
  BY DEF DiskFault, Proceeds
<1>2. sessions' \in 0 .. MaxSessions /\ faults' \in 0 .. MaxFaults
  BY <1>1, CollectionAssumption DEF IInv, TypeOK
<1>3. PICK done \in Prefixes(PendingWrites) :
        \/ Quit(Written(file, done))
        \/ /\ ReturnsError(done)
           /\ file' = Written(file, done)
           /\ stream' = "failed"
           /\ freelist' = IF pc = "create" THEN get_next_page(freelist) ELSE freelist
           /\ ReturnWith(Error)
           /\ UNCHANGED <<exists, proc, meta, root, op, page, path, node, index,
                          ancestors, level>>
  BY DEF DiskFault
<1>4. CASE Quit(Written(file, done))
  BY <1>1, <1>2, <1>4, FaultEndsProcess
<1>5. CASE ~Quit(Written(file, done))
  BY <1>1, <1>2, <1>3, <1>5, FaultIsReturned DEF ReturnWith
<1> QED
  BY <1>4, <1>5
-----------------------------------------------------------------------------
\* The invariant.

LEMMA IInvInit ==
  ASSUME Init
  PROVE  IInv
<1>1. /\ exists = FALSE /\ file = <<>> /\ proc = "down" /\ stream = "closed"
      /\ meta = NoMeta /\ freelist = EmptyFreelist
      /\ root = 0 /\ pc = "idle" /\ IdleCall /\ sessions = 0 /\ faults = 0
  BY DEF Init, DalInit
<1>2. DOMAIN file = {}
  BY <1>1
<1>3. PagesOK(file) /\ HeaderOK(file)
  BY <1>2 DEF PagesOK, HeaderOK
<1>4. meta \in [root : Nat, freelist_page : Nat] /\ freelist \in Freelists
  BY <1>1 DEF NoMeta, EmptyFreelist, Freelists
<1>5. /\ op \in Operation \union {NoOperation} /\ page \in Nat /\ path \in Seq(Nat)
      /\ node \in Nodes /\ index \in Nat /\ ancestors \in Seq(Nodes) /\ level \in Nat
      /\ result = NoResult
  BY <1>1 DEF IdleCall, NoNode, Nodes
<1>6. 0 \in 0 .. MaxSessions /\ 0 \in 0 .. MaxFaults
  BY CollectionAssumption
<1>7. TypeOK
  BY <1>1, <1>2, <1>4, <1>5, <1>6 DEF TypeOK
<1>8. ProcessOK
  BY <1>1, <1>2 DEF ProcessOK
<1> QED
  BY <1>1, <1>3, <1>7, <1>8 DEF IInv

LEMMA IInvStep ==
  ASSUME IInv, [Next]_vars
  PROVE  IInv'
<1>1. CASE Open
  BY <1>1, OpenStep
<1>2. CASE Close
  BY <1>2, CloseStep
<1>3. CASE Exit
  BY <1>3, ExitStep
<1>4. CASE \E o \in Operation : Call(o)
  BY <1>4, CallStep
<1>5. CASE Initialize
  BY <1>5, InitializeStep
<1>6. CASE GoDown \/ StopSearch \/ ReadFails
  BY <1>6, GoDownStep, StopSearchStep, ReadFailsStep
<1>7. CASE CreateRoot \/ CreateRootFails \/ InsertItem
  BY <1>7, CreateRootStep, CreateRootFailsStep, InsertItemStep
<1>8. CASE SplitChild \/ SplitRoot \/ KeepRoot
  BY <1>8, SplitChildStep, SplitRootStep, KeepRootStep
<1>9. CASE RemoveFromLeaf \/ DescendToPredecessor \/ TakePredecessor
  BY <1>9, RemoveFromLeafStep, DescendToPredecessorStep, TakePredecessorStep
<1>10. CASE RebalanceChild \/ KeepChild \/ ShrinkRoot
  BY <1>10, RebalanceChildStep, KeepChildStep, ShrinkRootStep
<1>11. CASE Return \/ GoAstray \/ DiskFault
  BY <1>11, ReturnStepIdle, GoAstrayStep, DiskFaultStep
<1>12. CASE UNCHANGED vars
  <2>1. UNCHANGED <<exists, file, proc, stream, meta, freelist, root, pc, op, page, path, node,
                    index, ancestors, level, result, sessions, faults>>
    BY <1>12 DEF vars, dal_vars, call_vars, bounds
  <2>2. Session' = Session
    BY <2>1 DEF Session, Allocated
  <2>3. TypeOK' <=> TypeOK
    BY <2>1 DEF TypeOK
  <2>4. ProcessOK' <=> ProcessOK
    BY <2>1 DEF ProcessOK, IdleCall
  <2>5. HeaderLoaded' <=> HeaderLoaded
    BY <2>1 DEF HeaderLoaded
  <2>6. PagesHeld' <=> PagesHeld
    BY <2>1, <2>2 DEF PagesHeld, Released
  <2>7. StepOK' <=> StepOK
    BY <2>1 DEF StepOK, IdleCall
  <2>8. SearchOK' <=> SearchOK
    BY <2>1, <2>2 DEF SearchOK, PathOK
  <2>9. (CopiesOK' <=> CopiesOK) /\ (BoundsOK' <=> BoundsOK)
    BY <2>1, <2>2 DEF CopiesOK, BoundsOK
  <2>10. SessionOK' <=> SessionOK
    BY <2>5, <2>6, <2>7, <2>8, <2>9 DEF SessionOK
  <2> QED
    BY <2>1, <2>3, <2>4, <2>10 DEF IInv
<1> QED
  BY <1>1, <1>2, <1>3, <1>4, <1>5, <1>6, <1>7, <1>8, <1>9, <1>10, <1>11, <1>12
  DEF Next, Step, Progress

\* The invariant holds in every behaviour: of every sequence of calls, whatever
\* the keys, wherever the process is killed and the disk fails.
THEOREM InvariantHolds == Spec => []IInv
<1>1. Init => IInv
  BY IInvInit
<1>2. IInv /\ [Next]_vars => IInv'
  BY IInvStep
<1> QED
  BY <1>1, <1>2, PTL DEF Spec

\* Every variable keeps its type: no call, kill or fault makes the code hold a
\* node, a path or a page that is none (collection.cpp, data_access_layer.cpp).
THEOREM TypeCorrect == Spec => []TypeOK
<1>1. IInv => TypeOK
  BY DEF IInv
<1> QED
  BY <1>1, InvariantHolds, PTL
-----------------------------------------------------------------------------
\* The header.

\* A step that changes the file is one of the constructor, or writes all or some
\* of the call's pending nodes.
LEMMA FileSteps ==
  ASSUME IInv, [Next]_vars
  PROVE  \/ file' = file
         \/ proc \in {"freelist", "root", "meta"}
         \/ /\ proc = "running" /\ ~StepGoesAstray
            /\ \E done \in Prefixes(PendingWrites) : file' = Written(file, done)
<1> DEFINE All == proc = "running" /\ ~StepGoesAstray /\ file' = Written(file, PendingWrites)
<1>1. All => \E done \in Prefixes(PendingWrites) : file' = Written(file, done)
  <2>1. SUFFICES ASSUME All PROVE PendingWrites \in Prefixes(PendingWrites)
    OBVIOUS
  <2>2. PICK T : PendingWrites \in Seq(NodesOver(T, T))
    BY <2>1, WritesArePossible
  <2> HIDE DEF All
  <2>3. /\ Len(PendingWrites) \in 0 .. Len(PendingWrites)
        /\ SubSeq(PendingWrites, 1, Len(PendingWrites)) = PendingWrites
    BY <2>2, SubSeqFull, LenProperties
  <2> QED
    BY <2>3 DEF Prefixes
<1>2. CASE CreateRoot \/ RemoveFromLeaf \/ TakePredecessor \/ RebalanceChild
  <2>1. All
    BY <1>2 DEF CreateRoot, RemoveFromLeaf, TakePredecessor, RebalanceChild, Write, At, Proceeds
  <2> QED
    BY <1>1, <2>1
<1>3. CASE InsertItem
  <2>1. PendingWrites = <<InsertedNode>>
    BY <1>3, InsertWrites DEF InsertItem
  <2>2. All
    BY <1>3, <2>1 DEF InsertItem, Write, At, Proceeds
  <2> QED
    BY <1>1, <2>2
<1>4. CASE SplitChild
  <2>1. PendingWrites = SplitWrites
    BY <1>4 DEF SplitChild, PendingWrites, At
  <2>2. All
    BY <1>4, <2>1 DEF SplitChild, Write, At, Proceeds
  <2> QED
    BY <1>1, <2>2
<1>5. CASE SplitRoot
  <2>1. PendingWrites = SplitRootWrites
    BY <1>5 DEF SplitRoot, PendingWrites, At
  <2>2. All
    BY <1>5, <2>1 DEF SplitRoot, Write, At, Proceeds
  <2> QED
    BY <1>1, <2>2
<1>6. CASE DiskFault
  <2>1. \E done \in Prefixes(PendingWrites) : file' = Written(file, done)
    BY <1>6 DEF DiskFault, Quit
  <2> QED
    BY <1>6, <2>1 DEF DiskFault, Proceeds
<1>7. CASE Initialize
  BY <1>7 DEF Initialize, WriteFreelist, InitRootNode, WriteMeta
<1>8. CASE Open \/ Close \/ Exit \/ (\E o \in Operation : Call(o)) \/ Return \/ GoAstray
  BY <1>8 DEF Open, CreateFile, LoadDatabase, Close, Exit, Quit, Call, Return, GoAstray, dal_vars
<1>9. CASE GoDown \/ StopSearch \/ ReadFails \/ CreateRootFails \/ KeepRoot
  BY <1>9 DEF GoDown, StopSearch, ReadFails, Quit, CreateRootFails, KeepRoot, dal_vars
<1>10. CASE DescendToPredecessor \/ KeepChild \/ ShrinkRoot \/ UNCHANGED vars
  BY <1>10 DEF DescendToPredecessor, KeepChild, ShrinkRoot, vars, dal_vars
<1> QED
  BY <1>2, <1>3, <1>4, <1>5, <1>6, <1>7, <1>8, <1>9, <1>10 DEF Next, Step, Progress

LEMMA HeaderStaysIntact ==
  ASSUME IInv, [Next]_vars, HeaderWritten
  PROVE  \A p \in HeaderPages : file'[p] = file[p]
<1>1. /\ META_PAGE \in DOMAIN file /\ file[META_PAGE].kind = "meta"
      /\ HeaderOK(file) /\ ProcessOK
  BY DEF HeaderWritten, IInv
<1>2. file[META_PAGE] # Hole
  BY <1>1 DEF Hole
<1>3. file[META_PAGE] = MetaPage(FirstMeta)
  BY <1>1, <1>2 DEF HeaderOK
<1>4. HeaderPages = {META_PAGE, 1}
  BY <1>3 DEF HeaderPages, MetaPage, FirstMeta
<1>5. proc \notin {"freelist", "root", "meta"}
  <2>1. proc = "freelist" => DOMAIN file = {}
    BY <1>1 DEF ProcessOK
  <2>2. proc \in {"root", "meta"} => file[META_PAGE] = Hole
    BY <1>1 DEF ProcessOK
  <2>3. proc = "meta" => file[META_PAGE] = Hole
    BY <2>2
  <2> QED
    BY <1>1, <1>2, <2>1, <2>2
<1>6. CASE file' = file
  BY <1>6
<1>7. CASE /\ proc = "running" /\ ~StepGoesAstray
           /\ \E done \in Prefixes(PendingWrites) : file' = Written(file, done)
  <2>1. HeaderKept(file, file')
    BY <1>7, PartlyWritten
  <2> QED
    BY <1>1, <1>2, <1>4, <2>1 DEF HeaderKept
<1> QED
  BY <1>5, <1>6, <1>7, FileSteps

\* Once the meta page is written, neither it nor the freelist page it names is
\* ever written again: the page numbers that reach write_node
\* (data_access_layer.cpp:148-165) lie past them, in every session.
THEOREM HeaderIsNeverOverwritten == Spec => HeaderPagesIntact
<1>1. IInv /\ [Next]_vars =>
        [HeaderWritten => (\A p \in HeaderPages : file'[p] = file[p])]_vars
  BY HeaderStaysIntact
<1> QED
  BY <1>1, InvariantHolds, PTL DEF Spec, HeaderPagesIntact
-----------------------------------------------------------------------------
\* The tree.

\* Child pointers lead from the root to pages of the session only.
LEMMA ReachableInSession ==
  ASSUME root \in Session, StoredIn(file, Session, Session), Session \subseteq Nat
  PROVE  Reachable \subseteq Session
<1> DEFINE next == [S \in SUBSET Nat |-> UNION {ToSet(get_node(file, p).children) : p \in S}]
           T == {n \in Nat : n <= MaxDepth => PagesAt[n] \subseteq Session}
<1>1. \A S \in SUBSET Nat : next[S] = UNION {ToSet(get_node(file, p).children) : p \in S}
  OBVIOUS
<1>2. PagesAt = Iteration(next, {root})
  BY DEF PagesAt
<1> HIDE DEF next
<1>3. MaxDepth \in Nat
  BY CollectionAssumption
<1>4. /\ PagesAt[0] = {root}
      /\ \A n \in 0 .. MaxDepth - 1 : PagesAt[n + 1] = next[PagesAt[n]]
  BY <1>2, IterationSteps
<1>5. 0 \in T
  BY <1>4
<1>6. ASSUME NEW n \in Nat, n \in T PROVE n + 1 \in T
  <2> SUFFICES ASSUME n + 1 <= MaxDepth PROVE PagesAt[n + 1] \subseteq Session
    BY <1>6
  <2>1. n \in 0 .. MaxDepth - 1 /\ n <= MaxDepth
    BY <1>3
  <2>2. PagesAt[n] \subseteq Session
    BY <1>6, <2>1
  <2>3. PagesAt[n + 1] = UNION {ToSet(get_node(file, p).children) : p \in PagesAt[n]}
    BY <1>1, <1>4, <2>1, <2>2
  <2>4. ASSUME NEW p \in PagesAt[n] PROVE ToSet(get_node(file, p).children) \subseteq Session
    <3>1. get_node(file, p) \in NodesOf(Session)
      BY <2>2, GetNodeOf
    <3>2. get_node(file, p).children \in Seq(Session)
      BY <3>1 DEF NodesOf, NodesOver
    <3> QED
      BY <3>2, ToSetOfSeq
  <2> QED
    BY <2>3, <2>4
<1> HIDE DEF T
<1>7. Nat \subseteq T
  BY <1>5, <1>6, Induction
<1>8. \A n \in 0 .. MaxDepth : PagesAt[n] \subseteq Session
  BY <1>3, <1>7 DEF T
<1> QED
  BY <1>8 DEF Reachable

\* A collection reads only pages allocated in its own session: from the root it
\* works on (collection.cpp:18-21) no child pointer leads to what an earlier
\* session left in the file, in whatever order calls, kills and faults come.
THEOREM ReadsOnlyItsOwnPages == Spec => []TreeIsOfThisSession
<1>1. ASSUME IInv, Quiet
      PROVE  Reachable \subseteq 1 .. freelist.max_page /\ Released \subseteq 1 .. freelist.max_page
  <2>1. proc = "running" /\ root # 0
    BY <1>1 DEF Quiet
  <2>2. /\ TypeOK /\ PagesHeld /\ Session \subseteq Allocated
        /\ StoredIn(file, Session, Session) /\ freelist.max_page \in Nat
    BY <1>1, <2>1, Running
  <2>3. meta.freelist_page \in Nat
    BY <2>2 DEF TypeOK
  <2>4. Session \subseteq 1 .. freelist.max_page
    BY <2>2, <2>3 DEF Allocated
  <2>5. root \in Session /\ Released \subseteq Session
    BY <2>1, <2>2 DEF PagesHeld
  <2>6. Session \subseteq Nat
    BY <2>4
  <2>7. Reachable \subseteq Session
    BY <2>2, <2>5, <2>6, ReachableInSession
  <2> QED
    BY <2>4, <2>5, <2>7
<1>2. IInv => TreeIsOfThisSession
  BY <1>1 DEF TreeIsOfThisSession
<1> QED
  BY <1>2, InvariantHolds, PTL
-----------------------------------------------------------------------------
\* Failures.

\* A failed stream stops a call at its search or its first write: no step that
\* rebalances is reached, and what the call returns is an error.
FailedStreamIsFinal ==
  stream = "failed" =>
    /\ pc \in {"idle", "find", "create", "return"}
    /\ pc = "return" => result = Error

\* Steps that need a good stream, and leave it good.
LEMMA GoodStreamSteps ==
  ASSUME \/ GoDown \/ StopSearch \/ CreateRoot \/ InsertItem \/ SplitChild
         \/ SplitRoot \/ RemoveFromLeaf \/ TakePredecessor \/ RebalanceChild
  PROVE  stream' = "good"
<1>1. CASE GoDown \/ StopSearch
  BY <1>1 DEF GoDown, StopSearch, Searching, Readable, dal_vars
<1>2. CASE CreateRoot \/ InsertItem \/ SplitChild \/ SplitRoot
  BY <1>2 DEF CreateRoot, InsertItem, SplitChild, SplitRoot, Write
<1>3. CASE RemoveFromLeaf \/ TakePredecessor \/ RebalanceChild
  BY <1>3 DEF RemoveFromLeaf, TakePredecessor, RebalanceChild, Write
<1> QED
  BY <1>1, <1>2, <1>3

\* Steps taken in the middle of a rebalancing loop or on the way to the
\* predecessor: a failed stream has none of them.
LEMMA LoopSteps ==
  ASSUME FailedStreamIsFinal,
         KeepRoot \/ DescendToPredecessor \/ KeepChild \/ ShrinkRoot
  PROVE  stream' # "failed"
<1>1. pc \in {"split", "predecessor", "rebalance"}
  BY DEF KeepRoot, DescendToPredecessor, KeepChild, ShrinkRoot, At
<1>2. stream' = stream
  BY DEF KeepRoot, DescendToPredecessor, KeepChild, ShrinkRoot, dal_vars
<1> QED
  BY <1>1, <1>2 DEF FailedStreamIsFinal

\* Steps that end a call with an error.
LEMMA ErrorSteps ==
  ASSUME ReadFails \/ CreateRootFails \/ DiskFault
  PROVE  \/ stream' = "closed"
         \/ pc' = "return" /\ result' = Error
<1>1. CASE ReadFails
  BY <1>1 DEF ReadFails, ReturnWith, Quit, Stop
<1>2. CASE CreateRootFails
  BY <1>2 DEF CreateRootFails, ReturnWith
<1>3. CASE DiskFault
  BY <1>3 DEF DiskFault, ReturnWith, Quit, Stop
<1> QED
  BY <1>1, <1>2, <1>3

LEMMA FailedStreamStep ==
  ASSUME FailedStreamIsFinal, [Next]_vars
  PROVE  FailedStreamIsFinal'
<1>1. CASE Open
  BY <1>1 DEF Open, CreateFile, LoadDatabase, FailedStreamIsFinal
<1>2. CASE Close
  BY <1>2 DEF Close, FailedStreamIsFinal
<1>3. CASE Exit
  BY <1>3 DEF Exit, Quit, Stop, FailedStreamIsFinal
<1>4. CASE \E o \in Operation : Call(o)
  BY <1>4 DEF Call, FailedStreamIsFinal
<1>5. CASE Initialize
  <2>1. UNCHANGED <<stream, pc, call_vars>>
    BY <1>5 DEF Initialize, WriteFreelist, InitRootNode, WriteMeta
  <2> QED
    BY <2>1 DEF FailedStreamIsFinal, call_vars
<1>6. CASE GoDown \/ StopSearch \/ CreateRoot \/ InsertItem \/ SplitChild
           \/ SplitRoot \/ RemoveFromLeaf \/ TakePredecessor \/ RebalanceChild
  BY <1>6, GoodStreamSteps DEF FailedStreamIsFinal
<1>7. CASE KeepRoot \/ DescendToPredecessor \/ KeepChild \/ ShrinkRoot
  BY <1>7, LoopSteps DEF FailedStreamIsFinal
<1>8. CASE ReadFails \/ CreateRootFails \/ DiskFault
  BY <1>8, ErrorSteps DEF FailedStreamIsFinal
<1>9. CASE Return
  BY <1>9 DEF Return, FailedStreamIsFinal
<1>10. CASE GoAstray
  BY <1>10 DEF GoAstray, call_vars, FailedStreamIsFinal
<1>11. CASE UNCHANGED vars
  BY <1>11 DEF vars, dal_vars, call_vars, FailedStreamIsFinal
<1> QED
  BY <1>1, <1>2, <1>3, <1>4, <1>5, <1>6, <1>7, <1>8, <1>9, <1>10, <1>11
  DEF Next, Step, Progress

\* After a read or write failed, no call of the session returns anything but an
\* error: however rebalance_remove and remove_item_from_internal drop errors
\* (node.cpp:337-366, 244-245), none of them is turned into a success.
THEOREM FailuresAreReported == Spec => []FailedStreamOnlyErrs
<1>1. Init => FailedStreamIsFinal
  BY DEF Init, DalInit, FailedStreamIsFinal
<1>2. FailedStreamIsFinal /\ [Next]_vars => FailedStreamIsFinal'
  BY FailedStreamStep
<1>3. FailedStreamIsFinal => FailedStreamOnlyErrs
  BY DEF FailedStreamIsFinal, FailedStreamOnlyErrs
<1> QED
  BY <1>1, <1>2, <1>3, PTL DEF Spec
=============================================================================
