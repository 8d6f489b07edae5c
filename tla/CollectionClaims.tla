-------------------------- MODULE CollectionClaims --------------------------
(***************************************************************************)
(* What the documentation, comments and tests of toocal say of a           *)
(* collection, stated for the callers they speak of.                       *)
(***************************************************************************)
EXTENDS CollectionProperties

\* A session whose caller makes only the allowed calls, on a healthy disk and
\* without being killed.
Workload(Allowed(_)) ==
  \/ Open
  \/ \E o \in Operation : Call(o) /\ Allowed(o)
  \/ Step

\* Keys that are not in the collection are put into it, in any order: what
\* cli/main.cpp and the tests do.
FreshPut(o) == o.kind = "put" /\ ~IsPresent(o.key)

FreshPutSpec == Init /\ [][Workload(FreshPut)]_vars

\* Keys are put and removed, those already there put again.
Rewrite(o) == o.kind \in {"put", "remove"} /\ (o.kind = "remove" => root # 0)

RewriteSpec == Init /\ [][Workload(Rewrite)]_vars
-----------------------------------------------------------------------------
\* A key in the collection stays there until it is removed: every key that was
\* put is found (cli/main.cpp:50-63, tests/test_balance_query.cpp:45-57).
OnlyRemoveLosesKeys ==
  [][\A k \in Key : IsPresent(k) => IsPresent(k)' \/ op = [kind |-> "remove", key |-> k]]_vars

\* A remove that succeeds leaves no item with its key in the tree: "Remove
\* removes a key from the tree" (collection.h:63), and what is removed is not
\* found afterwards (cli/main.cpp:85-88).
RemovedKeyIsGone ==
  pc = "return" /\ op.kind = "remove" /\ result = Ok => ~IsPresent(op.key)

\* The process could be killed now and the next session would hold the same
\* map: the root property of meta names the page of the root (meta.h:21-26).
RestartKeepsContents ==
  proc = "running" /\ pc = "idle" =>
    ContentsFrom(read_meta(file, META_PAGE).root) = Contents
=============================================================================
