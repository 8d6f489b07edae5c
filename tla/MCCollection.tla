---------------------------- MODULE MCCollection ----------------------------
(***************************************************************************)
(* The sizes of items TLC checks collections with.                         *)
(***************************************************************************)
EXTENDS CollectionClaims, TreeInvariant

\* Items of one size, whatever their key.
Uniform(bytes) == [k \in Key |-> bytes]

\* Under BALANCE a node is under-populated below 51.2 bytes and over-populated
\* above 102.4, of which 11 are its own.
Items46 == Uniform(46)          \* one item to a node
Items24 == Uniform(24)          \* two or three
ItemsMixed == [k \in Key |-> IF k % 2 = 0 THEN 24 ELSE 46]
ItemsGrowing == [k \in Key |-> IF k < 3 THEN 16 ELSE 60]  \* small ones first
=============================================================================
