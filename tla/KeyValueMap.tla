---------------------------- MODULE KeyValueMap -----------------------------
(***************************************************************************)
(* What a collection promises its caller: a map from keys to values, one   *)
(* call at a time, each taking effect at one moment between its invocation *)
(* and its return.  The map lasts as long as the session: toocal saves     *)
(* neither the root nor the freelist, so a new session starts empty.       *)
(***************************************************************************)
CONSTANTS Key, Value

VARIABLES
  session,      \* "down", "good", "failed" (see the end) or "closed"
  map,          \* a function from the keys present to their values
  call,         \* the call in progress
  reply         \* its reply, once it has taken effect

vars == <<session, map, call, reply>>

Operation == [kind : {"find", "remove"}, key : Key]
               \union [kind : {"put"}, key : Key, value : Value]

NoCall == [kind |-> "none"]
NoReply == [status |-> "none"]
Failure == [status |-> "error"]
EmptyMap == [k \in {} |-> k]

Init == /\ session = "down" /\ map = EmptyMap
        /\ call = NoCall /\ reply = NoReply

Start == /\ session = "down"
         /\ session' = "good"
         /\ UNCHANGED <<map, call, reply>>

Close == /\ session \in {"good", "failed"} /\ call = NoCall
         /\ session' = "closed" /\ map' = EmptyMap
         /\ UNCHANGED <<call, reply>>

Stop == /\ session' = "down" /\ map' = EmptyMap
        /\ call' = NoCall /\ reply' = NoReply

Invoke(o) == /\ session = "good" /\ call = NoCall
             /\ call' = o
             /\ UNCHANGED <<session, map, reply>>

\* The reply to call c on map m, and the map it leaves.
Reply(c, m) ==
  CASE c.kind = "find" /\ c.key \in DOMAIN m -> [status |-> "found", value |-> m[c.key]]
    [] c.kind = "find" /\ c.key \notin DOMAIN m -> [status |-> "absent"]
    [] c.kind = "put" -> [status |-> "ok"]
    [] c.kind = "remove" ->
         [status |-> IF c.key \in DOMAIN m THEN "ok" ELSE "missing"]

After(c, m) ==
  CASE c.kind = "find" -> m
    [] c.kind = "put" ->
         [k \in DOMAIN m \union {c.key} |-> IF k = c.key THEN c.value ELSE m[k]]
    [] c.kind = "remove" -> [k \in DOMAIN m \ {c.key} |-> m[k]]

Effect == /\ session = "good" /\ call # NoCall /\ reply = NoReply
          /\ reply' = Reply(call, map)
          /\ map' = After(call, map)
          /\ UNCHANGED <<session, call>>

Return == /\ reply # NoReply
          /\ call' = NoCall /\ reply' = NoReply
          /\ UNCHANGED <<session, map>>

Next == \/ Start \/ Close \/ Stop \/ Effect \/ Return
        \/ \E o \in Operation : Invoke(o)

Spec == Init /\ [][Next]_vars
-----------------------------------------------------------------------------
\* On a disk that may fail a call may also return an error, whether or not it has
\* taken effect.  What the map holds is not known from then on, and nobody is
\* told: all further calls of the session return errors, as they do after Close.

Fail == /\ session = "good" /\ call # NoCall
        /\ session' = "failed" /\ map' = EmptyMap
        /\ reply' = Failure
        /\ UNCHANGED call

InvokeInVain(o) == /\ session \in {"failed", "closed"} /\ call = NoCall
                   /\ call' = o
                   /\ UNCHANGED <<session, map, reply>>

Refuse == /\ session \in {"failed", "closed"} /\ call # NoCall /\ reply = NoReply
          /\ reply' = Failure
          /\ UNCHANGED <<session, map, call>>

FaultyNext == \/ Next \/ Fail \/ Refuse
              \/ \E o \in Operation : InvokeInVain(o)

FaultySpec == Init /\ [][FaultyNext]_vars
=============================================================================
