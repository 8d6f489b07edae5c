------------------------------ MODULE Program ------------------------------
(***************************************************************************)
(* The command line program of toocal (cli/main.cpp) and its tests         *)
(* (tests/test_*.cpp): loops that put, find, remove and look once more for *)
(* data_size keys, and end the process when anything is not as expected.   *)
(* They run over Collection, on the file that an earlier run may have left *)
(* behind when it was killed.                                              *)
(***************************************************************************)
EXTENDS CollectionProperties

CONSTANTS
  DataSizes,    \* the values of data_size
  MaxKilled     \* bound: a run over more keys is not killed

ASSUME ProgramAssumption == DataSizes \subseteq 1 .. 1000 /\ MaxKilled \in Nat

VARIABLES
  loops,        \* the loops of the program, in order
  data_size,    \* data_size
  loop, i,      \* the loop it is in, and the loop variable
  outcome       \* "none", "done" or "fatal"

program_vars == <<loops, data_size, loop, i, outcome>>
all_vars == <<vars, program_vars>>

\* The command line program, and the tests of insert, query and remove.
Programs == {<<"put", "find", "remove", "check">>,
             <<"put">>, <<"put", "find">>, <<"put", "remove">>}

-----------------------------------------------------------------------------
\* Keys and items.

\* The digits of n < 1000.
Digits(n) ==
  CASE n \in 0 .. 9     -> <<n>>
    [] n \in 10 .. 99   -> <<n \div 10, n % 10>>
    [] n \in 100 .. 999 -> <<n \div 100, (n \div 10) % 10, n % 10>>

\* The place of "Key<n>" in bytescmp order: digit by digit from the left, and
\* what ends before what goes on.
KeyOf(n) ==
  LET digit(d) == IF d > Len(Digits(n)) THEN 0 ELSE Digits(n)[d] + 1
  IN  121 * digit(1) + 11 * digit(2) + digit(3)

\* The bytes of "Key<n>" and "Value<n>".
BytesOf(n) == 8 + 2 * Len(Digits(n))

-----------------------------------------------------------------------------
ProgramInit == /\ Init
               /\ loops \in Programs
               /\ data_size \in DataSizes
               /\ loop = 1 /\ i = 0 /\ outcome = "none"

Runs == outcome = "none"
InLoop == Runs /\ loop <= Len(loops)

\* The call the body of the loop makes.
LoopCall ==
  CASE loops[loop] = "put"    -> [kind |-> "put", key |-> KeyOf(i), value |-> i]
    [] loops[loop] = "remove" -> [kind |-> "remove", key |-> KeyOf(i)]
    [] OTHER                  -> [kind |-> "find", key |-> KeyOf(i)]

MakeCall == /\ InLoop /\ i < data_size
            /\ Call(LoopCall)
            /\ UNCHANGED program_vars

\* The results the loop goes on with.
Expected == CASE loops[loop] = "find"  -> result = Found(i)
              [] loops[loop] = "check" -> result = Absent
              [] OTHER                 -> result = Ok

\* The loop variable of the query loop is not advanced.
CheckResult_QueriesAgain ==
  /\ InLoop /\ At("return")
  /\ Return
  /\ i' = IF loops[loop] = "find" THEN i ELSE i + 1
  /\ UNCHANGED <<loops, data_size, loop, outcome>>

\* The loop goes on with the next key, or ends the process: by fatal, or by the
\* panic of an error.
CheckResult ==
  /\ InLoop /\ At("return")
  /\ IF Expected THEN Return /\ i' = i + 1 /\ UNCHANGED outcome
                 ELSE Quit(file) /\ outcome' = "fatal" /\ UNCHANGED <<i, bounds>>
  /\ UNCHANGED <<loops, data_size, loop>>

NextLoop == /\ InLoop /\ At("idle") /\ i = data_size
            /\ loop' = loop + 1 /\ i' = 0
            /\ UNCHANGED <<vars, loops, data_size, outcome>>

\* The file is removed, the layer closed, and the process ends.
Finish == /\ Runs /\ loop = Len(loops) + 1
          /\ exists' = FALSE /\ file' = <<>>
          /\ proc' = "down" /\ stream' = "closed"
          /\ meta' = NoMeta /\ freelist' = EmptyFreelist /\ root' = 0
          /\ outcome' = "done"
          /\ UNCHANGED <<pc, call_vars, bounds, loops, data_size, loop, i>>

\* A step of the constructor or inside a call.
Inside == /\ InLoop /\ (Open \/ Initialize \/ GoAstray \/ (Progress /\ ~At("return")))
          /\ UNCHANGED program_vars

ProgramStep == Inside \/ MakeCall \/ CheckResult \/ NextLoop \/ Finish

\* The program is killed, and run from its start on the file it left.
Killed == /\ sessions < MaxSessions /\ data_size <= MaxKilled
          /\ Exit
          /\ loop' = 1 /\ i' = 0
          /\ UNCHANGED <<loops, data_size, outcome>>

\* The process runs, or may still be run again.  It cannot be on the empty file
\* that a kill in initialize_database may leave: load_database fails on it.
Alive == /\ Runs /\ proc # "astray"
         /\ proc = "down" => sessions < MaxSessions /\ (exists => file # <<>>)

Ended == ~Alive /\ UNCHANGED all_vars

ProgramNext == ProgramStep \/ Killed \/ Ended

\* The program has one thread, which runs as long as nobody kills it: weak
\* fairness of ProgramStep, with its enabling condition Alive written out.  That
\* Alive does enable a step is what the check for deadlock shows.
Fairness == <>[]Alive => []<><<ProgramStep>>_all_vars

ProgramSpec == ProgramInit /\ [][ProgramNext]_all_vars /\ Fairness
-----------------------------------------------------------------------------
\* Every key that was put is found with its value, every remove succeeds, and
\* nothing that was removed is found (main.cpp:36, 50-65, 78, 85-89); also when
\* the program runs on what a killed run left, whose pages it overwrites.
NothingIsFatal == outcome # "fatal" /\ proc # "astray"

\* When all keys are removed the tree holds no item, not even one that no search
\* comes to, like the second copy of a key.
NothingIsLeft ==
  InLoop /\ loop = 4 /\ Quiet => \A p \in Reachable : ItemsAt(p) = <<>>

\* Once something is in the file the program ends, when it is run until nobody
\* kills it: every loop over keys, nodes and pages comes to its end, also on the
\* pages an earlier run left.
ProgramEnds == file # <<>> ~> outcome = "done"
=============================================================================
