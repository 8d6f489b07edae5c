----------------------------- MODULE MCProgram ------------------------------
(***************************************************************************)
(* The keys, values and item sizes of the program for the largest of the   *)
(* DataSizes.                                                              *)
(***************************************************************************)
EXTENDS Program

\* Every size up to 44.
ProgramSizes == 1 .. 44

ProgramValues == 0 .. Max(DataSizes) - 1

\* The places of all strings of up to three digits, the program's among them.
ProgramKeys == 0 .. 1330

\* The inverse of KeyOf, as far as the number of digits goes.
ProgramItemBytes ==
  [k \in Key |-> BytesOf(IF k % 11 > 0 THEN 100 ELSE IF k % 121 > 0 THEN 10 ELSE 0)]
=============================================================================
