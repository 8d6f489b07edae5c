------------------------------- MODULE Endian -------------------------------
(***************************************************************************)
(* The part of the endian library toocal is built with that it uses        *)
(* (libs/endian): integers in little-endian order, and streams that write  *)
(* and read them at a position of a buffer of fixed size.                  *)
(*                                                                         *)
(* A buffer is a function from 0 .. its size - 1 to bytes, a string of     *)
(* bytes a sequence.                                                       *)
(***************************************************************************)
EXTENDS Integers, Sequences, FiniteSets

CONSTANT Byte       \* 2^8: how many values a byte has

ASSUME ByteAssumption == Byte \in Nat /\ Byte > 1

Bytes == 0 .. Byte - 1

\* little_endian::put_bytes: the lowest byte first, then what is left of the
\* value; what does not go into the bytes is lost.
put(value, bytes) ==
  LET rest[n \in 0 .. bytes - 1] == IF n = 0 THEN value ELSE rest[n - 1] \div Byte
  IN  [n \in 1 .. bytes |-> rest[n - 1] % Byte]

\* little_endian::get_bytes: the value built up from its last byte.
get(string) ==
  LET from[n \in 1 .. Len(string) + 1] ==
        IF n > Len(string) THEN 0 ELSE Byte * from[n + 1] + string[n]
  IN  from[1]

-----------------------------------------------------------------------------
\* Streams.

empty_buffer(size) == [at \in 0 .. size - 1 |-> 0]

\* A stream over what follows a position in the buffer.
stream(buffer, at) == [buffer |-> buffer, position |-> at]

remaining_size(s) == Cardinality(DOMAIN s.buffer) - s.position

\* What read and write assert: n bytes are left.
InBounds(s, n) == s.position >= 0 /\ n <= remaining_size(s)

skip(s, n) == [s EXCEPT !.position = @ + n]

\* stream_writer::write, of a string of bytes and of an integer.
write(s, string) ==
  skip([s EXCEPT !.buffer =
          [at \in DOMAIN @ |-> IF at \in s.position .. s.position + Len(string) - 1
                               THEN string[at - s.position + 1] ELSE @[at]]],
       Len(string))

write_bytes(s, value, bytes) == write(s, put(value, bytes))

\* stream_reader::read, of a string of bytes and of an integer.
read(s, n) == [k \in 1 .. n |-> s.buffer[s.position + k - 1]]

read_bytes(s, bytes) == get(read(s, bytes))
=============================================================================
