-------------------------- MODULE SerializerProofs --------------------------
(***************************************************************************)
(* What is written to a page comes back from it, for every size of bytes,  *)
(* pages, items, keys and values.                                          *)
(***************************************************************************)
EXTENDS SerializerInvariant, Lemmas, FiniteSetTheorems

-----------------------------------------------------------------------------
\* Integers as bytes.

LEMMA Division ==
  ASSUME NEW v \in Nat
  PROVE  /\ v \div Byte \in Nat /\ v % Byte \in Bytes
         /\ v = (Byte * (v \div Byte)) + (v % Byte)
         /\ v < Byte => v % Byte = v
BY ByteAssumption DEF Bytes

LEMMA Quotient ==
  ASSUME NEW v \in Nat, NEW c \in Nat, v < Byte * c
  PROVE  v \div Byte < c
BY ByteAssumption

\* What is left of a value after each of its bytes.
IsRest(h, v, n) == h = [k \in 0 .. n - 1 |-> IF k = 0 THEN v ELSE h[k - 1] \div Byte]

LEMMA RestExists ==
  ASSUME NEW v, NEW n \in Nat
  PROVE  \E h : IsRest(h, v, n)
<1> DEFINE T == {m \in Nat : \E h : IsRest(h, v, m)}
<1>1. 0 \in T
  <2> DEFINE h == [k \in 0 .. 0 - 1 |-> v]
  <2>1. h = [k \in 0 .. 0 - 1 |-> IF k = 0 THEN v ELSE h[k - 1] \div Byte]
    OBVIOUS
  <2> QED
    BY <2>1 DEF IsRest
<1>2. ASSUME NEW m \in Nat, m \in T PROVE m + 1 \in T
  <2>1. PICK h : IsRest(h, v, m)
    BY <1>2
  <2>2. h = [k \in 0 .. m - 1 |-> IF k = 0 THEN v ELSE h[k - 1] \div Byte]
    BY <2>1 DEF IsRest
  <2> DEFINE next == IF m = 0 THEN v ELSE h[m - 1] \div Byte
             g == [k \in 0 .. m |-> IF k = m THEN next ELSE h[k]]
             e == [k \in 0 .. m |-> IF k = 0 THEN v ELSE g[k - 1] \div Byte]
  <2>3. \A k \in 0 .. m - 1 : g[k] = h[k]
    OBVIOUS
  <2>4. ASSUME NEW k \in 0 .. m PROVE g[k] = e[k]
    <3>1. CASE k = m
      <4>1. k # 0 => k - 1 \in 0 .. m - 1
        BY <3>1
      <4>2. g[k] = next
        BY <3>1
      <4>3. e[k] = IF k = 0 THEN v ELSE g[k - 1] \div Byte
        OBVIOUS
      <4> QED
        BY <2>3, <3>1, <4>1, <4>2, <4>3
    <3>2. CASE k # m
      <4>1. k \in 0 .. m - 1 /\ (k # 0 => k - 1 \in 0 .. m - 1)
        BY <3>2
      <4>2. h[k] = IF k = 0 THEN v ELSE h[k - 1] \div Byte
        BY <2>2, <4>1
      <4>3. e[k] = IF k = 0 THEN v ELSE g[k - 1] \div Byte
        OBVIOUS
      <4> HIDE DEF g, e
      <4> QED
        BY <2>3, <4>1, <4>2, <4>3
    <3> QED
      BY <3>1, <3>2
  <2>5. g = [k \in 0 .. m |-> g[k]] /\ e = [k \in 0 .. m |-> e[k]]
    OBVIOUS
  <2> HIDE DEF g, e
  <2>6. g = e
    BY <2>4, <2>5
  <2>7. m + 1 - 1 = m
    OBVIOUS
  <2>8. IsRest(g, v, m + 1)
    BY <2>6, <2>7 DEF IsRest, e
  <2> QED
    BY <2>8
<1> HIDE DEF T
<1>3. Nat \subseteq T
  BY <1>1, <1>2, Induction
<1> QED
  BY <1>3 DEF T

\* Its bytes.
AreDigits(h, v, n) == put(v, n) = [k \in 1 .. n |-> h[k - 1] % Byte]

LEMMA PutDigits ==
  ASSUME NEW v, NEW n \in Nat
  PROVE  \E h : IsRest(h, v, n) /\ AreDigits(h, v, n)
<1> DEFINE h == CHOOSE h : IsRest(h, v, n)
<1>1. IsRest(h, v, n)
  BY RestExists
<1>2. AreDigits(h, v, n)
  BY DEF put, IsRest, AreDigits
<1> QED
  BY <1>1, <1>2

LEMMA OneLength ==
  ASSUME NEW m \in Nat, NEW n \in Nat, 1 .. m = 1 .. n
  PROVE  m = n
<1>1. (m \in 1 .. m <=> m \in 1 .. n) /\ (n \in 1 .. n <=> n \in 1 .. m)
  OBVIOUS
<1> QED
  BY <1>1

\* A function on 1 .. n is a sequence, whatever its values are.
LEMMA FunctionIsSeq ==
  ASSUME NEW S, NEW n \in Nat, NEW s \in [1 .. n -> S]
  PROVE  s \in Seq(S) /\ Len(s) = n
<1>1. s \in Seq(S)
  BY SeqDef
<1>2. Len(s) \in Nat /\ 1 .. n = 1 .. Len(s)
  BY <1>1, LenProperties
<1> QED
  BY <1>1, <1>2, OneLength

LEMMA PutLength ==
  ASSUME NEW v, NEW n \in Nat
  PROVE  Len(put(v, n)) = n
<1>1. PICK h : AreDigits(h, v, n)
  BY PutDigits
<1> DEFINE S == {h[k - 1] % Byte : k \in 1 .. n}
<1>2. put(v, n) \in [1 .. n -> S]
  BY <1>1 DEF AreDigits
<1> HIDE DEF S
<1> QED
  BY <1>2, FunctionIsSeq

\* The value built up from the bytes from n on.
IsBuiltUp(g, string) ==
  g = [n \in 1 .. Len(string) + 1 |->
         IF n > Len(string) THEN 0 ELSE (Byte * g[n + 1]) + string[n]]

\* With the number of bytes counted from the last one.
IsFromLast(f, string) ==
  f = [m \in 0 .. Len(string) |->
         IF m = 0 THEN 0 ELSE (Byte * f[m - 1]) + string[Len(string) + 1 - m]]

LEMMA FromLastExists ==
  ASSUME NEW string, Len(string) \in Nat
  PROVE  \E f : IsFromLast(f, string)
<1> DEFINE L == Len(string)
           Next_(f, m) == (Byte * f[m - 1]) + string[L + 1 - m]
           Upto(f, n) == f = [m \in 0 .. n |-> IF m = 0 THEN 0 ELSE Next_(f, m)]
           T == {n \in Nat : \E f : Upto(f, n)}
<1>1. 0 \in T
  <2> DEFINE f == [m \in 0 .. 0 |-> 0]
  <2>1. Upto(f, 0)
    OBVIOUS
  <2> QED
    BY <2>1
<1>2. ASSUME NEW n \in Nat, n \in T PROVE n + 1 \in T
  <2>1. PICK f : Upto(f, n)
    BY <1>2
  <2> DEFINE g == [m \in 0 .. n + 1 |-> IF m = n + 1 THEN Next_(f, m) ELSE f[m]]
             e == [m \in 0 .. n + 1 |-> IF m = 0 THEN 0 ELSE Next_(g, m)]
  <2>2. \A m \in 0 .. n : g[m] = f[m]
    OBVIOUS
  <2>3. \A m \in 0 .. n + 1 : m # 0 => Next_(g, m) = Next_(f, m)
    <3>1. \A m \in 0 .. n + 1 : m # 0 => g[m - 1] = f[m - 1]
      BY <2>2
    <3> HIDE DEF g
    <3> QED
      BY <3>1
  <2>4. ASSUME NEW m \in 0 .. n + 1 PROVE g[m] = e[m]
    <3>1. e[m] = IF m = 0 THEN 0 ELSE Next_(f, m)
      BY <2>3
    <3>2. CASE m = n + 1
      BY <3>1, <3>2
    <3>3. CASE m # n + 1
      <4>1. m \in 0 .. n /\ g[m] = f[m]
        BY <2>2, <3>3
      <4>2. f[m] = IF m = 0 THEN 0 ELSE Next_(f, m)
        BY <2>1, <4>1
      <4> QED
        BY <3>1, <4>1, <4>2
    <3> QED
      BY <3>2, <3>3
  <2>5. g = [m \in 0 .. n + 1 |-> g[m]] /\ e = [m \in 0 .. n + 1 |-> e[m]]
    OBVIOUS
  <2> HIDE DEF g, e
  <2>6. g = e
    BY <2>4, <2>5
  <2>7. Upto(g, n + 1)
    BY <2>6 DEF e
  <2> HIDE DEF Upto
  <2> QED
    BY <2>7
<1> HIDE DEF T
<1>3. Nat \subseteq T
  BY <1>1, <1>2, Induction
<1>4. L \in T
  BY <1>3
<1> QED
  BY <1>4 DEF T, IsFromLast

LEMMA GetBuildsUp ==
  ASSUME NEW string, Len(string) \in Nat
  PROVE  \E g : IsBuiltUp(g, string) /\ get(string) = g[1]
<1> DEFINE L == Len(string)
<1>1. PICK f : IsFromLast(f, string)
  BY FromLastExists
<1>2. f = [m \in 0 .. L |-> IF m = 0 THEN 0 ELSE (Byte * f[m - 1]) + string[L + 1 - m]]
  BY <1>1 DEF IsFromLast
<1> DEFINE g == [n \in 1 .. L + 1 |-> f[L + 1 - n]]
           e == [n \in 1 .. L + 1 |-> IF n > L THEN 0 ELSE (Byte * g[n + 1]) + string[n]]
<1> HIDE DEF L
<1>3. ASSUME NEW n \in 1 .. L + 1 PROVE g[n] = e[n]
  <2>1. L \in Nat
    BY DEF L
  <2>2. L + 1 - n \in 0 .. L /\ (L + 1 - n = 0 <=> n > L) /\ g[n] = f[L + 1 - n]
    BY <2>1
  <2>3. CASE n > L
    <3>1. f[L + 1 - n] = 0
      BY <1>2, <2>1, <2>2, <2>3
    <3> QED
      BY <2>2, <2>3, <3>1
  <2>4. CASE ~(n > L)
    <3>1. n + 1 \in 1 .. L + 1 /\ L + 1 - (n + 1) = L + 1 - n - 1 /\ L + 1 - (L + 1 - n) = n
      BY <2>1, <2>4
    <3>2. g[n + 1] = f[L + 1 - n - 1]
      BY <3>1
    <3>6. \A m \in 0 .. L : m # 0 => f[m] = (Byte * f[m - 1]) + string[L + 1 - m]
      BY <1>2
    <3>3. f[L + 1 - n] = (Byte * f[L + 1 - n - 1]) + string[L + 1 - (L + 1 - n)]
      BY <2>1, <2>2, <2>4, <3>6
    <3>4. f[L + 1 - n] = (Byte * g[n + 1]) + string[n]
      BY <3>1, <3>2, <3>3
    <3>5. e[n] = (Byte * g[n + 1]) + string[n]
      BY <2>4
    <3> QED
      BY <2>2, <3>4, <3>5
  <2> QED
    BY <2>3, <2>4
<1>4. g = [n \in 1 .. L + 1 |-> g[n]] /\ e = [n \in 1 .. L + 1 |-> e[n]]
  OBVIOUS
<1> HIDE DEF g, e
<1>5. g = e
  BY <1>3, <1>4
<1>6. IsBuiltUp(g, string)
  BY <1>5 DEF IsBuiltUp, e, L
<1> DEFINE c == CHOOSE c : IsBuiltUp(c, string)
<1>7. IsBuiltUp(c, string)
  BY <1>6
<1>8. get(string) = c[1]
  BY DEF get, IsBuiltUp
<1> QED
  BY <1>7, <1>8

\* The bytes of a value that has no more of them give the value back.
LEMMA GetPut ==
  ASSUME NEW v \in Nat, NEW n \in Nat \ {0},
         \A h : IsRest(h, v, n) => h[n - 1] < Byte
  PROVE  get(put(v, n)) = v
<1>0. n \in Nat
  OBVIOUS
<1>2. PICK h : IsRest(h, v, n) /\ AreDigits(h, v, n)
  BY <1>0, PutDigits
<1> DEFINE s == put(v, n)
<1>1. Len(s) = n
  BY PutLength
<1>3. PICK g : IsBuiltUp(g, s) /\ get(s) = g[1]
  BY <1>1, GetBuildsUp
<1> HIDE DEF s
<1>4. \A k \in 0 .. n - 1 : h[k] = IF k = 0 THEN v ELSE h[k - 1] \div Byte
  BY <1>2 DEF IsRest
<1>5. \A k \in 1 .. n : s[k] = h[k - 1] % Byte
  BY <1>2 DEF s, AreDigits
<1>6. \A k \in 1 .. n + 1 : g[k] = IF k > n THEN 0 ELSE (Byte * g[k + 1]) + s[k]
  BY <1>1, <1>3 DEF IsBuiltUp
<1>7. \A k \in 0 .. n - 1 : h[k] \in Nat
  <2> DEFINE T == {k \in Nat : k <= n - 1 => h[k] \in Nat}
  <2>1. 0 \in T
    BY <1>4
  <2>2. ASSUME NEW k \in Nat, k \in T PROVE k + 1 \in T
    <3> SUFFICES ASSUME k + 1 <= n - 1 PROVE h[k + 1] \in Nat
      OBVIOUS
    <3>1. h[k] \in Nat
      BY <2>2
    <3>2. \A m \in 0 .. n - 1 : m # 0 => h[m] = h[m - 1] \div Byte
      BY <1>4
    <3>3. h[k + 1] = h[k + 1 - 1] \div Byte
      BY <3>2
    <3> QED
      BY <3>1, <3>3, Division
  <2> HIDE DEF T
  <2>3. Nat \subseteq T
    BY <2>1, <2>2, Induction
  <2> QED
    BY <2>3 DEF T
<1> DEFINE T == {m \in Nat : m <= n - 1 => g[n - m] = h[n - 1 - m]}
<1>8. 0 \in T
  <2>1. n \in 1 .. n + 1 /\ n + 1 \in 1 .. n + 1 /\ n \in 1 .. n /\ n - 1 \in 0 .. n - 1
    OBVIOUS
  <2>2. \A k \in 1 .. n + 1 : k > n => g[k] = 0
    BY <1>6
  <2>3. \A k \in 1 .. n + 1 : ~(k > n) => g[k] = (Byte * g[k + 1]) + s[k]
    BY <1>6
  <2>4. g[n + 1] = 0
    BY <2>1, <2>2
  <2>5. g[n] = (Byte * 0) + s[n]
    BY <2>1, <2>3, <2>4
  <2>6. s[n] = h[n - 1] % Byte /\ h[n - 1] < Byte /\ h[n - 1] \in Nat
    BY <1>2, <1>5, <1>7, <2>1
  <2>7. h[n - 1] % Byte = h[n - 1]
    BY <2>6, Division
  <2>8. Byte * 0 = 0
    BY ByteAssumption
  <2>9. g[n] = h[n - 1]
    BY <2>5, <2>6, <2>7, <2>8
  <2>10. n - 0 = n /\ n - 1 - 0 = n - 1
    OBVIOUS
  <2> QED
    BY <2>9, <2>10
<1>9. ASSUME NEW m \in Nat, m \in T PROVE m + 1 \in T
  <2> SUFFICES ASSUME m + 1 <= n - 1 PROVE g[n - (m + 1)] = h[n - 1 - (m + 1)]
    OBVIOUS
  <2>1. PICK k \in 1 .. n : k = n - (m + 1)
    OBVIOUS
  <2>2. k + 1 = n - m /\ k = n - 1 - m /\ k - 1 = n - 1 - (m + 1) /\ k - 1 \in 0 .. n - 1
        /\ k \in 0 .. n - 1 /\ k # 0
    BY <2>1
  <2>3. g[k + 1] = h[k]
    <3>1. g[n - m] = h[n - 1 - m]
      BY <1>9
    <3> QED
      BY <2>2, <3>1
  <2>4. \A j \in 1 .. n : g[j] = (Byte * g[j + 1]) + s[j]
    BY <1>6
  <2>5. g[k] = (Byte * h[k]) + (h[k - 1] % Byte)
    BY <1>5, <2>3, <2>4
  <2>6. \A j \in 0 .. n - 1 : j # 0 => h[j] = h[j - 1] \div Byte
    BY <1>4
  <2>7. h[k] = h[k - 1] \div Byte
    BY <2>2, <2>6
  <2>8. h[k - 1] \in Nat
    BY <1>7, <2>2
  <2>9. h[k - 1] = (Byte * (h[k - 1] \div Byte)) + (h[k - 1] % Byte)
    BY <2>8, Division
  <2>10. g[k] = h[k - 1]
    BY <2>5, <2>7, <2>9
  <2> QED
    BY <2>1, <2>2, <2>10
<1> HIDE DEF T
<1>10. Nat \subseteq T
  BY <1>8, <1>9, Induction
<1>11. g[n - (n - 1)] = h[n - 1 - (n - 1)]
  <2>1. n - 1 \in T
    BY <1>10
  <2> QED
    BY <2>1 DEF T
<1>12. n - (n - 1) = 1 /\ n - 1 - (n - 1) = 0 /\ h[0] = v
  BY <1>4
<1> QED
  BY <1>3, <1>11, <1>12 DEF s

\* A length, an offset or a count, and a page number.
LEMMA GetPutByte ==
  ASSUME NEW v \in Bytes
  PROVE  get(put(v, 1)) = v
<1>1. v \in Nat /\ v < Byte
  BY ByteAssumption DEF Bytes
<1>2. ASSUME NEW h, IsRest(h, v, 1) PROVE h[1 - 1] < Byte
  BY <1>1, <1>2 DEF IsRest
<1> QED
  BY <1>1, <1>2, GetPut

LEMMA GetPut16 ==
  ASSUME NEW v \in 0 .. Width16 - 1
  PROVE  get(put(v, OFFSET_SIZE)) = v
<1>1. v \in Nat /\ v < Byte * Byte
  BY Width16Assumption, SerializerAssumption
<1>2. ASSUME NEW h, IsRest(h, v, OFFSET_SIZE) PROVE h[OFFSET_SIZE - 1] < Byte
  <2>1. h[1] = h[0] \div Byte /\ h[0] = v
    BY <1>2 DEF IsRest, OFFSET_SIZE
  <2> QED
    BY <1>1, <2>1, ByteAssumption, Quotient DEF OFFSET_SIZE
<1> QED
  BY <1>1, <1>2, GetPut DEF OFFSET_SIZE

LEMMA GetPut64 ==
  ASSUME NEW v \in 0 .. Width64 - 1
  PROVE  get(put(v, POINTER_SIZE)) = v
<1> DEFINE p2 == Byte * Byte  p3 == Byte * p2  p4 == Byte * p3
           p5 == Byte * p4  p6 == Byte * p5  p7 == Byte * p6
<1>1. /\ Byte \in Nat /\ p2 \in Nat /\ p3 \in Nat /\ p4 \in Nat
      /\ p5 \in Nat /\ p6 \in Nat /\ p7 \in Nat
  BY ByteAssumption
<1>2. Width64 = Byte * p7
  BY <1>1 DEF Width64
<1>3. v \in Nat /\ v < Byte * p7
  BY <1>1, <1>2
<1> HIDE DEF p7
<1>4. ASSUME NEW h, IsRest(h, v, POINTER_SIZE) PROVE h[POINTER_SIZE - 1] < Byte
  <2>1. \A k \in 0 .. 7 : h[k] = IF k = 0 THEN v ELSE h[k - 1] \div Byte
    BY <1>4 DEF IsRest, POINTER_SIZE
  <2>2. h[0] = v /\ h[1] = h[0] \div Byte /\ h[2] = h[1] \div Byte /\ h[3] = h[2] \div Byte
    BY <2>1
  <2>3. h[4] = h[3] \div Byte /\ h[5] = h[4] \div Byte
    BY <2>1
  <2>9. h[6] = h[5] \div Byte /\ h[7] = h[6] \div Byte
    BY <2>1
  <2>4. h[1] \in Nat /\ h[1] < p7
    BY <1>1, <1>3, <2>2, Quotient, Division
  <2>5. h[2] \in Nat /\ h[2] < p6
    BY <1>1, <2>2, <2>4, Quotient, Division DEF p7
  <2> HIDE DEF p6
  <2>6. h[3] \in Nat /\ h[3] < p5
    BY <1>1, <2>2, <2>5, Quotient, Division DEF p6
  <2> HIDE DEF p5
  <2>7. h[4] \in Nat /\ h[4] < p4
    BY <1>1, <2>3, <2>6, Quotient, Division DEF p5
  <2> HIDE DEF p4
  <2>8. h[5] \in Nat /\ h[5] < p3
    BY <1>1, <2>3, <2>7, Quotient, Division DEF p4
  <2> HIDE DEF p3
  <2>10. h[6] \in Nat /\ h[6] < p2
    BY <1>1, <2>9, <2>8, Quotient, Division DEF p3
  <2> HIDE DEF p2
  <2>11. h[7] \in Nat /\ h[7] < Byte
    BY <1>1, <2>9, <2>10, Quotient, Division DEF p2
  <2> QED
    BY <2>11 DEF POINTER_SIZE
<1> QED
  BY <1>3, <1>4, GetPut DEF POINTER_SIZE
-----------------------------------------------------------------------------
\* Buffers.

LEMMA WriteType ==
  ASSUME NEW b, NEW at, NEW string
  PROVE  /\ DOMAIN write(stream(b, at), string).buffer = DOMAIN b
         /\ write(stream(b, at), string).position = at + Len(string)
         /\ write(stream(b, at), string)
              = stream(write(stream(b, at), string).buffer, at + Len(string))
         /\ \A k \in DOMAIN b :
              write(stream(b, at), string).buffer[k]
                = IF k \in at .. at + Len(string) - 1 THEN string[k - at + 1] ELSE b[k]
<1> DEFINE new == [k \in DOMAIN b |-> IF k \in at .. at + Len(string) - 1
                                       THEN string[k - at + 1] ELSE b[k]]
           s == stream(b, at)
           t == [s EXCEPT !.buffer = new]
<1>1. s.buffer = b /\ s.position = at
  BY DEF stream
<1>2. write(s, string) = skip(t, Len(string))
  <2> HIDE DEF s
  <2> QED
    BY <1>1 DEF write
<1>3. t = [buffer |-> new, position |-> at]
  <2> HIDE DEF new
  <2> QED
    BY DEF stream
<1>4. skip(t, Len(string)) = [buffer |-> new, position |-> at + Len(string)]
  <2> HIDE DEF new, t
  <2> QED
    BY <1>3 DEF skip
<1>5. write(s, string) = [buffer |-> new, position |-> at + Len(string)]
  BY <1>2, <1>4
<1> HIDE DEF s, t
<1>6. write(s, string).buffer = new /\ write(s, string).position = at + Len(string)
  <2> HIDE DEF new
  <2> QED
    BY <1>5
<1>7. write(s, string) = stream(write(s, string).buffer, at + Len(string))
  <2> HIDE DEF new
  <2> QED
    BY <1>5, <1>6 DEF stream
<1>8. /\ DOMAIN new = DOMAIN b
      /\ \A k \in DOMAIN b : new[k] = IF k \in at .. at + Len(string) - 1
                                      THEN string[k - at + 1] ELSE b[k]
  OBVIOUS
<1> HIDE DEF new
<1> QED
  BY <1>6, <1>7, <1>8 DEF s

\* What is written inside the buffer is there.
LEMMA WriteHolds ==
  ASSUME NEW b, NEW length_ \in Nat, DOMAIN b = 0 .. length_ - 1, NEW at \in Nat,
         NEW string, Len(string) \in Nat, at + Len(string) <= length_
  PROVE  HasAt(write(stream(b, at), string).buffer, at, string)
<1> DEFINE c == write(stream(b, at), string).buffer
<1>0. /\ DOMAIN c = DOMAIN b
      /\ \A k \in DOMAIN b :
           c[k] = IF k \in at .. at + Len(string) - 1 THEN string[k - at + 1] ELSE b[k]
  BY WriteType
<1> HIDE DEF c
<1>1. /\ DOMAIN c = 0 .. length_ - 1
      /\ \A k \in 0 .. length_ - 1 :
           c[k] = IF k \in at .. at + Len(string) - 1 THEN string[k - at + 1] ELSE b[k]
  BY <1>0
<1>2. ASSUME NEW k \in 1 .. Len(string)
      PROVE  at + k - 1 \in DOMAIN c /\ c[at + k - 1] = string[k]
  <2>1. at + k - 1 \in 0 .. length_ - 1 /\ at + k - 1 \in at .. at + Len(string) - 1
        /\ at + k - 1 - at + 1 = k
    OBVIOUS
  <2>2. c[at + k - 1] = string[at + k - 1 - at + 1]
    BY <1>1, <2>1
  <2> QED
    BY <1>1, <2>1, <2>2
<1> QED
  BY <1>2 DEF HasAt, c

\* What lies before or behind stays.
LEMMA WriteKeeps ==
  ASSUME NEW b, NEW at \in Int, NEW string, Len(string) \in Nat,
         NEW from \in Int, NEW s, Len(s) \in Nat, HasAt(b, from, s),
         from + Len(s) <= at \/ at + Len(string) <= from
  PROVE  HasAt(write(stream(b, at), string).buffer, from, s)
<1> DEFINE c == write(stream(b, at), string).buffer
<1>1. /\ DOMAIN c = DOMAIN b
      /\ \A k \in DOMAIN b :
           c[k] = IF k \in at .. at + Len(string) - 1 THEN string[k - at + 1] ELSE b[k]
  BY WriteType
<1> HIDE DEF c
<1>2. ASSUME NEW k \in 1 .. Len(s)
      PROVE  from + k - 1 \in DOMAIN c /\ c[from + k - 1] = s[k]
  <2>1. from + k - 1 \notin at .. at + Len(string) - 1
    OBVIOUS
  <2>2. from + k - 1 \in DOMAIN b /\ b[from + k - 1] = s[k]
    BY DEF HasAt
  <2> QED
    BY <1>1, <2>1, <2>2
<1> QED
  BY <1>2 DEF HasAt, c

LEMMA ReadHeld ==
  ASSUME NEW b, NEW at \in Int, NEW S, NEW s \in Seq(S), HasAt(b, at, s)
  PROVE  read(stream(b, at), Len(s)) = s
<1>1. read(stream(b, at), Len(s)) = [k \in 1 .. Len(s) |-> b[at + k - 1]]
  BY DEF read, stream
<1>2. \A k \in 1 .. Len(s) : b[at + k - 1] = s[k]
  BY DEF HasAt
<1>3. s = [k \in 1 .. Len(s) |-> s[k]]
  BY LenProperties
<1> QED
  BY <1>1, <1>2, <1>3

LEMMA ReadPut ==
  ASSUME NEW b, NEW at \in Int, NEW v, NEW n \in Nat, HasAt(b, at, put(v, n)),
         get(put(v, n)) = v
  PROVE  read_bytes(stream(b, at), n) = v
<1> DEFINE s == put(v, n)
<1>1. PICK h : AreDigits(h, v, n)
  BY PutDigits
<1> DEFINE S == {h[k - 1] % Byte : k \in 1 .. n}
<1>2. s \in [1 .. n -> S]
  BY <1>1 DEF AreDigits
<1>3. s \in Seq(S) /\ Len(s) = n
  <2> HIDE DEF S, s
  <2> QED
    BY <1>2, FunctionIsSeq
<1>4. read(stream(b, at), n) = s
  <2> HIDE DEF S
  <2> QED
    BY <1>3, ReadHeld
<1> QED
  BY <1>4 DEF read_bytes

LEMMA BufferSize ==
  ASSUME NEW b, NEW length_ \in Nat, DOMAIN b = 0 .. length_ - 1
  PROVE  /\ Cardinality(DOMAIN b) = length_
         /\ \A at, n \in Int : InBounds(stream(b, at), n) <=> at >= 0 /\ at + n <= length_
<1>1. Cardinality(0 .. length_ - 1) = length_
  <2>1. 0 \in Int /\ length_ - 1 \in Int
    OBVIOUS
  <2>2. Cardinality(0 .. length_ - 1) = IF 0 > length_ - 1 THEN 0 ELSE length_ - 1 - 0 + 1
    BY <2>1, FS_Interval
  <2> QED
    BY <2>2
<1>2. ASSUME NEW at \in Int, NEW n \in Int
      PROVE  InBounds(stream(b, at), n) <=> at >= 0 /\ at + n <= length_
  <2>1. InBounds(stream(b, at), n) <=> at >= 0 /\ n <= length_ - at
    BY <1>1 DEF InBounds, stream, remaining_size
  <2> QED
    BY <2>1
<1> QED
  BY <1>1, <1>2

LEMMA CellType ==
  ASSUME NEW s \in Seq(Bytes)
  PROVE  /\ length(s) \in Bytes /\ length(s) \in Nat
         /\ Cut(s) \in Seq(Bytes) /\ Len(Cut(s)) = length(s)
         /\ Cell(s) \in Seq(Bytes) /\ Len(Cell(s)) = length(s) + 1
         /\ Cell(s)[1] = length(s)
         /\ \A k \in 1 .. length(s) : Cell(s)[k + 1] = Cut(s)[k]
<1>1. Len(s) \in Nat
  BY LenProperties
<1>2. length(s) \in Bytes /\ length(s) \in Nat /\ length(s) <= Len(s)
  <2>1. length(s) \in Bytes
    BY <1>1, Division DEF length
  <2>2. Len(s) \div Byte \in Nat /\ Len(s) = (Byte * (Len(s) \div Byte)) + length(s)
    BY <1>1, Division DEF length
  <2>3. Byte * (Len(s) \div Byte) >= 0
    BY <2>2, ByteAssumption
  <2>4. length(s) \in Nat
    BY <2>1, ByteAssumption DEF Bytes
  <2> QED
    BY <1>1, <2>1, <2>2, <2>3, <2>4, ByteAssumption
<1>3. Cut(s) \in Seq(Bytes) /\ Len(Cut(s)) = length(s)
  <2>1. length(s) \in 0 .. Len(s) /\ 1 \in Nat \ {0} /\ 1 <= length(s) + 1
    BY <1>1, <1>2
  <2>2. SubSeq(s, 1, length(s)) \in Seq(Bytes) /\ Len(SubSeq(s, 1, length(s))) = length(s) - 1 + 1
    BY <2>1, Slice
  <2> QED
    BY <1>2, <2>2 DEF Cut
<1>4. <<length(s)>> \in Seq(Bytes) /\ Len(<<length(s)>>) = 1 /\ <<length(s)>>[1] = length(s)
  BY <1>2, OneElement
<1> DEFINE l == <<length(s)>>  c == Cut(s)
<1> HIDE DEF l, c
<1>5. /\ l \o c \in Seq(Bytes) /\ Len(l \o c) = Len(l) + Len(c)
      /\ \A k \in 1 .. Len(l) + Len(c) :
           (l \o c)[k] = IF k <= Len(l) THEN l[k] ELSE c[k - Len(l)]
  BY <1>3, <1>4, ConcatProperties DEF l, c
<1>6. Cell(s) = l \o c
  BY DEF Cell, l, c
<1>7. Len(l) = 1 /\ Len(c) = length(s) /\ l[1] = length(s)
  BY <1>3, <1>4 DEF l, c
<1>8. Cell(s)[1] = length(s)
  BY <1>2, <1>5, <1>6, <1>7
<1>9. ASSUME NEW k \in 1 .. length(s) PROVE Cell(s)[k + 1] = c[k]
  <2>1. k + 1 \in 1 .. Len(l) + Len(c) /\ ~(k + 1 <= Len(l)) /\ k + 1 - Len(l) = k
    BY <1>2, <1>7
  <2>2. (l \o c)[k + 1] = c[k + 1 - Len(l)]
    BY <1>5, <2>1
  <2> QED
    BY <1>6, <2>1, <2>2
<1> QED
  BY <1>2, <1>3, <1>5, <1>6, <1>7, <1>8, <1>9 DEF c

\* A cell gives back the string, as far as its length is kept.
LEMMA ReadCell ==
  ASSUME NEW b, NEW at \in Int, NEW s \in Seq(Bytes), HasAt(b, at, Cell(s))
  PROVE  /\ at \in DOMAIN b /\ b[at] = length(s)
         /\ read(stream(b, at + 1), b[at]) = Cut(s)
<1>1. /\ length(s) \in Nat /\ Len(Cell(s)) = length(s) + 1
      /\ Cell(s)[1] = length(s) /\ \A k \in 1 .. length(s) : Cell(s)[k + 1] = Cut(s)[k]
      /\ Cut(s) \in Seq(Bytes) /\ Len(Cut(s)) = length(s)
  BY CellType
<1>2. \A k \in 1 .. length(s) + 1 : at + k - 1 \in DOMAIN b /\ b[at + k - 1] = Cell(s)[k]
  BY <1>1 DEF HasAt
<1>3. at \in DOMAIN b /\ b[at] = length(s)
  <2>1. 1 \in 1 .. length(s) + 1 /\ at + 1 - 1 = at
    BY <1>1
  <2>2. at + 1 - 1 \in DOMAIN b /\ b[at + 1 - 1] = Cell(s)[1]
    BY <1>2, <2>1
  <2> QED
    BY <1>1, <2>1, <2>2
<1>4. ASSUME NEW k \in 1 .. Len(Cut(s))
      PROVE  at + 1 + k - 1 \in DOMAIN b /\ b[at + 1 + k - 1] = Cut(s)[k]
  <2>1. k \in 1 .. length(s) /\ k + 1 \in 1 .. length(s) + 1 /\ at + (k + 1) - 1 = at + 1 + k - 1
    BY <1>1
  <2>2. at + (k + 1) - 1 \in DOMAIN b /\ b[at + (k + 1) - 1] = Cell(s)[k + 1]
    BY <1>2, <2>1
  <2>3. Cell(s)[k + 1] = Cut(s)[k]
    BY <1>1, <2>1
  <2> QED
    BY <2>1, <2>2, <2>3
<1>5. HasAt(b, at + 1, Cut(s))
  BY <1>4 DEF HasAt
<1>6. read(stream(b, at + 1), Len(Cut(s))) = Cut(s)
  BY <1>1, <1>5, ReadHeld
<1> QED
  BY <1>1, <1>3, <1>6
-----------------------------------------------------------------------------
\* The content and its size.

LEMMA Sizes ==
  /\ Byte \in Nat /\ Byte > 1 /\ Width16 \in Nat /\ Width16 = Byte * Byte
  /\ PageSize \in Nat /\ DEFAULT_PAGE_SIZE \in Nat \ {0} /\ DEFAULT_PAGE_SIZE <= PageSize
  /\ PageSize + Byte <= Width16 /\ 2 * POINTER_SIZE <= PageSize
  /\ HEADER_SIZE = 3 /\ POINTER_SIZE = 8 /\ OFFSET_SIZE = 2
<1>1. /\ PageSize \in Nat \ {0} /\ DEFAULT_PAGE_SIZE \in 1 .. PageSize
  BY NodeAssumption
<1> QED
  BY <1>1, ByteAssumption, Width16Assumption, SerializerAssumption
  DEF HEADER_SIZE, POINTER_SIZE, OFFSET_SIZE

IsNode(c) ==
  /\ c \in [kind : {"node"}, page : Nat, items : Seq(Item), children : Seq(0 .. Width64 - 1)]
  /\ HasChildren(c)
  /\ \A n \in DOMAIN c.items :
       ItemBytes[c.items[n].key]
         = length(KeyBytes[c.items[n].key]) + length(ValueBytes[c.items[n].value])

IsFreelist(c) ==
  c \in [kind : {"freelist"}, max_page : Nat, released_pages : Seq(0 .. Width64 - 1)]

LEMMA ContentTypes ==
  ASSUME NEW c \in Contents
  PROVE  /\ c.kind \in {"node", "meta", "freelist", "hole"}
         /\ c.kind = "node" => IsNode(c)
         /\ c.kind = "meta" => c = [kind |-> "meta", root |-> 0, freelist_page |-> 1]
         /\ c.kind = "freelist" => IsFreelist(c)
<1>1. \/ c = [kind |-> "hole"]
      \/ c = [kind |-> "meta", root |-> 0, freelist_page |-> 1]
      \/ IsFreelist(c) \/ IsNode(c)
  BY ContentsAssumption DEF IsFreelist, IsNode
<1>2. IsFreelist(c) => c.kind = "freelist"
  BY DEF IsFreelist
<1>3. IsNode(c) => c.kind = "node"
  BY DEF IsNode
<1> QED
  BY <1>1, <1>2, <1>3

LEMMA BytesOfItems == ItemBytes \in [Key -> 0 .. 510]
BY NodeAssumption

LEMMA NodeTypes ==
  ASSUME NEW c, IsNode(c)
  PROVE  /\ c.kind = "node" /\ c.items \in Seq(Item) /\ Len(c.items) \in Nat
         /\ c.children \in Seq(0 .. Width64 - 1) /\ Len(c.children) \in Nat
         /\ ~is_leaf(c) => /\ Len(c.children) >= Len(c.items)
                           /\ Last(c.children) \in 0 .. Width64 - 1
         /\ \A n \in 1 .. Len(c.items) :
              /\ ~is_leaf(c) => c.children[n] \in 0 .. Width64 - 1
              /\ KeyBytes[c.items[n].key] \in Seq(Bytes)
              /\ ValueBytes[c.items[n].value] \in Seq(Bytes)
              /\ ItemBytes[c.items[n].key] \in Nat
              /\ ItemBytes[c.items[n].key]
                   = length(KeyBytes[c.items[n].key]) + length(ValueBytes[c.items[n].value])
<1>1. /\ c.kind = "node" /\ c.items \in Seq(Item) /\ c.children \in Seq(0 .. Width64 - 1)
      /\ HasChildren(c)
  BY DEF IsNode
<1>2. Len(c.items) \in Nat /\ Len(c.children) \in Nat /\ DOMAIN c.items = 1 .. Len(c.items)
  BY <1>1, LenProperties
<1>3. ~is_leaf(c) => Len(c.children) >= Len(c.items)
  BY <1>1 DEF HasChildren
<1>4. ~is_leaf(c) => Last(c.children) \in 0 .. Width64 - 1
  BY <1>1, FrontProperties DEF is_leaf
<1>5. ASSUME NEW n \in 1 .. Len(c.items)
      PROVE  /\ ~is_leaf(c) => c.children[n] \in 0 .. Width64 - 1
             /\ KeyBytes[c.items[n].key] \in Seq(Bytes)
             /\ ValueBytes[c.items[n].value] \in Seq(Bytes)
             /\ ItemBytes[c.items[n].key] \in Nat
             /\ ItemBytes[c.items[n].key]
                  = length(KeyBytes[c.items[n].key]) + length(ValueBytes[c.items[n].value])
  <2>1. c.items[n] \in Item
    BY <1>1, ElementOfSeq
  <2>2. c.items[n].key \in Key /\ c.items[n].value \in Value
    BY <2>1 DEF Item
  <2>3. ~is_leaf(c) => c.children[n] \in 0 .. Width64 - 1
    <3>1. SUFFICES ASSUME ~is_leaf(c) PROVE n \in 1 .. Len(c.children)
      BY <1>1, ElementOfSeq
    <3> QED
      BY <1>2, <1>3, <3>1
  <2>4. ItemBytes[c.items[n].key] \in Nat
    <3>1. ItemBytes \in [Key -> 0 .. 510]
      BY BytesOfItems
    <3>2. ItemBytes[c.items[n].key] \in 0 .. 510
      BY <2>2, <3>1
    <3>3. 0 .. 510 \subseteq Nat
      OBVIOUS
    <3> QED
      BY <3>2, <3>3
  <2>5. KeyBytes[c.items[n].key] \in Seq(Bytes) /\ ValueBytes[c.items[n].value] \in Seq(Bytes)
    BY <2>2, SerializerAssumption
  <2> QED
    BY <1>2, <2>3, <2>4, <2>5 DEF IsNode
<1> QED
  BY <1>1, <1>2, <1>3, <1>4, <1>5

IsPrefixBytes(h, items) ==
  h = [n \in 0 .. Len(items) |-> IF n = 0 THEN 0 ELSE h[n - 1] + ItemBytes[items[n].key]]

LEMMA PrefixBytesExists ==
  ASSUME NEW items, Len(items) \in Nat
  PROVE  \E h : IsPrefixBytes(h, items)
<1> DEFINE Plus(h, n) == h[n - 1] + ItemBytes[items[n].key]
           Upto(h, m) == h = [n \in 0 .. m |-> IF n = 0 THEN 0 ELSE Plus(h, n)]
           T == {n \in Nat : \E h : Upto(h, n)}
<1>1. 0 \in T
  <2> DEFINE h == [n \in 0 .. 0 |-> 0]
  <2>1. Upto(h, 0)
    OBVIOUS
  <2> QED
    BY <2>1
<1>2. ASSUME NEW m \in Nat, m \in T PROVE m + 1 \in T
  <2>1. PICK h : Upto(h, m)
    BY <1>2
  <2> DEFINE g == [n \in 0 .. m + 1 |-> IF n = m + 1 THEN Plus(h, n) ELSE h[n]]
             e == [n \in 0 .. m + 1 |-> IF n = 0 THEN 0 ELSE Plus(g, n)]
  <2>2. \A n \in 0 .. m : g[n] = h[n]
    OBVIOUS
  <2>3. \A n \in 0 .. m + 1 : n # 0 => Plus(g, n) = Plus(h, n)
    <3>1. \A n \in 0 .. m + 1 : n # 0 => g[n - 1] = h[n - 1]
      BY <2>2
    <3> HIDE DEF g
    <3> QED
      BY <3>1
  <2>4. ASSUME NEW n \in 0 .. m + 1 PROVE g[n] = e[n]
    <3>1. e[n] = IF n = 0 THEN 0 ELSE Plus(h, n)
      BY <2>3
    <3>2. CASE n = m + 1
      BY <3>1, <3>2
    <3>3. CASE n # m + 1
      <4>1. n \in 0 .. m /\ g[n] = h[n]
        BY <2>2, <3>3
      <4>2. h[n] = IF n = 0 THEN 0 ELSE Plus(h, n)
        BY <2>1, <4>1
      <4> QED
        BY <3>1, <4>1, <4>2
    <3> QED
      BY <3>2, <3>3
  <2>5. g = [n \in 0 .. m + 1 |-> g[n]] /\ e = [n \in 0 .. m + 1 |-> e[n]]
    OBVIOUS
  <2> HIDE DEF g, e
  <2>6. g = e
    BY <2>4, <2>5
  <2>7. Upto(g, m + 1)
    BY <2>6 DEF e
  <2> HIDE DEF Upto
  <2> QED
    BY <2>7
<1> HIDE DEF T
<1>3. Nat \subseteq T
  BY <1>1, <1>2, Induction
<1>4. Len(items) \in T
  BY <1>3
<1> QED
  BY <1>4 DEF T, IsPrefixBytes

\* The bytes of a node's items add up.
LEMMA PrefixBytesAdd ==
  ASSUME NEW c, IsNode(c)
  PROVE  /\ PrefixBytes(c.items)[0] = 0
         /\ \A n \in 0 .. Len(c.items) : PrefixBytes(c.items)[n] \in Nat
         /\ \A n \in 1 .. Len(c.items) :
              PrefixBytes(c.items)[n] = PrefixBytes(c.items)[n - 1] + ItemBytes[c.items[n].key]
<1> DEFINE items == c.items
           h == CHOOSE h : IsPrefixBytes(h, items)
<1>1. Len(items) \in Nat /\ \A n \in 1 .. Len(items) : ItemBytes[items[n].key] \in Nat
  BY NodeTypes
<1>2. IsPrefixBytes(h, items)
  BY <1>1, PrefixBytesExists
<1>3. PrefixBytes(items) = h
  BY DEF PrefixBytes, IsPrefixBytes
<1> HIDE DEF items, h
<1>4. h[0] = 0 /\ \A n \in 1 .. Len(items) : h[n] = h[n - 1] + ItemBytes[items[n].key]
  BY <1>1, <1>2 DEF IsPrefixBytes
<1> DEFINE T == {n \in Nat : n <= Len(items) => h[n] \in Nat}
<1>5. 0 \in T
  BY <1>4
<1>6. ASSUME NEW n \in Nat, n \in T PROVE n + 1 \in T
  <2> SUFFICES ASSUME n + 1 <= Len(items) PROVE h[n + 1] \in Nat
    OBVIOUS
  <2>1. h[n] \in Nat
    BY <1>1, <1>6
  <2>2. n + 1 \in 1 .. Len(items)
    BY <1>1
  <2>3. h[n + 1] = h[n + 1 - 1] + ItemBytes[items[n + 1].key]
    BY <1>4, <2>2
  <2> QED
    BY <1>1, <2>1, <2>2, <2>3
<1> HIDE DEF T
<1>7. Nat \subseteq T
  BY <1>5, <1>6, Induction
<1>8. \A n \in 0 .. Len(items) : h[n] \in Nat
  BY <1>7 DEF T
<1> QED
  BY <1>3, <1>4, <1>8 DEF items

LEMMA PrefixBytesGrow ==
  ASSUME NEW c, IsNode(c), NEW m \in 0 .. Len(c.items)
  PROVE  PrefixBytes(c.items)[m] <= PrefixBytes(c.items)[Len(c.items)]
<1> DEFINE L == Len(c.items)  P == PrefixBytes(c.items)
<1>1. /\ L \in Nat
      /\ \A n \in 0 .. L : P[n] \in Nat
      /\ \A n \in 1 .. L : P[n] = P[n - 1] + ItemBytes[c.items[n].key]
      /\ \A n \in 1 .. L : ItemBytes[c.items[n].key] \in Nat
  BY NodeTypes, PrefixBytesAdd
<1> HIDE DEF L, P
<1> DEFINE T == {d \in Nat : m + d <= L => P[m] <= P[m + d]}
<1>2. m \in 0 .. L
  BY DEF L
<1>3. 0 \in T
  BY <1>1, <1>2
<1>4. ASSUME NEW d \in Nat, d \in T PROVE d + 1 \in T
  <2> SUFFICES ASSUME m + (d + 1) <= L PROVE P[m] <= P[m + (d + 1)]
    OBVIOUS
  <2>1. PICK n \in 1 .. L : n = m + (d + 1)
    BY <1>1, <1>2
  <2>2. n - 1 = m + d /\ n - 1 \in 0 .. L /\ n \in 0 .. L
    BY <1>1, <1>2, <2>1
  <2>3. P[m] <= P[n - 1]
    BY <1>1, <1>2, <1>4, <2>2
  <2>4. P[n] = P[n - 1] + ItemBytes[c.items[n].key] /\ ItemBytes[c.items[n].key] \in Nat
    BY <1>1
  <2>5. P[m] \in Nat /\ P[n - 1] \in Nat /\ P[n] \in Nat
    BY <1>1, <1>2, <2>2
  <2>6. P[m] <= P[n]
    BY <2>3, <2>4, <2>5
  <2> QED
    BY <2>1, <2>6
<1> HIDE DEF T
<1>5. Nat \subseteq T
  BY <1>3, <1>4, Induction
<1>6. L - m \in T /\ m + (L - m) = L
  BY <1>1, <1>2, <1>5
<1>7. P[m] <= P[L]
  BY <1>6 DEF T
<1> QED
  BY <1>7 DEF P, L

\* Where the slots are.
LEMMA Slots ==
  ASSUME NEW c
  PROVE  /\ PointerBytes(c) \in {0, POINTER_SIZE}
         /\ is_leaf(c) => PointerBytes(c) = 0
         /\ ~is_leaf(c) => PointerBytes(c) = POINTER_SIZE
         /\ SlotOf(c, 1) = HEADER_SIZE
         /\ \A n \in Int :
              /\ SlotOf(c, n) \in Int
              /\ SlotOf(c, n + 1) = SlotOf(c, n) + PointerBytes(c) + OFFSET_SIZE
              /\ is_leaf(c) => SlotOf(c, n) = 3 + (2 * (n - 1))
              /\ ~is_leaf(c) => SlotOf(c, n) = 3 + (10 * (n - 1))
<1>1. /\ PointerBytes(c) \in {0, POINTER_SIZE}
      /\ is_leaf(c) => PointerBytes(c) = 0
      /\ ~is_leaf(c) => PointerBytes(c) = POINTER_SIZE
  BY DEF PointerBytes
<1>2. CASE is_leaf(c)
  BY <1>1, <1>2, Sizes DEF SlotOf
<1>3. CASE ~is_leaf(c)
  BY <1>1, <1>3, Sizes DEF SlotOf
<1> QED
  BY <1>1, <1>2, <1>3

LEMMA SlotsApart ==
  ASSUME NEW c, NEW m \in Int, NEW n \in Int, m < n
  PROVE  SlotOf(c, m) + PointerBytes(c) + OFFSET_SIZE <= SlotOf(c, n)
<1>1. CASE is_leaf(c)
  BY <1>1, Slots, Sizes
<1>2. CASE ~is_leaf(c)
  BY <1>2, Slots, Sizes
<1> QED
  BY <1>1, <1>2

LEMMA RoomOfNode ==
  ASSUME NEW c, IsNode(c), FitsPage(c)
  PROVE  /\ Len(c.items) % Width16 = Len(c.items)
         /\ \A n \in 0 .. Len(c.items) :
              /\ RightAfter(c, n) \in Nat
              /\ SlotOf(c, n + 1) + PointerBytes(c) <= RightAfter(c, n)
<1> DEFINE L == Len(c.items)  P == PrefixBytes(c.items)
<1>1. L \in Nat /\ \A n \in 0 .. L : P[n] \in Nat /\ P[n] <= P[L]
  BY NodeTypes, PrefixBytesAdd, PrefixBytesGrow
<1>2. 3 + (2 * L) + (IF is_leaf(c) THEN 0 ELSE (L + 1) * 8) + (P[L] + (2 * L))
        <= DEFAULT_PAGE_SIZE - 1
  <2>1. HEADER_SIZE + L * OFFSET_SIZE + (IF is_leaf(c) THEN 0 ELSE (L + 1) * POINTER_SIZE)
          + (P[L] + 2 * L) <= DEFAULT_PAGE_SIZE - 1
    BY DEF FitsPage, ItemsBytes
  <2> HIDE DEF L, P
  <2>2. L * 2 = 2 * L
    BY <1>1
  <2> QED
    BY <2>1, <2>2, Sizes
<1> HIDE DEF L, P
<1>3. L < Width16
  BY <1>1, <1>2, Sizes
<1>4. L % Width16 = L
  BY <1>1, <1>3, Sizes
<1>5. ASSUME NEW n \in 0 .. L
      PROVE  RightAfter(c, n) \in Nat /\ SlotOf(c, n + 1) + PointerBytes(c) <= RightAfter(c, n)
  <2>1. RightAfter(c, n) = DEFAULT_PAGE_SIZE - 1 - P[n] - (2 * n)
    BY Sizes DEF RightAfter, P
  <2>2. P[n] \in Nat /\ P[L] \in Nat /\ P[n] <= P[L]
    BY <1>1
  <2>5. n + 1 \in Int /\ n + 1 - 1 = n
    OBVIOUS
  <2>3. CASE is_leaf(c)
    <3>2. \A k \in Int : SlotOf(c, k) = 3 + (2 * (k - 1))
      BY <2>3, Slots
    <3>3. PointerBytes(c) = 0
      BY <2>3, Slots
    <3>1. SlotOf(c, n + 1) = 3 + (2 * n) /\ PointerBytes(c) = 0
      BY <2>5, <3>2, <3>3
    <3> QED
      BY <1>1, <1>2, <2>1, <2>2, <2>3, <3>1, Sizes
  <2>4. CASE ~is_leaf(c)
    <3>2. \A k \in Int : SlotOf(c, k) = 3 + (10 * (k - 1))
      BY <2>4, Slots
    <3>3. PointerBytes(c) = 8
      BY <2>4, Slots, Sizes
    <3>1. SlotOf(c, n + 1) = 3 + (10 * n) /\ PointerBytes(c) = 8
      BY <2>5, <3>2, <3>3
    <3> QED
      BY <1>1, <1>2, <2>1, <2>2, <2>4, <3>1, Sizes
  <2> QED
    BY <2>3, <2>4
<1> QED
  BY <1>4, <1>5 DEF L
-----------------------------------------------------------------------------
\* What later writes leave alone.

\* Between the two buffers only what lies from low to high may differ.
Kept(b, d, low, high) ==
  /\ DOMAIN d = DOMAIN b
  /\ \A at \in DOMAIN b : at < low \/ at >= high => d[at] = b[at]

LEMMA KeptHas ==
  ASSUME NEW b, NEW d, NEW low \in Int, NEW high \in Int, Kept(b, d, low, high),
         NEW from \in Int, NEW s, Len(s) \in Nat, HasAt(b, from, s),
         from + Len(s) <= low \/ from >= high
  PROVE  HasAt(d, from, s)
<1>1. ASSUME NEW k \in 1 .. Len(s)
      PROVE  from + k - 1 \in DOMAIN d /\ d[from + k - 1] = s[k]
  <2>1. from + k - 1 \in DOMAIN b /\ b[from + k - 1] = s[k]
    BY DEF HasAt
  <2>2. from + k - 1 < low \/ from + k - 1 >= high
    OBVIOUS
  <2> QED
    BY <2>1, <2>2 DEF Kept
<1> QED
  BY <1>1 DEF HasAt

LEMMA KeptTwice ==
  ASSUME NEW b, NEW c, NEW d, NEW low, NEW high, Kept(b, c, low, high), Kept(c, d, low, high)
  PROVE  Kept(b, d, low, high)
BY DEF Kept

LEMMA WriteKept ==
  ASSUME NEW b, NEW size_ \in Nat, DOMAIN b = 0 .. size_ - 1, NEW at \in Int, NEW string,
         Len(string) \in Nat,
         NEW low \in Int, NEW high \in Int, low <= at, at + Len(string) <= high
  PROVE  Kept(b, write(stream(b, at), string).buffer, low, high)
<1> DEFINE d == write(stream(b, at), string).buffer
<1>1. /\ DOMAIN d = DOMAIN b
      /\ \A k \in DOMAIN b :
           d[k] = IF k \in at .. at + Len(string) - 1 THEN string[k - at + 1] ELSE b[k]
  BY WriteType
<1> HIDE DEF d
<1>2. ASSUME NEW k \in DOMAIN b, k < low \/ k >= high PROVE d[k] = b[k]
  <2>1. k \notin at .. at + Len(string) - 1
    BY <1>2
  <2> QED
    BY <1>1, <2>1
<1>3. Kept(b, d, low, high)
  BY <1>1, <1>2 DEF Kept
<1> QED
  BY <1>3 DEF d

\* An offset on the left, a value and a key on the right.
OffsetAndCells(b, l, o, at, k, v) ==
  LET b1 == write(stream(b, l), o).buffer
      b2 == write(stream(b1, at + Len(k)), v).buffer
  IN  write(stream(b2, at), k).buffer

LEMMA ThreeWrites ==
  ASSUME NEW b, NEW size_ \in Nat, DOMAIN b = 0 .. size_ - 1,
         NEW l \in Nat, NEW r \in Nat, r <= size_,
         NEW o, NEW k, NEW v, Len(o) \in Nat, Len(k) \in Nat, Len(v) \in Nat,
         NEW at \in Nat, at + Len(k) + Len(v) = r, l + Len(o) <= at
  PROVE  /\ Kept(b, OffsetAndCells(b, l, o, at, k, v), l, r)
         /\ HasAt(OffsetAndCells(b, l, o, at, k, v), l, o)
         /\ HasAt(OffsetAndCells(b, l, o, at, k, v), at, k)
         /\ HasAt(OffsetAndCells(b, l, o, at, k, v), at + Len(k), v)
<1> DEFINE b1 == write(stream(b, l), o).buffer
           b2 == write(stream(b1, at + Len(k)), v).buffer
           b3 == write(stream(b2, at), k).buffer
<1>0. /\ l \in Int /\ r \in Int /\ at \in Int /\ at + Len(k) \in Nat /\ at + Len(k) \in Int
      /\ at + Len(k) + Len(v) <= r /\ l <= at + Len(k) /\ at + Len(k) <= r
      /\ l + Len(o) <= size_ /\ at + Len(k) <= size_ /\ at + Len(k) + Len(v) <= size_
      /\ l + Len(o) <= r /\ l <= at
  OBVIOUS
<1>1. Kept(b, b1, l, r) /\ HasAt(b1, l, o) /\ DOMAIN b1 = 0 .. size_ - 1
  <2>1. Kept(b, b1, l, r)
    BY <1>0, WriteKept
  <2>2. HasAt(b1, l, o)
    BY <1>0, WriteHolds
  <2> QED
    BY <2>1, <2>2, WriteType
<1>2. /\ Kept(b1, b2, l, r) /\ Kept(b1, b2, at + Len(k), r) /\ HasAt(b2, at + Len(k), v)
      /\ DOMAIN b2 = 0 .. size_ - 1
  <2>1. Kept(b1, b2, at + Len(k), r)
    BY <1>0, <1>1, WriteKept
  <2>2. Kept(b1, b2, l, r)
    BY <1>0, <1>1, <2>1 DEF Kept
  <2>3. HasAt(b2, at + Len(k), v)
    BY <1>0, <1>1, WriteHolds
  <2> QED
    BY <1>1, <2>1, <2>2, <2>3, WriteType
<1>3. Kept(b2, b3, l, r) /\ Kept(b2, b3, at, at + Len(k)) /\ HasAt(b3, at, k)
  <2>1. Kept(b2, b3, at, at + Len(k))
    BY <1>0, <1>2, WriteKept
  <2>2. Kept(b2, b3, l, r)
    BY <1>0, <1>2, <2>1 DEF Kept
  <2>3. HasAt(b3, at, k)
    BY <1>0, <1>2, WriteHolds
  <2> QED
    BY <2>1, <2>2, <2>3
<1>4. Kept(b, b3, l, r)
  BY <1>1, <1>2, <1>3, KeptTwice
<1>5. HasAt(b2, l, o)
  <2>1. l + Len(o) <= at + Len(k)
    BY <1>0
  <2> QED
    BY <1>0, <1>1, <1>2, <2>1, KeptHas
<1>6. HasAt(b3, l, o) /\ HasAt(b3, at + Len(k), v)
  BY <1>0, <1>2, <1>3, <1>5, KeptHas
<1>7. OffsetAndCells(b, l, o, at, k, v) = b3
  BY DEF OffsetAndCells
<1> HIDE DEF b1, b2, b3
<1> QED
  BY <1>3, <1>4, <1>6, <1>7

\* The items written before, as long as everything new lies between the two ends.
LEMMA ItemsKept ==
  ASSUME NEW c, IsNode(c), NEW b, NEW d, NEW low \in Int, NEW high \in Int,
         Kept(b, d, low, high), NEW n \in 0 .. Len(c.items), SlotOf(c, n + 1) <= low,
         ItemsWritten(c, b, n, high), NEW end \in Nat, end <= high
  PROVE  ItemsWritten(c, d, n, end)
<1>1. Len(c.items) \in Nat
  BY NodeTypes
<1> DEFINE next == SlotOf(c, n + 1)
<1>2. next >= 3 /\ next \in Int
  <2>1. n + 1 \in Int /\ n >= 0 /\ n + 1 - 1 = n
    BY <1>1
  <2>2. \A k \in Int : SlotOf(c, k) = 3 + (2 * (k - 1)) \/ SlotOf(c, k) = 3 + (10 * (k - 1))
    BY Slots
  <2>3. next = 3 + (2 * n) \/ next = 3 + (10 * n)
    BY <2>1, <2>2
  <2> HIDE DEF next
  <2> QED
    BY <2>1, <2>3
<1>3. 0 \in Int /\ 1 \in Int /\ 0 + 1 <= low /\ 1 + 2 <= low
  BY <1>2
<1>4. HeaderWritten(c, d)
  <2> DEFINE leaf == put(IF is_leaf(c) THEN 1 ELSE 0, 1)
             count == put(Len(c.items) % Width16, OFFSET_SIZE)
  <2>1. HasAt(b, 0, leaf) /\ HasAt(b, 1, count)
    BY DEF ItemsWritten, HeaderWritten
  <2>2. Len(leaf) = 1 /\ Len(count) = 2
    BY PutLength DEF OFFSET_SIZE
  <2> HIDE DEF leaf, count
  <2>3. 0 + Len(leaf) <= low /\ 1 + Len(count) <= low /\ Len(leaf) \in Nat /\ Len(count) \in Nat
    BY <1>3, <2>2
  <2>4. HasAt(d, 0, leaf) /\ HasAt(d, 1, count)
    BY <1>3, <2>1, <2>3, KeptHas
  <2> QED
    BY <2>4 DEF HeaderWritten, leaf, count
<1>5. ASSUME NEW m \in 1 .. n
      PROVE  PointerWritten(c, d, m, c.children[m]) /\ CellsWritten(c, d, m, end)
  <2>1. /\ m \in Int /\ n + 1 \in Int /\ m < n + 1 /\ m \in 1 .. Len(c.items)
    BY <1>1
  <2> DEFINE slot == SlotOf(c, m)  pointer == PointerBytes(c)
  <2>3. pointer \in Nat /\ OFFSET_SIZE = 2 /\ POINTER_SIZE = 8
    <3>1. pointer \in {0, POINTER_SIZE}
      BY Slots
    <3> QED
      BY <3>1 DEF POINTER_SIZE, OFFSET_SIZE
  <2>2. slot \in Int /\ slot + pointer \in Int /\ slot + pointer <= low
        /\ slot + pointer + OFFSET_SIZE <= low
    <3>1. slot \in Int
      <4>1. \A k \in Int : SlotOf(c, k) \in Int
        BY Slots
      <4> QED
        BY <2>1, <4>1
    <3>2. slot + pointer + OFFSET_SIZE <= next
      BY <2>1, SlotsApart
    <3> HIDE DEF slot, pointer, next
    <3>3. next <= low
      BY DEF next
    <3> QED
      BY <1>2, <2>3, <3>1, <3>2, <3>3
  <2>4. PointerWritten(c, d, m, c.children[m])
    <3>1. SUFFICES ASSUME ~is_leaf(c)
                   PROVE  HasAt(d, SlotOf(c, m), put(c.children[m], POINTER_SIZE))
      BY DEF PointerWritten
    <3>2. HasAt(b, SlotOf(c, m), put(c.children[m], POINTER_SIZE))
      BY <3>1 DEF ItemsWritten, PointerWritten
    <3>3. Len(put(c.children[m], POINTER_SIZE)) = POINTER_SIZE /\ PointerBytes(c) = POINTER_SIZE
      BY <2>3, <3>1, Slots, PutLength
    <3> QED
      BY <2>2, <2>3, <3>2, <3>3, KeptHas
  <2>5. CellsWritten(c, d, m, end)
    <3>1. PICK at \in high .. DEFAULT_PAGE_SIZE - 1 :
            /\ at + Len(KeyCell(c, m)) + Len(ValueCell(c, m)) <= DEFAULT_PAGE_SIZE - 1
            /\ HasAt(b, SlotOf(c, m) + PointerBytes(c), put(at, OFFSET_SIZE))
            /\ HasAt(b, at, KeyCell(c, m))
            /\ HasAt(b, at + Len(KeyCell(c, m)), ValueCell(c, m))
      BY DEF ItemsWritten, CellsWritten
    <3>2. Len(KeyCell(c, m)) \in Nat /\ Len(ValueCell(c, m)) \in Nat
      BY <2>1, NodeTypes, CellType, LenProperties DEF KeyCell, ValueCell
    <3>3. Len(put(at, OFFSET_SIZE)) = OFFSET_SIZE
      BY <2>3, PutLength
    <3>4. HasAt(d, slot + pointer, put(at, OFFSET_SIZE))
      <4> DEFINE offset == put(at, OFFSET_SIZE)
      <4>1. HasAt(b, slot + pointer, offset) /\ Len(offset) = OFFSET_SIZE
        BY <3>1, <3>3
      <4> HIDE DEF slot, pointer, offset
      <4>2. Len(offset) \in Nat /\ slot + pointer + Len(offset) <= low
        BY <2>2, <2>3, <4>1
      <4>3. HasAt(d, slot + pointer, offset)
        BY <2>2, <4>1, <4>2, KeptHas
      <4> QED
        BY <4>3 DEF offset
    <3>5. HasAt(d, at, KeyCell(c, m))
      BY <3>1, <3>2, KeptHas
    <3>6. HasAt(d, at + Len(KeyCell(c, m)), ValueCell(c, m))
      BY <3>1, <3>2, KeptHas
    <3>7. at \in end .. DEFAULT_PAGE_SIZE - 1
      BY Sizes
    <3> QED
      BY <3>1, <3>4, <3>5, <3>6, <3>7 DEF CellsWritten
  <2> QED
    BY <2>4, <2>5
<1> QED
  BY <1>4, <1>5 DEF ItemsWritten
-----------------------------------------------------------------------------
\* Writing a node.

\* While a node is written the rest of the invariant says nothing.
LEMMA WhileWriting ==
  ASSUME content \in Contents, content' = content, content.kind = "node",
         stage' \in {"item", "copy"}, WritingOK'
  PROVE  IInv'
BY DEF IInv, StartOK, CopyOK, PageOK, ReadingOK, ReadBack, OverrunOnlyWhenFull

LEMMA EmptyBuffer ==
  ASSUME NEW n
  PROVE  DOMAIN empty_buffer(n) = 0 .. n - 1 /\ \A at \in 0 .. n - 1 : empty_buffer(n)[at] = 0
BY DEF empty_buffer

LEMMA Remainder ==
  ASSUME NEW v \in Nat, NEW w \in Nat, w > 1
  PROVE  v % w \in 0 .. v /\ v % w \in 0 .. w - 1
<1> DEFINE q == v \div w
<1>1. q \in Nat /\ v % w \in 0 .. w - 1 /\ v = (w * q) + (v % w)
  OBVIOUS
<1> HIDE DEF q
<1>2. w * q \in Nat
  BY <1>1
<1> QED
  BY <1>1, <1>2

LEMMA ItemsCount ==
  ASSUME NEW c, IsNode(c)
  PROVE  Len(c.items) % Width16 \in 0 .. Len(c.items)
<1>1. Len(c.items) \in Nat /\ Width16 \in Nat /\ Width16 > 1
  BY NodeTypes, Width16Assumption
<1> QED
  BY <1>1, Remainder

LEMMA WriteHeaderStep ==
  ASSUME IInv, WriteHeader
  PROVE  IInv'
<1> DEFINE c == content  size_ == DEFAULT_PAGE_SIZE  b == empty_buffer(size_)
           leaf == put(IF is_leaf(c) THEN 1 ELSE 0, 1)
           count == put(Len(c.items) % Width16, OFFSET_SIZE)
           b1 == write(stream(b, 0), leaf).buffer
           b2 == write(stream(b1, 1), count).buffer
<1>1. c \in Contents /\ c.kind = "node" /\ IsNode(c) /\ i = 1
  BY ContentTypes DEF IInv, WriteHeader, StartOK
<1>2. Len(leaf) = 1 /\ Len(count) = 2 /\ size_ \in Nat \ {0}
  BY PutLength, Sizes DEF OFFSET_SIZE
<1>3. DOMAIN b = 0 .. size_ - 1
  BY EmptyBuffer
<1>4. buffer' = b2
  <2> DEFINE s == stream(b, 0)  t == write(s, leaf)
  <2>1. buffer' = write(t, count).buffer
    BY DEF WriteHeader, write_bytes, items_count
  <2>2. t = stream(b1, 0 + Len(leaf))
    BY WriteType
  <2>3. 0 + Len(leaf) = 1
    BY <1>2
  <2> HIDE DEF t, count, b1
  <2> QED
    BY <2>1, <2>2, <2>3 DEF b1
<1> HIDE DEF leaf, count, b
<1>5. DOMAIN b1 = 0 .. size_ - 1 /\ DOMAIN b2 = 0 .. size_ - 1
  BY <1>3, WriteType
<1>6. ASSUME 3 <= size_ PROVE HeaderWritten(c, b2)
  <2>0. 0 \in Nat /\ size_ \in Nat /\ Len(leaf) \in Nat /\ 0 + Len(leaf) <= size_
    BY <1>2, <1>6
  <2>1. HasAt(b1, 0, leaf)
    BY <1>3, <2>0, WriteHolds
  <2>2. HasAt(b2, 1, count)
    <3>1. 1 \in Nat /\ 1 + Len(count) <= size_ /\ Len(count) \in Nat
      BY <1>2, <1>6
    <3> QED
      BY <1>2, <1>5, <3>1, WriteHolds
  <2>3. 0 \in Int /\ 1 \in Int /\ 0 + Len(leaf) <= 1 /\ Len(leaf) \in Nat /\ Len(count) \in Nat
    BY <1>2
  <2>4. HasAt(b2, 0, leaf)
    BY <2>1, <2>3, WriteKeeps
  <2> QED
    BY <2>2, <2>4 DEF HeaderWritten, leaf, count
<1> HIDE DEF b2
<1>7. left' = 3 /\ right' = size_ - 1 /\ i' = 1 /\ content' = content /\ stage' = "item"
  BY <1>1 DEF WriteHeader, HEADER_SIZE
<1>8. items_count' \in Nat /\ items_count' = Len(c.items) % Width16
  BY <1>1, <1>7, ItemsCount DEF items_count
<1>9. RightAfter(c, 0) = size_ - 1
  BY <1>1, PrefixBytesAdd, Sizes DEF RightAfter
<1>10. 3 <= size_ - 1 => ItemsWritten(c, b2, 0, size_ - 1)
  BY <1>2, <1>6 DEF ItemsWritten
<1>11. SlotOf(c, 1) = 3
  BY Slots DEF HEADER_SIZE
<1>12. WritingOK'
  BY <1>1, <1>2, <1>4, <1>5, <1>7, <1>8, <1>9, <1>10, <1>11 DEF WritingOK, LeftEnd
<1> QED
  BY <1>1, <1>7, <1>12, WhileWriting

\* The key and the value of an item, and their cells.
LEMMA CellTypes ==
  ASSUME NEW c, IsNode(c), NEW n \in 1 .. Len(c.items)
  PROVE  /\ KeyBytes[c.items[n].key] \in Seq(Bytes) /\ ValueBytes[c.items[n].value] \in Seq(Bytes)
         /\ length(KeyBytes[c.items[n].key]) \in Nat /\ length(ValueBytes[c.items[n].value]) \in Nat
         /\ Len(KeyCell(c, n)) = length(KeyBytes[c.items[n].key]) + 1
         /\ Len(ValueCell(c, n)) = length(ValueBytes[c.items[n].value]) + 1
         /\ ItemBytes[c.items[n].key]
              = length(KeyBytes[c.items[n].key]) + length(ValueBytes[c.items[n].value])
BY NodeTypes, CellType DEF KeyCell, ValueCell

\* Where the right end is after one more item.
LEMMA RightMoves ==
  ASSUME NEW c, IsNode(c), NEW n \in 1 .. Len(c.items)
  PROVE  /\ RightAfter(c, n - 1) \in Int /\ RightAfter(c, n - 1) < DEFAULT_PAGE_SIZE
         /\ RightAfter(c, n) + Len(KeyCell(c, n)) + Len(ValueCell(c, n)) = RightAfter(c, n - 1)
         /\ RightAfter(c, n) = RightAfter(c, n - 1) - length(KeyBytes[c.items[n].key])
                                 - length(ValueBytes[c.items[n].value]) - OFFSET_SIZE
<1> DEFINE P == PrefixBytes(c.items)  k == length(KeyBytes[c.items[n].key])
           v == length(ValueBytes[c.items[n].value])
<1>1. Len(c.items) \in Nat /\ n - 1 \in 0 .. Len(c.items) /\ n \in 0 .. Len(c.items)
  BY NodeTypes
<1>2. /\ P[n] = P[n - 1] + ItemBytes[c.items[n].key] /\ P[n - 1] \in Nat
      /\ ItemBytes[c.items[n].key] = k + v
      /\ Len(KeyCell(c, n)) = k + 1 /\ Len(ValueCell(c, n)) = v + 1 /\ k \in Nat /\ v \in Nat
  BY <1>1, PrefixBytesAdd, CellTypes
<1>3. P[n] = P[n - 1] + (k + v)
  BY <1>2
<1> HIDE DEF P, k, v
<1>4. RightAfter(c, n) = DEFAULT_PAGE_SIZE - 1 - P[n] - (2 * n)
  BY DEF RightAfter, P, OFFSET_SIZE
<1>5. RightAfter(c, n - 1) = DEFAULT_PAGE_SIZE - 1 - P[n - 1] - (2 * (n - 1))
  BY DEF RightAfter, P, OFFSET_SIZE
<1>6. DEFAULT_PAGE_SIZE \in Nat /\ OFFSET_SIZE = 2
  BY Sizes
<1> DEFINE new == RightAfter(c, n)  old == RightAfter(c, n - 1)  p == P[n - 1]
           kc == Len(KeyCell(c, n))  vc == Len(ValueCell(c, n))
<1>7. n \in Int /\ n >= 1 /\ p \in Nat /\ k \in Nat /\ v \in Nat /\ kc = k + 1 /\ vc = v + 1
  BY <1>1, <1>2
<1>8. new = DEFAULT_PAGE_SIZE - 1 - (p + (k + v)) - (2 * n)
  BY <1>3, <1>4
<1>9. old = DEFAULT_PAGE_SIZE - 1 - p - (2 * (n - 1))
  BY <1>5
<1> HIDE DEF new, old, p, kc, vc
<1>10. old \in Int /\ old < DEFAULT_PAGE_SIZE /\ new = old - k - v - 2 /\ new + kc + vc = old
  BY <1>6, <1>7, <1>8, <1>9
<1> QED
  BY <1>6, <1>10 DEF k, v, kc, vc, new, old

\* The buffer after the pointer to a child.
AfterPointer(b, c, n, child) ==
  IF is_leaf(c) THEN b
  ELSE write(stream(b, SlotOf(c, n)), put(child, POINTER_SIZE)).buffer

LEMMA PointerIn ==
  ASSUME NEW b, NEW size_ \in Nat, DOMAIN b = 0 .. size_ - 1, NEW n \in Int, NEW child,
         NEW c, SlotOf(c, n) \in Nat
  PROVE  /\ DOMAIN AfterPointer(b, c, n, child) = 0 .. size_ - 1
         /\ SlotOf(c, n) + PointerBytes(c) <= size_ =>
              PointerWritten(c, AfterPointer(b, c, n, child), n, child)
         /\ \A high \in Int : SlotOf(c, n) + PointerBytes(c) <= high =>
              Kept(b, AfterPointer(b, c, n, child), SlotOf(c, n), high)
<1> DEFINE pointer == put(child, POINTER_SIZE)  slot == SlotOf(c, n)
           b1 == AfterPointer(b, c, n, child)
<1>1. CASE is_leaf(c)
  BY <1>1 DEF Kept, PointerWritten, AfterPointer
<1>2. CASE ~is_leaf(c)
  <2>1. Len(pointer) = PointerBytes(c) /\ Len(pointer) \in Nat
    <3>1. PointerBytes(c) = POINTER_SIZE /\ POINTER_SIZE \in Nat
      BY <1>2, Slots DEF POINTER_SIZE
    <3> QED
      BY <3>1, PutLength
  <2>2. b1 = write(stream(b, slot), pointer).buffer
    BY <1>2 DEF AfterPointer
  <2> HIDE DEF slot, pointer, b1
  <2>3. slot \in Nat /\ slot \in Int
    BY DEF slot
  <2>4. DOMAIN b1 = 0 .. size_ - 1
    BY <2>2, WriteType
  <2>5. slot + Len(pointer) <= size_ => HasAt(b1, slot, pointer)
    BY <2>1, <2>2, <2>3, WriteHolds
  <2>6. ASSUME NEW high \in Int, slot + Len(pointer) <= high PROVE Kept(b, b1, slot, high)
    BY <2>1, <2>2, <2>3, <2>6, WriteKept
  <2> QED
    BY <2>1, <2>4, <2>5, <2>6 DEF PointerWritten, slot, pointer, b1
<1> QED
  BY <1>1, <1>2

\* The invariant while the items are written, with the numbers typed.
LEMMA InLoop ==
  ASSUME IInv, stage = "item"
  PROVE  /\ content \in Contents /\ content.kind = "node" /\ IsNode(content)
         /\ DOMAIN buffer = 0 .. DEFAULT_PAGE_SIZE - 1
         /\ i \in 1 .. items_count + 1 /\ i \in Nat /\ items_count \in 0 .. Len(content.items)
         /\ left = SlotOf(content, i) /\ left \in Nat
         /\ SlotOf(content, i + 1) = left + PointerBytes(content) + OFFSET_SIZE
         /\ right \in Nat /\ right = RightAfter(content, i - 1)
         /\ left <= right => ItemsWritten(content, buffer, i - 1, right)
<1>1. content \in Contents /\ content.kind = "node" /\ IsNode(content)
  BY ContentTypes DEF IInv, WritingOK
<1>2. items_count \in 0 .. Len(content.items) /\ Len(content.items) \in Nat
  BY <1>1, ItemsCount, NodeTypes DEF items_count
<1>3. /\ DOMAIN buffer = 0 .. DEFAULT_PAGE_SIZE - 1
      /\ i \in 1 .. items_count + 1 /\ left = SlotOf(content, i)
      /\ right \in Nat /\ right = RightAfter(content, i - 1)
      /\ LeftEnd <= right => ItemsWritten(content, buffer, i - 1, right)
  BY <1>1 DEF IInv, WritingOK
<1>4. i \in Nat /\ i \in Int /\ i >= 1
  BY <1>2, <1>3
<1>5. left \in Nat
  <2>1. \/ SlotOf(content, i) = 3 + (2 * (i - 1))
        \/ SlotOf(content, i) = 3 + (10 * (i - 1))
    <3>1. \A n \in Int : \/ SlotOf(content, n) = 3 + (2 * (n - 1))
                         \/ SlotOf(content, n) = 3 + (10 * (n - 1))
      BY Slots
    <3> QED
      BY <1>4, <3>1
  <2> QED
    BY <1>3, <1>4, <2>1
<1>6. SlotOf(content, i + 1) = SlotOf(content, i) + PointerBytes(content) + OFFSET_SIZE
  <2>1. \A n \in Int : SlotOf(content, n + 1) = SlotOf(content, n) + PointerBytes(content) + OFFSET_SIZE
    BY Slots
  <2> QED
    BY <1>4, <2>1
<1>7. LeftEnd = left
  BY <1>5 DEF LeftEnd
<1> QED
  BY <1>1, <1>2, <1>3, <1>4, <1>5, <1>6, <1>7

LEMMA PointerSize == pointer_size = PointerBytes(content)
BY DEF pointer_size, PointerBytes

LEMMA WriteItemStep ==
  ASSUME IInv, WriteItem
  PROVE  IInv'
<1> DEFINE c == content  b == buffer  size_ == DEFAULT_PAGE_SIZE  l == left  r == right  n == i
           pb == PointerBytes(c)
           kc == KeyCell(c, n)  vc == ValueCell(c, n)  at == CellsAt
           o == put(at % Width16, OFFSET_SIZE)
           b1 == AfterPointer(b, c, n, c.children[n])
           b2 == write(stream(b1, l + pb), o).buffer
           b3 == write(stream(b2, at + Len(kc)), vc).buffer
           b4 == write(stream(b3, at), kc).buffer
<1>1. stage = "item" /\ n <= items_count /\ ItemInside
  BY DEF WriteItem
<1>2. /\ c \in Contents /\ c.kind = "node" /\ IsNode(c) /\ DOMAIN b = 0 .. size_ - 1
      /\ n \in 1 .. Len(c.items) /\ n \in 1 .. items_count /\ l = SlotOf(c, n) /\ l \in Nat
      /\ SlotOf(c, n + 1) = l + pb + 2 /\ r \in Nat /\ r = RightAfter(c, n - 1)
      /\ l <= r => ItemsWritten(c, b, n - 1, r)
  BY <1>1, InLoop DEF OFFSET_SIZE
<1>3. size_ \in Nat /\ size_ < Width16 /\ pb \in Nat /\ OFFSET_SIZE = 2 /\ Width16 \in Nat
  <2>1. pb \in {0, POINTER_SIZE}
    BY Slots
  <2>2. pb \in Nat
    BY <2>1 DEF POINTER_SIZE
  <2> QED
    BY <2>2, Sizes
<1>4. /\ at = RightAfter(c, n) /\ at + Len(kc) + Len(vc) = r /\ r < size_ /\ at \in Nat
      /\ Len(kc) \in Nat \ {0} /\ Len(vc) \in Nat \ {0}
  <2>1. /\ RightAfter(c, n - 1) \in Int /\ RightAfter(c, n - 1) < size_
        /\ RightAfter(c, n) + Len(kc) + Len(vc) = RightAfter(c, n - 1)
        /\ RightAfter(c, n) = RightAfter(c, n - 1) - length(key) - length(value) - OFFSET_SIZE
    BY <1>2, RightMoves DEF key, value
  <2>2. at = RightAfter(c, n)
    BY <1>2, <2>1 DEF CellsAt
  <2>3. at >= 0
    BY <1>1 DEF ItemInside
  <2>4. /\ length(key) \in Nat /\ length(value) \in Nat
        /\ Len(kc) = length(key) + 1 /\ Len(vc) = length(value) + 1
    BY <1>2, CellTypes DEF key, value
  <2>5. at = r - length(key) - length(value) - 2 /\ r \in Nat /\ r = RightAfter(c, n - 1)
    BY <1>2 DEF CellsAt, OFFSET_SIZE
  <2>6. at + Len(kc) + Len(vc) = r /\ r < size_
    BY <2>1, <2>2, <2>5
  <2> HIDE DEF kc, vc, at
  <2>7. at \in Nat
    BY <2>3, <2>4, <2>5
  <2>8. Len(kc) \in Nat \ {0} /\ Len(vc) \in Nat \ {0}
    BY <2>4
  <2> QED
    BY <2>2, <2>6, <2>7, <2>8
<1>5. l + pb + 2 <= size_
  BY <1>1, <1>2, <1>3, BufferSize, PointerSize DEF ItemInside
<1>6. WithPointer(c.children[n]) = stream(b1, l + pb)
  <2>1. CASE is_leaf(c)
    BY <1>2, <2>1, Slots DEF WithPointer, AfterPointer
  <2>2. CASE ~is_leaf(c)
    <3> DEFINE p == put(c.children[n], POINTER_SIZE)
    <3>1. Len(p) = pb
      <4>1. PointerBytes(c) = POINTER_SIZE /\ POINTER_SIZE \in Nat
        BY <2>2, Slots DEF POINTER_SIZE
      <4> QED
        BY <4>1, PutLength
    <3>2. WithPointer(c.children[n]) = write(stream(b, l), p)
      BY <2>2 DEF WithPointer, write_bytes
    <3>3. b1 = write(stream(b, l), p).buffer
      BY <1>2, <2>2 DEF AfterPointer
    <3>4. write(stream(b, l), p) = stream(write(stream(b, l), p).buffer, l + Len(p))
      BY WriteType
    <3> HIDE DEF p, b1
    <3> QED
      BY <3>1, <3>2, <3>3, <3>4
  <2> QED
    BY <2>1, <2>2
<1>7. Len(o) = 2
  BY PutLength DEF OFFSET_SIZE
<1>8. buffer' = b4 /\ left' = l + pb + 2 /\ right' = at /\ i' = n + 1
      /\ content' = content /\ stage' = "item"
  <2> DEFINE s == write_bytes(WithPointer(c.children[n]), at % Width16, OFFSET_SIZE)
             v == write(stream(s.buffer, r - Len(Cell(value))), Cell(value))
  <2>1. /\ buffer' = write(stream(v.buffer, at), Cell(key)).buffer
        /\ left' = s.position /\ right' = at /\ i' = n + 1
        /\ content' = content /\ stage' = "item"
    BY <1>1 DEF WriteItem
  <2>2. Cell(value) = vc /\ Cell(key) = kc
    BY DEF KeyCell, ValueCell, key, value
  <2>3. s = write(stream(b1, l + pb), o)
    BY <1>6 DEF write_bytes
  <2>4. s.buffer = b2 /\ s.position = l + pb + 2
    <3> HIDE DEF s, o, b1
    <3>1. s.position = l + pb + Len(o)
      BY <2>3, WriteType
    <3> QED
      BY <1>7, <2>3, <3>1
  <2>5. r - Len(vc) = at + Len(kc)
    <3> HIDE DEF at, kc, vc
    <3> QED
      BY <1>2, <1>4
  <2>6. v = write(stream(b2, at + Len(kc)), vc)
    BY <2>2, <2>4, <2>5
  <2> HIDE DEF s, v, b2, at, kc, vc
  <2> QED
    BY <2>1, <2>2, <2>4, <2>6
<1> HIDE DEF o, kc, vc, at
<1>15. /\ l \in Nat /\ r \in Nat /\ pb \in Nat /\ at \in Nat /\ size_ \in Nat
       /\ at + Len(kc) + Len(vc) = r /\ r < size_ /\ at < r
       /\ Len(o) = 2 /\ Len(kc) \in Nat /\ Len(vc) \in Nat /\ l + pb + 2 <= size_
  <2> HIDE DEF c, l, r, pb, size_
  <2>1. l \in Nat /\ r \in Nat
    BY <1>2
  <2>2. pb \in Nat /\ size_ \in Nat
    BY <1>3
  <2>3. /\ at \in Nat /\ Len(kc) \in Nat \ {0} /\ Len(vc) \in Nat \ {0}
        /\ at + Len(kc) + Len(vc) = r /\ r < size_
    BY <1>4
  <2> QED
    BY <1>5, <1>7, <2>1, <2>2, <2>3
<1>9. /\ DOMAIN b1 = 0 .. size_ - 1
      /\ l + pb <= r => Kept(b, b1, l, r)
      /\ PointerWritten(c, b1, n, c.children[n])
  <2>1. n \in Int /\ r \in Int /\ SlotOf(c, n) \in Nat /\ SlotOf(c, n) = l /\ l + pb <= size_
    BY <1>2, <1>3, <1>5
  <2>3. DOMAIN b = 0 .. size_ - 1 /\ size_ \in Nat
    BY <1>2, <1>3
  <2> HIDE DEF c, n, b, size_
  <2>4. /\ DOMAIN b1 = 0 .. size_ - 1
        /\ SlotOf(c, n) + pb <= size_ => PointerWritten(c, b1, n, c.children[n])
        /\ \A high \in Int : SlotOf(c, n) + pb <= high => Kept(b, b1, SlotOf(c, n), high)
    BY <2>1, <2>3, PointerIn
  <2> QED
    BY <2>1, <2>4
<1> HIDE DEF b1
<1>10. DOMAIN b4 = 0 .. size_ - 1
  BY <1>9, WriteType
<1>11. ASSUME l + pb + 2 <= at PROVE ItemsWritten(c, b4, n, at)
  <2>1. /\ l + pb \in Nat /\ l <= r /\ l + pb <= r /\ r <= size_
        /\ Len(o) \in Nat /\ Len(kc) \in Nat /\ Len(vc) \in Nat /\ l + pb + Len(o) <= at
        /\ at <= r /\ at \in Nat /\ r \in Nat /\ size_ \in Nat
    <3> HIDE DEF l, r, pb, size_
    <3> QED
      BY <1>11, <1>15
  <2>2. at % Width16 = at
    BY <1>3, <1>4
  <2>3. /\ Kept(b1, b4, l + pb, r)
        /\ HasAt(b4, l + pb, o) /\ HasAt(b4, at, kc) /\ HasAt(b4, at + Len(kc), vc)
    <3>1. b4 = OffsetAndCells(b1, l + pb, o, at, kc, vc)
      BY DEF OffsetAndCells
    <3> HIDE DEF l, r, pb, size_, b4
    <3> QED
      BY <1>9, <1>15, <2>1, <3>1, ThreeWrites
  <2> HIDE DEF b2, b3, b4
  <2>4. Kept(b, b4, l, r)
    <3>1. Kept(b1, b4, l, r)
      <4> HIDE DEF l, r, pb, size_, b
      <4>1. \A k \in 0 .. size_ - 1 : k < l => k < l + pb
        BY <1>15
      <4> QED
        BY <1>9, <2>3, <4>1 DEF Kept
    <3> QED
      BY <1>9, <2>1, <3>1, KeptTwice
  <2>5. ItemsWritten(c, b4, n - 1, at)
    <3>1. /\ n - 1 \in 0 .. Len(c.items) /\ n - 1 + 1 = n /\ SlotOf(c, n) <= l
          /\ l \in Int /\ r \in Int
      BY <1>2
    <3> QED
      BY <1>2, <2>1, <2>4, <3>1, ItemsKept
  <2>6. PointerWritten(c, b4, n, c.children[n])
    <3>1. SUFFICES ASSUME ~is_leaf(c)
                   PROVE  HasAt(b4, SlotOf(c, n), put(c.children[n], POINTER_SIZE))
      BY DEF PointerWritten
    <3> DEFINE p == put(c.children[n], POINTER_SIZE)
    <3>2. HasAt(b1, l, p)
      BY <1>2, <1>9, <3>1 DEF PointerWritten
    <3>3. Len(p) = pb /\ Len(p) \in Nat
      <4>1. PointerBytes(c) = POINTER_SIZE /\ POINTER_SIZE \in Nat
        BY <3>1, Slots DEF POINTER_SIZE
      <4> QED
        BY <4>1, PutLength
    <3> HIDE DEF p
    <3>4. l + Len(p) <= l + pb /\ l \in Int /\ l + pb \in Int /\ r \in Int
      BY <1>2, <1>3, <3>3
    <3>5. HasAt(b4, l, p)
      BY <2>3, <3>2, <3>3, <3>4, KeptHas
    <3> QED
      BY <1>2, <3>5 DEF p
  <2>7. CellsWritten(c, b4, n, at)
    <3>1. /\ at + Len(kc) + Len(vc) <= size_ - 1 /\ at \in at .. size_ - 1
      BY <1>3, <1>4
    <3>2. HasAt(b4, SlotOf(c, n) + pb, put(at, OFFSET_SIZE))
      BY <1>2, <2>2, <2>3 DEF o
    <3> QED
      BY <2>3, <3>1, <3>2 DEF CellsWritten, kc, vc
  <2>8. ASSUME NEW m \in 1 .. n
        PROVE  PointerWritten(c, b4, m, c.children[m]) /\ CellsWritten(c, b4, m, at)
    <3>1. CASE m = n
      BY <2>6, <2>7, <3>1
    <3>2. CASE m # n
      <4>1. m \in 1 .. n - 1
        BY <1>2, <3>2
      <4> QED
        BY <2>5, <4>1 DEF ItemsWritten
    <3> QED
      BY <3>1, <3>2
  <2> QED
    BY <2>5, <2>8 DEF ItemsWritten
<1> HIDE DEF b4, pb
<1>12. n + 1 \in 1 .. items_count + 1 /\ n + 1 - 1 = n
  <2>1. items_count \in Nat
    BY <1>1, InLoop
  <2> QED
    BY <1>2, <2>1
<1>13. items_count' = items_count
  BY <1>8 DEF items_count
<1>14. WritingOK'
  <2> HIDE DEF c, n, l, r
  <2>1. /\ content' = c /\ stage' = "item" /\ buffer' = b4 /\ i' = n + 1 /\ right' = at
        /\ left' = l + pb + 2
    BY <1>8 DEF c
  <2>2. ItemsWritten(c, b4, n, at) \/ ~(l + pb + 2 <= at)
    BY <1>11
  <2> QED
    BY <1>2, <1>4, <1>10, <1>12, <1>13, <2>1, <2>2 DEF WritingOK, LeftEnd
<1> QED
  BY <1>2, <1>8, <1>14, WhileWriting

LEMMA WriteLastChildStep ==
  ASSUME IInv, WriteLastChild
  PROVE  IInv'
<1> DEFINE c == content  b == buffer  size_ == DEFAULT_PAGE_SIZE  l == left  r == right  n == i
           pb == PointerBytes(c)  child == Last(c.children)
           b1 == AfterPointer(b, c, n, child)
<1>1. stage = "item" /\ n > items_count /\ LastChildInside
  BY DEF WriteLastChild
<1>2. /\ c \in Contents /\ c.kind = "node" /\ IsNode(c) /\ DOMAIN b = 0 .. size_ - 1
      /\ n = items_count + 1 /\ items_count \in 0 .. Len(c.items) /\ n - 1 = items_count
      /\ Len(c.items) \in Nat /\ n \in Int /\ l = SlotOf(c, n) /\ l \in Nat
      /\ r \in Nat /\ r = RightAfter(c, n - 1)
      /\ l <= r => ItemsWritten(c, b, n - 1, r)
  BY <1>1, InLoop, NodeTypes
<1>3. size_ \in Nat /\ pb \in Nat
  <2>1. pb \in {0, POINTER_SIZE}
    BY Slots
  <2>2. pb \in Nat
    BY <2>1 DEF POINTER_SIZE
  <2> QED
    BY <2>2, Sizes
<1>4. l + pb <= size_
  BY <1>1, <1>2, <1>3, BufferSize, PointerSize DEF LastChildInside
<1>5. /\ buffer' = b1 /\ stage' = "copy" /\ content' = content
      /\ left' = l /\ right' = r /\ i' = n
  <2>1. /\ buffer' = IF is_leaf(c) THEN b ELSE WithPointer(child).buffer
        /\ stage' = "copy" /\ content' = content /\ left' = l /\ right' = r /\ i' = n
    BY DEF WriteLastChild
  <2>2. ~is_leaf(c) => WithPointer(child) = write(stream(b, l), put(child, POINTER_SIZE))
    BY DEF WithPointer, write_bytes
  <2> QED
    BY <1>2, <2>1, <2>2 DEF AfterPointer
<1>6. /\ DOMAIN b1 = 0 .. size_ - 1
      /\ PointerWritten(c, b1, n, child)
      /\ l + pb <= r => Kept(b, b1, l, r)
  <2>1. n \in Int /\ SlotOf(c, n) = l /\ SlotOf(c, n) \in Nat /\ r \in Int
        /\ DOMAIN b = 0 .. size_ - 1 /\ size_ \in Nat /\ SlotOf(c, n) + pb <= size_
    BY <1>2, <1>3, <1>4
  <2> HIDE DEF c, n, b, size_, child
  <2>2. /\ DOMAIN b1 = 0 .. size_ - 1
        /\ SlotOf(c, n) + pb <= size_ => PointerWritten(c, b1, n, child)
        /\ \A high \in Int : SlotOf(c, n) + pb <= high => Kept(b, b1, SlotOf(c, n), high)
    BY <2>1, PointerIn
  <2> QED
    BY <2>1, <2>2
<1> HIDE DEF b1
<1>7. ASSUME l + pb <= r PROVE ItemsWritten(c, b1, n - 1, r)
  <2>1. /\ l <= r /\ n - 1 \in 0 .. Len(c.items) /\ n - 1 + 1 = n /\ SlotOf(c, n) <= l
        /\ l \in Int /\ r \in Int /\ r \in Nat /\ r <= r
    <3> HIDE DEF pb
    <3> QED
      BY <1>2, <1>3, <1>7
  <2>2. Kept(b, b1, l, r) /\ ItemsWritten(c, b, n - 1, r) /\ IsNode(c)
    BY <1>2, <1>6, <1>7, <2>1
  <2> HIDE DEF c, b, l, r, n
  <2> QED
    BY <2>1, <2>2, ItemsKept
<1>8. items_count' = items_count /\ pointer_size' = pb
  BY <1>5, PointerSize DEF items_count, pointer_size
<1>9. LeftEnd' = l + pb
  BY <1>5, <1>8 DEF LeftEnd
<1>10. n \in 1 .. items_count + 1
  BY <1>2
<1>11. WritingOK'
  <2> HIDE DEF c, n, l, r, pb, size_, b, child
  <2>1. /\ content' = c /\ stage' = "copy" /\ buffer' = b1 /\ i' = n /\ right' = r /\ left' = l
    BY <1>5 DEF c
  <2>2. PointerWritten(c, b1, n, Last(c.children))
    BY <1>6 DEF child
  <2>3. DOMAIN b1 = 0 .. DEFAULT_PAGE_SIZE - 1
    BY <1>6 DEF size_
  <2>4. l + pb <= r => ItemsWritten(c, b1, n - 1, r)
    BY <1>7
  <2> QED
    BY <1>2, <1>8, <1>9, <1>10, <2>1, <2>2, <2>3, <2>4 DEF WritingOK
<1> QED
  BY <1>2, <1>5, <1>11, WhileWriting
-----------------------------------------------------------------------------
\* Writing the other contents.

LEMMA ToCopy ==
  ASSUME content \in Contents, content' = content, content.kind \in {"meta", "freelist"},
         stage' = "copy", CopyOK'
  PROVE  IInv'
BY DEF IInv, StartOK, WritingOK, PageOK, ReadingOK, ReadBack, OverrunOnlyWhenFull

LEMMA ToRead ==
  ASSUME content \in Contents, content' = content, stage' = "read", PageOK'
  PROVE  IInv'
BY DEF IInv, StartOK, WritingOK, CopyOK, ReadingOK, ReadBack, OverrunOnlyWhenFull

LEMMA WriteMetaStep ==
  ASSUME IInv, WriteMeta
  PROVE  IInv'
<1> DEFINE c == content  b == empty_buffer(2 * POINTER_SIZE)
           p == put(c.root, POINTER_SIZE)  q == put(c.freelist_page, POINTER_SIZE)
           b1 == write(stream(b, 0), p).buffer
           b2 == write(stream(b1, POINTER_SIZE), q).buffer
<1>1. c \in Contents /\ c.kind = "meta"
  BY DEF IInv, WriteMeta
<1>2. Len(p) = 8 /\ Len(q) = 8
  BY PutLength DEF POINTER_SIZE
<1>3. DOMAIN b = 0 .. 16 - 1
  <2>1. DOMAIN b = 0 .. 2 * POINTER_SIZE - 1
    BY EmptyBuffer
  <2> HIDE DEF b
  <2> QED
    BY <2>1 DEF POINTER_SIZE
<1>4. buffer' = b2
  <2> DEFINE s == stream(b, 0)  t == write(s, p)
  <2>1. buffer' = write(t, q).buffer
    BY DEF WriteMeta, write_bytes
  <2>2. t = stream(b1, 0 + Len(p))
    BY WriteType
  <2>3. 0 + Len(p) = POINTER_SIZE
    BY <1>2 DEF POINTER_SIZE
  <2> HIDE DEF t, q, b1
  <2> QED
    BY <2>1, <2>2, <2>3 DEF b1
<1> HIDE DEF p, q, b
<1>5. DOMAIN b1 = 0 .. 16 - 1 /\ DOMAIN b2 = 0 .. 16 - 1
  BY <1>3, WriteType
<1>6. MetaWritten(c, b2)
  <2>1. /\ 0 + Len(p) <= POINTER_SIZE /\ 0 + Len(p) <= 16 /\ POINTER_SIZE + Len(q) <= 16
        /\ 16 \in Nat /\ 0 \in Nat /\ POINTER_SIZE \in Nat /\ 0 \in Int /\ POINTER_SIZE \in Int
        /\ Len(p) \in Nat /\ Len(q) \in Nat
    BY <1>2 DEF POINTER_SIZE
  <2>2. HasAt(b1, 0, p)
    BY <1>3, <2>1, WriteHolds
  <2>3. HasAt(b2, POINTER_SIZE, q)
    BY <1>5, <2>1, WriteHolds
  <2>4. HasAt(b2, 0, p)
    BY <2>1, <2>2, WriteKeeps
  <2> QED
    BY <2>3, <2>4 DEF MetaWritten, p, q
<1> HIDE DEF b2
<1>7. stage' = "copy" /\ content' = content
  BY DEF WriteMeta
<1>8. CopyOK'
  <2>1. ContentWritten(c, b2)
    BY <1>1, <1>6 DEF ContentWritten
  <2> HIDE DEF c
  <2>2. content' = c
    BY <1>7 DEF c
  <2> QED
    BY <1>1, <1>4, <1>5, <2>1, <2>2 DEF CopyOK, POINTER_SIZE
<1> QED
  BY <1>1, <1>7, <1>8, ToCopy

LEMMA LeaveHoleStep ==
  ASSUME IInv, LeaveHole
  PROVE  IInv'
<1>1. content \in Contents /\ content.kind = "hole" /\ content' = content /\ stage' = "read"
  BY DEF IInv, LeaveHole
<1>2. DOMAIN buffer' = 0 .. PageSize - 1 /\ \A at \in DOMAIN buffer' : buffer'[at] = 0
  BY EmptyBuffer DEF LeaveHole
<1>3. ContentWritten(content, buffer')
  BY <1>1, <1>2 DEF ContentWritten
<1>4. PageOK'
  BY <1>1, <1>2, <1>3 DEF PageOK
<1> QED
  BY <1>1, <1>4, ToRead

\* The stream after each of the page numbers.
IsAfter(h, first, pages) ==
  h = [n \in 0 .. Len(pages) |->
         IF n = 0 THEN first ELSE write_bytes(h[n - 1], pages[n], POINTER_SIZE)]

LEMMA AfterExists ==
  ASSUME NEW first, NEW pages, Len(pages) \in Nat
  PROVE  \E h : IsAfter(h, first, pages)
<1> DEFINE More(h, n) == write_bytes(h[n - 1], pages[n], POINTER_SIZE)
           Upto(h, m) == h = [n \in 0 .. m |-> IF n = 0 THEN first ELSE More(h, n)]
           T == {n \in Nat : \E h : Upto(h, n)}
<1>1. 0 \in T
  <2> DEFINE h == [n \in 0 .. 0 |-> first]
  <2>1. Upto(h, 0)
    OBVIOUS
  <2> HIDE DEF Upto, h
  <2> QED
    BY <2>1
<1>2. ASSUME NEW m \in Nat, m \in T PROVE m + 1 \in T
  <2>1. PICK h : Upto(h, m)
    BY <1>2
  <2> DEFINE g == [n \in 0 .. m + 1 |-> IF n = m + 1 THEN More(h, n) ELSE h[n]]
             e == [n \in 0 .. m + 1 |-> IF n = 0 THEN first ELSE More(g, n)]
  <2>2. \A n \in 0 .. m : g[n] = h[n]
    OBVIOUS
  <2>3. \A n \in 0 .. m + 1 : n # 0 => More(g, n) = More(h, n)
    <3>1. \A n \in 0 .. m + 1 : n # 0 => g[n - 1] = h[n - 1]
      BY <2>2
    <3> HIDE DEF g
    <3> QED
      BY <3>1
  <2>4. ASSUME NEW n \in 0 .. m + 1 PROVE g[n] = e[n]
    <3>1. e[n] = IF n = 0 THEN first ELSE More(h, n)
      BY <2>3
    <3>2. CASE n = m + 1
      BY <3>1, <3>2
    <3>3. CASE n # m + 1
      <4>1. n \in 0 .. m /\ g[n] = h[n]
        BY <2>2, <3>3
      <4>2. h[n] = IF n = 0 THEN first ELSE More(h, n)
        BY <2>1, <4>1
      <4> QED
        BY <3>1, <4>1, <4>2
    <3> QED
      BY <3>2, <3>3
  <2>5. g = [n \in 0 .. m + 1 |-> g[n]] /\ e = [n \in 0 .. m + 1 |-> e[n]]
    OBVIOUS
  <2> HIDE DEF g, e
  <2>6. g = e
    BY <2>4, <2>5
  <2>7. Upto(g, m + 1)
    BY <2>6 DEF e
  <2> HIDE DEF Upto
  <2> QED
    BY <2>7
<1> HIDE DEF T
<1>3. Nat \subseteq T
  BY <1>1, <1>2, Induction
<1>4. Len(pages) \in T
  BY <1>3
<1> QED
  BY <1>4 DEF T, IsAfter

LEMMA ReleasedAt ==
  ASSUME NEW n \in Int
  PROVE  /\ released_at(n) = 4 + (8 * (n - 1)) /\ released_at(n) \in Int
         /\ released_at(n + 1) = 4 + (8 * n) /\ released_at(n + 2) = 12 + (8 * n)
BY DEF released_at, OFFSET_SIZE, POINTER_SIZE

\* One more page number is written.
LEMMA WriteReleasedPage ==
  ASSUME NEW c, NEW b, NEW n \in Nat, NEW size_ \in Nat, DOMAIN b = 0 .. size_ - 1,
         released_at(n + 2) <= size_, FreelistWritten(c, b, n)
  PROVE  FreelistWritten(c, write(stream(b, released_at(n + 1)),
                                  put(c.released_pages[n + 1], POINTER_SIZE)).buffer, n + 1)
<1> DEFINE at == released_at(n + 1)  p == put(c.released_pages[n + 1], POINTER_SIZE)
           d == write(stream(b, at), p).buffer
<1>1. at = 4 + (8 * n) /\ released_at(n + 2) = 12 + (8 * n)
  <2>1. n \in Int
    OBVIOUS
  <2> QED
    BY <2>1, ReleasedAt
<1>2. Len(p) = 8
  BY PutLength DEF POINTER_SIZE
<1> HIDE DEF at, p
<1>3. HasAt(d, at, p)
  <2>1. at \in Nat /\ at + Len(p) <= size_ /\ Len(p) \in Nat
    BY <1>1, <1>2
  <2> QED
    BY <2>1, WriteHolds
<1>4. ASSUME NEW from \in Int, NEW s, Len(s) \in Nat, HasAt(b, from, s), from + Len(s) <= at
      PROVE  HasAt(d, from, s)
  <2>1. at \in Int /\ Len(p) \in Nat
    BY <1>1, <1>2
  <2> QED
    BY <1>4, <2>1, WriteKeeps
<1> HIDE DEF d
<1> DEFINE max == put(c.max_page % Width16, OFFSET_SIZE)
           count == put(Len(c.released_pages) % Width16, OFFSET_SIZE)
<1>5. HasAt(d, 0, max) /\ HasAt(d, OFFSET_SIZE, count)
  <2>1. HasAt(b, 0, max) /\ HasAt(b, OFFSET_SIZE, count)
    BY DEF FreelistWritten
  <2>2. Len(max) = 2 /\ Len(count) = 2
    BY PutLength DEF OFFSET_SIZE
  <2> HIDE DEF max, count
  <2>3. /\ 0 + Len(max) <= at /\ OFFSET_SIZE + Len(count) <= at
        /\ 0 \in Int /\ OFFSET_SIZE \in Int /\ Len(max) \in Nat /\ Len(count) \in Nat
    BY <1>1, <2>2 DEF OFFSET_SIZE
  <2> QED
    BY <1>4, <2>1, <2>3
<1>6. ASSUME NEW m \in 1 .. n + 1
      PROVE  HasAt(d, released_at(m), put(c.released_pages[m], POINTER_SIZE))
  <2> DEFINE q == put(c.released_pages[m], POINTER_SIZE)
  <2>1. CASE m = n + 1
    BY <1>3, <2>1 DEF at, p
  <2>2. CASE m # n + 1
    <3>1. m \in 1 .. n /\ m \in Int
      BY <2>2
    <3>2. HasAt(b, released_at(m), q)
      BY <3>1 DEF FreelistWritten
    <3>3. Len(q) = 8
      BY PutLength DEF POINTER_SIZE
    <3> HIDE DEF q
    <3>4. released_at(m) = 4 + (8 * (m - 1)) /\ released_at(m) \in Int
      BY <3>1, ReleasedAt
    <3>5. released_at(m) + Len(q) <= at /\ Len(q) \in Nat
      BY <1>1, <3>1, <3>3, <3>4
    <3>6. HasAt(d, released_at(m), q)
      BY <1>4, <3>2, <3>4, <3>5
    <3> QED
      BY <3>6 DEF q
  <2> QED
    BY <2>1, <2>2
<1>7. FreelistWritten(c, d, n + 1)
  BY <1>5, <1>6 DEF FreelistWritten
<1> QED
  BY <1>7 DEF d, at, p

\* Where the stream is and what its buffer holds after n of the pages.
AfterPages(c, s, n) ==
  /\ s = stream(s.buffer, released_at(n + 1))
  /\ DOMAIN s.buffer = 0 .. released_at(Len(c.released_pages) + 1) - 1
  /\ FreelistWritten(c, s.buffer, n)

LEMMA FreelistTypes ==
  ASSUME NEW c, IsFreelist(c)
  PROVE  /\ c.kind = "freelist" /\ c.max_page \in Nat
         /\ c.released_pages \in Seq(0 .. Width64 - 1) /\ Len(c.released_pages) \in Nat
BY LenProperties DEF IsFreelist

LEMMA FreelistHeader ==
  ASSUME NEW c, IsFreelist(c)
  PROVE  LET pages == c.released_pages
             s == stream(empty_buffer(2 * OFFSET_SIZE + Len(pages) * POINTER_SIZE), 0)
             m == write_bytes(s, c.max_page % Width16, OFFSET_SIZE)
         IN  AfterPages(c, write_bytes(m, Len(pages) % Width16, OFFSET_SIZE), 0)
<1> DEFINE L == Len(c.released_pages)  size_ == 2 * OFFSET_SIZE + L * POINTER_SIZE
           b == empty_buffer(size_)
           max == put(c.max_page % Width16, OFFSET_SIZE)
           count == put(L % Width16, OFFSET_SIZE)
           m == write(stream(b, 0), max)
           b1 == m.buffer
           s == write(stream(b1, OFFSET_SIZE), count)
           b2 == s.buffer
<1>1. L \in Nat
  BY FreelistTypes
<1>2. size_ = released_at(L + 1) /\ size_ \in Nat /\ size_ >= 4
  <2> HIDE DEF L
  <2>1. L \in Int
    BY <1>1
  <2>2. released_at(L + 1) = 4 + (8 * L)
    BY <2>1, ReleasedAt
  <2>3. size_ = 4 + (8 * L)
    BY <1>1 DEF OFFSET_SIZE, POINTER_SIZE
  <2> HIDE DEF size_
  <2> QED
    BY <1>1, <2>2, <2>3
<1>3. DOMAIN b = 0 .. size_ - 1
  BY EmptyBuffer
<1>4. Len(max) = 2 /\ Len(count) = 2
  BY PutLength DEF OFFSET_SIZE
<1> HIDE DEF b, max, count, size_, L
<1>5. m = stream(b1, OFFSET_SIZE) /\ DOMAIN b1 = 0 .. size_ - 1 /\ HasAt(b1, 0, max)
  <2>1. 0 \in Nat /\ 0 + Len(max) <= size_ /\ Len(max) \in Nat /\ 0 + Len(max) = OFFSET_SIZE
    BY <1>2, <1>4 DEF OFFSET_SIZE
  <2>2. m = stream(b1, 0 + Len(max)) /\ DOMAIN b1 = 0 .. size_ - 1
    BY <1>3, WriteType
  <2>3. HasAt(b1, 0, max)
    BY <1>2, <1>3, <2>1, WriteHolds
  <2> HIDE DEF m, b1
  <2> QED
    BY <2>1, <2>2, <2>3
<1>6. write_bytes(write_bytes(stream(b, 0), c.max_page % Width16, OFFSET_SIZE),
                  L % Width16, OFFSET_SIZE) = s
  <2> HIDE DEF b1
  <2>1. write_bytes(stream(b, 0), c.max_page % Width16, OFFSET_SIZE) = stream(b1, OFFSET_SIZE)
    BY <1>5 DEF write_bytes, max
  <2> QED
    BY <2>1 DEF write_bytes, count
<1> HIDE DEF m, b1
<1>7. /\ s = stream(b2, 4) /\ DOMAIN b2 = 0 .. size_ - 1
      /\ HasAt(b2, 0, max) /\ HasAt(b2, OFFSET_SIZE, count)
  <2>1. /\ OFFSET_SIZE \in Nat /\ OFFSET_SIZE + Len(count) <= size_ /\ Len(count) \in Nat
        /\ OFFSET_SIZE + Len(count) = 4 /\ 0 + Len(max) <= OFFSET_SIZE /\ 0 \in Int
        /\ OFFSET_SIZE \in Int /\ Len(max) \in Nat
    BY <1>2, <1>4 DEF OFFSET_SIZE
  <2>2. s = stream(b2, OFFSET_SIZE + Len(count)) /\ DOMAIN b2 = 0 .. size_ - 1
    BY <1>5, WriteType
  <2>3. HasAt(b2, OFFSET_SIZE, count)
    BY <1>2, <1>5, <2>1, WriteHolds
  <2>4. HasAt(b2, 0, max)
    BY <1>5, <2>1, WriteKeeps
  <2> HIDE DEF s, b2
  <2> QED
    BY <2>1, <2>2, <2>3, <2>4
<1>8. released_at(0 + 1) = 4
  BY ReleasedAt
<1>9. FreelistWritten(c, b2, 0)
  BY <1>7 DEF FreelistWritten, max, count, L
<1>10. AfterPages(c, s, 0)
  <2> HIDE DEF s
  <2> QED
    BY <1>2, <1>7, <1>8, <1>9 DEF AfterPages, L
<1> HIDE DEF s
<1> QED
  BY <1>6, <1>10 DEF b, size_, L

LEMMA MorePages ==
  ASSUME NEW c, IsFreelist(c), NEW n \in Nat, n + 1 <= Len(c.released_pages), NEW s,
         AfterPages(c, s, n)
  PROVE  AfterPages(c, write_bytes(s, c.released_pages[n + 1], POINTER_SIZE), n + 1)
<1> DEFINE L == Len(c.released_pages)  size_ == released_at(L + 1)  b == s.buffer
           at == released_at(n + 1)
           p == put(c.released_pages[n + 1], POINTER_SIZE)
           t == write(stream(b, at), p)
<1>1. L \in Nat
  BY FreelistTypes
<1>2. /\ size_ = 4 + (8 * L) /\ at = 4 + (8 * n) /\ released_at(n + 2) = 12 + (8 * n)
  <2>1. n \in Int /\ L \in Int
    BY <1>1
  <2> QED
    BY <2>1, ReleasedAt
<1> HIDE DEF size_
<1>3. s = stream(b, at) /\ DOMAIN b = 0 .. size_ - 1 /\ FreelistWritten(c, b, n)
  BY DEF AfterPages, size_
<1>4. size_ \in Nat /\ released_at(n + 2) <= size_
  BY <1>1, <1>2
<1>5. FreelistWritten(c, t.buffer, n + 1)
  BY <1>3, <1>4, WriteReleasedPage
<1>6. t = stream(t.buffer, released_at(n + 2)) /\ DOMAIN t.buffer = 0 .. size_ - 1
  <2>1. Len(p) = 8
    BY PutLength DEF POINTER_SIZE
  <2> HIDE DEF p, at
  <2>2. t = stream(t.buffer, at + Len(p)) /\ DOMAIN t.buffer = DOMAIN b
    BY WriteType
  <2>3. at + Len(p) = released_at(n + 2)
    BY <1>2, <2>1
  <2> HIDE DEF t
  <2> QED
    BY <1>3, <2>2, <2>3
<1>7. write_bytes(s, c.released_pages[n + 1], POINTER_SIZE) = t
  BY <1>3 DEF write_bytes
<1> HIDE DEF t
<1>8. n + 1 + 1 = n + 2
  OBVIOUS
<1> QED
  BY <1>5, <1>6, <1>7, <1>8 DEF AfterPages, size_

LEMMA WriteFreelistStep ==
  ASSUME IInv, WriteFreelist
  PROVE  IInv'
<1> DEFINE c == content  pages == c.released_pages  L == Len(pages)
           s == stream(empty_buffer(2 * OFFSET_SIZE + Len(pages) * POINTER_SIZE), 0)
           m == write_bytes(s, c.max_page % Width16, OFFSET_SIZE)
           first == write_bytes(m, Len(pages) % Width16, OFFSET_SIZE)
           h == CHOOSE h : IsAfter(h, first, pages)
<1>1. c \in Contents /\ c.kind = "freelist" /\ IsFreelist(c) /\ L \in Nat
  BY ContentTypes, FreelistTypes DEF IInv, WriteFreelist
<1>2. buffer' = h[L].buffer /\ stage' = "copy" /\ content' = content
  BY DEF WriteFreelist, IsAfter
<1>3. IsAfter(h, first, pages)
  BY <1>1, AfterExists
<1>4. AfterPages(c, first, 0)
  BY <1>1, FreelistHeader
<1> HIDE DEF h, first
<1>5. h[0] = first /\ \A n \in 0 .. L : n # 0 => h[n] = write_bytes(h[n - 1], pages[n], POINTER_SIZE)
  BY <1>1, <1>3 DEF IsAfter
<1> DEFINE T == {n \in Nat : n <= L => AfterPages(c, h[n], n)}
<1>6. 0 \in T
  BY <1>4, <1>5
<1>7. ASSUME NEW n \in Nat, n \in T PROVE n + 1 \in T
  <2> SUFFICES ASSUME n + 1 <= L PROVE AfterPages(c, h[n + 1], n + 1)
    OBVIOUS
  <2>1. AfterPages(c, h[n], n)
    BY <1>1, <1>7
  <2>2. n + 1 \in 0 .. L /\ n + 1 # 0 /\ n + 1 - 1 = n
    BY <1>1
  <2>3. h[n + 1] = write_bytes(h[n], pages[n + 1], POINTER_SIZE)
    BY <1>5, <2>2
  <2> QED
    BY <1>1, <2>1, <2>3, MorePages
<1> HIDE DEF T
<1>8. Nat \subseteq T
  BY <1>6, <1>7, Induction
<1>9. AfterPages(c, h[L], L)
  BY <1>1, <1>8 DEF T
<1>10. DOMAIN buffer' = 0 .. released_at(L + 1) - 1 /\ FreelistWritten(c, buffer', L)
  BY <1>2, <1>9 DEF AfterPages
<1>11. ContentWritten(c, buffer')
  BY <1>1, <1>10 DEF ContentWritten
<1>12. CopyOK'
  BY <1>1, <1>2, <1>10, <1>11 DEF CopyOK
<1> QED
  BY <1>1, <1>2, <1>12, ToCopy
-----------------------------------------------------------------------------
\* The copy to the page.

\* The second buffer holds what the first does, and maybe more.
Grows(b, d) == \A at \in DOMAIN b : at \in DOMAIN d /\ d[at] = b[at]

LEMMA HasMore ==
  ASSUME NEW b, NEW d, Grows(b, d)
  PROVE  \A at, s : HasAt(b, at, s) => HasAt(d, at, s)
BY DEF HasAt, Grows

LEMMA NodeGrows ==
  ASSUME NEW c, NEW b, NEW d, Grows(b, d), NodeWritten(c, b)
  PROVE  NodeWritten(c, d)
<1> DEFINE n == Len(c.items)
<1>1. \A at, s : HasAt(b, at, s) => HasAt(d, at, s)
  BY HasMore
<1>2. \A m, child : PointerWritten(c, b, m, child) => PointerWritten(c, d, m, child)
  BY <1>1 DEF PointerWritten
<1>3. \A m : CellsWritten(c, b, m, 0) => CellsWritten(c, d, m, 0)
  BY <1>1 DEF CellsWritten
<1>4. HeaderWritten(c, b) => HeaderWritten(c, d)
  BY <1>1 DEF HeaderWritten
<1> QED
  BY <1>2, <1>3, <1>4 DEF NodeWritten, ItemsWritten

LEMMA ContentGrows ==
  ASSUME NEW c, c.kind \in {"node", "meta", "freelist"}, NEW b, NEW d, Grows(b, d),
         ContentWritten(c, b)
  PROVE  ContentWritten(c, d)
<1>1. \A at, s : HasAt(b, at, s) => HasAt(d, at, s)
  BY HasMore
<1>2. CASE c.kind = "node"
  BY <1>2, NodeGrows DEF ContentWritten
<1>3. CASE c.kind = "meta"
  BY <1>1, <1>3 DEF ContentWritten, MetaWritten
<1>4. CASE c.kind = "freelist"
  BY <1>1, <1>4 DEF ContentWritten, FreelistWritten
<1> QED
  BY <1>2, <1>3, <1>4

\* A node that fits its page is in the buffer when it is copied.
LEMMA NodeInBuffer ==
  ASSUME IInv, stage = "copy", content.kind = "node", Fits
  PROVE  NodeWritten(content, buffer)
<1> DEFINE c == content  L == Len(c.items)  b == buffer
<1>1. IsNode(c) /\ FitsPage(c) /\ L \in Nat
  BY ContentTypes, NodeTypes DEF IInv, Fits
<1>2. items_count = L /\ L \in 0 .. L
  BY <1>1, RoomOfNode DEF items_count
<1>3. /\ i = L + 1 /\ left = SlotOf(c, i) /\ right \in Nat /\ right = RightAfter(c, i - 1)
      /\ LeftEnd <= right => /\ ItemsWritten(c, b, i - 1, right)
                             /\ PointerWritten(c, b, i, Last(c.children))
  BY <1>2 DEF IInv, WritingOK
<1>4. i - 1 = L
  BY <1>1, <1>3
<1>5. LeftEnd <= right
  <2>1. LeftEnd = SlotOf(c, L + 1) + PointerBytes(c)
    BY <1>3, PointerSize DEF LeftEnd
  <2>2. SlotOf(c, L + 1) + PointerBytes(c) <= RightAfter(c, L)
    BY <1>1, <1>2, RoomOfNode
  <2> QED
    BY <1>3, <1>4, <2>1, <2>2
<1>6. ItemsWritten(c, b, L, right) /\ PointerWritten(c, b, L + 1, Last(c.children))
  BY <1>3, <1>4, <1>5
<1>7. ASSUME NEW m \in 1 .. L PROVE CellsWritten(c, b, m, 0)
  <2>1. CellsWritten(c, b, m, right)
    BY <1>6 DEF ItemsWritten
  <2>2. right .. DEFAULT_PAGE_SIZE - 1 \subseteq 0 .. DEFAULT_PAGE_SIZE - 1
    BY <1>3, Sizes
  <2> QED
    BY <2>1, <2>2 DEF CellsWritten
<1>8. ItemsWritten(c, b, L, 0)
  BY <1>6, <1>7 DEF ItemsWritten
<1> QED
  BY <1>6, <1>8 DEF NodeWritten

LEMMA CopyToPageStep ==
  ASSUME IInv, CopyToPage
  PROVE  IInv'
<1> DEFINE c == content  b == buffer
           d == [at \in 0 .. PageSize - 1 |-> IF at \in DOMAIN b THEN b[at] ELSE 0]
<1>1. stage = "copy" /\ CopyInside /\ buffer' = d /\ stage' = "read" /\ content' = content
  BY DEF CopyToPage
<1>2. c \in Contents /\ c.kind \in {"node", "meta", "freelist"}
  BY <1>1 DEF IInv, CopyOK
<1>3. PICK n \in Nat : DOMAIN b = 0 .. n - 1
  <2>1. CASE c.kind = "node"
    BY <1>1, <2>1, Sizes DEF IInv, WritingOK
  <2>2. CASE c.kind = "meta"
    <3>1. DOMAIN b = 0 .. 2 * POINTER_SIZE - 1 /\ 2 * POINTER_SIZE \in Nat
      BY <1>1, <2>2 DEF IInv, CopyOK, POINTER_SIZE
    <3> QED
      BY <3>1
  <2>3. CASE c.kind = "freelist"
    <3>1. DOMAIN b = 0 .. released_at(Len(c.released_pages) + 1) - 1
      BY <1>1, <2>3 DEF IInv, CopyOK
    <3>2. Len(c.released_pages) \in Nat
      BY <1>2, <2>3, ContentTypes, FreelistTypes
    <3>3. released_at(Len(c.released_pages) + 1) = 4 + (8 * Len(c.released_pages))
      BY <3>2, ReleasedAt
    <3>4. released_at(Len(c.released_pages) + 1) \in Nat
      BY <3>2, <3>3
    <3> QED
      BY <3>1, <3>4
  <2> QED
    BY <1>2, <2>1, <2>2, <2>3
<1>4. n <= PageSize
  BY <1>1, <1>3, BufferSize DEF CopyInside
<1>5. Grows(b, d)
  BY <1>3, <1>4, Sizes DEF Grows
<1>6. DOMAIN d = 0 .. PageSize - 1
  OBVIOUS
<1> HIDE DEF d
<1>7. ASSUME Fits PROVE ContentWritten(c, d)
  <2>1. ContentWritten(c, b)
    <3>1. CASE c.kind = "node"
      BY <1>1, <1>7, <3>1, NodeInBuffer DEF ContentWritten
    <3>2. CASE c.kind # "node"
      BY <1>1, <3>2 DEF IInv, CopyOK
    <3> QED
      BY <3>1, <3>2
  <2> QED
    BY <1>2, <1>5, <2>1, ContentGrows
<1>8. Fits' <=> Fits
  BY <1>1 DEF Fits
<1>9. PageOK'
  <2> HIDE DEF c
  <2>1. content' = c
    BY <1>1 DEF c
  <2> QED
    BY <1>1, <1>6, <1>7, <1>8, <2>1 DEF PageOK
<1> QED
  BY <1>1, <1>2, <1>9, ToRead
-----------------------------------------------------------------------------
\* Reading.

\* The item whose slot and cells are in the buffer can be read, and is read.
LEMMA ReadsItem ==
  ASSUME IsNode(content), NEW n \in 1 .. Len(content.items), NEW low \in Nat,
         NEW size_ \in Nat, DOMAIN buffer = 0 .. size_ - 1, CellsWritten(content, buffer, n, low)
  PROVE  /\ ItemReadable(SlotOf(content, n) + PointerBytes(content))
         /\ item_at(SlotOf(content, n) + PointerBytes(content)) = CutItem(content.items[n])
<1> DEFINE c == content  b == buffer  slot == SlotOf(c, n) + PointerBytes(c)
           k == KeyBytes[c.items[n].key]  v == ValueBytes[c.items[n].value]
           kc == KeyCell(c, n)  vc == ValueCell(c, n)
<1>1. PICK at \in low .. DEFAULT_PAGE_SIZE - 1 :
        /\ at + Len(kc) + Len(vc) <= DEFAULT_PAGE_SIZE - 1
        /\ HasAt(b, slot, put(at, OFFSET_SIZE))
        /\ HasAt(b, at, kc)
        /\ HasAt(b, at + Len(kc), vc)
  BY DEF CellsWritten
<1>2. /\ k \in Seq(Bytes) /\ v \in Seq(Bytes) /\ length(k) \in Nat /\ length(v) \in Nat
      /\ Len(kc) = length(k) + 1 /\ Len(vc) = length(v) + 1
      /\ kc = Cell(k) /\ vc = Cell(v)
  BY CellTypes DEF KeyCell, ValueCell
<1>3. slot \in Int /\ Len(put(at, OFFSET_SIZE)) = 2
  <2>1. n \in Int
    BY NodeTypes
  <2>2. SlotOf(c, n) \in Int /\ PointerBytes(c) \in {0, POINTER_SIZE}
    <3>1. \A m \in Int : SlotOf(c, m) \in Int
      BY Slots
    <3> QED
      BY <2>1, <3>1, Slots
  <2>3. slot \in Int
    BY <2>2 DEF POINTER_SIZE
  <2>4. Len(put(at, OFFSET_SIZE)) = 2
    BY PutLength DEF OFFSET_SIZE
  <2> QED
    BY <2>3, <2>4
<1> HIDE DEF slot, kc, vc, k, v
<1>4. offset_at(slot) = at
  <2>1. at \in 0 .. Width16 - 1 /\ OFFSET_SIZE \in Nat
    BY Sizes
  <2>2. get(put(at, OFFSET_SIZE)) = at
    BY <2>1, GetPut16
  <2>3. read_bytes(stream(b, slot), OFFSET_SIZE) = at
    BY <1>1, <1>3, <2>1, <2>2, ReadPut
  <2> QED
    BY <2>3 DEF offset_at
<1>5. at \in Int /\ at + Len(kc) \in Int /\ at + Len(kc) = at + 1 + length(k)
  <2>1. at \in Int
    BY Sizes
  <2>2. Len(kc) = length(k) + 1 /\ length(k) \in Nat
    BY <1>2
  <2> QED
    BY <2>1, <2>2
<1>6. at \in DOMAIN b /\ b[at] = length(k) /\ read(stream(b, at + 1), b[at]) = Cut(k)
  BY <1>1, <1>2, <1>5, ReadCell
<1> DEFINE va == at + Len(kc)
<1>7. va \in DOMAIN b /\ b[va] = length(v) /\ read(stream(b, va + 1), b[va]) = Cut(v)
  BY <1>1, <1>2, <1>5, ReadCell
<1>8. value_at(slot) = va
  BY <1>4, <1>5, <1>6 DEF value_at
<1> HIDE DEF va
<1>9. item_at(slot) = [key |-> Cut(k), value |-> Cut(v)]
  BY <1>4, <1>6, <1>7, <1>8 DEF item_at, string_at
<1>10. slot >= 0 /\ slot + 2 <= size_
  <2>1. \A m \in 1 .. 2 : slot + m - 1 \in 0 .. size_ - 1
    BY <1>1, <1>3 DEF HasAt
  <2>2. slot + 1 - 1 \in 0 .. size_ - 1 /\ slot + 2 - 1 \in 0 .. size_ - 1
    BY <2>1
  <2> QED
    BY <1>3, <2>2
<1>11. va + 1 \in Int /\ va + 1 >= 0 /\ va + 1 + length(v) <= size_
  <2>1. \A m \in 1 .. length(v) + 1 : va + m - 1 \in 0 .. size_ - 1
    BY <1>1, <1>2 DEF HasAt, va
  <2>2. va + (length(v) + 1) - 1 \in 0 .. size_ - 1
    BY <1>2, <2>1
  <2>3. va \in Int
    BY <1>5 DEF va
  <2>4. va \in 0 .. size_ - 1
    BY <1>7
  <2> QED
    <3> DEFINE lv == length(v)
    <3>1. lv \in Nat /\ va + (lv + 1) - 1 \in 0 .. size_ - 1
      BY <1>2, <2>2
    <3> HIDE DEF lv
    <3>2. va + 1 \in Int /\ va + 1 >= 0 /\ va + 1 + lv <= size_
      BY <2>3, <2>4, <3>1
    <3> QED
      BY <3>2 DEF lv
<1>12. ItemReadable(slot)
  <2>0. \A pos, w \in Int : InBounds(stream(b, pos), w) <=> pos >= 0 /\ pos + w <= size_
    BY <1>1, BufferSize
  <2>1. InBounds(stream(b, slot), OFFSET_SIZE)
    <3>1. OFFSET_SIZE = 2 /\ OFFSET_SIZE \in Int
      BY DEF OFFSET_SIZE
    <3> QED
      BY <1>3, <1>10, <2>0, <3>1
  <2>2. InBounds(stream(b, va + 1), b[va])
    <3>1. b[va] = length(v) /\ length(v) \in Int
      BY <1>2, <1>7
    <3> QED
      BY <1>11, <2>0, <3>1
  <2> QED
    BY <1>4, <1>6, <1>7, <1>8, <2>1, <2>2 DEF ItemReadable
<1> QED
  BY <1>9, <1>12 DEF CutItem, slot, k, v

LEMMA PutSmall ==
  ASSUME NEW v \in {0, 1}, NEW n \in Nat
  PROVE  Len(put(v, n)) = n /\ \A k \in 1 .. n : put(v, n)[k] = IF k = 1 THEN v ELSE 0
<1>1. PICK h : IsRest(h, v, n) /\ AreDigits(h, v, n)
  BY PutDigits
<1>2. \A k \in 0 .. n - 1 : h[k] = IF k = 0 THEN v ELSE h[k - 1] \div Byte
  BY <1>1 DEF IsRest
<1>3. 0 \div Byte = 0 /\ 0 % Byte = 0 /\ 1 \div Byte = 0 /\ 1 % Byte = 1
  BY ByteAssumption
<1> DEFINE T == {k \in Nat : k < n => h[k] = IF k = 0 THEN v ELSE 0}
<1>4. 0 \in T
  BY <1>2
<1>5. ASSUME NEW k \in Nat, k \in T PROVE k + 1 \in T
  <2> SUFFICES ASSUME k + 1 < n PROVE h[k + 1] = 0
    OBVIOUS
  <2>1. h[k] \in {0, 1}
    BY <1>5
  <2>2. k + 1 \in 0 .. n - 1 /\ k + 1 # 0 /\ k + 1 - 1 = k
    OBVIOUS
  <2>3. h[k + 1] = h[k] \div Byte
    BY <1>2, <2>2
  <2> QED
    BY <1>3, <2>1, <2>3
<1> HIDE DEF T
<1>6. Nat \subseteq T
  BY <1>4, <1>5, Induction
<1>7. ASSUME NEW k \in 1 .. n PROVE put(v, n)[k] = IF k = 1 THEN v ELSE 0
  <2>1. k - 1 \in T /\ k - 1 < n
    BY <1>6
  <2>2. h[k - 1] = IF k = 1 THEN v ELSE 0
    BY <2>1 DEF T
  <2>3. put(v, n)[k] = h[k - 1] % Byte
    BY <1>1 DEF AreDigits
  <2> QED
    BY <1>3, <2>2, <2>3
<1> QED
  BY <1>7, PutLength

\* What a reader finds in the page of a node that fits it.
LEMMA NodePage ==
  ASSUME IInv, stage \in {"read", "read_item"}, Fits, content.kind = "node"
  PROVE  /\ IsNode(content) /\ FitsPage(content) /\ Len(content.items) \in Nat
         /\ DOMAIN buffer = 0 .. PageSize - 1 /\ NodeWritten(content, buffer)
         /\ read_leaf <=> is_leaf(content)
         /\ read_count = Len(content.items)
<1> DEFINE c == content  b == buffer  L == Len(c.items)
<1>1. /\ IsNode(c) /\ FitsPage(c) /\ L \in Nat
      /\ DOMAIN b = 0 .. PageSize - 1 /\ NodeWritten(c, b)
  BY ContentTypes, NodeTypes DEF IInv, Fits, PageOK, ContentWritten
<1>2. /\ HasAt(b, 0, put(IF is_leaf(c) THEN 1 ELSE 0, 1))
      /\ HasAt(b, 1, put(L % Width16, OFFSET_SIZE))
  BY <1>1 DEF NodeWritten, ItemsWritten, HeaderWritten
<1>3. read_leaf <=> is_leaf(c)
  <2> DEFINE leaf == IF is_leaf(c) THEN 1 ELSE 0
  <2>1. leaf \in {0, 1} /\ 1 \in Nat
    OBVIOUS
  <2> HIDE DEF leaf
  <2>6. Len(put(leaf, 1)) = 1 /\ \A k \in 1 .. 1 : put(leaf, 1)[k] = IF k = 1 THEN leaf ELSE 0
    BY <2>1, PutSmall
  <2>7. 1 \in 1 .. 1
    OBVIOUS
  <2>2. Len(put(leaf, 1)) = 1 /\ put(leaf, 1)[1] = leaf
    BY <2>6, <2>7
  <2>3. HasAt(b, 0, put(leaf, 1))
    BY <1>2 DEF leaf
  <2>4. b[0 + 1 - 1] = put(leaf, 1)[1]
    BY <2>2, <2>3, <2>7 DEF HasAt
  <2>8. 0 + 1 - 1 = 0
    OBVIOUS
  <2>5. b[0] = leaf
    BY <2>2, <2>4, <2>8
  <2> QED
    BY <2>5 DEF leaf, read_leaf
<1>4. L % Width16 = L /\ L \in 0 .. Width16 - 1
  <2>1. L % Width16 = L
    BY <1>1, RoomOfNode
  <2>2. Width16 \in Nat /\ Width16 > 1
    BY Width16Assumption
  <2> HIDE DEF L
  <2>3. L % Width16 \in 0 .. Width16 - 1
    BY <1>1, <2>2, Remainder
  <2> QED
    BY <2>1, <2>3
<1>5. read_count = L
  <2> HIDE DEF L
  <2>1. get(put(L, OFFSET_SIZE)) = L
    BY <1>4, GetPut16
  <2>4. HasAt(b, 1, put(L % Width16, OFFSET_SIZE))
    BY <1>2 DEF L
  <2>2. HasAt(b, 1, put(L, OFFSET_SIZE)) /\ OFFSET_SIZE \in Nat /\ 1 \in Int
    BY <1>4, <2>4 DEF OFFSET_SIZE
  <2>3. read_bytes(stream(b, 1), OFFSET_SIZE) = L
    BY <2>1, <2>2, ReadPut
  <2> QED
    BY <2>3 DEF read_count
<1> QED
  BY <1>1, <1>3, <1>5

\* Sequences that are read one element at a time.
LEMMA EmptyPrefix ==
  ASSUME NEW f
  PROVE  [n \in 1 .. 1 - 1 |-> f[n]] = <<>>
<1> DEFINE s == [n \in 1 .. 0 |-> f[n]]
<1>1. s \in [1 .. 0 -> {}] /\ 0 \in Nat
  OBVIOUS
<1>2. s \in Seq({}) /\ Len(s) = 0
  <2> HIDE DEF s
  <2> QED
    BY <1>1, FunctionIsSeq
<1>3. s = <<>>
  <2> HIDE DEF s
  <2> QED
    BY <1>2, EmptySeq
<1>4. 1 - 1 = 0
  OBVIOUS
<1> QED
  BY <1>3, <1>4

LEMMA AppendPrefix ==
  ASSUME NEW f, NEW m \in Nat
  PROVE  Append([n \in 1 .. m |-> f[n]], f[m + 1]) = [n \in 1 .. m + 1 |-> f[n]]
<1> DEFINE S == {f[n] : n \in 1 .. m + 1}
           s == [n \in 1 .. m |-> f[n]]  e == f[m + 1]
           t == [n \in 1 .. m + 1 |-> f[n]]
<1>1. s \in [1 .. m -> S] /\ e \in S
  OBVIOUS
<1>2. \A n \in 1 .. m : s[n] = f[n]
  OBVIOUS
<1>3. DOMAIN t = 1 .. m + 1 /\ \A n \in 1 .. m + 1 : t[n] = f[n]
  OBVIOUS
<1>4. e = f[m + 1]
  OBVIOUS
<1> HIDE DEF S, s, e
<1>5. s \in Seq(S) /\ Len(s) = m
  BY <1>1, FunctionIsSeq
<1> DEFINE a == Append(s, e)
<1>6. /\ a \in Seq(S) /\ Len(a) = m + 1
      /\ \A n \in 1 .. m : a[n] = s[n]
      /\ a[m + 1] = e
  BY <1>1, <1>5, AppendProperties
<1>7. a \in [1 .. m + 1 -> S]
  BY <1>6, LenProperties
<1> HIDE DEF a
<1>8. ASSUME NEW n \in 1 .. m + 1 PROVE a[n] = f[n]
  <2>1. CASE n = m + 1
    BY <1>4, <1>6, <2>1
  <2>2. CASE n # m + 1
    BY <1>2, <1>6, <2>2
  <2> QED
    BY <2>1, <2>2
<1>9. a = [n \in 1 .. m + 1 |-> a[n]]
  BY <1>7
<1>10. a = t
  BY <1>8, <1>9
<1> QED
  BY <1>10 DEF a, s, e

LEMMA NothingRead ==
  ASSUME NEW c
  PROVE  ItemsRead(c, 1 - 1) = <<>> /\ ChildrenRead(c, 1 - 1) = <<>>
<1> DEFINE f == [m \in 1 .. 1 - 1 |-> CutItem(c.items[m])]
<1>1. [m \in 1 .. 1 - 1 |-> f[m]] = <<>>
  <2> HIDE DEF f
  <2> QED
    BY EmptyPrefix
<1>2. f = [m \in 1 .. 1 - 1 |-> f[m]]
  OBVIOUS
<1>3. ItemsRead(c, 1 - 1) = <<>>
  BY <1>1, <1>2 DEF ItemsRead
<1>4. ChildrenRead(c, 1 - 1) = <<>>
  BY EmptyPrefix DEF ChildrenRead
<1> QED
  BY <1>3, <1>4

LEMMA OneMoreRead ==
  ASSUME NEW c, NEW n \in Nat
  PROVE  /\ Append(ItemsRead(c, n), CutItem(c.items[n + 1])) = ItemsRead(c, n + 1)
         /\ (IF is_leaf(c) THEN ChildrenRead(c, n) ELSE Append(ChildrenRead(c, n), c.children[n + 1]))
              = ChildrenRead(c, n + 1)
<1> DEFINE f == [m \in 1 .. n + 1 |-> CutItem(c.items[m])]
<1>1. Append([m \in 1 .. n |-> f[m]], f[n + 1]) = [m \in 1 .. n + 1 |-> f[m]]
  <2> HIDE DEF f
  <2> QED
    BY AppendPrefix
<1>2. [m \in 1 .. n |-> f[m]] = ItemsRead(c, n)
  BY DEF ItemsRead
<1>3. [m \in 1 .. n + 1 |-> f[m]] = ItemsRead(c, n + 1)
  BY DEF ItemsRead
<1>4. f[n + 1] = CutItem(c.items[n + 1])
  OBVIOUS
<1> HIDE DEF f
<1>5. Append(ItemsRead(c, n), CutItem(c.items[n + 1])) = ItemsRead(c, n + 1)
  BY <1>1, <1>2, <1>3, <1>4
<1>6. (IF is_leaf(c) THEN ChildrenRead(c, n) ELSE Append(ChildrenRead(c, n), c.children[n + 1]))
        = ChildrenRead(c, n + 1)
  BY AppendPrefix DEF ChildrenRead
<1> QED
  BY <1>5, <1>6

LEMMA FitsKept ==
  ASSUME content' = content
  PROVE  Fits' <=> Fits
BY DEF Fits

\* While a page is read its bytes stay.
LEMMA WhileReading ==
  ASSUME IInv, stage \in {"read", "read_item"}, stage' = "read_item", content' = content,
         buffer' = buffer, ReadingOK'
  PROVE  IInv'
<1>1. PageOK'
  BY FitsKept DEF IInv, PageOK
<1> QED
  BY <1>1 DEF IInv, StartOK, WritingOK, CopyOK, ReadBack, OverrunOnlyWhenFull

LEMMA ReadHeaderStep ==
  ASSUME IInv, ReadHeader
  PROVE  IInv'
<1>1. /\ stage = "read" /\ content.kind # "freelist" /\ content' = content /\ buffer' = buffer
      /\ stage' = "read_item" /\ left' = HEADER_SIZE /\ i' = 1
      /\ back' = [kind |-> "node", items |-> <<>>, children |-> <<>>]
  BY DEF ReadHeader
<1>2. content.kind = "node" =>
        /\ 1 \in 1 .. Len(content.items) + 1
        /\ back' = [kind |-> "node", items |-> ItemsRead(content, 1 - 1),
                    children |-> ChildrenRead(content, 1 - 1)]
        /\ left' = SlotOf(content, 1)
  <2> SUFFICES ASSUME content.kind = "node"
               PROVE  /\ 1 \in 1 .. Len(content.items) + 1
                      /\ back' = [kind |-> "node", items |-> ItemsRead(content, 1 - 1),
                                  children |-> ChildrenRead(content, 1 - 1)]
                      /\ left' = SlotOf(content, 1)
    OBVIOUS
  <2>1. Len(content.items) \in Nat
    BY ContentTypes, NodeTypes DEF IInv
  <2>2. /\ ItemsRead(content, 1 - 1) = <<>> /\ ChildrenRead(content, 1 - 1) = <<>>
        /\ SlotOf(content, 1) = HEADER_SIZE
    BY NothingRead, Slots
  <2>3. 1 \in 1 .. Len(content.items) + 1
    BY <2>1
  <2> QED
    BY <1>1, <2>2, <2>3
<1>3. ReadingOK'
  <2> DEFINE c == content
  <2>1. content' = c
    BY <1>1
  <2> HIDE DEF c
  <2> QED
    BY <1>1, <1>2, <2>1 DEF ReadingOK, c
<1> QED
  BY <1>1, <1>3, WhileReading

\* Where the reader of a node that fits its page is.
LEMMA InNode ==
  ASSUME IInv, stage = "read_item", Fits, content.kind = "node"
  PROVE  /\ i \in 1 .. Len(content.items) + 1 /\ i \in Nat /\ left = SlotOf(content, i)
         /\ back = [kind |-> "node", items |-> ItemsRead(content, i - 1),
                    children |-> ChildrenRead(content, i - 1)]
<1>1. Len(content.items) \in Nat
  BY NodePage
<1> QED
  BY <1>1 DEF IInv, ReadingOK

\* A pointer in the page is read.
LEMMA ReadsPointer ==
  ASSUME NEW child \in 0 .. Width64 - 1, NEW n \in Int, left = SlotOf(content, n),
         ~is_leaf(content), PointerWritten(content, buffer, n, child)
  PROVE  Child = child
<1>1. SlotOf(content, n) \in Int
  <2>1. \A m \in Int : SlotOf(content, m) \in Int
    BY Slots
  <2> QED
    BY <2>1
<1>2. HasAt(buffer, left, put(child, POINTER_SIZE)) /\ POINTER_SIZE \in Nat
  BY DEF PointerWritten, POINTER_SIZE
<1>3. get(put(child, POINTER_SIZE)) = child
  BY GetPut64
<1>4. read_bytes(stream(buffer, left), POINTER_SIZE) = child
  BY <1>1, <1>2, <1>3, ReadPut
<1> QED
  BY <1>4 DEF Child

\* Each item of a node that fits its page can be read, with its pointer.
LEMMA ReadsItemOfNode ==
  ASSUME IInv, stage = "read_item", Fits, content.kind = "node", i <= read_count
  PROVE  /\ i \in 1 .. Len(content.items)
         /\ SlotAt = SlotOf(content, i) + PointerBytes(content)
         /\ ItemReadable(SlotAt) /\ item_at(SlotAt) = CutItem(content.items[i])
         /\ ~is_leaf(content) => Child = content.children[i]
<1> DEFINE c == content  n == i
<1>1. /\ IsNode(c) /\ Len(c.items) \in Nat
      /\ DOMAIN buffer = 0 .. PageSize - 1 /\ NodeWritten(c, buffer)
      /\ read_leaf <=> is_leaf(c)
      /\ read_count = Len(c.items)
  BY NodePage
<1>2. n \in 1 .. Len(c.items) /\ n \in Int /\ left = SlotOf(c, n)
  BY <1>1, InNode
<1>3. PointerWritten(c, buffer, n, c.children[n]) /\ CellsWritten(c, buffer, n, 0)
  BY <1>1, <1>2 DEF NodeWritten, ItemsWritten
<1>4. SlotAt = SlotOf(c, n) + PointerBytes(c)
  BY <1>1, <1>2 DEF SlotAt, PointerBytes
<1>5. ItemReadable(SlotAt) /\ item_at(SlotAt) = CutItem(c.items[n])
  <2>1. PageSize \in Nat /\ 0 \in Nat
    BY Sizes
  <2> QED
    BY <1>1, <1>2, <1>3, <1>4, <2>1, ReadsItem
<1>6. ~is_leaf(c) => Child = c.children[n]
  <2>1. ~is_leaf(c) => c.children[n] \in 0 .. Width64 - 1
    BY <1>1, <1>2, NodeTypes
  <2> QED
    BY <1>2, <1>3, <2>1, ReadsPointer
<1> QED
  BY <1>2, <1>4, <1>5, <1>6

\* The first bytes of a page that is no node: a meta page has a one in it, the
\* lowest byte of its freelist_page.
LEMMA OtherPage ==
  ASSUME IInv, stage \in {"read", "read_item"}, content.kind \in {"meta", "hole"}
  PROVE  /\ Fits /\ DOMAIN buffer = 0 .. PageSize - 1 /\ 16 <= PageSize /\ PageSize \in Nat
         /\ content.kind = "meta" => MetaWritten(content, buffer)
         /\ \A at \in 0 .. 15 :
              buffer[at] = IF at = 8 /\ content.kind = "meta" THEN 1 ELSE 0
<1> DEFINE c == content  b == buffer
<1>1. Fits
  BY DEF Fits
<1>2. 16 <= PageSize /\ PageSize \in Nat
  BY Sizes
<1>3. DOMAIN b = 0 .. PageSize - 1 /\ ContentWritten(c, b)
  BY <1>1 DEF IInv, PageOK
<1>4. CASE c.kind = "hole"
  <2>1. \A at \in DOMAIN b : b[at] = 0
    BY <1>3, <1>4 DEF ContentWritten
  <2> QED
    BY <1>1, <1>2, <1>3, <1>4, <2>1
<1>5. CASE c.kind = "meta"
  <2>1. MetaWritten(c, b)
    BY <1>3, <1>5 DEF ContentWritten
  <2>2. c.root = 0 /\ c.freelist_page = 1
    <3>1. c = [kind |-> "meta", root |-> 0, freelist_page |-> 1]
      BY <1>5, ContentTypes DEF IInv
    <3> QED
      BY <3>1
  <2> DEFINE p == put(0, 8)  q == put(1, 8)
  <2>3. HasAt(b, 0, p) /\ HasAt(b, 8, q)
    BY <2>1, <2>2 DEF MetaWritten, POINTER_SIZE
  <2>4. /\ Len(p) = 8 /\ \A k \in 1 .. 8 : p[k] = 0
        /\ Len(q) = 8 /\ \A k \in 1 .. 8 : q[k] = IF k = 1 THEN 1 ELSE 0
    <3>1. 0 \in {0, 1} /\ 1 \in {0, 1} /\ 8 \in Nat
      OBVIOUS
    <3>2. Len(p) = 8 /\ \A k \in 1 .. 8 : p[k] = IF k = 1 THEN 0 ELSE 0
      BY <3>1, PutSmall
    <3>3. Len(q) = 8 /\ \A k \in 1 .. 8 : q[k] = IF k = 1 THEN 1 ELSE 0
      BY <3>1, PutSmall
    <3> HIDE DEF p, q
    <3> QED
      BY <3>2, <3>3
  <2> HIDE DEF p, q
  <2>5. /\ \A k \in 1 .. 8 : b[0 + k - 1] = p[k]
        /\ \A k \in 1 .. 8 : b[8 + k - 1] = q[k]
    BY <2>3, <2>4 DEF HasAt
  <2>6. ASSUME NEW at \in 0 .. 15 PROVE b[at] = IF at = 8 THEN 1 ELSE 0
    <3>1. CASE at <= 7
      <4>1. at + 1 \in 1 .. 8 /\ 0 + (at + 1) - 1 = at
        BY <3>1
      <4>2. b[0 + (at + 1) - 1] = 0
        BY <2>4, <2>5, <4>1
      <4> QED
        BY <3>1, <4>1, <4>2
    <3>2. CASE ~(at <= 7)
      <4>1. at - 7 \in 1 .. 8 /\ 8 + (at - 7) - 1 = at
        BY <3>2
      <4>2. b[8 + (at - 7) - 1] = IF at - 7 = 1 THEN 1 ELSE 0
        BY <2>4, <2>5, <4>1
      <4> QED
        BY <3>2, <4>1, <4>2
    <3> QED
      BY <3>1, <3>2
  <2> QED
    BY <1>1, <1>2, <1>3, <1>5, <2>1, <2>6
<1> QED
  BY <1>4, <1>5

\* Zero bytes are read as zero.
LEMMA ReadsZero ==
  ASSUME NEW b, NEW at \in Nat, NEW n \in {OFFSET_SIZE, POINTER_SIZE},
         \A k \in 1 .. n : at + k - 1 \in DOMAIN b /\ b[at + k - 1] = 0
  PROVE  read_bytes(stream(b, at), n) = 0
<1>1. n \in Nat /\ 0 \in {0, 1} /\ at \in Int
  BY DEF OFFSET_SIZE, POINTER_SIZE
<1>2. Len(put(0, n)) = n /\ \A k \in 1 .. n : put(0, n)[k] = IF k = 1 THEN 0 ELSE 0
  BY <1>1, PutSmall
<1>3. HasAt(b, at, put(0, n))
  BY <1>2 DEF HasAt
<1>4. 0 \in 0 .. Width16 - 1 /\ 0 \in 0 .. Width64 - 1
  <2>1. Width16 \in Nat /\ Width16 > 1
    BY Width16Assumption
  <2>2. Width64 \in Nat /\ Width64 > 0
    <3> DEFINE w == Byte * Byte * Byte * Byte
    <3>1. w \in Nat /\ w > 0
      BY ByteAssumption
    <3>2. Width64 = w * w
      BY DEF Width64
    <3> HIDE DEF w
    <3> QED
      BY <3>1, <3>2
  <2> QED
    BY <2>1, <2>2
<1>5. get(put(0, n)) = 0
  BY <1>4, GetPut16, GetPut64
<1> QED
  BY <1>1, <1>3, <1>5, ReadPut

\* The sixth of eight bytes.
LEMMA SixthByte ==
  ASSUME NEW v \in {0, 1}, NEW s, Len(s) = 8, \A k \in 1 .. 8 : s[k] = IF k = 6 THEN v ELSE 0
  PROVE  get(s) = IF v = 0 THEN 0 ELSE Byte * Byte * Byte * Byte * Byte
<1>1. PICK g : IsBuiltUp(g, s) /\ get(s) = g[1]
  BY GetBuildsUp
<1>2. g[9] = 0 /\ \A n \in 1 .. 8 : g[n] = (Byte * g[n + 1]) + s[n]
  BY <1>1 DEF IsBuiltUp
<1>3. /\ g[8] = (Byte * g[9]) + s[8] /\ g[7] = (Byte * g[8]) + s[7]
      /\ g[6] = (Byte * g[7]) + s[6] /\ g[5] = (Byte * g[6]) + s[5]
  BY <1>2
<1>4. /\ g[4] = (Byte * g[5]) + s[4] /\ g[3] = (Byte * g[4]) + s[3]
      /\ g[2] = (Byte * g[3]) + s[2] /\ g[1] = (Byte * g[2]) + s[1]
  BY <1>2
<1>5. /\ s[8] = 0 /\ s[7] = 0 /\ s[6] = v /\ s[5] = 0 /\ s[4] = 0 /\ s[3] = 0 /\ s[2] = 0 /\ s[1] = 0
  OBVIOUS
<1>6. g[8] = 0 /\ g[7] = 0 /\ g[6] = v
  BY <1>2, <1>3, <1>5, ByteAssumption
<1>7. CASE v = 0
  <2>1. g[5] = 0 /\ g[4] = 0
    BY <1>3, <1>4, <1>5, <1>6, <1>7, ByteAssumption
  <2>2. g[3] = 0 /\ g[2] = 0 /\ g[1] = 0
    BY <1>4, <1>5, <2>1, ByteAssumption
  <2> QED
    BY <1>1, <1>7, <2>2
<1>8. CASE v = 1
  <2> DEFINE p2 == Byte * Byte  p3 == p2 * Byte  p4 == p3 * Byte  p5 == p4 * Byte
  <2>1. p2 \in Nat /\ p3 \in Nat /\ p4 \in Nat /\ p5 \in Nat /\ Byte \in Nat
    BY ByteAssumption
  <2>2. g[5] = Byte
    BY <1>3, <1>5, <1>6, <1>8, <2>1
  <2>3. g[4] = p2
    BY <1>4, <1>5, <2>1, <2>2
  <2> HIDE DEF p2
  <2>4. g[3] = p3
    BY <1>4, <1>5, <2>1, <2>3
  <2> HIDE DEF p3
  <2>5. g[2] = p4
    BY <1>4, <1>5, <2>1, <2>4
  <2> HIDE DEF p4
  <2>6. g[1] = p5
    BY <1>4, <1>5, <2>1, <2>5
  <2>7. p5 = Byte * Byte * Byte * Byte * Byte
    BY DEF p2, p3, p4
  <2> HIDE DEF p5
  <2> QED
    BY <1>1, <1>8, <2>6, <2>7
<1> QED
  BY <1>7, <1>8

\* What a reader that takes it for a node finds there.
LEMMA OtherAsNode ==
  ASSUME IInv, stage \in {"read", "read_item"}, content.kind \in {"meta", "hole"}
  PROVE  /\ ~read_leaf /\ read_count = 0
         /\ left = HEADER_SIZE =>
              /\ ChildReadable
              /\ Child = IF content.kind = "meta" THEN Byte * Byte * Byte * Byte * Byte ELSE 0
<1> DEFINE b == buffer  v == IF content.kind = "meta" THEN 1 ELSE 0
<1>1. /\ DOMAIN b = 0 .. PageSize - 1 /\ 16 <= PageSize /\ PageSize \in Nat
      /\ \A at \in 0 .. 15 : b[at] = IF at = 8 THEN v ELSE 0
  BY OtherPage
<1>2. ~read_leaf
  <2>1. b[0] = 0
    BY <1>1
  <2> QED
    BY <2>1 DEF read_leaf
<1>3. read_count = 0
  <2>1. \A k \in 1 .. 2 : 1 + k - 1 \in DOMAIN b /\ b[1 + k - 1] = 0
    BY <1>1
  <2>2. OFFSET_SIZE = 2 /\ 1 \in Nat
    BY DEF OFFSET_SIZE
  <2> QED
    BY <2>1, <2>2, ReadsZero DEF read_count
<1>4. ASSUME left = HEADER_SIZE
      PROVE  /\ ChildReadable
             /\ Child = IF v = 0 THEN 0 ELSE Byte * Byte * Byte * Byte * Byte
  <2>1. left = 3 /\ POINTER_SIZE = 8
    BY <1>4 DEF HEADER_SIZE, POINTER_SIZE
  <2>2. ChildReadable
    <3>1. left \in Int /\ POINTER_SIZE \in Int /\ left >= 0 /\ left + POINTER_SIZE <= PageSize
      BY <1>1, <2>1
    <3> QED
      BY <1>1, <3>1, BufferSize DEF ChildReadable
  <2> DEFINE s == read(stream(b, left), 8)  S == {b[3 + k - 1] : k \in 1 .. 8}
  <2>3. s = [k \in 1 .. 8 |-> b[3 + k - 1]]
    BY <2>1 DEF read, stream
  <2>4. s \in [1 .. 8 -> S] /\ 8 \in Nat
    BY <2>3
  <2>5. \A k \in 1 .. 8 : s[k] = IF k = 6 THEN v ELSE 0
    BY <1>1, <2>3
  <2>6. v \in {0, 1}
    OBVIOUS
  <2> HIDE DEF s, S, v
  <2>7. Len(s) = 8
    BY <2>4, FunctionIsSeq
  <2>8. get(s) = IF v = 0 THEN 0 ELSE Byte * Byte * Byte * Byte * Byte
    BY <2>5, <2>6, <2>7, SixthByte
  <2>9. Child = get(s)
    BY <2>1 DEF Child, read_bytes, s
  <2> QED
    BY <2>2, <2>8, <2>9
<1> QED
  BY <1>2, <1>3, <1>4

LEMMA ReadItemStep ==
  ASSUME IInv, ReadItem
  PROVE  IInv'
<1>1. /\ stage = "read_item" /\ i <= read_count
      /\ content' = content /\ buffer' = buffer /\ stage' = "read_item"
      /\ left' = SlotAt + OFFSET_SIZE /\ i' = i + 1
      /\ back' = [back EXCEPT !.items = Append(@, item_at(SlotAt)),
                              !.children = IF read_leaf THEN @ ELSE Append(@, Child)]
  BY DEF ReadItem
<1>2. content.kind # "freelist"
  BY <1>1 DEF IInv, ReadingOK
<1>3. ASSUME Fits, content.kind = "node"
      PROVE  /\ i + 1 \in 1 .. Len(content.items) + 1
             /\ left' = SlotOf(content, i + 1)
             /\ back' = [kind |-> "node", items |-> ItemsRead(content, i),
                         children |-> ChildrenRead(content, i)]
  <2> DEFINE c == content  n == i
             old == ItemsRead(c, n - 1)  pointers == ChildrenRead(c, n - 1)
  <2>1. /\ n \in 1 .. Len(c.items) /\ SlotAt = SlotOf(c, n) + PointerBytes(c)
        /\ item_at(SlotAt) = CutItem(c.items[n])
        /\ ~is_leaf(c) => Child = c.children[n]
    BY <1>1, <1>3, ReadsItemOfNode
  <2>2. (read_leaf <=> is_leaf(c)) /\ Len(c.items) \in Nat
    BY <1>1, <1>3, NodePage
  <2>3. n \in Int /\ n + 1 \in 1 .. Len(c.items) + 1 /\ n - 1 \in Nat /\ n - 1 + 1 = n
    BY <2>1, <2>2
  <2>4. left' = SlotOf(c, n + 1)
    <3>1. \A m \in Int : SlotOf(c, m + 1) = SlotOf(c, m) + PointerBytes(c) + OFFSET_SIZE
      BY Slots
    <3> QED
      BY <1>1, <2>1, <2>3, <3>1
  <2>5. back = [kind |-> "node", items |-> old, children |-> pointers]
    BY <1>1, <1>3, InNode
  <2>6. /\ Append(old, CutItem(c.items[n])) = ItemsRead(c, n)
        /\ (IF is_leaf(c) THEN pointers ELSE Append(pointers, c.children[n])) = ChildrenRead(c, n)
    BY <2>3, OneMoreRead
  <2> HIDE DEF old, pointers
  <2>7. back' = [kind |-> "node", items |-> Append(old, item_at(SlotAt)),
                 children |-> IF read_leaf THEN pointers ELSE Append(pointers, Child)]
    BY <1>1, <2>5
  <2>8. (IF read_leaf THEN pointers ELSE Append(pointers, Child)) = ChildrenRead(c, n)
    BY <2>1, <2>2, <2>6
  <2> QED
    BY <2>1, <2>3, <2>4, <2>6, <2>7, <2>8
<1>4. ASSUME Fits PROVE content.kind = "node"
  <2> SUFFICES ASSUME content.kind # "node" PROVE FALSE
    OBVIOUS
  <2>1. i = 1 /\ content.kind \in {"meta", "hole"}
    BY <1>1, <1>2, <1>4, ContentTypes DEF IInv, ReadingOK
  <2>2. read_count = 0
    BY <1>1, <2>1, OtherAsNode
  <2> QED
    BY <1>1, <2>1, <2>2
<1>5. ReadingOK'
  <2> DEFINE c == content  n == i
  <2>1. content' = c /\ i' = n + 1 /\ stage' = "read_item"
    BY <1>1
  <2>2. ASSUME Fits
        PROVE  /\ c.kind = "node" /\ n + 1 \in 1 .. Len(c.items) + 1
               /\ left' = SlotOf(c, n + 1) /\ i' - 1 = n
               /\ back' = [kind |-> "node", items |-> ItemsRead(c, n),
                           children |-> ChildrenRead(c, n)]
    <3>1. c.kind = "node"
      BY <1>4, <2>2
    <3>2. i \in Nat
      BY <1>1, <2>2, <3>1, InNode
    <3>3. i' - 1 = n
      BY <2>1, <3>2
    <3> QED
      BY <1>3, <2>2, <3>1, <3>3
  <2>3. Fits' <=> Fits
    BY <1>1, FitsKept
  <2>4. content'.kind # "freelist"
    BY <1>2, <2>1
  <2>5. ASSUME Fits'
        PROVE  /\ content'.kind = "node" /\ i' \in 1 .. Len(content'.items) + 1
               /\ left' = SlotOf(content', i')
               /\ back' = [kind |-> "node", items |-> ItemsRead(content', i' - 1),
                           children |-> ChildrenRead(content', i' - 1)]
    <3>1. Fits
      BY <2>3, <2>5
    <3> HIDE DEF c, n
    <3> QED
      BY <2>1, <2>2, <3>1
  <2> QED
    BY <2>4, <2>5 DEF ReadingOK
<1> QED
  BY <1>1, <1>5, WhileReading

\* The reader is done.
LEMMA Finished ==
  ASSUME IInv, content' = content, stage' = "done", Fits => back' = Expected'
  PROVE  IInv'
<1>1. ReadBack'
  BY FitsKept DEF ReadBack
<1> QED
  BY <1>1 DEF IInv, StartOK, WritingOK, CopyOK, PageOK, ReadingOK, OverrunOnlyWhenFull

\* The children that come back: those written before the items, and the last.
LEMMA ChildrenComeBack ==
  ASSUME NEW c, IsNode(c)
  PROVE  Stored(c).children =
           IF is_leaf(c) THEN ChildrenRead(c, Len(c.items))
           ELSE Append(ChildrenRead(c, Len(c.items)), Last(c.children))
<1> DEFINE L == Len(c.items)
           f == [m \in 1 .. L + 1 |->
                   IF m \in 1 .. L \intersect DOMAIN c.children THEN c.children[m]
                   ELSE Last(c.children)]
<1>1. /\ L \in Nat /\ DOMAIN c.children = 1 .. Len(c.children) /\ Len(c.children) \in Nat
      /\ ~is_leaf(c) => Len(c.children) >= L
  BY NodeTypes, LenProperties
<1>2. CASE is_leaf(c)
  BY <1>2 DEF Stored, ChildrenRead
<1>3. CASE ~is_leaf(c)
  <2>1. Stored(c).children = f
    BY <1>3 DEF Stored
  <2>2. \A m \in 1 .. L : f[m] = c.children[m]
    BY <1>1, <1>3
  <2>3. f[L + 1] = Last(c.children)
    BY <1>1
  <2>4. f = [m \in 1 .. L + 1 |-> f[m]]
    OBVIOUS
  <2> HIDE DEF f, L
  <2>5. Append([m \in 1 .. L |-> f[m]], f[L + 1]) = [m \in 1 .. L + 1 |-> f[m]]
    BY <1>1, AppendPrefix
  <2>6. [m \in 1 .. L |-> f[m]] = [m \in 1 .. L |-> c.children[m]]
    BY <2>2
  <2>7. Append([m \in 1 .. L |-> c.children[m]], Last(c.children)) = f
    BY <2>3, <2>4, <2>5, <2>6
  <2> QED
    BY <1>3, <2>1, <2>7 DEF ChildrenRead, L
<1> QED
  BY <1>2, <1>3

\* What is to come back of a node.
LEMMA ExpectedOfNode ==
  ASSUME IsNode(content), content' = content, back'.kind = "node"
  PROVE  Expected' = [kind |-> "node", items |-> ItemsRead(content, Len(content.items)),
                      children |-> Stored(content).children]
<1> DEFINE c == content
<1>1. c.kind = "node" /\ DOMAIN c.items = 1 .. Len(c.items)
  BY NodeTypes, LenProperties
<1>2. Expected' = [Stored(c) EXCEPT !.items = [n \in DOMAIN @ |-> CutItem(@[n])]]
  BY <1>1 DEF Expected
<1> DEFINE ch == Stored(c).children  items == [n \in DOMAIN c.items |-> CutItem(c.items[n])]
<1>3. Stored(c) = [kind |-> "node", items |-> c.items, children |-> ch]
  BY DEF Stored
<1>4. items = ItemsRead(c, Len(c.items))
  BY <1>1 DEF ItemsRead
<1> HIDE DEF ch
<1>5. Expected' = [kind |-> "node", items |-> items, children |-> ch]
  BY <1>2, <1>3
<1> QED
  BY <1>4, <1>5 DEF ch

LEMMA ReadLastChildStep ==
  ASSUME IInv, ReadLastChild
  PROVE  IInv'
<1>1. /\ stage = "read_item" /\ i > read_count
      /\ content' = content /\ stage' = "done"
      /\ back' = [back EXCEPT !.children = IF read_leaf THEN @ ELSE Append(@, Child)]
  BY DEF ReadLastChild
<1>2. ASSUME Fits, content.kind = "node" PROVE back' = Expected'
  <2> DEFINE c == content  L == Len(c.items)  pointers == ChildrenRead(c, L)
             old == ItemsRead(c, L)
  <2>1. /\ IsNode(c) /\ L \in Nat /\ NodeWritten(c, buffer)
        /\ read_leaf <=> is_leaf(c)
        /\ read_count = L
    BY <1>1, <1>2, NodePage
  <2>2. /\ i = L + 1 /\ left = SlotOf(c, L + 1)
        /\ back = [kind |-> "node", items |-> old, children |-> pointers]
    <3>1. /\ i \in 1 .. L + 1 /\ left = SlotOf(c, i)
          /\ back = [kind |-> "node", items |-> ItemsRead(c, i - 1),
                     children |-> ChildrenRead(c, i - 1)]
      BY <1>1, <1>2, InNode
    <3>2. i = L + 1 /\ i - 1 = L
      BY <1>1, <2>1, <3>1
    <3> QED
      BY <3>1, <3>2
  <2>3. ~is_leaf(c) => Child = Last(c.children)
    <3>1. PointerWritten(c, buffer, L + 1, Last(c.children))
      BY <2>1 DEF NodeWritten
    <3>2. ~is_leaf(c) => Last(c.children) \in 0 .. Width64 - 1
      BY <2>1, NodeTypes
    <3>3. L + 1 \in Int
      BY <2>1
    <3> QED
      BY <2>2, <3>1, <3>2, <3>3, ReadsPointer
  <2>4. Stored(c).children = IF is_leaf(c) THEN pointers ELSE Append(pointers, Last(c.children))
    BY <2>1, ChildrenComeBack
  <2> HIDE DEF pointers, old
  <2>5. back' = [kind |-> "node", items |-> old,
                 children |-> IF read_leaf THEN pointers ELSE Append(pointers, Child)]
    BY <1>1, <2>2
  <2>6. (IF read_leaf THEN pointers ELSE Append(pointers, Child)) = Stored(c).children
    BY <2>1, <2>3, <2>4
  <2>7. back' = [kind |-> "node", items |-> old, children |-> Stored(c).children]
    BY <2>5, <2>6
  <2>8. back'.kind = "node"
    BY <2>7
  <2> QED
    BY <1>1, <2>1, <2>7, <2>8, ExpectedOfNode DEF old
<1>3. ASSUME Fits, content.kind # "node" PROVE back' = Expected'
  <2> DEFINE first == IF content.kind = "meta" THEN Byte * Byte * Byte * Byte * Byte ELSE 0
  <2>1. /\ content.kind \in {"meta", "hole"} /\ left = HEADER_SIZE
        /\ back = [kind |-> "node", items |-> <<>>, children |-> <<>>]
    BY <1>1, <1>3, ContentTypes DEF IInv, ReadingOK
  <2>2. ~read_leaf /\ Child = first
    BY <1>1, <2>1, OtherAsNode
  <2>3. back' = [kind |-> "node", items |-> <<>>, children |-> Append(<<>>, first)]
    BY <1>1, <2>1, <2>2
  <2>4. Append(<<>>, first) = <<first>>
    OBVIOUS
  <2>5. back' = [kind |-> "node", items |-> <<>>, children |-> <<first>>]
    BY <2>3, <2>4
  <2>6. Expected' = [kind |-> "node", items |-> <<>>, children |-> <<first>>]
    <3>1. back'.kind = "node" /\ content' = content
      BY <1>1, <2>5
    <3>2. CASE content.kind = "meta"
      BY <3>1, <3>2 DEF Expected
    <3>3. CASE content.kind = "hole"
      BY <3>1, <3>3 DEF Expected
    <3> QED
      BY <2>1, <3>2, <3>3
  <2> QED
    BY <2>5, <2>6
<1> QED
  BY <1>1, <1>2, <1>3, Finished

LEMMA ReadMetaStep ==
  ASSUME IInv, ReadMeta
  PROVE  IInv'
<1>1. /\ stage = "read" /\ content.kind \in {"meta", "hole"}
      /\ content' = content /\ stage' = "done"
      /\ back' = [kind |-> "meta",
                  root |-> read_bytes(stream(buffer, 0), POINTER_SIZE),
                  freelist_page |-> read_bytes(stream(buffer, POINTER_SIZE), POINTER_SIZE)]
  BY DEF ReadMeta
<1>2. /\ DOMAIN buffer = 0 .. PageSize - 1 /\ 16 <= PageSize /\ PageSize \in Nat
      /\ content.kind = "meta" => MetaWritten(content, buffer)
      /\ \A at \in 0 .. 15 :
           buffer[at] = IF at = 8 /\ content.kind = "meta" THEN 1 ELSE 0
  BY <1>1, OtherPage
<1>3. CASE content.kind = "hole"
  <2>1. /\ \A k \in 1 .. 8 : 0 + k - 1 \in DOMAIN buffer /\ buffer[0 + k - 1] = 0
        /\ \A k \in 1 .. 8 : 8 + k - 1 \in DOMAIN buffer /\ buffer[8 + k - 1] = 0
    BY <1>2, <1>3
  <2>2. POINTER_SIZE = 8 /\ 0 \in Nat /\ 8 \in Nat
    BY DEF POINTER_SIZE
  <2>3. /\ read_bytes(stream(buffer, 0), POINTER_SIZE) = 0
        /\ read_bytes(stream(buffer, POINTER_SIZE), POINTER_SIZE) = 0
    BY <2>1, <2>2, ReadsZero
  <2> QED
    BY <1>1, <1>3, <2>3, Finished DEF Expected
<1>4. CASE content.kind = "meta"
  <2>1. content = [kind |-> "meta", root |-> 0, freelist_page |-> 1]
    BY <1>4, ContentTypes DEF IInv
  <2>2. /\ HasAt(buffer, 0, put(0, POINTER_SIZE))
        /\ HasAt(buffer, POINTER_SIZE, put(1, POINTER_SIZE))
    BY <1>2, <1>4, <2>1 DEF MetaWritten
  <2>3. 0 \in 0 .. Width64 - 1 /\ 1 \in 0 .. Width64 - 1
    <3> DEFINE w == Byte * Byte * Byte * Byte
    <3>1. w \in Nat /\ w > 1
      <4> DEFINE p2 == Byte * Byte  p3 == p2 * Byte
      <4>1. p2 \in Nat /\ p2 > 1
        BY ByteAssumption
      <4> HIDE DEF p2
      <4>2. p3 \in Nat /\ p3 > 1
        BY <4>1, ByteAssumption
      <4> HIDE DEF p3
      <4>3. p3 * Byte \in Nat /\ p3 * Byte > 1
        BY <4>2, ByteAssumption
      <4> QED
        BY <4>3 DEF p3, p2
    <3>2. Width64 = w * w
      BY DEF Width64
    <3> HIDE DEF w
    <3> QED
      BY <3>1, <3>2
  <2>4. get(put(0, POINTER_SIZE)) = 0 /\ get(put(1, POINTER_SIZE)) = 1
    BY <2>3, GetPut64
  <2>5. /\ read_bytes(stream(buffer, 0), POINTER_SIZE) = 0
        /\ read_bytes(stream(buffer, POINTER_SIZE), POINTER_SIZE) = 1
    <3>1. POINTER_SIZE \in Nat /\ POINTER_SIZE \in Int /\ 0 \in Int
      BY DEF POINTER_SIZE
    <3> QED
      BY <2>2, <2>4, <3>1, ReadPut
  <2>6. back' = content
    BY <1>1, <2>1, <2>5
  <2>7. Expected' = content
    BY <1>1, <1>4, <2>6 DEF Expected
  <2> QED
    BY <1>1, <2>6, <2>7, Finished
<1> QED
  BY <1>1, <1>3, <1>4

LEMMA ReadFreelistStep ==
  ASSUME IInv, ReadFreelist
  PROVE  IInv'
<1> DEFINE c == content  pages == c.released_pages  L == Len(pages)
           count == released_count
           max == read_bytes(stream(buffer, 0), OFFSET_SIZE)
           f == [n \in 1 .. count |-> read_bytes(stream(buffer, released_at(n)), POINTER_SIZE)]
<1>1. /\ stage = "read" /\ c.kind \in {"freelist", "hole"} /\ content' = content /\ stage' = "done"
      /\ back' = [kind |-> "freelist", max_page |-> max, released_pages |-> f]
  BY DEF ReadFreelist
<1>2. CASE c.kind = "hole"
  <2>1. /\ \A k \in 1 .. 2 : 0 + k - 1 \in DOMAIN buffer /\ buffer[0 + k - 1] = 0
        /\ \A k \in 1 .. 2 : 2 + k - 1 \in DOMAIN buffer /\ buffer[2 + k - 1] = 0
    <3>1. /\ DOMAIN buffer = 0 .. PageSize - 1 /\ 16 <= PageSize /\ PageSize \in Nat
          /\ \A at \in 0 .. 15 : buffer[at] = 0
      BY <1>1, <1>2, OtherPage
    <3> QED
      BY <3>1
  <2>2. OFFSET_SIZE = 2 /\ 0 \in Nat /\ 2 \in Nat
    BY DEF OFFSET_SIZE
  <2>3. max = 0 /\ count = 0
    BY <2>1, <2>2, ReadsZero DEF released_count
  <2>4. f = <<>>
    <3> DEFINE h == [n \in 1 .. 1 - 1 |-> read_bytes(stream(buffer, released_at(n)), POINTER_SIZE)]
    <3>1. f = h
      BY <2>3
    <3>2. h = [n \in 1 .. 1 - 1 |-> h[n]]
      OBVIOUS
    <3> HIDE DEF h, f
    <3>3. [n \in 1 .. 1 - 1 |-> h[n]] = <<>>
      BY EmptyPrefix
    <3> QED
      BY <3>1, <3>2, <3>3
  <2> HIDE DEF f, max
  <2>5. back' = [kind |-> "freelist", max_page |-> 0, released_pages |-> <<>>]
    BY <1>1, <2>3, <2>4
  <2>6. Expected' = [kind |-> "freelist", max_page |-> 0, released_pages |-> <<>>]
    BY <1>1, <1>2, <2>5 DEF Expected
  <2> QED
    BY <1>1, <2>5, <2>6, Finished
<1>3. CASE c.kind = "freelist"
  <2> SUFFICES ASSUME Fits PROVE back' = Expected'
    BY <1>1, Finished
  <2>1. IsFreelist(c) /\ L \in Nat /\ pages \in Seq(0 .. Width64 - 1) /\ c.max_page \in Nat
    BY <1>3, ContentTypes, FreelistTypes DEF IInv
  <2>2. released_at(L + 1) <= PageSize
    BY <1>3 DEF Fits
  <2>3. FreelistWritten(c, buffer, L)
    BY <1>1, <1>3 DEF IInv, PageOK, ContentWritten
  <2> HIDE DEF L
  <2>4. L \in 0 .. Width16 - 1 /\ L % Width16 = L
    <3>1. released_at(L + 1) = 4 + (8 * L)
      BY <2>1, ReleasedAt
    <3>2. L < Width16 /\ Width16 \in Nat
      BY <2>1, <2>2, <3>1, Sizes
    <3> QED
      BY <2>1, <3>2
  <2>5. max = c.max_page % Width16
    <3> DEFINE v == c.max_page % Width16
    <3>1. v \in 0 .. Width16 - 1
      BY <2>1, Width16Assumption, Remainder
    <3>2. HasAt(buffer, 0, put(v, OFFSET_SIZE)) /\ OFFSET_SIZE \in Nat /\ 0 \in Int
      BY <2>3 DEF FreelistWritten, OFFSET_SIZE
    <3> HIDE DEF v
    <3>3. get(put(v, OFFSET_SIZE)) = v
      BY <3>1, GetPut16
    <3>4. max = v
      BY <3>2, <3>3, ReadPut
    <3> QED
      BY <3>4 DEF v
  <2>6. count = L
    <3>1. HasAt(buffer, OFFSET_SIZE, put(L, OFFSET_SIZE))
      BY <2>3, <2>4 DEF FreelistWritten, L
    <3>2. OFFSET_SIZE \in Nat /\ OFFSET_SIZE \in Int
      BY DEF OFFSET_SIZE
    <3>3. get(put(L, OFFSET_SIZE)) = L
      BY <2>4, GetPut16
    <3> QED
      BY <3>1, <3>2, <3>3, ReadPut DEF released_count
  <2>7. ASSUME NEW n \in 1 .. L
        PROVE  read_bytes(stream(buffer, released_at(n)), POINTER_SIZE) = pages[n]
    <3> DEFINE v == pages[n]
    <3>1. v \in 0 .. Width64 - 1
      BY <2>1, ElementOfSeq DEF L
    <3>2. HasAt(buffer, released_at(n), put(v, POINTER_SIZE))
      BY <2>3 DEF FreelistWritten, L
    <3>3. released_at(n) \in Int /\ POINTER_SIZE \in Nat
      BY <2>1, ReleasedAt DEF POINTER_SIZE
    <3> HIDE DEF v
    <3>4. get(put(v, POINTER_SIZE)) = v
      BY <3>1, GetPut64
    <3>5. read_bytes(stream(buffer, released_at(n)), POINTER_SIZE) = v
      BY <3>2, <3>3, <3>4, ReadPut
    <3> QED
      BY <3>5 DEF v
  <2>8. f = pages
    <3>1. pages = [n \in 1 .. L |-> pages[n]]
      BY <2>1, LenProperties DEF L
    <3>2. f = [n \in 1 .. L |-> read_bytes(stream(buffer, released_at(n)), POINTER_SIZE)]
      BY <2>6
    <3>3. f = [n \in 1 .. L |-> pages[n]]
      <4> HIDE DEF f
      <4> QED
        BY <2>7, <3>2
    <3> QED
      BY <3>1, <3>3
  <2>9. SubSeq(pages, 1, L % Width16) = pages
    <3> DEFINE S == 0 .. Width64 - 1
               s == SubSeq(pages, 1, L)
    <3>1. pages \in Seq(S) /\ 1 \in Nat \ {0} /\ Len(pages) = L
      BY <2>1 DEF L
    <3> HIDE DEF S, pages
    <3>2. L \in 0 .. Len(pages) /\ 1 <= L + 1 /\ L - 1 + 1 = L
      BY <2>1, <3>1
    <3>3. s = [n \in 1 .. L |-> pages[1 + n - 1]]
      BY <2>1, <3>1, <3>2
    <3>4. \A n \in 1 .. L : pages[1 + n - 1] = pages[n]
      BY <2>1
    <3>5. pages = [n \in 1 .. L |-> pages[n]]
      BY <3>1, LenProperties
    <3>6. s = pages
      BY <3>3, <3>4, <3>5
    <3> QED
      BY <2>4, <3>6 DEF s
  <2> HIDE DEF f, max
  <2>10. back' = [kind |-> "freelist", max_page |-> c.max_page % Width16, released_pages |-> pages]
    BY <1>1, <2>5, <2>8
  <2>11. Reloaded(c).max_page = c.max_page % Width16 /\ Reloaded(c).released_pages = pages
    BY <2>9 DEF Reloaded, L
  <2>12. Expected' = [kind |-> "freelist", max_page |-> c.max_page % Width16, released_pages |-> pages]
    <3>1. back'.kind = "freelist" /\ content' = c
      BY <1>1, <2>10
    <3>2. Expected' = [kind |-> "freelist", max_page |-> Reloaded(c).max_page,
                       released_pages |-> Reloaded(c).released_pages]
      BY <1>3, <3>1 DEF Expected
    <3> QED
      BY <2>11, <3>2
  <2> QED
    BY <2>10, <2>12
<1> QED
  BY <1>1, <1>2, <1>3
-----------------------------------------------------------------------------
\* No access of what fits leaves its buffer.

LEMMA ItemsInside ==
  ASSUME IInv, stage = "item", Fits
  PROVE  IF i <= items_count THEN ItemInside ELSE LastChildInside
<1> DEFINE c == content  L == Len(c.items)  pb == PointerBytes(c)  D == DEFAULT_PAGE_SIZE
<1>1. /\ c.kind = "node" /\ IsNode(c) /\ DOMAIN buffer = 0 .. D - 1
      /\ i \in 1 .. items_count + 1 /\ i \in Nat
      /\ left = SlotOf(c, i) /\ left \in Nat
      /\ SlotOf(c, i + 1) = left + pb + 2
      /\ right \in Nat /\ right = RightAfter(c, i - 1)
  BY InLoop DEF OFFSET_SIZE
<1>2. L \in Nat /\ D \in Nat
  BY <1>1, NodeTypes, Sizes
<1>3. pb \in Nat /\ OFFSET_SIZE = 2
  <2>1. pb \in {0, POINTER_SIZE}
    BY Slots
  <2> QED
    BY <2>1 DEF POINTER_SIZE, OFFSET_SIZE
<1>4. FitsPage(c)
  BY <1>1 DEF Fits
<1>5. /\ items_count = L
      /\ \A n \in 0 .. L : /\ RightAfter(c, n) \in Nat
                           /\ SlotOf(c, n + 1) + pb <= RightAfter(c, n)
  BY <1>1, <1>4, RoomOfNode DEF items_count
<1>6. \A n \in 0 .. L : RightAfter(c, n) < D
  <2>1. ASSUME NEW n \in 0 .. L PROVE RightAfter(c, n) < D
    <3>1. PrefixBytes(c.items)[n] \in Nat
      BY <1>1, PrefixBytesAdd
    <3>2. RightAfter(c, n) = D - 1 - PrefixBytes(c.items)[n] - 2 * n
      BY DEF RightAfter, OFFSET_SIZE
    <3> QED
      BY <1>2, <3>1, <3>2
  <2> QED
    BY <2>1
<1> HIDE DEF c, D
<1>7. ASSUME i <= items_count PROVE ItemInside
  <2>1. i \in 1 .. L /\ i \in 0 .. L
    BY <1>1, <1>2, <1>5, <1>7
  <2>2. SlotOf(c, i + 1) + pb <= RightAfter(c, i) /\ RightAfter(c, i) < D /\ RightAfter(c, i) \in Nat
    BY <1>5, <1>6, <2>1
  <2>3. left + pb + 2 <= D
    <3> DEFINE next == SlotOf(c, i + 1)  ra == RightAfter(c, i)
    <3>1. /\ next + pb <= ra /\ ra < D /\ ra \in Nat
          /\ next = left + pb + 2 /\ left \in Nat /\ pb \in Nat /\ D \in Nat
      BY <1>1, <1>2, <1>3, <2>2
    <3> HIDE DEF next, ra, pb
    <3> QED
      BY <3>1
  <2>4. left \in Int /\ pb + 2 \in Int /\ left >= 0 /\ left + (pb + 2) <= D
    BY <1>1, <1>2, <1>3, <2>3
  <2>5. InBounds(stream(buffer, left), pb + 2)
    <3> HIDE DEF pb
    <3>1. \A at, n \in Int : InBounds(stream(buffer, at), n) <=> at >= 0 /\ at + n <= D
      BY <1>1, <1>2, BufferSize
    <3> QED
      BY <2>4, <3>1
  <2>6. CellsAt = RightAfter(c, i)
    <3>1. RightAfter(c, i) = RightAfter(c, i - 1) - length(key) - length(value) - OFFSET_SIZE
      BY <1>1, <2>1, RightMoves DEF key, value, c
    <3> QED
      BY <1>1, <3>1 DEF CellsAt
  <2>7. CellsAt >= 0
    BY <2>2, <2>6
  <2> QED
    BY <1>3, <2>5, <2>7, PointerSize DEF ItemInside, c
<1>8. ASSUME ~(i <= items_count) PROVE LastChildInside
  <2>1. i = L + 1 /\ i - 1 = L /\ L \in 0 .. L
    BY <1>1, <1>2, <1>5, <1>8
  <2>2. SlotOf(c, L + 1) + pb <= RightAfter(c, L) /\ RightAfter(c, L) < D /\ RightAfter(c, L) \in Nat
    BY <1>5, <1>6, <2>1
  <2>3. left \in Int /\ pb \in Int /\ left >= 0 /\ left + pb <= D
    <3> HIDE DEF L
    <3> QED
      BY <1>1, <1>2, <1>3, <2>1, <2>2
  <2>4. InBounds(stream(buffer, left), pb)
    <3> HIDE DEF pb
    <3>1. \A at, n \in Int : InBounds(stream(buffer, at), n) <=> at >= 0 /\ at + n <= D
      BY <1>1, <1>2, BufferSize
    <3> QED
      BY <2>3, <3>1
  <2> QED
    BY <2>4, PointerSize DEF LastChildInside, c
<1> QED
  BY <1>7, <1>8

LEMMA CopiesInside ==
  ASSUME IInv, stage = "copy", Fits
  PROVE  CopyInside
<1> DEFINE c == content
<1>1. c \in Contents /\ c.kind \in {"node", "meta", "freelist"}
  BY DEF IInv, CopyOK
<1>2. ASSUME NEW n \in Nat, DOMAIN buffer = 0 .. n - 1, n <= PageSize PROVE CopyInside
  BY <1>2, BufferSize DEF CopyInside
<1>3. CASE c.kind = "node"
  <2>1. DOMAIN buffer = 0 .. DEFAULT_PAGE_SIZE - 1
    BY <1>3 DEF IInv, WritingOK
  <2> QED
    BY <1>2, <2>1, Sizes
<1>4. CASE c.kind = "meta"
  <2>1. DOMAIN buffer = 0 .. 2 * POINTER_SIZE - 1
    BY <1>4 DEF IInv, CopyOK
  <2>2. 2 * POINTER_SIZE \in Nat /\ 2 * POINTER_SIZE <= PageSize
    BY Sizes DEF POINTER_SIZE
  <2> QED
    BY <1>2, <2>1, <2>2
<1>5. CASE c.kind = "freelist"
  <2> DEFINE n == released_at(Len(c.released_pages) + 1)
  <2>1. DOMAIN buffer = 0 .. n - 1
    BY <1>5 DEF IInv, CopyOK
  <2>2. Len(c.released_pages) \in Nat
    BY <1>1, <1>5, ContentTypes, FreelistTypes
  <2>3. n = 4 + (8 * Len(c.released_pages))
    BY <2>2, ReleasedAt
  <2>4. n \in Nat
    BY <2>2, <2>3
  <2>5. n <= PageSize
    BY <1>5 DEF Fits
  <2> HIDE DEF n
  <2> QED
    BY <1>2, <2>1, <2>4, <2>5
<1> QED
  BY <1>1, <1>3, <1>4, <1>5

LEMMA ReadsInside ==
  ASSUME IInv, stage = "read_item", Fits
  PROVE  IF i <= read_count THEN ItemReadable(SlotAt) ELSE ChildReadable
<1> DEFINE c == content  L == Len(c.items)
<1>1. c \in Contents /\ c.kind \in {"node", "meta", "hole"}
  BY ContentTypes DEF IInv, ReadingOK
<1>2. CASE c.kind = "node" /\ i <= read_count
  BY <1>2, ReadsItemOfNode
<1>3. CASE c.kind = "node" /\ ~(i <= read_count)
  <2>1. /\ IsNode(c) /\ L \in Nat /\ NodeWritten(c, buffer) /\ DOMAIN buffer = 0 .. PageSize - 1
        /\ read_leaf <=> is_leaf(c)
        /\ read_count = L
    BY <1>3, NodePage
  <2>2. i \in 1 .. L + 1 /\ left = SlotOf(c, i)
    BY <1>3, InNode
  <2>3. i = L + 1
    BY <1>3, <2>1, <2>2
  <2> SUFFICES ASSUME ~is_leaf(c) PROVE InBounds(stream(buffer, left), POINTER_SIZE)
    BY <1>3, <2>1 DEF ChildReadable
  <2> DEFINE p == put(Last(c.children), POINTER_SIZE)
  <2>4. HasAt(buffer, left, p)
    BY <2>1, <2>2, <2>3 DEF NodeWritten, PointerWritten
  <2>5. Len(p) = 8 /\ POINTER_SIZE = 8
    BY PutLength DEF POINTER_SIZE
  <2>6. left + 1 - 1 \in 0 .. PageSize - 1 /\ left + 8 - 1 \in 0 .. PageSize - 1
    <3> HIDE DEF p
    <3>1. 1 \in 1 .. Len(p) /\ 8 \in 1 .. Len(p)
      BY <2>5
    <3> QED
      BY <2>1, <2>4, <3>1 DEF HasAt
  <2>7. left \in Int
    <3>1. \A n \in Int : SlotOf(c, n) \in Int
      BY Slots
    <3> QED
      BY <2>1, <2>2, <2>3, <3>1
  <2>8. left >= 0 /\ left + POINTER_SIZE <= PageSize /\ POINTER_SIZE \in Int
    BY <2>5, <2>6, <2>7, Sizes
  <2>9. \A at, n \in Int : InBounds(stream(buffer, at), n) <=> at >= 0 /\ at + n <= PageSize
    BY <2>1, Sizes, BufferSize
  <2> QED
    BY <2>7, <2>8, <2>9
<1>4. CASE c.kind \in {"meta", "hole"}
  <2>1. i = 1 /\ left = HEADER_SIZE
    BY <1>4 DEF IInv, ReadingOK
  <2>2. read_count = 0 /\ ChildReadable
    BY <1>4, <2>1, OtherAsNode
  <2> QED
    BY <2>1, <2>2
<1> QED
  BY <1>1, <1>2, <1>3, <1>4

LEMMA OverrunsStep ==
  ASSUME IInv, Overruns
  PROVE  IInv'
<1>1. stage' = "overrun" /\ content' = content
  BY DEF Overruns, Overrun
<1>2. ~Fits
  <2>1. CASE Overrun("item", IF i <= items_count THEN ItemInside ELSE LastChildInside)
    BY <2>1, ItemsInside DEF Overrun
  <2>2. CASE Overrun("copy", CopyInside)
    BY <2>2, CopiesInside DEF Overrun
  <2>3. CASE Overrun("read_item", IF i <= read_count THEN ItemReadable(SlotAt) ELSE ChildReadable)
    BY <2>3, ReadsInside DEF Overrun
  <2> QED
    BY <2>1, <2>2, <2>3 DEF Overruns
<1>3. OverrunOnlyWhenFull'
  BY <1>1, <1>2, FitsKept DEF OverrunOnlyWhenFull
<1> QED
  BY <1>1, <1>3 DEF IInv, StartOK, WritingOK, CopyOK, PageOK, ReadingOK, ReadBack
-----------------------------------------------------------------------------
\* The invariant.

LEMMA IInvInit ==
  ASSUME Init
  PROVE  IInv
BY DEF Init, IInv, StartOK, WritingOK, CopyOK, PageOK, ReadingOK, ReadBack, OverrunOnlyWhenFull

LEMMA IInvStutter ==
  ASSUME IInv, UNCHANGED vars
  PROVE  IInv'
<1>1. /\ content' = content /\ stage' = stage /\ buffer' = buffer /\ left' = left
      /\ right' = right /\ i' = i /\ back' = back
  BY DEF vars
<1>2. (Fits' <=> Fits) /\ Expected' = Expected /\ items_count' = items_count /\ LeftEnd' = LeftEnd
  BY <1>1, FitsKept DEF Expected, items_count, LeftEnd, pointer_size
<1>3. StartOK' /\ CopyOK' /\ PageOK' /\ ReadingOK' /\ ReadBack' /\ OverrunOnlyWhenFull'
  BY <1>1, <1>2 DEF IInv, StartOK, CopyOK, PageOK, ReadingOK, ReadBack, OverrunOnlyWhenFull
<1>4. WritingOK'
  BY <1>1, <1>2 DEF IInv, WritingOK
<1> QED
  BY <1>1, <1>3, <1>4 DEF IInv

LEMMA IInvStep ==
  ASSUME IInv, [Next]_vars
  PROVE  IInv'
<1>1. CASE WriteHeader
  BY <1>1, WriteHeaderStep
<1>2. CASE WriteItem
  BY <1>2, WriteItemStep
<1>3. CASE WriteLastChild
  BY <1>3, WriteLastChildStep
<1>4. CASE WriteMeta
  BY <1>4, WriteMetaStep
<1>5. CASE WriteFreelist
  BY <1>5, WriteFreelistStep
<1>6. CASE LeaveHole
  BY <1>6, LeaveHoleStep
<1>7. CASE CopyToPage
  BY <1>7, CopyToPageStep
<1>8. CASE ReadHeader
  BY <1>8, ReadHeaderStep
<1>9. CASE ReadItem
  BY <1>9, ReadItemStep
<1>10. CASE ReadLastChild
  BY <1>10, ReadLastChildStep
<1>11. CASE ReadMeta
  BY <1>11, ReadMetaStep
<1>12. CASE ReadFreelist
  BY <1>12, ReadFreelistStep
<1>13. CASE Overruns
  BY <1>13, OverrunsStep
<1>14. CASE UNCHANGED vars
  BY <1>14, IInvStutter
<1> QED
  BY <1>1, <1>2, <1>3, <1>4, <1>5, <1>6, <1>7, <1>8, <1>9, <1>10, <1>11, <1>12, <1>13, <1>14 DEF Next

\* At each step of a serializer, of the copy to the page and of a deserializer
\* every part of the content that has been written is where the reader will look
\* for it, and what has been read is what the content begins with.
THEOREM InvariantHolds == Spec => []IInv
<1>1. Init => IInv
  BY IInvInit
<1>2. IInv /\ [Next]_vars => IInv'
  BY IInvStep
<1> QED
  BY <1>1, <1>2, PTL DEF Spec

\* Whatever is written to a page it fits comes back as Stored, Reloaded and
\* get_node say, for every page size, byte and length of key and value.
THEOREM WhatIsWrittenIsRead == Spec => []ReadBack
<1>1. IInv => ReadBack
  BY DEF IInv
<1> QED
  BY <1>1, InvariantHolds, PTL

\* No serializer or deserializer leaves its buffer for what FitsPage, or the
\* size of the freelist, says goes into the page.
THEOREM NothingOverrunsThatFits == Spec => []OverrunOnlyWhenFull
<1>1. IInv => OverrunOnlyWhenFull
  BY DEF IInv
<1> QED
  BY <1>1, InvariantHolds, PTL

\* What ReadsItem needs of an item is in the invariant.
LEMMA ItemsStay ==
  ASSUME IInv
  PROVE  WrittenItemsStay
<1> DEFINE c == content  pb == PointerBytes(c)
<1> SUFFICES ASSUME c.kind = "node", stage \in {"item", "copy"}, LeftEnd <= right, NEW n \in 1 .. i - 1
             PROVE  /\ ItemReadable(HEADER_SIZE + n * pointer_size + (n - 1) * OFFSET_SIZE)
                    /\ item_at(HEADER_SIZE + n * pointer_size + (n - 1) * OFFSET_SIZE) = CutItem(c.items[n])
  BY DEF WrittenItemsStay
<1>1. IsNode(c)
  BY ContentTypes DEF IInv
<1>2. Len(c.items) \in Nat /\ items_count \in 0 .. Len(c.items)
  BY <1>1, NodeTypes, ItemsCount DEF items_count
<1>3. /\ DOMAIN buffer = 0 .. DEFAULT_PAGE_SIZE - 1 /\ i \in 1 .. items_count + 1 /\ right \in Nat
      /\ ItemsWritten(c, buffer, i - 1, right)
  BY DEF IInv, WritingOK
<1>4. n \in 1 .. Len(c.items) /\ n \in Int
  BY <1>2, <1>3
<1>5. CellsWritten(c, buffer, n, right)
  BY <1>3 DEF ItemsWritten
<1>6. /\ ItemReadable(SlotOf(c, n) + pb) /\ item_at(SlotOf(c, n) + pb) = CutItem(c.items[n])
  BY <1>1, <1>3, <1>4, <1>5, Sizes, ReadsItem
<1>7. HEADER_SIZE + n * pointer_size + (n - 1) * OFFSET_SIZE = SlotOf(c, n) + pb
  <2>1. CASE is_leaf(c)
    <3>1. pointer_size = 0 /\ pb = 0 /\ SlotOf(c, n) = 3 + (2 * (n - 1))
      BY <1>4, <2>1, Slots DEF pointer_size
    <3> QED
      BY <1>4, <3>1 DEF HEADER_SIZE, OFFSET_SIZE
  <2>2. CASE ~is_leaf(c)
    <3>1. pointer_size = 8 /\ pb = 8 /\ SlotOf(c, n) = 3 + (10 * (n - 1))
      BY <1>4, <2>2, Slots DEF pointer_size, POINTER_SIZE
    <3> QED
      BY <1>4, <3>1 DEF HEADER_SIZE, OFFSET_SIZE
  <2> QED
    BY <2>1, <2>2
<1> QED
  BY <1>6, <1>7

\* As long as the slots and the cells of a page have not met, each item that
\* serialize has written can be read, whatever it writes after it.
THEOREM WrittenItemsStayReadable == Spec => []WrittenItemsStay
<1>1. IInv => WrittenItemsStay
  BY ItemsStay
<1> QED
  BY <1>1, InvariantHolds, PTL
=============================================================================
