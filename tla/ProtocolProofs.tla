---------------------------- MODULE ProtocolProofs ----------------------------
(***************************************************************************)
(* RoundTrip and TruncationRefused, for every value of every struct, every *)
(* place where a message is cut and every byte behind it.                  *)
(*                                                                         *)
(* serialize() lays its fields one behind the other (Laid), each as        *)
(* WriteAny gives it.  parse() is followed field by field: while the bytes *)
(* of the next field have arrived the cursor stands where serialize()      *)
(* stood, with the fields so far (Cursor, StepRead); otherwise a check     *)
(* refuses it (GuardedStep).  That needs two facts about a struct, which   *)
(* are shown for each from its layout: no check asks for more than the     *)
(* smallest message has (Matching), and the checks cover what is read      *)
(* (Guarded).  The structs without them are the ones RoundTrip and         *)
(* TruncationRefused leave out.                                            *)
(***************************************************************************)
EXTENDS Protocol, SequenceTheorems, WellFoundedInduction, TLAPS

\* Time for the provers, also on a busy machine.
USE SMTT(60)

-----------------------------------------------------------------------------
\* ---- Numbers, sequences and induction --------------------------------------

\* A number fits its four bytes.
LEMMA NumberBytes ==
    ASSUME NEW v, IsNumber(v)
    PROVE  /\ write_le32(v) \in Seq(Byte) /\ Len(write_le32(v)) = 4
           /\ write_le32(v)[1] + 256 * write_le32(v)[2] + 65536 * write_le32(v)[3]
                 + 16777216 * write_le32(v)[4] = v
<1> DEFINE q == v \div 256
           r == v \div 65536
           d == v \div 16777216
<1>1. /\ q \in Nat /\ v % 256 \in Nat /\ v % 256 < 256 /\ v = (256 * q) + (v % 256)
  BY DEF IsNumber
<1>2. /\ r \in Nat /\ v % 65536 \in Nat /\ v % 65536 < 65536 /\ v = (65536 * r) + (v % 65536)
  BY DEF IsNumber
<1>3. /\ d \in Nat /\ v % 16777216 \in Nat /\ v % 16777216 < 16777216
      /\ v = (16777216 * d) + (v % 16777216)
  BY DEF IsNumber
<1>4. q = (256 * r) + (q % 256) /\ q % 256 \in Nat /\ q % 256 < 256
  <2>1. \A x, y, z, w \in Nat :
          (w = (256 * x) + z /\ z < 256 /\ w = (65536 * y) + (v % 65536)) =>
          (x - 256 * y >= 0 /\ x - 256 * y < 256)
    BY <1>2
  <2>2. q - 256 * r >= 0 /\ q - 256 * r < 256
    BY <2>1, <1>1, <1>2 DEF IsNumber
  <2> HIDE DEF q, r
  <2> QED BY <2>2, <1>1, <1>2
<1>5. r = (256 * d) + (r % 256) /\ r % 256 \in Nat /\ r % 256 < 256
  <2> HIDE DEF r, d
  <2>1. r - 256 * d >= 0 /\ r - 256 * d < 256
    BY <1>2, <1>3
  <2> QED BY <2>1, <1>2, <1>3
<1>6. d < 256 /\ d % 256 = d
  <2>1. r < 65536
    BY DEF IsNumber
  <2> HIDE DEF d, r
  <2> QED BY <1>2, <1>3, <1>5, <2>1
<1> DEFINE a == v % 256
           b == q % 256
           c == r % 256
<1>7. write_le32(v) = <<a, b, c, d>>
  BY <1>6 DEF write_le32
<1> HIDE DEF q, r, d
<1>8. /\ q \in Nat /\ r \in Nat /\ d \in Nat /\ d < 256
  BY <1>1, <1>2, <1>3, <1>6
<1>9. a \in Nat /\ a < 256 /\ v = (256 * q) + a
  BY <1>1
<1>10. b \in Nat /\ b < 256 /\ q = (256 * r) + b
  BY <1>4
<1>11. c \in Nat /\ c < 256 /\ r = (256 * d) + c
  BY <1>5
<1> HIDE DEF a, b, c
<1>12. a + 256 * b + 65536 * c + 16777216 * d = v
  BY <1>8, <1>9, <1>10, <1>11
<1>13. a \in Byte /\ b \in Byte /\ c \in Byte /\ d \in Byte
  BY <1>8, <1>9, <1>10, <1>11 DEF Byte
<1> QED BY <1>7, <1>12, <1>13

\* The bytes alone
LEMMA NumberSize ==
    ASSUME NEW v, IsNumber(v)
    PROVE  write_le32(v) \in Seq(Byte) /\ Len(write_le32(v)) = 4
BY NumberBytes

\* A set of natural numbers has a least one.
LEMMA LeastNat ==
    ASSUME NEW T, T \subseteq Nat, T # {}
    PROVE  \E x \in T : \A y \in T : x <= y
<1>1. PICK x \in T : \A y \in T : ~(<<y, x>> \in OpToRel(<, Nat))
  BY NatLessThanWellFounded, WFMin, Zenon
<1>2. \A y \in T : ~(y < x)
  BY <1>1, Zenon DEF OpToRel
<1> QED BY <1>2

\* Induction up to n, on the set of the numbers for which the claim holds
LEMMA UpTo ==
    ASSUME NEW n \in Nat, NEW T, 0 \in T, \A i \in 1..n : i - 1 \in T => i \in T
    PROVE  \A i \in 0..n : i \in T
<1> DEFINE F == {i \in 0..n : i \notin T}
<1> SUFFICES ASSUME F # {} PROVE FALSE
  BY Zenon
<1>1. F \subseteq Nat
  OBVIOUS
<1>2. PICK m \in F : \A j \in F : m <= j
  BY <1>1, LeastNat, Zenon
<1>3. m \in 1..n /\ m - 1 \in 0..n /\ ~(m <= m - 1)
  <2>1. m \in 0..n /\ m # 0
    BY <1>2
  <2> QED BY <2>1
<1>4. m - 1 \in T
  BY <1>2, <1>3
<1> QED BY <1>2, <1>3, <1>4, Zenon

\* Joined sequences, byte by byte
LEMMA Joined ==
    ASSUME NEW s \in Seq(Byte), NEW t \in Seq(Byte)
    PROVE  /\ s \o t \in Seq(Byte) /\ Len(s \o t) = Len(s) + Len(t)
           /\ \A i \in 1..Len(s) : (s \o t)[i] = s[i]
           /\ \A i \in 1..Len(t) : (s \o t)[Len(s) + i] = t[i]
OBVIOUS

\* Concat's buffer, part by part
LEMMA ConcatSteps ==
    ASSUME NEW parts, NEW n \in Nat, Len(parts) = n
    PROVE  \E g : /\ g[0] = <<>> /\ \A i \in 1..n : g[i] = g[i - 1] \o parts[i]
                  /\ Concat(parts) = g[n]
<1> DEFINE Next1(g, i) == IF i = 0 THEN <<>> ELSE g[i - 1] \o parts[i]
           Run(m) == \E g : \A i \in 0..m : g[i] = Next1(g, i)
           T == {m \in 0..n : Run(m)}
<1>1. 0 \in T
  <2> DEFINE g == [i \in 0..0 |-> <<>>]
  <2>1. \A i \in 0..0 : g[i] = Next1(g, i)
    OBVIOUS
  <2>2. 0 \in 0..n
    OBVIOUS
  <2> HIDE DEF g
  <2> QED BY <2>1, <2>2, Zenon
<1>2. ASSUME NEW m \in 1..n, m - 1 \in T PROVE m \in T
  <2>1. PICK f : \A i \in 0..(m - 1) : f[i] = Next1(f, i)
    BY <1>2, Zenon
  <2> DEFINE g == [i \in 0..m |-> IF i = m THEN f[m - 1] \o parts[m] ELSE f[i]]
  <2>2. ASSUME NEW i \in 0..m PROVE g[i] = Next1(g, i)
    <3>1. /\ i # 0 => i - 1 \in 0..m /\ i - 1 # m
          /\ i # m => i \in 0..(m - 1)
          /\ m # 0
      OBVIOUS
    <3>2. i # 0 => g[i - 1] = f[i - 1]
      BY <3>1, Zenon
    <3>3. g[i] = IF i = m THEN f[m - 1] \o parts[m] ELSE f[i]
      BY Zenon
    <3> HIDE DEF g
    <3> QED BY <2>1, <3>1, <3>2, <3>3, Zenon
  <2>3. Run(m)
    <3> HIDE DEF g
    <3> QED BY <2>2, Zenon
  <2>4. m \in 0..n
    OBVIOUS
  <2> QED BY <2>3, <2>4, Zenon
<1>3. Run(n)
  <2>1. n \in 0..n
    OBVIOUS
  <2> HIDE DEF Run
  <2> DEFINE U == T
  <2>2. \A i \in 1..n : i - 1 \in U => i \in U
    BY <1>2, Zenon
  <2>3. 0 \in U
    BY <1>1, Zenon
  <2> HIDE DEF U
  <2>4. n \in U
    BY <2>1, <2>2, <2>3, UpTo, Zenon
  <2> QED BY <2>4, Zenon DEF U
<1>4. PICK f : \A i \in 0..n : f[i] = Next1(f, i)
  BY <1>3, Zenon
<1> DEFINE Def(g) == g = [i \in 0..n |-> Next1(g, i)]
           h == [i \in 0..n |-> f[i]]
           buf == CHOOSE g : Def(g)
<1>5. \A i \in 0..n : h[i] = Next1(h, i)
  <2>1. \A i \in 0..n : i # 0 => i - 1 \in 0..n
    OBVIOUS
  <2> QED BY <1>4, <2>1, Zenon
<1>6. Def(h)
  BY <1>5, Zenon
<1>7. Concat(parts) = buf[n]
  BY Zenon DEF Concat
<1>8. Def(buf)
  BY <1>6, Zenon
<1> HIDE DEF buf
<1>9. \A i \in 0..n : buf[i] = Next1(buf, i)
  BY <1>8, Zenon
<1>10. 0 \in 0..n /\ \A i \in 1..n : i \in 0..n /\ i # 0
  OBVIOUS
<1>11. buf[0] = <<>> /\ \A i \in 1..n : buf[i] = buf[i - 1] \o parts[i]
  BY <1>9, <1>10, Zenon
<1> QED BY <1>7, <1>11, Zenon

\* The parts lie in bytes one behind the other; off[i] is where part i ends.
Laid(bytes, parts, n, off) ==
    /\ bytes \in Seq(Byte) /\ off[0] = 0 /\ off[n] = Len(bytes)
    /\ \A i \in 0..n : off[i] \in Nat /\ off[i] <= Len(bytes)
    /\ \A i \in 1..n : /\ off[i] = off[i - 1] + Len(parts[i])
                       /\ \A j \in 1..Len(parts[i]) : bytes[off[i - 1] + j] = parts[i][j]

\* One more part
LEMMA LaidMore ==
    ASSUME NEW m \in Nat, m # 0, NEW parts, NEW off, NEW s, Laid(s, parts, m - 1, off),
           parts[m] \in Seq(Byte), off[m] = Len(s \o parts[m])
    PROVE  Laid(s \o parts[m], parts, m, off)
<1> DEFINE t == parts[m]
           b == s \o t
<1>0. s \in Seq(Byte) /\ t \in Seq(Byte)
  BY Zenon DEF Laid
<1>1. /\ b \in Seq(Byte) /\ Len(b) = Len(s) + Len(t)
      /\ \A i \in 1..Len(s) : b[i] = s[i]
      /\ \A i \in 1..Len(t) : b[Len(s) + i] = t[i]
  BY <1>0, Joined, Zenon
<1>2. Len(s) \in Nat /\ Len(t) \in Nat
  BY <1>0
<1>3. off[m - 1] = Len(s) /\ off[m] = Len(b) /\ off[0] = 0
  BY Zenon DEF Laid
<1> HIDE DEF b
<1>4. Len(s) <= Len(b) /\ Len(b) \in Nat
  BY <1>1, <1>2
<1>5. ASSUME NEW i \in 0..m PROVE off[i] \in Nat /\ off[i] <= Len(b)
  <2>1. CASE i = m
    BY <1>3, <1>4, <2>1
  <2>2. CASE i # m
    <3>1. i \in 0..(m - 1)
      BY <2>2
    <3>2. off[i] \in Nat /\ off[i] <= Len(s)
      BY <3>1, Zenon DEF Laid
    <3> QED BY <3>2, <1>4, <1>2
  <2> QED BY <2>1, <2>2, Zenon
<1>6. ASSUME NEW i \in 1..m
      PROVE  /\ off[i] = off[i - 1] + Len(parts[i])
             /\ \A j \in 1..Len(parts[i]) : b[off[i - 1] + j] = parts[i][j]
  <2>1. CASE i = m
    <3>1. off[i] = off[i - 1] + Len(parts[i])
      BY <1>1, <1>3, <2>1, Zenon
    <3> QED BY <1>1, <1>3, <2>1, <3>1, Zenon
  <2>2. CASE i # m
    <3>1. i \in 1..(m - 1) /\ i \in 0..(m - 1) /\ i - 1 \in 0..(m - 1)
      BY <2>2
    <3>2. /\ off[i] = off[i - 1] + Len(parts[i])
          /\ \A j \in 1..Len(parts[i]) : s[off[i - 1] + j] = parts[i][j]
      BY <3>1, Zenon DEF Laid
    <3>3. off[i] \in Nat /\ off[i - 1] \in Nat /\ off[i] <= Len(s)
      BY <3>1, Zenon DEF Laid
    <3>4. ASSUME NEW j \in 1..Len(parts[i]) PROVE off[i - 1] + j \in 1..Len(s)
      <4>1. \A x, y, z \in Nat, l, k \in Int :
               (x = y + l /\ x <= z /\ 1 <= k /\ k <= l) => y + k \in 1..z
        OBVIOUS
      <4>2. Len(parts[i]) = off[i] - off[i - 1] \/ Len(parts[i]) \notin Int
        BY <3>2, <3>3
      <4> QED BY <3>2, <3>3, <1>2, <4>1, <4>2
    <3> QED BY <3>2, <3>4, <1>1, Zenon
  <2> QED BY <2>1, <2>2, Zenon
<1>7. Laid(b, parts, m, off)
  BY <1>1, <1>3, <1>5, <1>6, Zenon DEF Laid
<1> QED BY <1>7, Zenon DEF b

\* Concat lays the parts one behind the other.
LEMMA ConcatLaid ==
    ASSUME NEW n \in Nat, NEW parts \in [1..n -> Seq(Byte)]
    PROVE  \E off : Laid(Concat(parts), parts, n, off)
<1>1. Len(parts) = n
  OBVIOUS
<1>2. PICK buf : /\ buf[0] = <<>> /\ \A i \in 1..n : buf[i] = buf[i - 1] \o parts[i]
                 /\ Concat(parts) = buf[n]
  BY <1>1, ConcatSteps, Zenon
<1> DEFINE off == [i \in 0..n |-> Len(buf[i])]
           T == {m \in 0..n : Laid(buf[m], parts, m, off)}
<1>3. 0 \in T
  <2>1. 0 \in 0..n /\ <<>> \in Seq(Byte) /\ Len(<<>>) = 0
        /\ (\A i \in 0..0 : i = 0) /\ (\A i \in 1..0 : FALSE)
    OBVIOUS
  <2>2. off[0] = Len(<<>>)
    BY <1>2, <2>1, Zenon
  <2> HIDE DEF off
  <2>3. Laid(<<>>, parts, 0, off)
    BY <2>1, <2>2 DEF Laid
  <2> QED BY <1>2, <2>1, <2>3, Zenon
<1>4. ASSUME NEW m \in 1..n, m - 1 \in T PROVE m \in T
  <2>1. m \in 0..n /\ m \in Nat /\ m # 0 /\ parts[m] \in Seq(Byte)
    OBVIOUS
  <2>2. buf[m] = buf[m - 1] \o parts[m]
    BY <1>2, Zenon
  <2>3. off[m] = Len(buf[m - 1] \o parts[m])
    BY <2>1, <2>2, Zenon
  <2>4. Laid(buf[m - 1], parts, m - 1, off)
    BY <1>4, Zenon
  <2> HIDE DEF off
  <2>5. Laid(buf[m - 1] \o parts[m], parts, m, off)
    BY <2>1, <2>3, <2>4, LaidMore, Zenon
  <2> QED BY <2>1, <2>2, <2>5, Zenon
<1> HIDE DEF T, off
<1>5. n \in 0..n /\ \A i \in 1..n : i - 1 \in T => i \in T
  <2>1. n \in 0..n
    OBVIOUS
  <2> QED BY <1>4, <2>1, Zenon
<1>6. n \in T
  BY <1>3, <1>5, UpTo, Zenon
<1> QED BY <1>2, <1>6, Zenon DEF T

-----------------------------------------------------------------------------
\* ---- One field: what is written, and what is read of it ---------------------

\* What is written for each kind of field
LEMMA Written ==
    ASSUME NEW v
    PROVE  /\ WriteAny(U8, v) = <<v>>
           /\ WriteAny(Flag, v) = <<IF v THEN 1 ELSE 0>>
           /\ WriteAny(U32, v) = write_le32(v)
           /\ WriteAny(Str, v) = write_le32(Len(v)) \o v
           /\ WriteAny(Items, v) =
                write_le32(Len(v)) \o Concat([i \in DOMAIN v |-> write_le32(v[i])])
           /\ \A list \in {Objects, Members} : WriteAny(list, v) = write_le32(Len(v)) \o
                Concat([i \in DOMAIN v |-> WriteFields(Element(list).write, v[i])])
<1>1. \A kind : kind \notin {Objects, Members} => WriteAny(kind, v) = WriteField(kind, v)
  BY Zenon DEF WriteAny
<1>2. \A list \in {Objects, Members} : WriteAny(list, v) = WriteList(list, v)
  BY Zenon DEF WriteAny
<1>3. \A kind \in {U8, Flag, U32, Str, Items} : kind \notin {Objects, Members}
  BY DEF U8, Flag, U32, Str, Items, Objects, Members
<1>4. WriteField(U8, v) = <<v>>
  BY DEF WriteField, U8, Flag, U32, Str, Items
<1>5. WriteField(Flag, v) = <<IF v THEN 1 ELSE 0>>
  BY DEF WriteField, U8, Flag, U32, Str, Items
<1>6. WriteField(U32, v) = write_le32(v)
  BY DEF WriteField, U8, Flag, U32, Str, Items
<1>7. WriteField(Str, v) = write_lp_string(v)
  BY DEF WriteField, U8, Flag, U32, Str, Items
<1>8. WriteField(Items, v) =
        write_le32(Len(v)) \o Concat([i \in DOMAIN v |-> write_le32(v[i])])
  BY DEF WriteField, U8, Flag, U32, Str, Items
<1> QED BY <1>1, <1>2, <1>3, <1>4, <1>5, <1>6, <1>7, <1>8, Zenon DEF WriteList, write_lp_string

\* What is done to read it
LEMMA Taken ==
    ASSUME NEW st
    PROVE  /\ ReadAny(st, U8) = Store(st, ByteAt(st.p), 1)
           /\ ReadAny(st, Flag) = Store(st, ByteAt(st.p) # 0, 1)
           /\ ReadAny(st, U32) = Store(st, read_le32(st.p), 4)
           /\ ReadAny(st, Str) = read_lp_string(st)
           /\ ReadAny(st, Items) = ReadItems(st)
           /\ \A list \in {Objects, Members} : ReadAny(st, list) = ReadList(st, list)
BY DEF ReadAny, ReadField, U8, U8Twice, Flag, U32, Str, Items, Objects, Members

\* What it may be
LEMMA Allowed ==
    ASSUME NEW v
    PROVE  /\ IsField(U8, v) <=> v \in Byte
           /\ IsField(Flag, v) <=> v \in BOOLEAN
           /\ IsField(U32, v) <=> IsNumber(v)
           /\ IsField(Str, v) <=> v \in Seq(Byte) /\ IsNumber(Len(v))
           /\ IsField(Items, v) <=>
                v \in Seq(Nat) /\ IsNumber(Len(v)) /\ \A i \in DOMAIN v : IsNumber(v[i])
BY DEF IsField, U8, Flag, U32, Str, Items, Objects, Members

\* A number is read where it was written.
LEMMA NumberRead ==
    ASSUME NEW v, IsNumber(v), NEW p \in Nat, wire \in Seq(Byte), p + 4 <= Len(wire),
           \A j \in 1..4 : wire[p + j] = write_le32(v)[j]
    PROVE  read_le32(p) = v
<1>1. ByteAt(p) = write_le32(v)[1] /\ ByteAt(p + 1) = write_le32(v)[2]
      /\ ByteAt(p + 2) = write_le32(v)[3] /\ ByteAt(p + 3) = write_le32(v)[4]
  BY DEF ByteAt
<1> QED BY <1>1, NumberBytes DEF read_le32

\* The numbers of a list, four bytes each
LEMMA ItemsBytes ==
    ASSUME NEW v \in Seq(Nat), \A i \in DOMAIN v : IsNumber(v[i])
    PROVE  LET F == Concat([i \in DOMAIN v |-> write_le32(v[i])])
           IN  /\ F \in Seq(Byte) /\ Len(F) = 4 * Len(v)
               /\ \A k \in 1..Len(v), j \in 1..4 : F[4 * (k - 1) + j] = write_le32(v[k])[j]
<1> DEFINE parts == [i \in DOMAIN v |-> write_le32(v[i])]
           F == Concat(parts)
           n == Len(v)
<1>1. n \in Nat /\ DOMAIN v = 1..n
  OBVIOUS
<1>2. \A i \in 1..n : /\ parts[i] = write_le32(v[i])
                      /\ parts[i] \in Seq(Byte) /\ Len(parts[i]) = 4
  BY <1>1, NumberSize, Zenon
<1>3. parts = [i \in 1..n |-> parts[i]]
  BY <1>1, Zenon
<1> HIDE DEF parts, n, F
<1>4. parts \in [1..n -> Seq(Byte)]
  BY <1>2, <1>3, Zenon
<1>5. PICK off : Laid(F, parts, n, off)
  BY <1>1, <1>4, ConcatLaid, Zenon DEF F
<1> DEFINE T == {i \in 0..n : off[i] = 4 * i}
<1>6. 0 \in T
  <2>1. off[0] = 0
    BY <1>5, Zenon DEF Laid
  <2> QED BY <1>1, <2>1
<1>7. ASSUME NEW i \in 1..n, i - 1 \in T PROVE i \in T
  <2>1. off[i] = off[i - 1] + Len(parts[i]) /\ Len(parts[i]) = 4
    BY <1>2, <1>5, Zenon DEF Laid
  <2> QED BY <1>1, <1>7, <2>1
<1> HIDE DEF T
<1>8. \A i \in 0..n : i \in T
  BY <1>1, <1>6, <1>7, UpTo, Zenon
<1>9. \A i \in 0..n : off[i] = 4 * i
  BY <1>8, Zenon DEF T
<1>10. F \in Seq(Byte) /\ off[n] = Len(F)
  BY <1>5, Zenon DEF Laid
<1>11. n \in 0..n /\ \A k \in 1..n : k - 1 \in 0..n
  BY <1>1
<1>12. Len(F) = 4 * n
  BY <1>9, <1>10, <1>11, Zenon
<1>13. ASSUME NEW k \in 1..n, NEW j \in 1..4 PROVE F[4 * (k - 1) + j] = write_le32(v[k])[j]
  <2>1. F[off[k - 1] + j] = parts[k][j]
    BY <1>2, <1>5, Zenon DEF Laid
  <2> QED BY <1>2, <1>9, <1>11, <2>1, Zenon
<1> QED BY <1>10, <1>12, <1>13, Zenon DEF F, n, parts

\* A field that parse() can give back: a list of structs comes back only if it is empty.
Plain(kind, v) ==
    \/ kind \in {U8, Flag, U32, Str, Items} /\ IsField(kind, v)
    \/ kind \in {Objects, Members} /\ v = <<>>

\* The bytes it takes at least
MinSize(kind) == IF kind \in {U8, Flag} THEN 1 ELSE 4

\* Nothing is written for the elements of an empty list.
LEMMA EmptyList ==
    ASSUME NEW list \in {Objects, Members}
    PROVE  WriteAny(list, <<>>) = write_le32(0) /\ IsNumber(0)
<1> DEFINE parts == [i \in DOMAIN <<>> |-> WriteFields(Element(list).write, <<>>[i])]
<1>1. WriteAny(list, <<>>) = write_le32(Len(<<>>)) \o Concat(parts)
  BY Written, Zenon
<1>2. parts = <<>> /\ Len(<<>>) = 0
  OBVIOUS
<1> HIDE DEF parts
<1>3. Concat(parts) = <<>>
  <2>1. 0 \in Nat /\ Len(parts) = 0
    BY <1>2
  <2> QED BY <2>1, ConcatSteps, Zenon
<1>4. IsNumber(0)
  <2>1. 0 \in Nat /\ 0 \div 65536 = 0
    OBVIOUS
  <2> QED BY <2>1 DEF IsNumber
<1>5. write_le32(0) \in Seq(Byte)
  BY <1>4, NumberSize, Zenon
<1>6. write_le32(0) \o <<>> = write_le32(0)
  BY <1>5
<1> QED BY <1>1, <1>2, <1>3, <1>4, <1>6, Zenon

\* How many bytes a field takes
LEMMA FieldBytes ==
    ASSUME NEW kind, NEW v, Plain(kind, v)
    PROVE  /\ WriteAny(kind, v) \in Seq(Byte)
           /\ Len(WriteAny(kind, v)) >= MinSize(kind)
           /\ kind \in {U8, Flag, U32} => Len(WriteAny(kind, v)) = MinSize(kind)
           /\ kind = Str => Len(WriteAny(kind, v)) = 4 + Len(v)
           /\ kind = Items => Len(WriteAny(kind, v)) = 4 + 4 * Len(v)
<1>1. MinSize(U8) = 1 /\ MinSize(Flag) = 1 /\ MinSize(U32) = 4 /\ MinSize(Str) = 4
      /\ MinSize(Items) = 4 /\ MinSize(Objects) = 4 /\ MinSize(Members) = 4
  BY DEF MinSize, U8, Flag, U32, Str, Items, Objects, Members
<1>2. /\ U8 \notin {Str, Items} /\ Flag \notin {Str, Items} /\ U32 \notin {Str, Items}
      /\ Str \notin {U8, Flag, U32, Items} /\ Items \notin {U8, Flag, U32, Str}
      /\ \A k \in {Objects, Members} : k \notin {U8, Flag, U32, Str, Items}
  BY DEF U8, Flag, U32, Str, Items, Objects, Members
<1>3. CASE kind = U8
  <2>1. v \in Byte /\ WriteAny(kind, v) = <<v>>
    BY <1>2, <1>3, Allowed, Written, Zenon DEF Plain
  <2>2. WriteAny(kind, v) \in Seq(Byte) /\ Len(WriteAny(kind, v)) = 1
    BY <2>1
  <2> QED BY <1>1, <1>2, <1>3, <2>2
<1>4. CASE kind = Flag
  <2>1. WriteAny(kind, v) = <<IF v THEN 1 ELSE 0>>
    BY <1>4, Written, Zenon
  <2>2. (IF v THEN 1 ELSE 0) \in Byte
    BY DEF Byte
  <2>3. WriteAny(kind, v) \in Seq(Byte) /\ Len(WriteAny(kind, v)) = 1
    BY <2>1, <2>2
  <2> QED BY <1>1, <1>2, <1>4, <2>3
<1>5. CASE kind = U32
  <2>1. IsNumber(v) /\ WriteAny(kind, v) = write_le32(v)
    BY <1>2, <1>5, Allowed, Written, Zenon DEF Plain
  <2>2. WriteAny(kind, v) \in Seq(Byte) /\ Len(WriteAny(kind, v)) = 4
    BY <2>1, NumberSize, Zenon
  <2> QED BY <1>1, <1>2, <1>5, <2>2
<1>6. CASE kind = Str
  <2>1. v \in Seq(Byte) /\ IsNumber(Len(v)) /\ WriteAny(kind, v) = write_le32(Len(v)) \o v
    BY <1>2, <1>6, Allowed, Written, Zenon DEF Plain
  <2>2. write_le32(Len(v)) \in Seq(Byte) /\ Len(write_le32(Len(v))) = 4
    BY <2>1, NumberSize, Zenon
  <2>3. WriteAny(kind, v) \in Seq(Byte) /\ Len(WriteAny(kind, v)) = 4 + Len(v)
    <3> DEFINE w == write_le32(Len(v))
    <3>1. w \in Seq(Byte) /\ Len(w) = 4 /\ WriteAny(kind, v) = w \o v
      BY <2>1, <2>2, Zenon
    <3> HIDE DEF w
    <3>2. w \o v \in Seq(Byte) /\ Len(w \o v) = Len(w) + Len(v)
      BY <2>1, <3>1, Joined, Zenon
    <3> QED BY <3>1, <3>2, Zenon
  <2>4. Len(v) \in Nat
    BY <2>1
  <2> QED BY <1>1, <1>2, <1>6, <2>3, <2>4
<1>7. CASE kind = Items
  <2> DEFINE F == Concat([i \in DOMAIN v |-> write_le32(v[i])])
  <2>1. /\ v \in Seq(Nat) /\ IsNumber(Len(v)) /\ \A i \in DOMAIN v : IsNumber(v[i])
        /\ WriteAny(kind, v) = write_le32(Len(v)) \o F
    BY <1>2, <1>7, Allowed, Written, Zenon DEF Plain
  <2>2. write_le32(Len(v)) \in Seq(Byte) /\ Len(write_le32(Len(v))) = 4
    BY <2>1, NumberSize, Zenon
  <2>3. F \in Seq(Byte) /\ Len(F) = 4 * Len(v)
    BY <2>1, ItemsBytes, Zenon
  <2> HIDE DEF F
  <2>4. WriteAny(kind, v) \in Seq(Byte) /\ Len(WriteAny(kind, v)) = 4 + 4 * Len(v)
    <3> DEFINE w == write_le32(Len(v))
    <3>1. w \in Seq(Byte) /\ Len(w) = 4 /\ WriteAny(kind, v) = w \o F
      BY <2>1, <2>2, Zenon
    <3> HIDE DEF w
    <3>2. w \o F \in Seq(Byte) /\ Len(w \o F) = Len(w) + Len(F)
      BY <2>3, <3>1, Joined, Zenon
    <3> QED BY <2>3, <3>1, <3>2, Zenon
  <2>5. Len(v) \in Nat
    BY <2>1
  <2> QED BY <1>1, <1>2, <1>7, <2>4, <2>5
<1>8. CASE kind \in {Objects, Members}
  <2>1. WriteAny(kind, v) = write_le32(0) /\ IsNumber(0)
    BY <1>2, <1>8, EmptyList, Zenon DEF Plain
  <2>2. WriteAny(kind, v) \in Seq(Byte) /\ Len(WriteAny(kind, v)) = 4
    BY <2>1, NumberSize, Zenon
  <2> QED BY <1>1, <1>2, <1>8, <2>2
<1> QED BY <1>3, <1>4, <1>5, <1>6, <1>7, <1>8, Zenon DEF Plain

\* A string or a list begins with its length; what follows it
LEMMA FieldParts ==
    ASSUME NEW kind, NEW v, Plain(kind, v), kind \notin {U8, Flag, U32}
    PROVE  /\ IsNumber(Len(v))
           /\ \A j \in 1..4 : WriteAny(kind, v)[j] = write_le32(Len(v))[j]
           /\ kind = Str =>
                v \in Seq(Byte) /\ \A i \in 1..Len(v) : WriteAny(kind, v)[4 + i] = v[i]
           /\ kind = Items => /\ v \in Seq(Nat)
                              /\ \A k \in 1..Len(v) : IsNumber(v[k]) /\ \A j \in 1..4 :
                                    WriteAny(kind, v)[4 * k + j] = write_le32(v[k])[j]
<1>1. /\ Str \notin {U8, Flag, U32, Items, Objects, Members}
      /\ Items \notin {U8, Flag, U32, Str, Objects, Members}
  BY DEF U8, Flag, U32, Str, Items, Objects, Members
<1> DEFINE w == write_le32(Len(v))
<1>2. CASE kind = Str
  <2>1. v \in Seq(Byte) /\ IsNumber(Len(v)) /\ WriteAny(kind, v) = w \o v
    BY <1>1, <1>2, Allowed, Written, Zenon DEF Plain
  <2>2. w \in Seq(Byte) /\ Len(w) = 4
    BY <2>1, NumberSize, Zenon
  <2> HIDE DEF w
  <2>3. /\ \A i \in 1..Len(w) : (w \o v)[i] = w[i]
        /\ \A i \in 1..Len(v) : (w \o v)[Len(w) + i] = v[i]
    BY <2>1, <2>2, Joined, Zenon
  <2>4. /\ \A i \in 1..4 : WriteAny(kind, v)[i] = w[i]
        /\ \A i \in 1..Len(v) : WriteAny(kind, v)[4 + i] = v[i]
    BY <2>1, <2>2, <2>3, Zenon
  <2> QED BY <1>1, <1>2, <2>1, <2>4, Zenon DEF w
<1>3. CASE kind = Items
  <2> DEFINE F == Concat([i \in DOMAIN v |-> write_le32(v[i])])
  <2>1. /\ v \in Seq(Nat) /\ IsNumber(Len(v)) /\ \A i \in DOMAIN v : IsNumber(v[i])
        /\ WriteAny(kind, v) = w \o F
    BY <1>1, <1>3, Allowed, Written, Zenon DEF Plain
  <2>2. w \in Seq(Byte) /\ Len(w) = 4
    BY <2>1, NumberSize, Zenon
  <2>3. /\ F \in Seq(Byte) /\ Len(F) = 4 * Len(v)
        /\ \A k \in 1..Len(v), j \in 1..4 : F[4 * (k - 1) + j] = write_le32(v[k])[j]
    BY <2>1, ItemsBytes, Zenon
  <2> HIDE DEF w, F
  <2>4. /\ \A i \in 1..Len(w) : (w \o F)[i] = w[i]
        /\ \A i \in 1..Len(F) : (w \o F)[Len(w) + i] = F[i]
    BY <2>2, <2>3, Joined, Zenon
  <2>5. /\ \A i \in 1..4 : WriteAny(kind, v)[i] = w[i]
        /\ \A i \in 1..(4 * Len(v)) : WriteAny(kind, v)[4 + i] = F[i]
    BY <2>1, <2>2, <2>3, <2>4, Zenon
  <2>6. ASSUME NEW k \in 1..Len(v)
        PROVE  /\ IsNumber(v[k])
               /\ \A j \in 1..4 : WriteAny(kind, v)[4 * k + j] = write_le32(v[k])[j]
    <3>1. k \in DOMAIN v
      BY <2>1
    <3>2. ASSUME NEW j \in 1..4 PROVE WriteAny(kind, v)[4 * k + j] = write_le32(v[k])[j]
      <4>1. Len(v) \in Nat
        BY <2>1
      <4>2. 4 * (k - 1) + j \in 1..(4 * Len(v)) /\ 4 + (4 * (k - 1) + j) = 4 * k + j
        BY <4>1
      <4>3. WriteAny(kind, v)[4 + (4 * (k - 1) + j)] = F[4 * (k - 1) + j]
        BY <2>5, <4>2, Zenon
      <4> QED BY <2>3, <4>2, <4>3, Zenon
    <3> QED BY <2>1, <3>1, <3>2, Zenon
  <2> QED BY <1>1, <1>3, <2>1, <2>5, <2>6, Zenon DEF w
<1>4. CASE kind \in {Objects, Members}
  <2>1. v = <<>>
    BY <1>4, Zenon DEF Plain, U8, Flag, U32, Str, Items, Objects, Members
  <2>2. Len(v) = 0
    BY <2>1
  <2>3. WriteAny(kind, v) = write_le32(0) /\ IsNumber(0)
    BY <1>4, <2>1, EmptyList, Zenon
  <2> QED BY <1>1, <1>4, <2>2, <2>3, Zenon
<1> QED BY <1>2, <1>3, <1>4, Zenon DEF Plain

\* What has arrived of b lies at p.
Sits(b, p) == \A j \in 1..Len(b) : p + j <= Len(wire) => wire[p + j] = b[j]

\* The length of a string or list is read as it was written.
LEMMA CountRead ==
    ASSUME wire \in Seq(Byte), NEW p \in Nat, p + 4 <= Len(wire),
           NEW kind, NEW v, Plain(kind, v), kind \notin {U8, Flag, U32}, Sits(WriteAny(kind, v), p)
    PROVE  read_le32(p) = Len(v)
<1> DEFINE b == WriteAny(kind, v)
<1>1. IsNumber(Len(v)) /\ \A j \in 1..4 : b[j] = write_le32(Len(v))[j]
  BY FieldParts
<1>2. Len(b) \in Nat /\ Len(b) >= 4
  <2>1. MinSize(kind) = 4
    BY DEF MinSize, U8, Flag, U32
  <2>2. b \in Seq(Byte) /\ Len(b) >= MinSize(kind)
    BY FieldBytes, Zenon
  <2> HIDE DEF b
  <2> QED BY <2>1, <2>2
<1> HIDE DEF b
<1>3. \A j \in 1..4 : j \in 1..Len(b) /\ p + j <= Len(wire)
  BY <1>2
<1>4. \A j \in 1..4 : wire[p + j] = write_le32(Len(v))[j]
  BY <1>1, <1>3, Zenon DEF Sits, b
<1> QED BY <1>1, <1>4, NumberRead

\* A field that has arrived is read as it was written, and the cursor goes to its end.
LEMMA FieldRead ==
    ASSUME wire \in Seq(Byte), NEW st, st.p \in Nat, NEW kind, NEW v, Plain(kind, v),
           Sits(WriteAny(kind, v), st.p), st.p + Len(WriteAny(kind, v)) <= Len(wire)
    PROVE  ReadAny(st, kind) = Store(st, v, Len(WriteAny(kind, v)))
<1> DEFINE b == WriteAny(kind, v)
           p == st.p
<1>1. /\ b \in Seq(Byte) /\ Len(b) >= MinSize(kind)
      /\ kind \in {U8, Flag, U32} => Len(b) = MinSize(kind)
      /\ kind = Str => Len(b) = 4 + Len(v)
      /\ kind = Items => Len(b) = 4 + 4 * Len(v)
  BY FieldBytes, Zenon
<1>2. /\ MinSize(U8) = 1 /\ MinSize(Flag) = 1 /\ MinSize(U32) = 4
      /\ Str \notin {U8, Flag, U32, Items, Objects, Members}
      /\ Items \notin {U8, Flag, U32, Str, Objects, Members}
      /\ \A list \in {Objects, Members} : list \notin {U8, Flag, U32, Str, Items}
      /\ \A k \in {U8, Flag, U32} : k \notin {Str, Items, Objects, Members}
      /\ U8 # Flag /\ U8 # U32 /\ Flag # U32
  BY DEF MinSize, U8, Flag, U32, Str, Items, Objects, Members
<1> HIDE DEF b, p
<1>3. p \in Nat /\ Len(b) \in Nat /\ Len(wire) \in Nat /\ p + Len(b) <= Len(wire)
  BY <1>1 DEF b, p
<1>4. ASSUME NEW j \in 1..Len(b) PROVE wire[p + j] = b[j] /\ ByteAt((p + j) - 1) = b[j]
  <2>1. p + j <= Len(wire) /\ (p + j) - 1 < Len(wire) /\ ((p + j) - 1) + 1 = p + j
    BY <1>3
  <2>2. wire[p + j] = b[j]
    BY <2>1, Zenon DEF Sits, b, p
  <2> QED BY <2>1, <2>2, Zenon DEF ByteAt
<1>5. CASE kind = U8
  <2>1. b = <<v>> /\ ReadAny(st, kind) = Store(st, ByteAt(p), 1)
    BY <1>5, Written, Taken, Zenon DEF b, p
  <2>2. Len(b) = 1 /\ b[1] = v
    BY <2>1
  <2>3. 1 \in 1..Len(b) /\ (p + 1) - 1 = p
    BY <1>3, <2>2
  <2>4. ByteAt(p) = v
    BY <1>4, <2>2, <2>3, Zenon
  <2> QED BY <2>1, <2>2, <2>4, Zenon DEF b
<1>6. CASE kind = Flag
  <2>1. /\ b = <<IF v THEN 1 ELSE 0>> /\ v \in BOOLEAN
        /\ ReadAny(st, kind) = Store(st, ByteAt(p) # 0, 1)
    BY <1>2, <1>6, Written, Taken, Allowed, Zenon DEF b, p, Plain
  <2>2. Len(b) = 1 /\ b[1] = IF v THEN 1 ELSE 0
    BY <2>1
  <2>3. 1 \in 1..Len(b) /\ (p + 1) - 1 = p /\ 1 # 0
    BY <1>3, <2>2
  <2>4. ByteAt(p) = IF v THEN 1 ELSE 0
    BY <1>4, <2>2, <2>3, Zenon
  <2>5. (ByteAt(p) # 0) = v
    BY <2>1, <2>3, <2>4, Zenon
  <2> QED BY <2>1, <2>2, <2>5, Zenon DEF b
<1>7. CASE kind = U32
  <2>1. b = write_le32(v) /\ ReadAny(st, kind) = Store(st, read_le32(p), 4) /\ IsNumber(v)
    BY <1>2, <1>7, Written, Taken, Allowed, Zenon DEF b, p, Plain
  <2>2. Len(b) = 4
    BY <1>1, <1>2, <1>7, Zenon
  <2>3. \A j \in 1..4 : wire[p + j] = write_le32(v)[j]
    BY <1>4, <2>1, <2>2, Zenon
  <2>4. read_le32(p) = v
    BY <1>3, <2>1, <2>2, <2>3, NumberRead
  <2> QED BY <2>1, <2>2, <2>4, Zenon DEF b
<1>8. ASSUME kind \notin {U8, Flag, U32} PROVE read_le32(p) = Len(v) /\ p + 4 <= Len(wire)
  <2>1. MinSize(kind) = 4
    BY <1>8 DEF MinSize
  <2>2. p + 4 <= Len(wire)
    BY <1>1, <1>3, <2>1
  <2>3. read_le32(p) = Len(v)
    BY <1>3, <1>8, <2>2, CountRead, Zenon DEF p
  <2> QED BY <2>2, <2>3, Zenon
<1>9. CASE kind = Str
  <2>1. read_le32(p) = Len(v) /\ p + 4 <= Len(wire) /\ Len(b) = 4 + Len(v)
    BY <1>1, <1>2, <1>8, <1>9, Zenon
  <2>2. v \in Seq(Byte) /\ \A i \in 1..Len(v) : b[4 + i] = v[i]
    BY <1>2, <1>9, FieldParts DEF b
  <2>3. Len(v) \in Nat /\ v = [i \in 1..Len(v) |-> v[i]]
    BY <2>2
  <2>4. ~(Len(wire) - p < 4 \/ Len(v) > Len(wire) - (p + 4))
    BY <1>3, <2>1, <2>3
  <2>5. ASSUME NEW i \in 1..Len(v) PROVE ByteAt(p + 3 + i) = v[i]
    <3>1. 4 + i \in 1..Len(b) /\ (p + (4 + i)) - 1 = p + 3 + i
      BY <1>3, <2>1, <2>3
    <3>2. ByteAt((p + (4 + i)) - 1) = b[4 + i]
      BY <1>4, <3>1, Zenon
    <3> QED BY <2>2, <3>1, <3>2, Zenon
  <2>6. [i \in 1..Len(v) |-> ByteAt(p + 3 + i)] = v
    BY <2>3, <2>5, Zenon
  <2>7. ReadAny(st, kind) = read_lp_string(st)
    BY <1>9, Taken, Zenon
  <2>8. read_lp_string(st) = Store(st, v, 4 + Len(v))
    BY <2>1, <2>4, <2>6, Zenon DEF read_lp_string, p
  <2> QED BY <2>1, <2>7, <2>8, Zenon DEF b
<1>10. CASE kind = Items
  <2>1. read_le32(p) = Len(v) /\ p + 4 <= Len(wire) /\ Len(b) = 4 + 4 * Len(v)
    BY <1>1, <1>2, <1>8, <1>10, Zenon
  <2>2. v \in Seq(Nat) /\ \A k \in 1..Len(v) : IsNumber(v[k]) /\ \A j \in 1..4 :
                                    b[4 * k + j] = write_le32(v[k])[j]
    BY <1>2, <1>10, FieldParts DEF b
  <2>3. Len(v) \in Nat /\ v = [i \in 1..Len(v) |-> v[i]]
    BY <2>2
  <2>4. ~(Len(v) > 0 /\ p + 4 + 4 * Len(v) > Len(wire))
    BY <1>3, <2>1, <2>3
  <2>5. ASSUME NEW k \in 1..Len(v) PROVE read_le32(p + 4 * k) = v[k]
    <3>1. /\ p + 4 * k \in Nat /\ (p + 4 * k) + 4 <= Len(wire)
          /\ \A j \in 1..4 : 4 * k + j \in 1..Len(b) /\ p + (4 * k + j) = (p + 4 * k) + j
      <4> DEFINE Fits(x, m, w, i) ==
                   /\ x + 4 * i \in Nat /\ (x + 4 * i) + 4 <= w
                   /\ \A j \in 1..4 : 4 * i + j \in 1..m /\ x + (4 * i + j) = (x + 4 * i) + j
      <4>1. \A x, l, m, w \in Nat : \A i \in 1..l :
              (m = 4 + 4 * l /\ x + m <= w) => Fits(x, m, w, i)
        OBVIOUS
      <4> HIDE DEF Fits
      <4>2. Fits(p, Len(b), Len(wire), k)
        BY <1>3, <2>1, <2>3, <4>1, Zenon
      <4> QED BY <4>2, Zenon DEF Fits
    <3>2. ASSUME NEW j \in 1..4 PROVE wire[(p + 4 * k) + j] = write_le32(v[k])[j]
      <4>1. wire[p + (4 * k + j)] = b[4 * k + j]
        BY <1>4, <3>1, Zenon
      <4> QED BY <2>2, <3>1, <4>1, Zenon
    <3>3. IsNumber(v[k])
      BY <2>2, Zenon
    <3> DEFINE q == p + 4 * k
               u == v[k]
    <3>4. /\ q \in Nat /\ q + 4 <= Len(wire) /\ IsNumber(u)
          /\ \A j \in 1..4 : wire[q + j] = write_le32(u)[j]
      BY <3>1, <3>2, <3>3, Zenon
    <3> HIDE DEF q, u
    <3>5. read_le32(q) = u
      BY <3>4, NumberRead
    <3> QED BY <3>5, Zenon DEF q, u
  <2>6. [i \in 1..Len(v) |-> read_le32(p + 4 * i)] = v
    BY <2>3, <2>5, Zenon
  <2>7. ReadAny(st, kind) = ReadItems(st)
    BY <1>10, Taken, Zenon
  <2>8. ReadItems(st) = Store(st, v, 4 + 4 * Len(v))
    BY <2>1, <2>4, <2>6, Zenon DEF ReadItems, p
  <2> QED BY <2>1, <2>7, <2>8, Zenon DEF b
<1>11. CASE kind \in {Objects, Members}
  <2>1. v = <<>> /\ kind \notin {U8, Flag, U32}
    BY <1>2, <1>11, Zenon DEF Plain
  <2>2. read_le32(p) = 0
    <3>1. read_le32(p) = Len(v)
      BY <1>8, <2>1, Zenon
    <3> QED BY <2>1, <3>1
  <2>3. Len(b) = 4
    BY <1>11, <2>1, EmptyList, NumberSize DEF b
  <2>4. ReadAny(st, kind) = ReadList(st, kind)
    BY <1>11, Taken, Zenon
  <2>5. ~(0 > 0)
    OBVIOUS
  <2>6. \A e : [i \in 1..0 |-> e] = <<>>
    OBVIOUS
  <2>7. ReadList(st, kind) = Store(st, <<>>, 4)
    BY <2>2, <2>5, <2>6, Zenon DEF ReadList, p
  <2> QED BY <2>1, <2>3, <2>4, <2>7, Zenon DEF b
<1> QED BY <1>5, <1>6, <1>7, <1>9, <1>10, <1>11, Zenon DEF Plain

\* A string or a list of numbers that has not arrived to its end is refused.
LEMMA FieldRefused ==
    ASSUME wire \in Seq(Byte), NEW st, st.p \in Nat, NEW kind \in {Str, Items}, NEW v,
           Plain(kind, v), Sits(WriteAny(kind, v), st.p), ~(st.p + Len(WriteAny(kind, v)) <= Len(wire)),
           kind = Items => st.p + 4 <= Len(wire)
    PROVE  ReadAny(st, kind) = Refuse(st)
<1> DEFINE p == st.p
<1>1. /\ Len(wire) \in Nat /\ Len(v) \in Nat /\ kind \notin {U8, Flag, U32} /\ Str # Items
  <2>1. kind \notin {U8, Flag, U32} /\ Str # Items
    BY DEF U8, Flag, U32, Str, Items
  <2>2. IsNumber(Len(v))
    BY <2>1, FieldParts
  <2> QED BY <2>1, <2>2 DEF IsNumber
<1>2. /\ kind = Str => Len(WriteAny(kind, v)) = 4 + Len(v)
      /\ kind = Items => Len(WriteAny(kind, v)) = 4 + 4 * Len(v)
  BY FieldBytes, Zenon
<1>3. p + 4 <= Len(wire) => read_le32(p) = Len(v)
  BY <1>1, CountRead, Zenon
<1>4. CASE kind = Str
  <2>1. ~(p + (4 + Len(v)) <= Len(wire))
    BY <1>2, <1>4, Zenon
  <2> HIDE DEF p
  <2>2. p \in Nat
    BY Zenon DEF p
  <2>3. Len(wire) - p < 4 \/ p + 4 <= Len(wire)
    BY <1>1, <2>2
  <2>4. Len(v) > Len(wire) - (p + 4)
    BY <1>1, <2>1, <2>2
  <2>5. ReadAny(st, kind) = read_lp_string(st)
    BY <1>4, Taken, Zenon
  <2>6. read_lp_string(st) = Refuse(st)
    BY <1>3, <2>3, <2>4, Zenon DEF read_lp_string, p
  <2> QED BY <2>5, <2>6, Zenon
<1>5. CASE kind = Items
  <2>1. ~(p + (4 + 4 * Len(v)) <= Len(wire)) /\ p + 4 <= Len(wire)
    BY <1>2, <1>5, Zenon
  <2> HIDE DEF p
  <2>2. p \in Nat
    BY Zenon DEF p
  <2>3. Len(v) > 0 /\ p + 4 + 4 * Len(v) > Len(wire)
    BY <1>1, <2>1, <2>2
  <2>4. ReadAny(st, kind) = ReadItems(st)
    BY <1>5, Taken, Zenon
  <2>5. ReadItems(st) = Refuse(st)
    BY <1>3, <2>1, <2>3, Zenon DEF ReadItems, p
  <2> QED BY <2>4, <2>5, Zenon
<1> QED BY <1>4, <1>5, Zenon

-----------------------------------------------------------------------------
\* ---- parse(), field by field ------------------------------------------------

\* g[i] is the cursor after the first i fields of struct s.
Steps(s, g) ==
    g[0] = Start(0) /\ \A i \in 1..Len(s.read) : g[i] = ReadStep(g[i - 1], s.read[i], s.check[i])

\* parse() goes through the fields.
LEMMA ParseSteps ==
    ASSUME NEW t, Len(Messages[t].read) \in Nat
    PROVE  \E g : Steps(Messages[t], g) /\ Parse(t) = g[Len(Messages[t].read)]
<1> DEFINE read == Messages[t].read
           check == Messages[t].check
           n == Len(read)
           Run(m) == \E g : /\ g[0] = Start(0)
                            /\ \A i \in 1..m : g[i] = ReadStep(g[i - 1], read[i], check[i])
           T == {m \in 0..n : Run(m)}
<1> HIDE DEF read, check, n
<1>0. n \in Nat /\ n \in 0..n /\ 0 \in 0..n
  BY DEF n, read
<1>1. 0 \in T
  <2>1. \A i \in 1..0 : FALSE
    OBVIOUS
  <2>2. [i \in {0} |-> Start(0)][0] = Start(0)
    BY Zenon
  <2> QED BY <1>0, <2>1, <2>2, Zenon
<1>2. ASSUME NEW m \in 1..n, m - 1 \in T PROVE m \in T
  <2>1. PICK f : /\ f[0] = Start(0)
                 /\ \A i \in 1..(m - 1) : f[i] = ReadStep(f[i - 1], read[i], check[i])
    BY <1>2, Zenon
  <2> DEFINE last == ReadStep(f[m - 1], read[m], check[m])
             g == [i \in 0..m |-> IF i = m THEN last ELSE f[i]]
  <2>2. ASSUME NEW i \in 1..m PROVE g[i] = ReadStep(g[i - 1], read[i], check[i])
    <3>1. /\ i - 1 \in 0..m /\ i - 1 # m /\ i \in 0..m
          /\ i # m => i \in 1..(m - 1)
      BY <1>0
    <3>2. g[i - 1] = f[i - 1] /\ g[i] = IF i = m THEN last ELSE f[i]
      BY <3>1, Zenon
    <3> HIDE DEF g
    <3>3. CASE i = m
      BY <3>2, <3>3, Zenon
    <3>4. CASE i # m
      BY <2>1, <3>1, <3>2, <3>4, Zenon
    <3> QED BY <3>3, <3>4, Zenon
  <2>3. g[0] = Start(0)
    <3>1. 0 \in 0..m /\ 0 # m
      BY <1>0
    <3> QED BY <2>1, <3>1, Zenon
  <2>4. Run(m)
    <3> HIDE DEF g
    <3> QED BY <2>2, <2>3, Zenon
  <2>5. m \in 0..n
    BY <1>0
  <2> QED BY <2>4, <2>5, Zenon
<1>3. Run(n)
  <2> DEFINE U == T
  <2>1. 0 \in U /\ \A i \in 1..n : i - 1 \in U => i \in U
    BY <1>1, <1>2, Zenon
  <2> HIDE DEF U
  <2>2. n \in U
    BY <1>0, <2>1, UpTo, Zenon
  <2> QED BY <2>2, Zenon DEF U
<1>4. PICK f : f[0] = Start(0) /\ \A i \in 1..n : f[i] = ReadStep(f[i - 1], read[i], check[i])
  BY <1>3, Zenon
<1> DEFINE g == [i \in 0..n |-> f[i]]
           Def(h) == h = [i \in 0..n |->
              IF i = 0 THEN Start(0) ELSE ReadStep(h[i - 1], read[i], check[i])]
           st == CHOOSE h : Def(h)
<1>5. \A i \in 0..n : i # 0 => i \in 1..n /\ i - 1 \in 0..n
  BY <1>0
<1>6. \A i \in 0..n : g[i] = IF i = 0 THEN Start(0) ELSE ReadStep(g[i - 1], read[i], check[i])
  BY <1>4, <1>5, Zenon
<1>7. Def(g)
  BY <1>6, Zenon
<1>8. Def(st)
  <2> HIDE DEF g
  <2> QED BY <1>7, Zenon
<1>9. Parse(t) = st[n]
  BY Zenon DEF Parse, read, check, n
<1> HIDE DEF st
<1>10. \A i \in 0..n : st[i] = IF i = 0 THEN Start(0) ELSE ReadStep(st[i - 1], read[i], check[i])
  BY <1>8, Zenon
<1>11. \A i \in 1..n : i \in 0..n /\ i # 0
  BY <1>0
<1>12. st[0] = Start(0) /\ \A i \in 1..n : st[i] = ReadStep(st[i - 1], read[i], check[i])
  BY <1>0, <1>10, <1>11, Zenon
<1>13. Steps(Messages[t], st)
  BY <1>12, Zenon DEF Steps, read, check, n
<1> QED BY <1>9, <1>13, Zenon DEF n, read

\* The first part of bytes has arrived.
Arrived(bytes) ==
    /\ wire \in Seq(Byte) /\ Len(wire) <= Len(bytes)
    /\ \A j \in 1..Len(wire) : wire[j] = bytes[j]

\* What has arrived of a part lies where the part was put.
LEMMA SitsAt ==
    ASSUME NEW bytes, NEW parts, NEW n \in Nat, NEW off,
           Laid(bytes, parts, n, off), Arrived(bytes),
           NEW i \in 1..n
    PROVE  Sits(parts[i], off[i - 1])
<1>1. i - 1 \in 0..n
  OBVIOUS
<1>2. off[i - 1] \in Nat /\ \A j \in 1..Len(parts[i]) : bytes[off[i - 1] + j] = parts[i][j]
  BY <1>1, Zenon DEF Laid
<1>3. Len(wire) \in Nat
  BY DEF Arrived
<1>4. \A o, l \in Nat, j \in Int : (j >= 1 /\ o + j <= l) => o + j \in 1..l
  OBVIOUS
<1>5. ASSUME NEW j \in 1..Len(parts[i]), off[i - 1] + j <= Len(wire)
      PROVE  wire[off[i - 1] + j] = parts[i][j]
  <2>1. off[i - 1] + j \in 1..Len(wire)
    <3>1. j \in Int /\ j >= 1
      OBVIOUS
    <3> QED BY <1>2, <1>3, <1>4, <1>5, <3>1, Zenon
  <2> QED BY <1>2, <2>1, Zenon DEF Arrived
<1> QED BY <1>5, Zenon DEF Sits

\* The cursor when the first i fields of v have been read
Cursor(v, off, i) == [p |-> off[i], ok |-> TRUE, out |-> [j \in 1..i |-> v[j]]]

\* Storing the next
LEMMA StoreNext ==
    ASSUME NEW v, NEW off, NEW i \in Nat, i # 0, NEW l, off[i] = off[i - 1] + l
    PROVE  Store(Cursor(v, off, i - 1), v[i], l) = Cursor(v, off, i)
<1> DEFINE S == {v[j] : j \in 1..i}
           s == [j \in 1..(i - 1) |-> v[j]]
           u == [j \in 1..i |-> v[j]]
<1>1. s \in Seq(S) /\ Len(s) = i - 1 /\ v[i] \in S /\ u \in Seq(S) /\ Len(u) = i
  OBVIOUS
<1>2. \A j \in 1..(i - 1) : s[j] = v[j] /\ j \in 1..i
  OBVIOUS
<1>3. \A j \in 1..i : u[j] = v[j]
  OBVIOUS
<1> HIDE DEF S, s, u
<1>4. Append(s, v[i]) \in Seq(S) /\ Len(Append(s, v[i])) = i /\ Append(s, v[i])[i] = v[i]
      /\ \A j \in 1..(i - 1) : Append(s, v[i])[j] = s[j]
  BY <1>1
<1>5. \A j \in 1..i : Append(s, v[i])[j] = u[j]
  <2>1. \A j \in 1..i : j = i \/ j \in 1..(i - 1)
    OBVIOUS
  <2> QED BY <1>2, <1>3, <1>4, <2>1, Zenon
<1>6. Append(s, v[i]) = u
  BY <1>1, <1>4, <1>5
<1>7. Cursor(v, off, i - 1) = [p |-> off[i - 1], ok |-> TRUE, out |-> s]
  BY Zenon DEF Cursor, s
<1>8. Store(Cursor(v, off, i - 1), v[i], l) =
        [p |-> off[i - 1] + l, ok |-> TRUE, out |-> Append(s, v[i])]
  <2>1. Cursor(v, off, i - 1).p = off[i - 1] /\ Cursor(v, off, i - 1).out = s
    BY <1>7
  <2> QED BY <2>1, Zenon DEF Store
<1> QED BY <1>6, <1>8, Zenon DEF Cursor, u

\* A step that passes its check and whose field has arrived
LEMMA StepRead ==
    ASSUME NEW bytes, NEW parts, NEW n \in Nat, NEW off,
           Laid(bytes, parts, n, off), Arrived(bytes),
           NEW i \in 1..n, NEW v, NEW kind, Plain(kind, v[i]), parts[i] = WriteAny(kind, v[i]),
           off[i] <= Len(wire), NEW c, ~(c > 0 /\ off[i - 1] + c > Len(wire))
    PROVE  ReadStep(Cursor(v, off, i - 1), kind, c) = Cursor(v, off, i)
<1> DEFINE st == Cursor(v, off, i - 1)
<1>1. st.p = off[i - 1] /\ st.ok = TRUE
  BY DEF Cursor
<1>2. i - 1 \in 0..n /\ i \in Nat /\ i # 0
  OBVIOUS
<1>3. off[i - 1] \in Nat /\ off[i] = off[i - 1] + Len(parts[i])
  BY <1>2, Zenon DEF Laid
<1> HIDE DEF st
<1>4. ReadStep(st, kind, c) = ReadAny(st, kind)
  BY <1>1, Zenon DEF ReadStep, Checked
<1>5. Sits(parts[i], off[i - 1])
  BY SitsAt, Zenon
<1>6. wire \in Seq(Byte) /\ st.p \in Nat /\ Sits(WriteAny(kind, v[i]), st.p)
      /\ st.p + Len(WriteAny(kind, v[i])) <= Len(wire)
  BY <1>1, <1>3, <1>5, Zenon DEF Arrived
<1>7. ReadAny(st, kind) = Store(st, v[i], Len(parts[i]))
  <2>1. ReadAny(st, kind) = Store(st, v[i], Len(WriteAny(kind, v[i])))
    BY <1>6, FieldRead, Zenon
  <2> QED BY <2>1, Zenon
<1>8. Store(st, v[i], Len(parts[i])) = Cursor(v, off, i)
  BY <1>2, <1>3, StoreNext, Zenon DEF st
<1> QED BY <1>4, <1>7, <1>8, Zenon DEF st

-----------------------------------------------------------------------------
\* ---- A whole message, and one cut short -------------------------------------

\* parse() reads the fields serialize() writes, and none of its checks asks for more than
\* is left: rest[i] is no more than the fields from i on take.
Matching(s, rest) ==
    /\ s.read = s.write /\ DOMAIN s.write = 1..Len(s.write) /\ Len(s.write) \in Nat
    /\ rest[Len(s.write) + 1] = 0
    /\ \A i \in 1..Len(s.write) :
          /\ s.write[i] \in {U8, Flag, U32, Str, Items, Objects, Members}
          /\ rest[i] \in Nat /\ rest[i] <= rest[i + 1] + MinSize(s.write[i])
          /\ s.check[i] \in Nat /\ s.check[i] <= rest[i]

\* v is what was serialized, as bytes, and parse() can give all of it back.
Sent(s, v, bytes) ==
    /\ v = [i \in DOMAIN s.write |-> v[i]]
    /\ \A i \in 1..Len(s.write) : Plain(s.write[i], v[i])
    /\ bytes = Concat([i \in DOMAIN s.write |-> WriteAny(s.write[i], v[i])])

\* Where the fields are
LEMMA SentLaid ==
    ASSUME NEW s, NEW v, NEW bytes, NEW n \in Nat, DOMAIN s.write = 1..n, Len(s.write) = n,
           Sent(s, v, bytes)
    PROVE  \E off, parts : /\ Laid(bytes, parts, n, off)
                           /\ \A i \in 1..n : parts[i] = WriteAny(s.write[i], v[i])
<1> DEFINE parts == [i \in 1..n |-> WriteAny(s.write[i], v[i])]
<1>1. \A i \in 1..n : parts[i] = WriteAny(s.write[i], v[i])
  BY Zenon
<1>2. \A i \in 1..n : WriteAny(s.write[i], v[i]) \in Seq(Byte)
  BY FieldBytes, Zenon DEF Sent
<1>3. bytes = Concat(parts)
  BY Zenon DEF Sent
<1>4. parts \in [1..n -> Seq(Byte)]
  BY <1>2, Zenon
<1> HIDE DEF parts
<1>5. PICK off : Laid(Concat(parts), parts, n, off)
  BY <1>4, ConcatLaid, Zenon
<1> QED BY <1>1, <1>3, <1>5, Zenon

\* What is left of the bytes behind the first i fields
LEMMA RestThere ==
    ASSUME NEW s, NEW rest, Matching(s, rest), NEW v, NEW bytes, NEW off, NEW parts,
           Sent(s, v, bytes), Laid(bytes, parts, Len(s.write), off),
           \A i \in 1..Len(s.write) : parts[i] = WriteAny(s.write[i], v[i])
    PROVE  \A i \in 0..Len(s.write) : off[i] + rest[i + 1] <= Len(bytes)
<1> DEFINE n == Len(s.write)
           T == {k \in 0..n : off[n - k] + rest[(n - k) + 1] <= Len(bytes)}
<1> HIDE DEF n
<1>0. n \in Nat /\ rest[n + 1] = 0 /\ off[n] = Len(bytes) /\ Len(bytes) \in Nat
  <2>1. bytes \in Seq(Byte) /\ n \in Nat /\ rest[n + 1] = 0 /\ off[n] = Len(bytes)
    BY Zenon DEF Matching, Laid, n
  <2> QED BY <2>1
<1>1. 0 \in T
  <2>1. n - 0 = n /\ 0 \in 0..n
    BY <1>0
  <2>2. off[n] + rest[n + 1] <= Len(bytes)
    BY <1>0
  <2> QED BY <2>1, <2>2, Zenon
<1>2. ASSUME NEW k \in 1..n, k - 1 \in T PROVE k \in T
  <2> DEFINE i == (n - k) + 1
  <2>1. /\ k \in 0..n /\ i \in 1..n /\ i - 1 = n - k /\ n - (k - 1) = i
        /\ i - 1 \in 0..n /\ i \in 0..n
    BY <1>0
  <2>2. off[i] + rest[i + 1] <= Len(bytes)
    BY <1>2, <2>1, Zenon
  <2> HIDE DEF i
  <2>3. off[i] = off[i - 1] + Len(parts[i]) /\ off[i] \in Nat /\ off[i - 1] \in Nat
    BY <2>1, Zenon DEF Laid, n
  <2>4. parts[i] \in Seq(Byte) /\ Len(parts[i]) >= MinSize(s.write[i])
    <3>1. parts[i] = WriteAny(s.write[i], v[i]) /\ Plain(s.write[i], v[i])
      BY <2>1, Zenon DEF Sent, n
    <3> QED BY <3>1, FieldBytes, Zenon
  <2>5. rest[i] \in Nat /\ rest[i] <= rest[i + 1] + MinSize(s.write[i])
    BY <2>1, Zenon DEF Matching, n
  <2>7. i + 1 \in 1..n \/ i = n
    BY <1>0, <2>1
  <2>8. rest[i + 1] \in Nat
    <3>1. i + 1 \in 1..n => rest[i + 1] \in Nat
      BY Zenon DEF Matching, n
    <3> QED BY <1>0, <2>7, <3>1
  <2>9. Len(parts[i]) \in Nat /\ MinSize(s.write[i]) \in Nat
    BY <2>4 DEF MinSize
  <2>10. off[i - 1] + rest[i] <= Len(bytes)
    <3> DEFINE x == off[i - 1]
               y == off[i]
               l == Len(parts[i])
               m == MinSize(s.write[i])
               u == rest[i]
               w == rest[i + 1]
               b == Len(bytes)
    <3>1. /\ x \in Nat /\ y \in Nat /\ l \in Nat /\ m \in Nat
          /\ u \in Nat /\ w \in Nat /\ b \in Nat
          /\ y + w <= b /\ y = x + l /\ l >= m /\ u <= w + m
      BY <1>0, <2>2, <2>3, <2>4, <2>5, <2>8, <2>9, Zenon
    <3> HIDE DEF x, y, l, m, u, w, b
    <3>2. x + u <= b
      BY <3>1
    <3> QED BY <3>2, Zenon DEF x, u, b
  <2>11. i = (n - k) + 1
    BY DEF i
  <2> QED BY <2>1, <2>10, <2>11, Zenon
<1> HIDE DEF T
<1>3. \A k \in 0..n : k \in T
  BY <1>0, <1>1, <1>2, UpTo, Zenon
<1>4. ASSUME NEW i \in 0..n PROVE off[i] + rest[i + 1] <= Len(bytes)
  <2>1. n - i \in 0..n /\ n - (n - i) = i
    BY <1>0
  <2>2. n - i \in T
    BY <1>3, <2>1, Zenon
  <2> QED BY <2>1, <2>2, Zenon DEF T
<1> QED BY <1>4, Zenon DEF n

\* parse() gives back all of a message that has arrived to its end.
LEMMA AllRead ==
    ASSUME NEW t, NEW rest, Matching(Messages[t], rest), NEW v, Sent(Messages[t], v, wire),
           wire \in Seq(Byte)
    PROVE  Parse(t) = [p |-> Len(wire), ok |-> TRUE, out |-> v]
<1> DEFINE s == Messages[t]
           n == Len(s.write)
<1> HIDE DEF s, n
<1>1. n \in Nat /\ s.read = s.write /\ Len(s.read) = n /\ DOMAIN s.write = 1..n
  <2>1. n \in Nat /\ s.read = s.write /\ DOMAIN s.write = 1..n
    BY Zenon DEF Matching, s, n
  <2>2. Len(s.write) = n
    BY Zenon DEF s, n
  <2> QED BY <2>1, <2>2, Zenon
<1>2. PICK off, parts : /\ Laid(wire, parts, n, off)
                        /\ \A i \in 1..n : parts[i] = WriteAny(s.write[i], v[i])
  <2>1. Sent(s, v, wire) /\ Len(s.write) = n
    BY Zenon DEF s, n
  <2> QED BY <1>1, <2>1, SentLaid
<1>3. PICK g : Steps(s, g) /\ Parse(t) = g[n]
  <2>1. \E g : Steps(Messages[t], g) /\ Parse(t) = g[Len(Messages[t].read)]
    BY <1>1, ParseSteps, Zenon DEF s
  <2> QED BY <1>1, <2>1, Zenon DEF s
<1>4. \A i \in 0..n : off[i] + rest[i + 1] <= Len(wire)
  BY <1>2, RestThere, Zenon DEF s, n
<1>5. Arrived(wire)
  BY DEF Arrived
<1>6. \A i \in 0..n : off[i] \in Nat /\ off[i] <= Len(wire)
  BY <1>2, Zenon DEF Laid
<1>7. off[0] = 0 /\ off[n] = Len(wire) /\ Len(wire) \in Nat
  <2>1. off[0] = 0 /\ off[n] = Len(wire)
    BY <1>2, Zenon DEF Laid
  <2> QED BY <2>1
<1> DEFINE T == {i \in 0..n : g[i] = Cursor(v, off, i)}
<1>8. 0 \in T
  <2>1. [j \in 1..0 |-> v[j]] = <<>> /\ 0 \in 0..n
    BY <1>1
  <2>2. g[0] = Start(0)
    BY <1>3, Zenon DEF Steps
  <2> QED BY <1>7, <2>1, <2>2, Zenon DEF Start, Cursor
<1>9. ASSUME NEW i \in 1..n, i - 1 \in T PROVE i \in T
  <2>1. i - 1 \in 0..n /\ i \in 0..n /\ (i - 1) + 1 = i
    BY <1>1
  <2>2. g[i] = ReadStep(g[i - 1], s.write[i], s.check[i]) /\ g[i - 1] = Cursor(v, off, i - 1)
    BY <1>1, <1>3, <1>9, Zenon DEF Steps
  <2>3. Plain(s.write[i], v[i])
    BY Zenon DEF Sent, s, n
  <2>4. rest[i] \in Nat /\ s.check[i] \in Nat /\ s.check[i] <= rest[i]
    BY Zenon DEF Matching, s, n
  <2>5. off[i - 1] \in Nat /\ off[i - 1] + rest[i] <= Len(wire) /\ off[i] <= Len(wire)
    BY <1>4, <1>6, <2>1, Zenon
  <2>6. ~(s.check[i] > 0 /\ off[i - 1] + s.check[i] > Len(wire))
    BY <1>7, <2>4, <2>5
  <2>7. parts[i] = WriteAny(s.write[i], v[i])
    BY <1>2, Zenon
  <2>8. ReadStep(Cursor(v, off, i - 1), s.write[i], s.check[i]) = Cursor(v, off, i)
    BY <1>1, <1>2, <1>5, <2>3, <2>5, <2>6, <2>7, StepRead
  <2> QED BY <2>1, <2>2, <2>8, Zenon
<1> HIDE DEF T
<1>10. n \in T
  <2>1. n \in 0..n
    BY <1>1
  <2> QED BY <1>1, <1>8, <1>9, <2>1, UpTo, Zenon
<1>11. g[n] = Cursor(v, off, n)
  BY <1>10, Zenon DEF T
<1>12. v = [j \in 1..n |-> v[j]]
  BY <1>1, Zenon DEF Sent, s
<1> QED BY <1>3, <1>7, <1>11, <1>12, Zenon DEF Cursor

\* Every field of fixed size, and every length of a list, is covered by a check: left[i]
\* bytes are known to be there before the check of field i.
Guarded(s, left) ==
    /\ s.read = s.write /\ DOMAIN s.write = 1..Len(s.write) /\ Len(s.write) \in Nat
    /\ left[1] = 0
    /\ \A i \in 1..Len(s.write) :
          LET known == IF s.check[i] > left[i] THEN s.check[i] ELSE left[i] IN
          /\ s.check[i] \in Nat /\ left[i] \in Nat /\ left[i + 1] \in Nat
          /\ \/ /\ s.write[i] \in {U8, Flag, U32}
                /\ MinSize(s.write[i]) + left[i + 1] <= known
             \/ s.write[i] = Str /\ left[i + 1] = 0
             \/ s.write[i] = Items /\ 4 <= known /\ left[i + 1] = 0

\* Where the cursor is after i fields: in step with the fields, or stopped in what arrived
InStep(st, v, off, i, left) ==
    \/ st = Cursor(v, off, i) /\ off[i] + left[i + 1] <= Len(wire)
    \/ st.ok = FALSE /\ st.p \in Nat /\ st.p <= Len(wire)

\* One field, of a message of which the first part has arrived
LEMMA GuardedStep ==
    ASSUME NEW s, NEW left, Guarded(s, left), NEW bytes, NEW parts, NEW off,
           Laid(bytes, parts, Len(s.write), off), Arrived(bytes),
           NEW v, NEW i \in 1..Len(s.write), Plain(s.write[i], v[i]),
           parts[i] = WriteAny(s.write[i], v[i]),
           NEW st, InStep(st, v, off, i - 1, left)
    PROVE  InStep(ReadStep(st, s.write[i], s.check[i]), v, off, i, left)
<1> DEFINE n == Len(s.write)
           kind == s.write[i]
           c == s.check[i]
           l == left[i]
           r == left[i + 1]
           known == IF c > l THEN c ELSE l
           o == off[i - 1]
           W == Len(wire)
<1>0. /\ n \in Nat /\ c \in Nat /\ l \in Nat /\ r \in Nat
      /\ \/ kind \in {U8, Flag, U32} /\ MinSize(kind) + r <= known
         \/ kind = Str /\ r = 0
         \/ kind = Items /\ 4 <= known /\ r = 0
  BY Zenon DEF Guarded
<1>1. i - 1 \in 0..n /\ i \in 0..n /\ (i - 1) + 1 = i /\ i \in 1..n
  BY <1>0
<1>2. o \in Nat /\ off[i] \in Nat /\ off[i] = o + Len(parts[i]) /\ wire \in Seq(Byte)
  BY <1>1, Zenon DEF Laid, Arrived
<1>3. W \in Nat
  BY <1>2
<1>4. CASE st.ok = FALSE /\ st.p \in Nat /\ st.p <= Len(wire)
  <2>1. ReadStep(st, kind, c) = st
    BY <1>4, Zenon DEF ReadStep, Checked
  <2> QED BY <1>4, <2>1, Zenon DEF InStep
<1>5. CASE st = Cursor(v, off, i - 1) /\ o + l <= W
  <2>0. st.p = o /\ st.ok = TRUE
    BY <1>5 DEF Cursor
  <2>1. ASSUME NEW q, q = Refuse(st), o <= W PROVE InStep(q, v, off, i, left)
    <3>1. q.ok = FALSE /\ q.p = o
      BY <2>0, <2>1 DEF Refuse
    <3> QED BY <1>2, <2>1, <3>1, Zenon DEF InStep
  <2>2. o <= W
    <3> HIDE DEF o, l, W
    <3> QED BY <1>0, <1>2, <1>3, <1>5
  <2>3. CASE c > 0 /\ o + c > W
    <3>1. ReadStep(st, kind, c) = Refuse(st)
      BY <2>0, <2>3, Zenon DEF ReadStep, Checked
    <3> QED BY <2>1, <2>2, <3>1, Zenon
  <2>4. CASE ~(c > 0 /\ o + c > W)
    <3>1. o + known <= W
      <4> HIDE DEF o, l, W, c
      <4> QED BY <1>0, <1>2, <1>3, <1>5, <2>2, <2>4
    <3>2. ASSUME off[i] <= W, off[i] + r <= W PROVE InStep(ReadStep(st, kind, c), v, off, i, left)
      <4>1. ReadStep(Cursor(v, off, i - 1), kind, c) = Cursor(v, off, i)
        BY <1>0, <1>1, <2>4, <3>2, StepRead
      <4> QED BY <1>5, <3>2, <4>1, Zenon DEF InStep
    <3>3. CASE kind \in {U8, Flag, U32} /\ MinSize(kind) + r <= known
      <4>1. Len(parts[i]) = MinSize(kind)
        <5>1. kind \in {U8, Flag, U32}
          BY <3>3, Zenon
        <5>2. Len(WriteAny(kind, v[i])) = MinSize(kind)
          BY <5>1, FieldBytes, Zenon
        <5> QED BY <5>2, Zenon
      <4>2. MinSize(kind) \in Nat
        BY DEF MinSize
      <4>3. known \in Nat
        BY <1>0, Zenon
      <4> DEFINE m == MinSize(kind)
      <4>4. off[i] = o + m /\ m \in Nat /\ m + r <= known
        BY <1>2, <3>3, <4>1, <4>2, Zenon
      <4> HIDE DEF m, o, r, W, known
      <4>5. off[i] <= W /\ off[i] + r <= W
        BY <1>0, <1>2, <1>3, <3>1, <4>3, <4>4
      <4> QED BY <3>2, <4>5, Zenon
    <3>4. CASE kind \in {Str, Items} /\ r = 0 /\ (kind = Items => 4 <= known)
      <4>1. CASE off[i] <= W
        <5>1. off[i] + r <= W
          BY <1>2, <1>3, <3>4, <4>1
        <5> QED BY <3>2, <4>1, <5>1, Zenon
      <4>2. CASE ~(off[i] <= W)
        <5>1. ReadStep(st, kind, c) = ReadAny(st, kind)
          BY <2>0, <2>4, Zenon DEF ReadStep, Checked
        <5>2. Sits(WriteAny(kind, v[i]), st.p)
          <6>1. Sits(parts[i], o)
            BY <1>0, <1>1, SitsAt, Zenon
          <6> QED BY <2>0, <6>1, Zenon
        <5>3. ~(st.p + Len(WriteAny(kind, v[i])) <= Len(wire))
          BY <1>2, <2>0, <4>2, Zenon
        <5>4. kind = Items => st.p + 4 <= Len(wire)
          <6>1. known \in Nat
            BY <1>0, Zenon
          <6>2. 4 <= known => o + 4 <= W
            <7> HIDE DEF o, W, known
            <7> QED BY <1>2, <1>3, <3>1, <6>1
          <6> QED BY <2>0, <3>4, <6>2, Zenon
        <5>5. st.p \in Nat /\ kind \in {Str, Items}
          BY <1>2, <2>0, <3>4, Zenon
        <5>6. ReadAny(st, kind) = Refuse(st)
          BY <1>2, <5>2, <5>3, <5>4, <5>5, FieldRefused, Zenon
        <5> QED BY <2>1, <2>2, <5>1, <5>6, Zenon
      <4> QED BY <4>1, <4>2, Zenon
    <3>5. Str # Items
      BY DEF Str, Items
    <3> QED BY <1>0, <3>3, <3>4, <3>5, Zenon
  <2> QED BY <2>3, <2>4, Zenon
<1> QED BY <1>1, <1>4, <1>5, Zenon DEF InStep

\* A message cut short is refused, and the cursor stays in what arrived.
LEMMA CutRefused ==
    ASSUME NEW t, NEW left, Guarded(Messages[t], left), NEW v, NEW bytes,
           Sent(Messages[t], v, bytes), Arrived(bytes), Len(wire) < Len(bytes)
    PROVE  Parse(t).ok = FALSE /\ Parse(t).p <= Len(wire)
<1> DEFINE s == Messages[t]
           n == Len(s.write)
<1> HIDE DEF s, n
<1>1. n \in Nat /\ s.read = s.write /\ Len(s.read) = n /\ DOMAIN s.write = 1..n
  <2>1. n \in Nat /\ s.read = s.write /\ DOMAIN s.write = 1..n
    BY Zenon DEF Guarded, s, n
  <2>2. Len(s.write) = n
    BY Zenon DEF s, n
  <2> QED BY <2>1, <2>2, Zenon
<1>2. PICK off, parts : /\ Laid(bytes, parts, n, off)
                        /\ \A i \in 1..n : parts[i] = WriteAny(s.write[i], v[i])
  <2>1. Sent(s, v, bytes) /\ Len(s.write) = n
    BY Zenon DEF s, n
  <2> QED BY <1>1, <2>1, SentLaid
<1>3. PICK g : Steps(s, g) /\ Parse(t) = g[n]
  <2>1. \E g : Steps(Messages[t], g) /\ Parse(t) = g[Len(Messages[t].read)]
    BY <1>1, ParseSteps, Zenon DEF s
  <2> QED BY <1>1, <2>1, Zenon DEF s
<1>4. off[0] = 0 /\ off[n] = Len(bytes) /\ bytes \in Seq(Byte) /\ wire \in Seq(Byte)
  BY <1>2, Zenon DEF Laid, Arrived
<1>5. Len(wire) \in Nat /\ Len(bytes) \in Nat
  BY <1>4
<1> DEFINE T == {i \in 0..n : InStep(g[i], v, off, i, left)}
<1>6. 0 \in T
  <2>1. [j \in 1..0 |-> v[j]] = <<>> /\ 0 \in 0..n /\ 0 + 1 = 1
    BY <1>1
  <2>2. g[0] = Start(0)
    BY <1>3, Zenon DEF Steps
  <2>3. g[0] = Cursor(v, off, 0)
    BY <1>4, <2>1, <2>2, Zenon DEF Start, Cursor
  <2>4. left[0 + 1] = 0
    BY <2>1, Zenon DEF Guarded
  <2>5. off[0] + left[0 + 1] <= Len(wire)
    BY <1>4, <1>5, <2>4
  <2> QED BY <2>1, <2>3, <2>5, Zenon DEF InStep
<1>7. ASSUME NEW i \in 1..n, i - 1 \in T PROVE i \in T
  <2>1. i \in 0..n
    BY <1>1
  <2>2. g[i] = ReadStep(g[i - 1], s.write[i], s.check[i]) /\ InStep(g[i - 1], v, off, i - 1, left)
    BY <1>1, <1>3, <1>7, Zenon DEF Steps
  <2>3. Plain(s.write[i], v[i])
    BY Zenon DEF Sent, s, n
  <2>4. parts[i] = WriteAny(s.write[i], v[i])
    BY <1>2, Zenon
  <2>5. Guarded(s, left) /\ n = Len(s.write)
    BY Zenon DEF s, n
  <2>6. InStep(ReadStep(g[i - 1], s.write[i], s.check[i]), v, off, i, left)
    BY <1>1, <1>2, <2>2, <2>3, <2>4, <2>5, GuardedStep
  <2> QED BY <2>1, <2>2, <2>6, Zenon
<1> HIDE DEF T
<1>8. n \in T
  <2>1. n \in 0..n
    BY <1>1
  <2> QED BY <1>1, <1>6, <1>7, <2>1, UpTo, Zenon
<1>9. InStep(g[n], v, off, n, left)
  BY <1>8, Zenon DEF T
<1>10. ~(off[n] + left[n + 1] <= Len(wire))
  <2>1. left[n + 1] \in Nat
    <3>1. CASE n = 0
      BY <3>1 DEF Guarded
    <3>2. CASE n # 0
      <4>1. n \in 1..n
        BY <1>1, <3>2
      <4> QED BY <4>1, Zenon DEF Guarded, s, n
    <3> QED BY <3>1, <3>2, Zenon
  <2> QED BY <1>4, <1>5, <2>1
<1> QED BY <1>3, <1>9, <1>10, Zenon DEF InStep

-----------------------------------------------------------------------------
\* ---- The layouts ------------------------------------------------------------

\* What the structs of each header have to show: parse() reads the fields serialize() wrote,
\* in their order, and asks for no more bytes than the smallest message has; the checks make
\* sure of all that is read.  The structs of DoubleIncrement and the Underchecked ones are
\* left out where they must be.

\* common/protocol/protocol_base.hpp
LEMMA BaseLayouts ==
    /\ Matching(Messages.echo_req, <<4, 0>>)
    /\ Matching(Messages.echo_res, <<4, 0>>)
    /\ Matching(Messages.login_req, <<8, 4, 0>>)
    /\ Matching(Messages.login_res, <<13, 12, 8, 4, 0>>)
    /\ Guarded(Messages.echo_req, <<0, 0>>)
    /\ Guarded(Messages.echo_res, <<0, 0>>)
    /\ Guarded(Messages.login_req, <<0, 0, 0>>)
    /\ Guarded(Messages.login_res, <<0, 0, 0, 4, 0>>)
<1>1. /\ Messages.echo_req = echo_req
      /\ Messages.echo_res = echo_res
      /\ Messages.login_req = login_req
      /\ Messages.login_res = login_res
  BY Zenon DEF Messages
<1> USE DEF Matching, Guarded, MinSize, Struct,
            U8, Flag, U32, Float, Str, Items, Objects, Members
<1>2. Matching(echo_req, <<4, 0>>)
  BY DEF echo_req
<1>3. Matching(echo_res, <<4, 0>>)
  BY DEF echo_res
<1>4. Matching(login_req, <<8, 4, 0>>)
  BY DEF login_req
<1>5. Matching(login_res, <<13, 12, 8, 4, 0>>)
  BY DEF login_res
<1>6. Guarded(echo_req, <<0, 0>>)
  BY DEF echo_req
<1>7. Guarded(echo_res, <<0, 0>>)
  BY DEF echo_res
<1>8. Guarded(login_req, <<0, 0, 0>>)
  BY DEF login_req
<1>9. Guarded(login_res, <<0, 0, 0, 4, 0>>)
  BY DEF login_res
<1> HIDE DEF Matching, Guarded, MinSize, Struct,
            U8, Flag, U32, Float, Str, Items, Objects, Members
<1> QED BY <1>1, <1>2, <1>3, <1>4, <1>5, <1>6, <1>7, <1>8, <1>9, Zenon

\* common/protocol/protocol_player.hpp
LEMMA PlayerLayouts ==
    /\ Matching(Messages.player_move_req, <<20, 16, 12, 8, 4, 0>>)
    /\ Matching(Messages.player_move_res, <<24, 20, 16, 12, 8, 4, 0>>)
    /\ Matching(Messages.player_info_req, <<4, 0>>)
    /\ Matching(Messages.player_info_res, <<36, 32, 28, 24, 20, 16, 12, 8, 4, 0>>)
    /\ Matching(Messages.player_status_update, <<12, 8, 4, 0>>)
    /\ Guarded(Messages.player_move_req, <<0, 16, 12, 8, 4, 0>>)
    /\ Guarded(Messages.player_move_res, <<0, 20, 16, 12, 8, 4, 0>>)
    /\ Guarded(Messages.player_info_req, <<0, 0>>)
    /\ Guarded(Messages.player_status_update, <<0, 8, 4, 0>>)
<1>1. /\ Messages.player_move_req = player_move_req
      /\ Messages.player_move_res = player_move_res
      /\ Messages.player_info_req = player_info_req
      /\ Messages.player_info_res = player_info_res
      /\ Messages.player_status_update = player_status_update
  BY Zenon DEF Messages
<1> USE DEF Matching, Guarded, MinSize, Struct,
            U8, Flag, U32, Float, Str, Items, Objects, Members
<1>2. Matching(player_move_req, <<20, 16, 12, 8, 4, 0>>)
  BY DEF player_move_req
<1>3. Matching(player_move_res, <<24, 20, 16, 12, 8, 4, 0>>)
  BY DEF player_move_res
<1>4. Matching(player_info_req, <<4, 0>>)
  BY DEF player_info_req
<1>5. Matching(player_info_res, <<36, 32, 28, 24, 20, 16, 12, 8, 4, 0>>)
  BY DEF player_info_res
<1>6. Matching(player_status_update, <<12, 8, 4, 0>>)
  BY DEF player_status_update
<1>7. Guarded(player_move_req, <<0, 16, 12, 8, 4, 0>>)
  BY DEF player_move_req
<1>8. Guarded(player_move_res, <<0, 20, 16, 12, 8, 4, 0>>)
  BY DEF player_move_res
<1>9. Guarded(player_info_req, <<0, 0>>)
  BY DEF player_info_req
<1>10. Guarded(player_status_update, <<0, 8, 4, 0>>)
  BY DEF player_status_update
<1> HIDE DEF Matching, Guarded, MinSize, Struct,
            U8, Flag, U32, Float, Str, Items, Objects, Members
<1> QED BY <1>1, <1>2, <1>3, <1>4, <1>5, <1>6, <1>7, <1>8, <1>9, <1>10, Zenon

\* common/protocol/protocol_chat.hpp
LEMMA ChatLayouts ==
    /\ Matching(Messages.chat_req, <<9, 5, 4, 0>>)
    /\ Matching(Messages.chat_res, <<5, 4, 0>>)
    /\ Matching(Messages.chat_broadcast, <<17, 13, 9, 5, 4, 0>>)
    /\ Matching(Messages.chat_system_message, <<20, 16, 12, 8, 4, 0>>)
    /\ Matching(Messages.chat_filter_req, <<9, 8, 4, 0>>)
    /\ Matching(Messages.chat_filter_res, <<9, 8, 4, 0>>)
    /\ Guarded(Messages.chat_req, <<0, 0, 0, 0>>)
    /\ Guarded(Messages.chat_res, <<0, 0, 0>>)
    /\ Guarded(Messages.chat_broadcast, <<0, 0, 0, 0, 0, 0>>)
    /\ Guarded(Messages.chat_filter_req, <<0, 0, 0, 0>>)
    /\ Guarded(Messages.chat_filter_res, <<0, 0, 0, 0>>)
<1>1. /\ Messages.chat_req = chat_req
      /\ Messages.chat_res = chat_res
      /\ Messages.chat_broadcast = chat_broadcast
      /\ Messages.chat_system_message = chat_system_message
      /\ Messages.chat_filter_req = chat_filter_req
      /\ Messages.chat_filter_res = chat_filter_res
  BY Zenon DEF Messages
<1> USE DEF Matching, Guarded, MinSize, Struct,
            U8, Flag, U32, Float, Str, Items, Objects, Members
<1>2. Matching(chat_req, <<9, 5, 4, 0>>)
  BY DEF chat_req
<1>3. Matching(chat_res, <<5, 4, 0>>)
  BY DEF chat_res
<1>4. Matching(chat_broadcast, <<17, 13, 9, 5, 4, 0>>)
  BY DEF chat_broadcast
<1>5. Matching(chat_system_message, <<20, 16, 12, 8, 4, 0>>)
  BY DEF chat_system_message
<1>6. Matching(chat_filter_req, <<9, 8, 4, 0>>)
  BY DEF chat_filter_req
<1>7. Matching(chat_filter_res, <<9, 8, 4, 0>>)
  BY DEF chat_filter_res
<1>8. Guarded(chat_req, <<0, 0, 0, 0>>)
  BY DEF chat_req
<1>9. Guarded(chat_res, <<0, 0, 0>>)
  BY DEF chat_res
<1>10. Guarded(chat_broadcast, <<0, 0, 0, 0, 0, 0>>)
  BY DEF chat_broadcast
<1>11. Guarded(chat_filter_req, <<0, 0, 0, 0>>)
  BY DEF chat_filter_req
<1>12. Guarded(chat_filter_res, <<0, 0, 0, 0>>)
  BY DEF chat_filter_res
<1> HIDE DEF Matching, Guarded, MinSize, Struct,
            U8, Flag, U32, Float, Str, Items, Objects, Members
<1> QED BY <1>1, <1>2, <1>3, <1>4, <1>5, <1>6, <1>7, <1>8, <1>9, <1>10, <1>11, <1>12,
           Zenon

\* common/protocol/protocol_combat.hpp
LEMMA CombatLayouts ==
    /\ Matching(Messages.attack_req, <<24, 20, 16, 12, 8, 4, 0>>)
    /\ Matching(Messages.attack_res, <<17, 16, 12, 8, 4, 0>>)
    /\ Matching(Messages.damage_notify, <<24, 20, 16, 12, 8, 4, 0>>)
    /\ Matching(Messages.skill_use_req, <<24, 20, 16, 12, 8, 4, 0>>)
    /\ Matching(Messages.skill_use_res, <<17, 16, 12, 8, 4, 0>>)
    /\ Matching(Messages.status_effect_notify, <<21, 17, 13, 12, 8, 4, 0>>)
    /\ Matching(Messages.combat_result_notify, <<24, 20, 16, 12, 8, 4, 0>>)
    /\ Guarded(Messages.attack_req, <<0, 20, 16, 12, 8, 4, 0>>)
    /\ Guarded(Messages.damage_notify, <<0, 20, 16, 12, 8, 4, 0>>)
    /\ Guarded(Messages.skill_use_req, <<0, 20, 16, 12, 8, 4, 0>>)
    /\ Guarded(Messages.status_effect_notify, <<0, 17, 13, 12, 8, 4, 0>>)
    /\ Guarded(Messages.combat_result_notify, <<0, 16, 12, 8, 4, 0, 0>>)
<1>1. /\ Messages.attack_req = attack_req
      /\ Messages.attack_res = attack_res
      /\ Messages.damage_notify = damage_notify
      /\ Messages.skill_use_req = skill_use_req
      /\ Messages.skill_use_res = skill_use_res
      /\ Messages.status_effect_notify = status_effect_notify
      /\ Messages.combat_result_notify = combat_result_notify
  BY Zenon DEF Messages
<1> USE DEF Matching, Guarded, MinSize, Struct,
            U8, Flag, U32, Float, Str, Items, Objects, Members
<1>2. Matching(attack_req, <<24, 20, 16, 12, 8, 4, 0>>)
  BY DEF attack_req
<1>3. Matching(attack_res, <<17, 16, 12, 8, 4, 0>>)
  BY DEF attack_res
<1>4. Matching(damage_notify, <<24, 20, 16, 12, 8, 4, 0>>)
  BY DEF damage_notify
<1>5. Matching(skill_use_req, <<24, 20, 16, 12, 8, 4, 0>>)
  BY DEF skill_use_req
<1>6. Matching(skill_use_res, <<17, 16, 12, 8, 4, 0>>)
  BY DEF skill_use_res
<1>7. Matching(status_effect_notify, <<21, 17, 13, 12, 8, 4, 0>>)
  BY DEF status_effect_notify
<1>8. Matching(combat_result_notify, <<24, 20, 16, 12, 8, 4, 0>>)
  BY DEF combat_result_notify
<1>9. Guarded(attack_req, <<0, 20, 16, 12, 8, 4, 0>>)
  BY DEF attack_req
<1>10. Guarded(damage_notify, <<0, 20, 16, 12, 8, 4, 0>>)
  BY DEF damage_notify
<1>11. Guarded(skill_use_req, <<0, 20, 16, 12, 8, 4, 0>>)
  BY DEF skill_use_req
<1>12. Guarded(status_effect_notify, <<0, 17, 13, 12, 8, 4, 0>>)
  BY DEF status_effect_notify
<1>13. Guarded(combat_result_notify, <<0, 16, 12, 8, 4, 0, 0>>)
  BY DEF combat_result_notify
<1> HIDE DEF Matching, Guarded, MinSize, Struct,
            U8, Flag, U32, Float, Str, Items, Objects, Members
<1> QED BY <1>1, <1>2, <1>3, <1>4, <1>5, <1>6, <1>7, <1>8, <1>9, <1>10, <1>11, <1>12,
           <1>13, Zenon

\* common/protocol/protocol_map.hpp
LEMMA MapLayouts ==
    /\ Matching(Messages.map_enter_req, <<20, 16, 12, 8, 4, 0>>)
    /\ Matching(Messages.map_enter_res, <<29, 28, 24, 20, 16, 12, 8, 4, 0>>)
    /\ Matching(Messages.map_leave_req, <<8, 4, 0>>)
    /\ Matching(Messages.map_leave_res, <<9, 8, 4, 0>>)
    /\ Matching(Messages.map_object_info, <<37, 33, 32, 28, 24, 20, 16, 12, 8, 4, 0>>)
    /\ Matching(Messages.map_objects_update, <<16, 12, 8, 4, 0>>)
    /\ Matching(Messages.map_info_req, <<4, 0>>)
    /\ Matching(Messages.map_info_res, <<33, 29, 25, 21, 17, 13, 9, 5, 4, 0>>)
    /\ Guarded(Messages.map_enter_req, <<0, 16, 12, 8, 4, 0>>)
    /\ Guarded(Messages.map_leave_req, <<0, 4, 0>>)
    /\ Guarded(Messages.map_info_req, <<0, 0>>)
<1>1. /\ Messages.map_enter_req = map_enter_req
      /\ Messages.map_enter_res = map_enter_res
      /\ Messages.map_leave_req = map_leave_req
      /\ Messages.map_leave_res = map_leave_res
      /\ Messages.map_object_info = map_object_info
      /\ Messages.map_objects_update = map_objects_update
      /\ Messages.map_info_req = map_info_req
      /\ Messages.map_info_res = map_info_res
  BY Zenon DEF Messages
<1> USE DEF Matching, Guarded, MinSize, Struct,
            U8, Flag, U32, Float, Str, Items, Objects, Members
<1>2. Matching(map_enter_req, <<20, 16, 12, 8, 4, 0>>)
  BY DEF map_enter_req
<1>3. Matching(map_enter_res, <<29, 28, 24, 20, 16, 12, 8, 4, 0>>)
  BY DEF map_enter_res
<1>4. Matching(map_leave_req, <<8, 4, 0>>)
  BY DEF map_leave_req
<1>5. Matching(map_leave_res, <<9, 8, 4, 0>>)
  BY DEF map_leave_res
<1>6. Matching(map_object_info, <<37, 33, 32, 28, 24, 20, 16, 12, 8, 4, 0>>)
  BY DEF map_object_info
<1>7. Matching(map_objects_update, <<16, 12, 8, 4, 0>>)
  BY DEF map_objects_update
<1>8. Matching(map_info_req, <<4, 0>>)
  BY DEF map_info_req
<1>9. Matching(map_info_res, <<33, 29, 25, 21, 17, 13, 9, 5, 4, 0>>)
  BY DEF map_info_res
<1>10. Guarded(map_enter_req, <<0, 16, 12, 8, 4, 0>>)
  BY DEF map_enter_req
<1>11. Guarded(map_leave_req, <<0, 4, 0>>)
  BY DEF map_leave_req
<1>12. Guarded(map_info_req, <<0, 0>>)
  BY DEF map_info_req
<1> HIDE DEF Matching, Guarded, MinSize, Struct,
            U8, Flag, U32, Float, Str, Items, Objects, Members
<1> QED BY <1>1, <1>2, <1>3, <1>4, <1>5, <1>6, <1>7, <1>8, <1>9, <1>10, <1>11, <1>12,
           Zenon

\* common/protocol/protocol_guild.hpp
LEMMA GuildLayouts ==
    /\ Matching(Messages.guild_create_req, <<13, 9, 5, 1, 0>>)
    /\ Matching(Messages.guild_create_res, <<9, 8, 4, 0>>)
    /\ Matching(Messages.guild_join_req, <<8, 4, 0>>)
    /\ Matching(Messages.guild_join_res, <<9, 8, 4, 0>>)
    /\ Matching(Messages.guild_leave_req, <<8, 4, 0>>)
    /\ Matching(Messages.guild_leave_res, <<5, 4, 0>>)
    /\ Matching(Messages.guild_info_req, <<4, 0>>)
    /\ Matching(Messages.guild_member_list_req, <<12, 8, 4, 0>>)
    /\ Matching(Messages.guild_member_list_res, <<20, 16, 12, 8, 4, 0>>)
    /\ Guarded(Messages.guild_create_req, <<0, 0, 0, 0, 0>>)
    /\ Guarded(Messages.guild_create_res, <<0, 0, 0, 0>>)
    /\ Guarded(Messages.guild_join_req, <<0, 0, 0>>)
    /\ Guarded(Messages.guild_join_res, <<0, 0, 0, 0>>)
    /\ Guarded(Messages.guild_leave_req, <<0, 0, 0>>)
    /\ Guarded(Messages.guild_leave_res, <<0, 0, 0>>)
    /\ Guarded(Messages.guild_info_req, <<0, 0>>)
    /\ Guarded(Messages.guild_member_list_req, <<0, 8, 4, 0>>)
<1>1. /\ Messages.guild_create_req = guild_create_req
      /\ Messages.guild_create_res = guild_create_res
      /\ Messages.guild_join_req = guild_join_req
      /\ Messages.guild_join_res = guild_join_res
      /\ Messages.guild_leave_req = guild_leave_req
      /\ Messages.guild_leave_res = guild_leave_res
      /\ Messages.guild_info_req = guild_info_req
      /\ Messages.guild_member_list_req = guild_member_list_req
      /\ Messages.guild_member_list_res = guild_member_list_res
  BY Zenon DEF Messages
<1> USE DEF Matching, Guarded, MinSize, Struct,
            U8, Flag, U32, Float, Str, Items, Objects, Members
<1>2. Matching(guild_create_req, <<13, 9, 5, 1, 0>>)
  BY DEF guild_create_req
<1>3. Matching(guild_create_res, <<9, 8, 4, 0>>)
  BY DEF guild_create_res
<1>4. Matching(guild_join_req, <<8, 4, 0>>)
  BY DEF guild_join_req
<1>5. Matching(guild_join_res, <<9, 8, 4, 0>>)
  BY DEF guild_join_res
<1>6. Matching(guild_leave_req, <<8, 4, 0>>)
  BY DEF guild_leave_req
<1>7. Matching(guild_leave_res, <<5, 4, 0>>)
  BY DEF guild_leave_res
<1>8. Matching(guild_info_req, <<4, 0>>)
  BY DEF guild_info_req
<1>9. Matching(guild_member_list_req, <<12, 8, 4, 0>>)
  BY DEF guild_member_list_req
<1>10. Matching(guild_member_list_res, <<20, 16, 12, 8, 4, 0>>)
  BY DEF guild_member_list_res
<1>11. Guarded(guild_create_req, <<0, 0, 0, 0, 0>>)
  BY DEF guild_create_req
<1>12. Guarded(guild_create_res, <<0, 0, 0, 0>>)
  BY DEF guild_create_res
<1>13. Guarded(guild_join_req, <<0, 0, 0>>)
  BY DEF guild_join_req
<1>14. Guarded(guild_join_res, <<0, 0, 0, 0>>)
  BY DEF guild_join_res
<1>15. Guarded(guild_leave_req, <<0, 0, 0>>)
  BY DEF guild_leave_req
<1>16. Guarded(guild_leave_res, <<0, 0, 0>>)
  BY DEF guild_leave_res
<1>17. Guarded(guild_info_req, <<0, 0>>)
  BY DEF guild_info_req
<1>18. Guarded(guild_member_list_req, <<0, 8, 4, 0>>)
  BY DEF guild_member_list_req
<1> HIDE DEF Matching, Guarded, MinSize, Struct,
            U8, Flag, U32, Float, Str, Items, Objects, Members
<1> QED BY <1>1, <1>2, <1>3, <1>4, <1>5, <1>6, <1>7, <1>8, <1>9, <1>10, <1>11, <1>12,
           <1>13, <1>14, <1>15, <1>16, <1>17, <1>18, Zenon

\* There are no other structs.
LEMMA Headers ==
    ASSUME NEW t \in DOMAIN Messages
    PROVE  \/ t \in {"echo_req", "echo_res", "login_req", "login_res"}
           \/ t \in {"player_move_req", "player_move_res", "player_info_req",
                    "player_info_res", "player_status_update"}
           \/ t \in {"chat_req", "chat_res", "chat_broadcast", "chat_system_message",
                    "chat_filter_req", "chat_filter_res"}
           \/ t \in {"attack_req", "attack_res", "damage_notify", "skill_use_req",
                    "skill_use_res", "status_effect_notify",
                    "combat_result_notify"}
           \/ t \in {"map_enter_req", "map_enter_res", "map_leave_req", "map_leave_res",
                    "map_object_info", "map_objects_update",
                    "map_info_req", "map_info_res"}
           \/ t \in {"guild_create_req", "guild_create_res", "guild_join_req",
                    "guild_join_res", "guild_leave_req",
                    "guild_leave_res", "guild_info_req",
                    "guild_info_res", "guild_member_list_req",
                    "guild_member_info", "guild_member_list_res"}
BY Zenon DEF Messages

\* Every struct's parse() reads what its serialize() wrote.
LEMMA Matched ==
    ASSUME NEW t \in DOMAIN Messages, t \notin DoubleIncrement
    PROVE  \E rest : Matching(Messages[t], rest)
<1>1. CASE t \in {"echo_req", "echo_res", "login_req", "login_res"}
  BY <1>1, BaseLayouts, Zenon DEF DoubleIncrement
<1>2. CASE t \in {"player_move_req", "player_move_res", "player_info_req",
                "player_info_res", "player_status_update"}
  BY <1>2, PlayerLayouts, Zenon DEF DoubleIncrement
<1>3. CASE t \in {"chat_req", "chat_res", "chat_broadcast", "chat_system_message",
                "chat_filter_req", "chat_filter_res"}
  BY <1>3, ChatLayouts, Zenon DEF DoubleIncrement
<1>4. CASE t \in {"attack_req", "attack_res", "damage_notify", "skill_use_req",
                "skill_use_res", "status_effect_notify",
                "combat_result_notify"}
  BY <1>4, CombatLayouts, Zenon DEF DoubleIncrement
<1>5. CASE t \in {"map_enter_req", "map_enter_res", "map_leave_req", "map_leave_res",
                "map_object_info", "map_objects_update", "map_info_req",
                "map_info_res"}
  BY <1>5, MapLayouts, Zenon DEF DoubleIncrement
<1>6. CASE t \in {"guild_create_req", "guild_create_res", "guild_join_req",
                "guild_join_res", "guild_leave_req", "guild_leave_res",
                "guild_info_req", "guild_info_res",
                "guild_member_list_req", "guild_member_info",
                "guild_member_list_res"}
  BY <1>6, GuildLayouts, Zenon DEF DoubleIncrement
<1> QED BY <1>1, <1>2, <1>3, <1>4, <1>5, <1>6, Headers, Zenon

\* Every other struct checks all it reads.
LEMMA Sure ==
    ASSUME NEW t \in DOMAIN Messages, t \notin Underchecked
    PROVE  \E left : Guarded(Messages[t], left)
<1>1. CASE t \in {"echo_req", "echo_res", "login_req", "login_res"}
  BY <1>1, BaseLayouts, Zenon DEF Underchecked
<1>2. CASE t \in {"player_move_req", "player_move_res", "player_info_req",
                "player_info_res", "player_status_update"}
  BY <1>2, PlayerLayouts, Zenon DEF Underchecked
<1>3. CASE t \in {"chat_req", "chat_res", "chat_broadcast", "chat_system_message",
                "chat_filter_req", "chat_filter_res"}
  BY <1>3, ChatLayouts, Zenon DEF Underchecked
<1>4. CASE t \in {"attack_req", "attack_res", "damage_notify", "skill_use_req",
                "skill_use_res", "status_effect_notify",
                "combat_result_notify"}
  BY <1>4, CombatLayouts, Zenon DEF Underchecked
<1>5. CASE t \in {"map_enter_req", "map_enter_res", "map_leave_req", "map_leave_res",
                "map_object_info", "map_objects_update", "map_info_req",
                "map_info_res"}
  BY <1>5, MapLayouts, Zenon DEF Underchecked
<1>6. CASE t \in {"guild_create_req", "guild_create_res", "guild_join_req",
                "guild_join_res", "guild_leave_req", "guild_leave_res",
                "guild_info_req", "guild_info_res",
                "guild_member_list_req", "guild_member_info",
                "guild_member_list_res"}
  BY <1>6, GuildLayouts, Zenon DEF Underchecked
<1> QED BY <1>1, <1>2, <1>3, <1>4, <1>5, <1>6, Headers, Zenon

-----------------------------------------------------------------------------
\* ---- The invariant ----------------------------------------------------------

\* A value that holds no list of structs is written field by field.
LEMMA ValueSent ==
    ASSUME NEW t \in DOMAIN Messages, NEW v \in Values(t),
           DOMAIN Messages[t].write = 1..Len(Messages[t].write),
           \A i \in 1..Len(Messages[t].write) :
              \/ Messages[t].write[i] \in {U8, Flag, U32, Str, Items}
              \/ Messages[t].write[i] \in {Objects, Members} /\ v[i] = <<>>
    PROVE  Sent(Messages[t], v, Serialize(t, v))
<1> DEFINE w == Messages[t].write
<1>1. IsMessage(w, v)
  BY ValueAssumption, Zenon
<1>2. v = [i \in DOMAIN w |-> v[i]] /\ \A i \in DOMAIN w : IsField(w[i], v[i])
  BY <1>1, Zenon DEF IsMessage
<1>3. \A i \in 1..Len(w) : Plain(w[i], v[i])
  BY <1>2, Zenon DEF Plain
<1>4. Serialize(t, v) = Concat([i \in DOMAIN w |-> WriteAny(w[i], v[i])])
  BY Zenon DEF Serialize
<1> QED BY <1>2, <1>3, <1>4, Zenon DEF Sent

\* w is what arrived of the value v of the struct t: all of it if all is TRUE.
Cut(t, v, w, all) ==
    /\ t \in DOMAIN Messages /\ v \in Values(t)
    /\ \E n \in 0..Len(Serialize(t, v)) :
          w = SubSeq(Serialize(t, v), 1, n) /\ all = (n = Len(Serialize(t, v)))

\* A message on its way is what serialize() wrote, to its end or cut short.
OnWire == phase \in {"sent", "parsed"} => Cut(typ, value, wire, whole)

\* What arrives of a message that is written field by field
LEMMA CutArrived ==
    ASSUME Cut(typ, value, wire, whole), NEW s, Sent(s, value, Serialize(typ, value)),
           DOMAIN s.write = 1..Len(s.write), Len(s.write) \in Nat
    PROVE  /\ Arrived(Serialize(typ, value))
           /\ whole = TRUE => wire = Serialize(typ, value)
           /\ whole = FALSE => Len(wire) < Len(Serialize(typ, value))
<1> DEFINE bytes == Serialize(typ, value)
<1>1. bytes \in Seq(Byte)
  <2>1. \E off, parts : Laid(bytes, parts, Len(s.write), off)
    BY SentLaid
  <2> QED BY <2>1, Zenon DEF Laid
<1>2. PICK n \in 0..Len(bytes) : wire = SubSeq(bytes, 1, n) /\ whole = (n = Len(bytes))
  BY Zenon DEF Cut
<1> HIDE DEF bytes
<1>3. n \in Nat /\ n <= Len(bytes) /\ Len(bytes) \in Nat
  BY <1>1
<1>4. /\ wire \in Seq(Byte) /\ Len(wire) = n /\ \A j \in 1..n : wire[j] = bytes[j]
  BY <1>1, <1>2, <1>3
<1>5. Arrived(bytes)
  BY <1>3, <1>4, Zenon DEF Arrived
<1>6. n = Len(bytes) => wire = bytes
  BY <1>1, <1>3, <1>4, SeqEqual
<1>7. n # Len(bytes) => Len(wire) < Len(bytes)
  BY <1>3, <1>4
<1> QED BY <1>2, <1>5, <1>6, <1>7, Zenon DEF bytes

\* parse() of a whole message
LEMMA GivesBack ==
    ASSUME Cut(typ, value, wire, whole), whole, whole = TRUE, typ \notin DoubleIncrement,
           ~NonEmptyList
    PROVE  Parse(typ) = [p |-> Len(wire), ok |-> TRUE, out |-> value]
<1> DEFINE s == Messages[typ]
<1>1. typ \in DOMAIN Messages /\ value \in Values(typ)
  BY Zenon DEF Cut
<1>2. PICK rest : Matching(s, rest)
  BY <1>1, Matched, Zenon
<1>3. DOMAIN s.write = 1..Len(s.write) /\ Len(s.write) \in Nat
  BY <1>2, Zenon DEF Matching
<1>4. DOMAIN value = DOMAIN s.write
  <2>1. IsMessage(s.write, value)
    BY <1>1, ValueAssumption, Zenon
  <2>2. value = [i \in DOMAIN s.write |-> value[i]]
    BY <2>1, Zenon DEF IsMessage
  <2> QED BY <2>2, Zenon
<1>5. \A i \in 1..Len(s.write) : \/ s.write[i] \in {U8, Flag, U32, Str, Items}
                                 \/ s.write[i] \in {Objects, Members} /\ value[i] = <<>>
  <2>1. \A i \in 1..Len(s.write) : s.write[i] \in {Objects, Members} => value[i] = <<>>
    BY <1>3, <1>4, Zenon DEF NonEmptyList
  <2>2. \A i \in 1..Len(s.write) :
           s.write[i] \in {U8, Flag, U32, Str, Items, Objects, Members}
    BY <1>2, Zenon DEF Matching
  <2> QED BY <2>1, <2>2, Zenon
<1>6. Sent(s, value, Serialize(typ, value))
  BY <1>1, <1>3, <1>5, ValueSent, Zenon
<1>7. wire = Serialize(typ, value) /\ wire \in Seq(Byte)
  <2>1. Arrived(Serialize(typ, value)) /\ wire = Serialize(typ, value)
    BY <1>3, <1>6, CutArrived, Zenon
  <2> QED BY <2>1, Zenon DEF Arrived
<1> QED BY <1>2, <1>6, <1>7, AllRead, Zenon

\* parse() of a message cut short
LEMMA Refuses ==
    ASSUME Cut(typ, value, wire, whole), whole = FALSE, typ \notin Underchecked
    PROVE  Parse(typ).ok = FALSE /\ Parse(typ).p <= Len(wire)
<1> DEFINE s == Messages[typ]
<1>1. typ \in DOMAIN Messages /\ value \in Values(typ)
  BY Zenon DEF Cut
<1>2. PICK left : Guarded(s, left)
  BY <1>1, Sure, Zenon
<1>3. DOMAIN s.write = 1..Len(s.write) /\ Len(s.write) \in Nat
  BY <1>2, Zenon DEF Guarded
<1>4. \A i \in 1..Len(s.write) : s.write[i] \in {U8, Flag, U32, Str, Items}
  BY <1>2, Zenon DEF Guarded
<1>5. Sent(s, value, Serialize(typ, value))
  BY <1>1, <1>3, <1>4, ValueSent, Zenon
<1>6. Arrived(Serialize(typ, value)) /\ Len(wire) < Len(Serialize(typ, value))
  BY <1>3, <1>5, CutArrived, Zenon
<1> QED BY <1>2, <1>5, <1>6, CutRefused, Zenon

\* The inductive invariant: the message on the wire, and what parse() made of it
Held == OnWire /\ RoundTrip /\ TruncationRefused

\* Nothing is on the wire at first.
LEMMA HeldInit == Init => Held
<1> SUFFICES ASSUME Init PROVE Held
  OBVIOUS
<1>1. phase = "idle"
  BY DEF Init
<1>2. phase \notin {"sent", "parsed"} /\ phase # "parsed"
  BY <1>1
<1> QED BY <1>2, Zenon DEF Held, OnWire, RoundTrip, TruncationRefused

\* serialize(), then parse() of what arrives
LEMMA HeldNext == Held /\ [Next]_vars => Held'
<1> SUFFICES ASSUME Held, [Next]_vars PROVE Held'
  OBVIOUS
<1>1. ASSUME NEW t \in DOMAIN Messages, Send(t) PROVE Held'
  <2>1. phase' = "sent"
    BY <1>1, Zenon DEF Send
  <2>2. phase' # "parsed"
    BY <2>1
  <2>3. Cut(typ', value', wire', whole')
    <3>1. PICK v \in Values(t) : \E n \in 0..Len(Serialize(t, v)) :
             /\ value' = v
             /\ wire' = SubSeq(Serialize(t, v), 1, n)
             /\ whole' = (n = Len(Serialize(t, v)))
      BY <1>1, Zenon DEF Send
    <3>2. value' = v
      BY <3>1, Zenon
    <3>3. typ' = t
      BY <1>1, Zenon DEF Send
    <3>4. Cut(t, v, wire', whole')
      BY <3>1, Zenon DEF Cut
    <3> QED BY <3>2, <3>3, <3>4, Zenon
  <2> QED BY <2>2, <2>3, Zenon DEF Held, OnWire, RoundTrip, TruncationRefused
<1>2. ASSUME Receive PROVE Held'
  <2>1. /\ phase = "sent" /\ result' = Parse(typ)
        /\ typ' = typ /\ value' = value /\ wire' = wire /\ whole' = whole
    BY <1>2, Zenon DEF Receive
  <2>2. Cut(typ, value, wire, whole)
    BY <2>1, Zenon DEF Held, OnWire
  <2>3. whole \in BOOLEAN
    BY <2>2, Zenon DEF Cut
  <2>4. OnWire'
    BY <2>1, <2>2, Zenon DEF OnWire
  <2>5. RoundTrip'
    <3>1. SUFFICES ASSUME whole', typ' \notin DoubleIncrement, ~NonEmptyList'
                   PROVE  Agree'
      BY Zenon DEF RoundTrip
    <3>2. whole = TRUE /\ typ \notin DoubleIncrement /\ ~NonEmptyList
      BY <2>1, <2>3, <3>1, Zenon DEF NonEmptyList
    <3>3. result' = [p |-> Len(wire), ok |-> TRUE, out |-> value]
      BY <2>1, <2>2, <3>2, GivesBack, Zenon
    <3>4. result'.ok = TRUE /\ result'.out = value /\ result'.p = Len(wire)
      BY <3>3
    <3> QED BY <2>1, <3>4, Zenon DEF Agree
  <2>6. TruncationRefused'
    <3>1. SUFFICES ASSUME ~whole', typ' \notin Underchecked
                   PROVE  ~result'.ok /\ result'.p <= Len(wire')
      BY Zenon DEF TruncationRefused
    <3>2. whole = FALSE /\ typ \notin Underchecked
      BY <2>1, <2>3, <3>1, Zenon
    <3>3. Parse(typ).ok = FALSE /\ Parse(typ).p <= Len(wire)
      BY <2>2, <3>2, Refuses, Zenon
    <3> QED BY <2>1, <3>3, Zenon
  <2> QED BY <2>4, <2>5, <2>6, Zenon DEF Held
<1>3. ASSUME Return PROVE Held'
  <2>1. phase' = "idle"
    BY <1>3, Zenon DEF Return
  <2>2. phase' \notin {"sent", "parsed"} /\ phase' # "parsed"
    BY <2>1
  <2> QED BY <2>2, Zenon DEF Held, OnWire, RoundTrip, TruncationRefused
<1>4. ASSUME UNCHANGED vars PROVE Held'
  <2>1. /\ phase' = phase /\ typ' = typ /\ value' = value /\ wire' = wire /\ whole' = whole
        /\ result' = result
    BY <1>4, Zenon DEF vars
  <2> QED BY <2>1, Zenon DEF Held, OnWire, RoundTrip, TruncationRefused, Agree, NonEmptyList
<1> QED BY <1>1, <1>2, <1>3, <1>4, Zenon DEF Next

\* parse() gives back what serialize() was given, whatever is sent.
THEOREM RoundTripAlways == Spec => []RoundTrip
<1>1. Held => RoundTrip
  BY Zenon DEF Held
<1> QED BY HeldInit, HeldNext, <1>1, PTL DEF Spec

\* A message cut short anywhere is refused, except in the Underchecked structs.
THEOREM TruncationAlwaysRefused == Spec => []TruncationRefused
<1>1. Held => TruncationRefused
  BY Zenon DEF Held
<1> QED BY HeldInit, HeldNext, <1>1, PTL DEF Spec
=============================================================================
