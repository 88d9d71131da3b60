--------------------------- MODULE FrameCodecProofs ---------------------------
(***************************************************************************)
(* Theorems about FrameCodec, for any commands, payloads, limits and       *)
(* number of frames and any CRC that notices one changed byte.             *)
(*                                                                         *)
(* The lemmas go from the bytes upwards: what pack writes (PackBytes),     *)
(* what try_parse_one finds at the beginning of a packed frame             *)
(* (ParsePacked) and of anything else (ParseAny), a pass of the loop       *)
(* (PassParts, PassSynced), the loop (LoopInduction, LoopSynced), the      *)
(* read handler (ReadInv).                                                 *)
(***************************************************************************)
EXTENDS FrameCodec, SequenceTheorems, WellFoundedInduction, TLAPS

USE SMTT(60)

\* What the peer packs, what on_frame_ may see, and the bytes a frame takes
Frame == [cmd : Cmds, payload : Payloads]
Seen == [cmd : Nat, payload : Seq(Byte)]
Size(f) == HeaderTotal + Len(f.payload)

\* A byte is a number below 256.
LEMMA ByteRange == \A b : b \in Byte <=> b \in Nat /\ b < 256
BY DEF Byte

\* The parts of a number that put_le16 and put_le32 write
Lo(v) == v % 256
Hi(v) == (v \div 256) % 256
Upper(v) == v \div 65536

\* Lo and Hi are bytes, Upper is a number.
LEMMA Parts ==
    ASSUME NEW v \in Nat
    PROVE  Lo(v) \in Byte /\ Hi(v) \in Byte /\ Upper(v) \in Nat
BY ByteRange DEF Lo, Hi, Upper

\* What get_le16 and get_le32 make of the parts
LEMMA Whole ==
    ASSUME NEW v \in Nat, v < 2147483647, NEW a, NEW b, NEW c, NEW d,
           a = Lo(v), b = Hi(v), c = Lo(Upper(v)), d = Hi(Upper(v))
    PROVE  /\ ~(d >= 128) /\ (a + 256 * b) + 65536 * (c + 256 * d) = v
           /\ v < 65536 => a + 256 * b = v
<1> DEFINE u == v \div 65536
           w == v % 65536
<1>1. u \in Nat /\ w \in Nat /\ w < 65536 /\ v = (65536 * u) + w /\ u < 32768
  OBVIOUS
<1>2. a = w % 256 /\ b = w \div 256
  BY DEF Lo, Hi
<1>3. c = u % 256 /\ d = u \div 256
  BY <1>1 DEF Lo, Hi, Upper
<1> HIDE DEF u, w
<1>4. a + 256 * b = w
  BY <1>1, <1>2
<1>5. c + 256 * d = u /\ d \in Nat /\ d < 128
  BY <1>1, <1>3
<1>6. v < 65536 => u = 0
  BY <1>1
<1> QED BY <1>1, <1>4, <1>5, <1>6

\* Joined sequences, byte by byte
LEMMA Joined ==
    \A s, t \in Seq(Byte) :
        /\ s \o t \in Seq(Byte) /\ Len(s \o t) = Len(s) + Len(t)
        /\ \A i \in 1..Len(s) : (s \o t)[i] = s[i]
        /\ \A i \in 1..Len(t) : (s \o t)[Len(s) + i] = t[i]
OBVIOUS

\* The bytes of put_le16 and put_le32
LEMMA PutPair ==
    ASSUME NEW v \in Nat
    PROVE  /\ put_le16(v) \in Seq(Byte) /\ Len(put_le16(v)) = 2
           /\ put_le16(v)[1] = Lo(v) /\ put_le16(v)[2] = Hi(v)
<1>1. Lo(v) \in Byte /\ Hi(v) \in Byte
  BY Parts, Zenon
<1>2. put_le16(v) = <<Lo(v), Hi(v)>>
  BY SMT DEF put_le16, Lo, Hi
<1>3. ASSUME NEW x \in Byte, NEW y \in Byte
      PROVE  <<x, y>> \in Seq(Byte) /\ Len(<<x, y>>) = 2 /\ <<x, y>>[1] = x /\ <<x, y>>[2] = y
  OBVIOUS
<1> QED BY <1>1, <1>2, <1>3

\* put_le32 writes two pairs.
LEMMA PutBytes ==
    ASSUME NEW v \in Nat
    PROVE  /\ put_le32(v) \in Seq(Byte) /\ Len(put_le32(v)) = 4
           /\ put_le32(v)[1] = Lo(v) /\ put_le32(v)[2] = Hi(v)
           /\ put_le32(v)[3] = Lo(Upper(v)) /\ put_le32(v)[4] = Hi(Upper(v))
<1> DEFINE s == put_le16(v)
           t == put_le16(Upper(v))
<1>1. Upper(v) \in Nat
  BY Parts, Zenon
<1>2. s \in Seq(Byte) /\ Len(s) = 2 /\ s[1] = Lo(v) /\ s[2] = Hi(v)
  BY PutPair, Zenon
<1>3. t \in Seq(Byte) /\ Len(t) = 2 /\ t[1] = Lo(Upper(v)) /\ t[2] = Hi(Upper(v))
  BY <1>1, PutPair, Zenon
<1>4. put_le32(v) = s \o t
  BY SMT DEF put_le32, Upper
<1> HIDE DEF s, t
<1>5. /\ s \o t \in Seq(Byte) /\ Len(s \o t) = 4
      /\ (s \o t)[1] = s[1] /\ (s \o t)[2] = s[2] /\ (s \o t)[3] = t[1] /\ (s \o t)[4] = t[2]
  <2>1. /\ s \o t \in Seq(Byte) /\ Len(s \o t) = Len(s) + Len(t)
        /\ \A i \in 1..Len(s) : (s \o t)[i] = s[i]
        /\ \A i \in 1..Len(t) : (s \o t)[Len(s) + i] = t[i]
    BY <1>2, <1>3, Joined, Zenon
  <2>2. 1 \in 1..Len(s) /\ 2 \in 1..Len(s) /\ 1 \in 1..Len(t) /\ 2 \in 1..Len(t)
        /\ Len(s) + 1 = 3 /\ Len(s) + 2 = 4 /\ Len(s) + Len(t) = 4
    BY <1>2, <1>3
  <2> QED BY <2>1, <2>2
<1> QED BY <1>2, <1>3, <1>4, <1>5, Zenon

\* Where the bytes of a joined sequence are
LEMMA JoinedAt ==
    ASSUME NEW s \in Seq(Byte), NEW t \in Seq(Byte), NEW m \in Nat, Len(s) = m
    PROVE  /\ s \o t \in Seq(Byte) /\ Len(s \o t) = m + Len(t)
           /\ \A i \in 1..m : (s \o t)[i] = s[i]
           /\ \A i \in 1..Len(t) : (s \o t)[m + i] = t[i]
BY Joined, Zenon

\* What pack puts where
LEMMA PackBytes ==
    ASSUME NEW f \in Frame
    PROVE  LET v == HeaderAfterLen + Len(f.payload) IN
           /\ pack(f) \in Seq(Byte) /\ Len(pack(f)) = Size(f)
           /\ pack(f)[1] = Lo(v) /\ pack(f)[2] = Hi(v)
           /\ pack(f)[3] = Lo(Upper(v)) /\ pack(f)[4] = Hi(Upper(v))
           /\ pack(f)[5] = Lo(f.cmd) /\ pack(f)[6] = Hi(f.cmd)
           /\ \A i \in 1..4 : pack(f)[12 + i] = crc32(f.payload)[i]
           /\ \A i \in 1..Len(f.payload) : pack(f)[16 + i] = f.payload[i]
<1> DEFINE v == HeaderAfterLen + Len(f.payload)
           s == put_le32(v)
           t == put_le16(f.cmd)
           z == <<0, 1, 0, 0, 0, 0>>
           c == crc32(f.payload)
           p == f.payload
           h == (s \o t) \o z
<1>1. f.cmd \in Nat /\ p \in Seq(Byte) /\ v \in Nat /\ c \in Seq(Byte) /\ Len(c) = 4
  BY ByteAssumption, CrcAssumption DEF Frame, HeaderAfterLen
<1> HIDE DEF v
<1>2. s \in Seq(Byte) /\ Len(s) = 4 /\ s[1] = Lo(v) /\ s[2] = Hi(v)
      /\ s[3] = Lo(Upper(v)) /\ s[4] = Hi(Upper(v))
  BY <1>1, PutBytes, Zenon
<1>3. t \in Seq(Byte) /\ Len(t) = 2 /\ t[1] = Lo(f.cmd) /\ t[2] = Hi(f.cmd)
  BY <1>1, PutPair, Zenon
<1>4. z \in Seq(Byte) /\ Len(z) = 6
  <2>1. 0 \in Byte /\ 1 \in Byte
    BY ByteRange
  <2> QED BY <2>1
<1>5. pack(f) = (h \o c) \o p
  BY DEF pack, Crc, v
<1> HIDE DEF s, t, z, c, p
<1>6. /\ s \o t \in Seq(Byte) /\ Len(s \o t) = 6
      /\ (s \o t)[1] = s[1] /\ (s \o t)[2] = s[2] /\ (s \o t)[3] = s[3] /\ (s \o t)[4] = s[4]
      /\ (s \o t)[5] = t[1] /\ (s \o t)[6] = t[2]
  <2>1. /\ s \o t \in Seq(Byte) /\ Len(s \o t) = Len(s) + Len(t)
        /\ \A i \in 1..Len(s) : (s \o t)[i] = s[i]
        /\ \A i \in 1..Len(t) : (s \o t)[Len(s) + i] = t[i]
    BY <1>2, <1>3, Joined, Zenon
  <2>2. 1 \in 1..Len(s) /\ 2 \in 1..Len(s) /\ 3 \in 1..Len(s) /\ 4 \in 1..Len(s)
        /\ 1 \in 1..Len(t) /\ 2 \in 1..Len(t)
        /\ Len(s) + 1 = 5 /\ Len(s) + 2 = 6 /\ Len(s) + Len(t) = 6
    BY <1>2, <1>3
  <2> QED BY <2>1, <2>2
<1>7. h \in Seq(Byte) /\ Len(h) = 12 /\ \A i \in 1..6 : h[i] = (s \o t)[i]
  <2>1. /\ h \in Seq(Byte) /\ Len(h) = Len(s \o t) + Len(z)
        /\ \A i \in 1..Len(s \o t) : h[i] = (s \o t)[i]
    BY <1>4, <1>6, Joined, Zenon
  <2> QED BY <1>4, <1>6, <2>1
<1> HIDE DEF h
<1>n. 12 \in Nat /\ 16 \in Nat
  OBVIOUS
<1> DEFINE g == h \o c
<1>8. /\ g \in Seq(Byte) /\ Len(g) = 12 + Len(c)
      /\ \A i \in 1..12 : g[i] = h[i]
      /\ \A i \in 1..Len(c) : g[12 + i] = c[i]
  BY <1>1, <1>7, <1>n, JoinedAt, ZenonT(60) DEF c
<1>c. Len(c) = 4
  BY <1>1 DEF c
<1> HIDE DEF g
<1>g. Len(g) = 16
  BY <1>8, <1>c
<1>9. /\ g \o p \in Seq(Byte) /\ Len(g \o p) = 16 + Len(p)
      /\ \A i \in 1..16 : (g \o p)[i] = g[i]
      /\ \A i \in 1..Len(p) : (g \o p)[16 + i] = p[i]
  BY <1>1, <1>8, <1>g, <1>n, JoinedAt, ZenonT(60) DEF p
<1>p. pack(f) = g \o p
  BY <1>5, Zenon DEF g
<1> DEFINE q == g \o p
<1> HIDE DEF q
<1>q. /\ Len(q) = 16 + Len(p)
      /\ \A i \in 1..16 : q[i] = g[i]
      /\ \A i \in 1..Len(p) : q[16 + i] = p[i]
  BY <1>9, Zenon DEF q
<1>10. \A i \in 1..6 : q[i] = (s \o t)[i]
  <2> SUFFICES ASSUME NEW i \in 1..6 PROVE q[i] = (s \o t)[i]
    BY Zenon
  <2>1. i \in 1..12 /\ i \in 1..16
    OBVIOUS
  <2> QED BY <2>1, <1>q, <1>8, <1>7, Zenon
<1>11. /\ q[1] = Lo(v) /\ q[2] = Hi(v)
       /\ q[3] = Lo(Upper(v)) /\ q[4] = Hi(Upper(v))
       /\ q[5] = Lo(f.cmd) /\ q[6] = Hi(f.cmd)
  <2>1. 1 \in 1..6 /\ 2 \in 1..6 /\ 3 \in 1..6 /\ 4 \in 1..6 /\ 5 \in 1..6 /\ 6 \in 1..6
    OBVIOUS
  <2> QED BY <1>2, <1>3, <1>6, <1>10, <2>1, Zenon
<1>12. \A i \in 1..4 : q[12 + i] = c[i]
  <2> TAKE i \in 1..4
  <2>1. 12 + i \in 1..16 /\ i \in 1..Len(c)
    BY <1>c
  <2> QED BY <2>1, <1>q, <1>8, Zenon
<1>13. pack(f) = q /\ q \in Seq(Byte) /\ Len(q) = Size(f)
  <2>1. pack(f) = q /\ q \in Seq(Byte)
    BY <1>p, <1>9, Zenon DEF q
  <2> QED BY <2>1, <1>q, Zenon DEF Size, HeaderTotal, p
<1> QED BY <1>11, <1>12, <1>13, <1>q, Zenon DEF v, c, p

\* The numbers in the header of a frame whose bytes are where pack put them
LEMMA Header ==
    ASSUME NEW a \in Seq(Byte), NEW o \in Nat, NEW f \in Frame,
           HeaderAfterLen + Len(f.payload) <= MaxFrameBytes
    PROVE  /\ (\A i \in 1..4 : a[o + i] = pack(f)[i])
                  => get_le32(a, o + 1) = HeaderAfterLen + Len(f.payload)
           /\ (\A i \in 5..6 : a[o + i] = pack(f)[i]) => get_le16(a, o + 5) = f.cmd
<1> DEFINE v == HeaderAfterLen + Len(f.payload)
<1>1. f.cmd \in Nat /\ f.cmd < 65536 /\ v \in Nat /\ v < 2147483647
  <2>1. f.cmd \in Nat /\ f.cmd < 65536 /\ f.payload \in Seq(Byte)
    BY ByteAssumption DEF Frame
  <2> QED BY <2>1, FrameAssumption DEF HeaderAfterLen
<1>2. /\ pack(f)[1] = Lo(v) /\ pack(f)[2] = Hi(v)
      /\ pack(f)[3] = Lo(Upper(v)) /\ pack(f)[4] = Hi(Upper(v))
      /\ pack(f)[5] = Lo(f.cmd) /\ pack(f)[6] = Hi(f.cmd)
  BY PackBytes, Zenon
<1> HIDE DEF v
<1>3. ASSUME \A i \in 1..4 : a[o + i] = pack(f)[i]
      PROVE  get_le32(a, o + 1) = v
  <2>1. a[o + 1] = Lo(v) /\ a[o + 2] = Hi(v) /\ a[o + 3] = Lo(Upper(v)) /\ a[o + 4] = Hi(Upper(v))
    BY <1>2, <1>3
  <2>2. /\ ~(a[o + 4] >= 128)
        /\ (a[o + 1] + 256 * a[o + 2]) + 65536 * (a[o + 3] + 256 * a[o + 4]) = v
    BY <1>1, <2>1, Whole
  <2>3. (o + 1) + 1 = o + 2 /\ (o + 1) + 2 = o + 3 /\ (o + 1) + 3 = o + 4 /\ (o + 3) + 1 = o + 4
    OBVIOUS
  <2> QED BY <2>2, <2>3 DEF get_le32, get_le16
<1>4. ASSUME \A i \in 5..6 : a[o + i] = pack(f)[i]
      PROVE  get_le16(a, o + 5) = f.cmd
  <2>1. a[o + 5] = Lo(f.cmd) /\ a[o + 6] = Hi(f.cmd)
    BY <1>2, <1>4
  <2>2. a[o + 5] + 256 * a[o + 6] = f.cmd
    BY <1>1, <2>1, Whole
  <2>3. (o + 5) + 1 = o + 6
    OBVIOUS
  <2> QED BY <2>2, <2>3 DEF get_le16
<1> QED BY <1>3, <1>4, Zenon DEF v

\* A piece cut out of a buffer
LEMMA Piece ==
    ASSUME NEW a \in Seq(Byte), NEW m \in Nat, NEW n \in Nat, m + n <= Len(a)
    PROVE  LET q == SubSeq(a, m + 1, m + n) IN
           /\ q \in Seq(Byte) /\ Len(q) = n
           /\ \A i \in 1..n : q[i] = a[m + i]
<1> DEFINE q == SubSeq(a, m + 1, m + n)
<1>1. q \in Seq(Byte) /\ Len(q) = n
  OBVIOUS
<1>2. \A i \in 1..n : q[i] = a[m + i]
  OBVIOUS
<1> HIDE DEF q
<1> QED BY <1>1, <1>2, Zenon DEF q

\* Two sequences of the same length with the same bytes
LEMMA SameBytes ==
    ASSUME NEW s \in Seq(Byte), NEW t \in Seq(Byte), Len(s) = Len(t),
           \A i \in 1..Len(t) : s[i] = t[i]
    PROVE  s = t
OBVIOUS

\* Two sequences of the same length that differ in one place only
LEMMA OneByte ==
    ASSUME NEW s \in Seq(Byte), NEW t \in Seq(Byte), Len(s) = Len(t), NEW j \in 1..Len(t),
           \A i \in 1..Len(t) : i # j => s[i] = t[i]
    PROVE  s = [t EXCEPT ![j] = s[j]]
OBVIOUS

\* The CRC check fails exactly for a changed byte in the CRC or in the payload.
LEMMA Verdict ==
    ASSUME NEW f \in Frame, NEW q \in Seq(Byte), NEW x \in Seq(Byte), NEW c \in Int,
           Len(q) = Len(f.payload), Len(x) = 4,
           \A i \in 1..4 : IF 12 + i = c THEN x[i] # crc32(f.payload)[i]
                           ELSE x[i] = crc32(f.payload)[i],
           \A i \in 1..Len(f.payload) : IF 16 + i = c THEN q[i] \in Noise /\ q[i] # f.payload[i]
                                        ELSE q[i] = f.payload[i]
    PROVE  /\ crc32(q) = x <=> c \notin 13..Size(f)
           /\ c \notin 13..Size(f) => q = f.payload
<1> DEFINE p == f.payload
<1>1. p \in Payloads /\ p \in Seq(Byte) /\ crc32(p) \in Seq(Byte) /\ Len(crc32(p)) = 4 /\ Len(p) \in Nat
  BY ByteAssumption, CrcAssumption DEF Frame
<1>2. Size(f) = 16 + Len(p)
  BY DEF Size, HeaderTotal
<1>3. ASSUME ~(c >= 17 /\ c <= Size(f)) PROVE q = p
  <2>1. \A i \in 1..Len(p) : 16 + i # c
    BY <1>1, <1>2, <1>3
  <2>2. \A i \in 1..Len(p) : q[i] = p[i]
    BY <2>1, Zenon
  <2> QED BY <1>1, <2>2, SameBytes, Zenon
<1>4. ASSUME ~(c >= 13 /\ c <= 16) PROVE x = crc32(p)
  <2>1. \A i \in 1..4 : 12 + i # c
    BY <1>4
  <2>2. \A i \in 1..4 : x[i] = crc32(p)[i]
    BY <2>1, Zenon
  <2> QED BY <1>1, <2>2, SameBytes, Zenon
<1>5. CASE c >= 13 /\ c <= 16
  <2>1. c - 12 \in 1..4 /\ 12 + (c - 12) = c
    BY <1>5
  <2>2. x[c - 12] # crc32(p)[c - 12]
    BY <2>1, Zenon
  <2>3. x # crc32(p) /\ q = p
    BY <1>3, <1>5, <2>2
  <2>4. c \in 13..Size(f)
    BY <1>1, <1>2, <1>5
  <2> QED BY <2>3, <2>4, Zenon
<1>6. CASE c >= 17 /\ c <= Size(f)
  <2> DEFINE j == c - 16
  <2>1. j \in 1..Len(p) /\ 16 + j = c
    BY <1>1, <1>2, <1>6
  <2>2. q[j] \in Noise /\ q[j] # p[j] /\ j \in DOMAIN p
    <3>1. DOMAIN p = 1..Len(p)
      BY <1>1
    <3> QED BY <2>1, <3>1, Zenon
  <2>3. \A i \in 1..Len(p) : i # j => q[i] = p[i]
    <3>1. \A i \in 1..Len(p) : i # j => 16 + i # c
      BY <1>1, <2>1
    <3> QED BY <3>1, Zenon
  <2>4. q = [p EXCEPT ![j] = q[j]]
    <3> HIDE DEF j
    <3>1. Len(q) = Len(p)
      OBVIOUS
    <3> HIDE DEF p
    <3> QED BY <1>1, <2>1, <2>3, <3>1, OneByte
  <2>5. crc32(q) # crc32(p)
    <3> HIDE DEF j
    <3>1. crc32([p EXCEPT ![j] = q[j]]) # crc32(p)
      BY <1>1, <2>2, CrcAssumption, Zenon
    <3> QED BY <2>4, <3>1, Zenon
  <2>6. x = crc32(p) /\ c \in 13..Size(f)
    BY <1>1, <1>2, <1>4, <1>6
  <2> QED BY <2>5, <2>6, Zenon
<1>7. CASE ~(c >= 13 /\ c <= 16) /\ ~(c >= 17 /\ c <= Size(f))
  <2>1. c \notin 13..Size(f)
    BY <1>1, <1>2, <1>7
  <2>2. q = p /\ x = crc32(p)
    BY <1>3, <1>4, <1>7
  <2> QED BY <2>1, <2>2, Zenon
<1> QED BY <1>5, <1>6, <1>7, Zenon

\* From place o on, as far as it has these places, s holds the bytes of frame f, but
\* for a changed byte at c of them.
Carries(s, o, f, c) == \A i \in 1..Size(f) :
    o + i > 0 /\ o + i <= Len(s) =>
        IF i = c THEN s[o + i] \in Noise /\ s[o + i] # pack(f)[i] ELSE s[o + i] = pack(f)[i]

\* What try_parse_one makes of a packed frame whose length field is intact: it waits
\* for the last byte and then returns the frame, with the verdict of the CRC.
LEMMA ParsePacked ==
    ASSUME NEW a \in Seq(Byte), NEW o \in 0..Len(a), NEW f \in Frame, NEW c \in Int, c \notin 1..4,
           HeaderAfterLen + Len(f.payload) <= MaxFrameBytes, Carries(a, o, f, c)
    PROVE  LET r == try_parse_one(a, o) IN
           /\ Len(a) - o < Size(f) => ~r.ok /\ r.offset = o
           /\ Len(a) - o >= Size(f) =>
                 /\ r.ok /\ r.offset = o + Size(f)
                 /\ r.crc_ok <=> c \notin 13..Size(f)
                 /\ c \notin 13..Size(f) => r.frame.payload = f.payload
                 /\ c \notin 5..Size(f) => r.frame = f
<1> DEFINE p == f.payload
           len == get_le32(a, o + 1)
           q == SubSeq(a, (o + 1) + HeaderTotal, o + FrameTotal(len))
           x == SubSeq(a, o + 13, o + 16)
           m == get_le16(a, o + 5)
           r == try_parse_one(a, o)
<1>1. /\ p \in Seq(Byte) /\ Len(p) \in Nat /\ o \in Nat /\ Len(a) \in Nat
      /\ o <= Len(a) /\ Size(f) = 16 + Len(p)
  BY ByteAssumption DEF Frame, Size, HeaderTotal
<1>2. \A i \in 1..Size(f) : o + i <= Len(a) =>
         IF i = c THEN a[o + i] \in Noise /\ a[o + i] # pack(f)[i] ELSE a[o + i] = pack(f)[i]
  <2>1. \A i \in 1..Size(f) : o + i > 0
    BY <1>1
  <2> QED BY <2>1, Zenon DEF Carries
<1>3. ASSUME Len(a) - o >= 4 PROVE len = 12 + Len(p)
  <2>1. \A i \in 1..4 : i # c /\ i \in 1..Size(f) /\ o + i <= Len(a)
    BY <1>1, <1>3
  <2>2. \A i \in 1..4 : a[o + i] = pack(f)[i]
    BY <1>2, <2>1, Zenon
  <2> QED BY <1>1, <2>2, Header, Zenon DEF HeaderAfterLen
<1>4. CASE Len(a) - o < Size(f)
  <2>1. CASE Len(a) - o < 4
    BY <2>1, <1>1 DEF try_parse_one
  <2>2. CASE Len(a) - o >= 4
    <3>1. len = 12 + Len(p)
      BY <1>3, <2>2
    <3>2. ~(len > MaxFrameBytes) /\ FrameTotal(len) = Size(f)
      BY <3>1, <1>1, FrameAssumption DEF FrameTotal, HeaderAfterLen
    <3>3. ~(Len(a) - o < 4) /\ Len(a) - o < FrameTotal(len)
      BY <2>2, <3>2, <1>1, <1>4
    <3>4. r = [ok |-> FALSE, offset |-> o]
      BY <3>2, <3>3, Zenon DEF try_parse_one
    <3> QED BY <1>1, <1>4, <3>4
  <2> QED BY <2>1, <2>2, <1>1
<1>5. CASE Len(a) - o >= Size(f)
  <2>1. len = 12 + Len(p)
    BY <1>1, <1>3, <1>5
  <2>2. /\ ~(len > MaxFrameBytes) /\ FrameTotal(len) = Size(f)
        /\ ~(len < HeaderAfterLen) /\ ~(Len(a) - o < FrameTotal(len)) /\ ~(Len(a) - o < 4)
    BY <2>1, <1>1, <1>5, FrameAssumption DEF FrameTotal, HeaderAfterLen
  <2>3. r = [ok |-> TRUE, offset |-> o + FrameTotal(len), frame |-> [cmd |-> m, payload |-> q],
             crc_ok |-> crc_ok(SubSeq(a, o + 1, o + 12), q, x)]
    BY <2>2, Zenon DEF try_parse_one
  <2> HIDE DEF r, len, m
  <2>4. /\ r.ok /\ r.offset = o + Size(f) /\ r.frame = [cmd |-> m, payload |-> q]
        /\ r.crc_ok <=> crc32(q) = x
    <3>1. r.ok /\ r.offset = o + FrameTotal(len) /\ r.frame = [cmd |-> m, payload |-> q]
          /\ r.crc_ok = crc_ok(SubSeq(a, o + 1, o + 12), q, x)
      BY <2>3, Zenon
    <3>2. crc_ok(SubSeq(a, o + 1, o + 12), q, x) <=> crc32(q) = x
      BY Zenon DEF crc_ok, Crc
    <3> QED BY <2>2, <3>1, <3>2, Zenon
  <2>5. /\ q \in Seq(Byte) /\ Len(q) = Len(p)
        /\ \A i \in 1..Len(p) : q[i] = a[(o + 16) + i]
    <3>1. (o + 1) + HeaderTotal = (o + 16) + 1 /\ o + FrameTotal(len) = (o + 16) + Len(p)
          /\ (o + 16) + Len(p) <= Len(a) /\ o + 16 \in Nat
      <4> HIDE DEF p
      <4> QED BY <2>2, <1>1, <1>5 DEF HeaderTotal
    <3>2. q = SubSeq(a, (o + 16) + 1, (o + 16) + Len(p))
      BY <3>1, Zenon
    <3> DEFINE w == o + 16
               n == Len(p)
    <3>3. a \in Seq(Byte) /\ w \in Nat /\ n \in Nat /\ w + n <= Len(a) /\ q = SubSeq(a, w + 1, w + n)
      BY <1>1, <3>1, <3>2, Zenon
    <3> HIDE DEF q, w, n
    <3>4. q \in Seq(Byte) /\ Len(q) = n /\ \A i \in 1..n : q[i] = a[w + i]
      BY <3>3, Piece, ZenonT(60)
    <3> QED BY <3>4, Zenon DEF w, n
  <2>6. x \in Seq(Byte) /\ Len(x) = 4 /\ \A i \in 1..4 : x[i] = a[(o + 12) + i]
    <3>1. o + 13 = (o + 12) + 1 /\ o + 16 = (o + 12) + 4
          /\ (o + 12) + 4 <= Len(a) /\ o + 12 \in Nat /\ 4 \in Nat
      BY <1>1, <1>5
    <3>2. x = SubSeq(a, (o + 12) + 1, (o + 12) + 4)
      BY <3>1, Zenon
    <3> HIDE DEF x
    <3> QED BY <3>1, <3>2, Piece, ZenonT(60)
  <2> HIDE DEF q, x
  <2>7. \A i \in 1..Len(p) : IF 16 + i = c THEN q[i] \in Noise /\ q[i] # p[i] ELSE q[i] = p[i]
    <3> TAKE i \in 1..Len(p)
    <3>1. 16 + i \in 1..Size(f) /\ o + (16 + i) <= Len(a) /\ (o + 16) + i = o + (16 + i)
      BY <1>1, <1>5
    <3>2. pack(f)[16 + i] = p[i]
      BY PackBytes, Zenon
    <3> QED BY <1>2, <2>5, <3>1, <3>2, ZenonT(60)
  <2>8. \A i \in 1..4 : IF 12 + i = c THEN x[i] # crc32(p)[i] ELSE x[i] = crc32(p)[i]
    <3> TAKE i \in 1..4
    <3>1. 12 + i \in 1..Size(f) /\ o + (12 + i) <= Len(a) /\ (o + 12) + i = o + (12 + i)
      BY <1>1, <1>5
    <3>2. pack(f)[12 + i] = crc32(p)[i]
      BY PackBytes, Zenon
    <3> QED BY <1>2, <2>6, <3>1, <3>2, ZenonT(60)
  <2>9. /\ crc32(q) = x <=> c \notin 13..Size(f)
        /\ c \notin 13..Size(f) => q = p
    BY <2>5, <2>6, <2>7, <2>8, Verdict, ZenonT(60)
  <2>10. ASSUME c \notin 5..Size(f) PROVE r.frame = f
    <3>1. \A i \in 5..6 : i # c /\ i \in 1..Size(f) /\ o + i <= Len(a)
      BY <1>1, <1>5, <2>10
    <3>2. \A i \in 5..6 : a[o + i] = pack(f)[i]
      BY <1>2, <3>1, Zenon
    <3>3. m = f.cmd
      BY <1>1, <3>2, Header, Zenon DEF m
    <3>4. c \notin 13..Size(f)
      BY <1>1, <2>10
    <3>5. r.frame = [cmd |-> f.cmd, payload |-> f.payload]
      BY <2>4, <2>9, <3>3, <3>4, Zenon
    <3> QED BY <3>5 DEF Frame
  <2>11. c \notin 13..Size(f) => r.frame.payload = f.payload
    <3>1. r.frame.payload = q
      BY <2>4
    <3> QED BY <2>9, <3>1, Zenon
  <2>12. r.crc_ok <=> c \notin 13..Size(f)
    BY <2>4, <2>9, Zenon
  <2>13. ~(Len(a) - o < Size(f))
    BY <1>1, <1>5
  <2> QED BY <2>4, <2>10, <2>11, <2>12, <2>13, Zenon DEF r
<1> QED BY <1>1, <1>4, <1>5

\* What try_parse_one does with any buffer: it never goes back nor past the end, it
\* goes past a header to return a frame, and what it leaves for the next read is less
\* than the largest frame.
LEMMA ParseAny ==
    ASSUME NEW a \in Seq(Byte), NEW o \in 0..Len(a)
    PROVE  LET r == try_parse_one(a, o) IN
           /\ r.ok \in BOOLEAN /\ r.offset \in Nat /\ r.offset >= o /\ r.offset <= Len(a)
           /\ ~r.ok => Len(a) - r.offset < 4 + MaxFrameBytes
           /\ r.ok => r.offset >= o + HeaderTotal /\ r.frame \in Seen
<1> DEFINE len == get_le32(a, o + 1)
           total == FrameTotal(len)
           q == SubSeq(a, (o + 1) + HeaderTotal, o + total)
           m == get_le16(a, o + 5)
           r == try_parse_one(a, o)
<1>1. o \in Nat /\ Len(a) \in Nat /\ o <= Len(a) /\ MaxFrameBytes \in Nat
  BY FrameAssumption
<1>2. CASE Len(a) - o < 4
  <2>1. r = [ok |-> FALSE, offset |-> o]
    BY <1>2, Zenon DEF try_parse_one
  <2> HIDE DEF r
  <2> QED BY <1>1, <1>2, <2>1 DEF r
<1>3. CASE ~(Len(a) - o < 4)
  <2>1. \A i \in 1..4 : a[o + i] \in Byte
    BY <1>1, <1>3
  <2>2. len \in Nat
    <3>1. a[o + 1] \in Nat /\ a[o + 2] \in Nat /\ a[o + 3] \in Nat /\ a[o + 4] \in Nat
      BY <2>1, ByteRange
    <3>2. (o + 1) + 1 = o + 2 /\ (o + 1) + 2 = o + 3 /\ (o + 1) + 3 = o + 4 /\ (o + 3) + 1 = o + 4
      BY <1>1
    <3>3. len = IF a[o + 4] >= 128 THEN 2147483647
                ELSE (a[o + 1] + 256 * a[o + 2]) + 65536 * (a[o + 3] + 256 * a[o + 4])
      <4>1. get_le16(a, o + 1) = a[o + 1] + 256 * a[o + 2]
        BY <3>2 DEF get_le16
      <4>2. get_le16(a, o + 3) = a[o + 3] + 256 * a[o + 4]
        BY <3>2 DEF get_le16
      <4> QED BY <3>2, <4>1, <4>2 DEF get_le32
    <3> DEFINE w == a[o + 1]
               x == a[o + 2]
               y == a[o + 3]
               z == a[o + 4]
    <3>4. /\ w \in Nat /\ x \in Nat /\ y \in Nat /\ z \in Nat
          /\ len = IF z >= 128 THEN 2147483647 ELSE (w + 256 * x) + 65536 * (y + 256 * z)
      BY <3>1, <3>3
    <3> HIDE DEF len, w, x, y, z
    <3> QED BY <3>4
  <2>3. CASE len > MaxFrameBytes
    <3>1. r = [ok |-> FALSE, offset |-> Len(a)]
      BY <1>3, <2>3, Zenon DEF try_parse_one
    <3> HIDE DEF r
    <3> QED BY <1>1, <3>1 DEF r
  <2>4. CASE ~(len > MaxFrameBytes) /\ Len(a) - o < total
    <3>1. r = [ok |-> FALSE, offset |-> o]
      BY <1>3, <2>4, Zenon DEF try_parse_one
    <3>2. Len(a) - o < 4 + MaxFrameBytes
      <4> HIDE DEF len
      <4> QED BY <1>1, <2>2, <2>4 DEF FrameTotal
    <3> HIDE DEF r
    <3> QED BY <1>1, <3>1, <3>2 DEF r
  <2>5. CASE ~(len > MaxFrameBytes) /\ ~(Len(a) - o < total) /\ len < HeaderAfterLen
    <3>1. r = [ok |-> FALSE, offset |-> Len(a)]
      BY <1>3, <2>5, Zenon DEF try_parse_one
    <3> HIDE DEF r
    <3> QED BY <1>1, <3>1 DEF r
  <2>6. CASE ~(len > MaxFrameBytes) /\ ~(Len(a) - o < total) /\ ~(len < HeaderAfterLen)
    <3>1. r = [ok |-> TRUE, offset |-> o + total, frame |-> [cmd |-> m, payload |-> q],
               crc_ok |-> crc_ok(SubSeq(a, o + 1, o + 12), q, SubSeq(a, o + 13, o + 16))]
      BY <1>3, <2>6, Zenon DEF try_parse_one
    <3>2. total \in Nat /\ total >= 16 /\ o + total <= Len(a)
      <4> HIDE DEF len
      <4> QED BY <1>1, <2>2, <2>6 DEF FrameTotal, HeaderAfterLen
    <3>3. m \in Nat
      <4>1. a[o + 5] \in Byte /\ a[o + 6] \in Byte
        <5> HIDE DEF total
        <5> QED BY <1>1, <3>2
      <4>2. a[o + 5] \in Nat /\ a[o + 6] \in Nat /\ (o + 5) + 1 = o + 6
        BY <1>1, <4>1, ByteRange
      <4> QED BY <4>2 DEF get_le16
    <3>4. q \in Seq(Byte)
      <4> HIDE DEF total
      <4> QED BY <1>1, <3>2 DEF HeaderTotal
    <3> HIDE DEF r, total, q, m
    <3>5. r.ok = TRUE /\ r.offset = o + total /\ r.frame = [cmd |-> m, payload |-> q]
      BY <3>1, Zenon
    <3>6. r.frame \in Seen
      BY <3>3, <3>4, <3>5 DEF Seen
    <3>7. r.offset \in Nat /\ r.offset >= o /\ r.offset <= Len(a) /\ r.offset >= o + HeaderTotal
      BY <1>1, <3>2, <3>5 DEF HeaderTotal
    <3> QED BY <3>5, <3>6, <3>7, Zenon DEF r
  <2> QED BY <2>3, <2>4, <2>5, <2>6, Zenon
<1> QED BY <1>2, <1>3, Zenon

\* The loop's state on buffer a
Parsing(a) == [offset : 0..Len(a), frames : Seq(Seen), drops : Nat, more : BOOLEAN]

\* What a pass does to each part of the state
LEMMA PassParts ==
    ASSUME NEW a \in Seq(Byte), NEW s \in Parsing(a)
    PROVE  LET r == try_parse_one(a, s.offset)
               t == Pass(a, s) IN
           /\ t \in Parsing(a)
           /\ ~s.more => t = s
           /\ s.more => t.offset = r.offset /\ t.more = r.ok
           /\ s.more /\ ~r.ok => t.frames = s.frames /\ t.drops = s.drops
           /\ s.more /\ r.ok /\ r.crc_ok => t.frames = Append(s.frames, r.frame) /\ t.drops = s.drops
           /\ s.more /\ r.ok /\ ~r.crc_ok => t.frames = s.frames /\ t.drops = s.drops + 1
<1> DEFINE r == try_parse_one(a, s.offset)
           t == Pass(a, s)
<1>1. s.offset \in 0..Len(a) /\ s.frames \in Seq(Seen) /\ s.drops \in Nat /\ s.more \in BOOLEAN
  BY DEF Parsing
<1>2. /\ r.ok \in BOOLEAN /\ r.offset \in Nat /\ r.offset <= Len(a)
      /\ r.ok => r.frame \in Seen
  BY <1>1, ParseAny, Zenon
<1>3. r.offset \in 0..Len(a)
  <2> HIDE DEF r
  <2> QED BY <1>2
<1> DEFINE fr == IF r.ok /\ r.crc_ok THEN Append(s.frames, r.frame) ELSE s.frames
           d == IF r.ok /\ ~r.crc_ok THEN s.drops + 1 ELSE s.drops
<1>4. CASE ~s.more
  BY <1>4, Zenon DEF Pass
<1>5. CASE s.more
  <2>1. t = [offset |-> r.offset, frames |-> fr, drops |-> d, more |-> r.ok]
    BY <1>5, Zenon DEF Pass
  <2> HIDE DEF r, t
  <2>2. fr \in Seq(Seen)
    BY <1>1, <1>2
  <2>3. d \in Nat
    BY <1>1
  <2> HIDE DEF fr, d
  <2>4. t.offset = r.offset /\ t.frames = fr /\ t.drops = d /\ t.more = r.ok
    BY <2>1, Zenon
  <2>5. t \in Parsing(a)
    BY <1>2, <1>3, <2>1, <2>2, <2>3, Zenon DEF Parsing
  <2>6. CASE ~r.ok
    <3>1. fr = s.frames /\ d = s.drops
      BY <2>6, Zenon DEF fr, d
    <3> QED BY <1>5, <2>4, <2>5, <2>6, <3>1, Zenon DEF r, t
  <2>7. CASE r.ok /\ r.crc_ok
    <3>1. fr = Append(s.frames, r.frame) /\ d = s.drops
      BY <2>7, Zenon DEF fr, d
    <3> QED BY <1>5, <2>4, <2>5, <2>7, <3>1, Zenon DEF r, t
  <2>8. CASE r.ok /\ ~r.crc_ok
    <3>1. fr = s.frames /\ d = s.drops + 1
      BY <2>8, Zenon DEF fr, d
    <3> QED BY <1>5, <2>4, <2>5, <2>8, <3>1, Zenon DEF r, t
  <2> QED BY <2>6, <2>7, <2>8, Zenon
<1> QED BY <1>4, <1>5, Zenon

\* A set of natural numbers has a least one.
LEMMA LeastNat ==
    ASSUME NEW T, T \subseteq Nat, T # {}
    PROVE  \E x \in T : \A y \in T : x <= y
<1>1. PICK x \in T : \A y \in T : ~(<<y, x>> \in OpToRel(<, Nat))
  BY NatLessThanWellFounded, WFMin, Zenon
<1>2. \A y \in T : ~(y < x)
  BY <1>1, Zenon DEF OpToRel
<1> QED BY <1>2

\* The states after 0..n passes exist.
LEMMA PassesExist ==
    ASSUME NEW a \in Seq(Byte), NEW st \in Parsing(a), NEW n \in Nat
    PROVE  \E g : g = [i \in 0..n |-> IF i = 0 THEN st ELSE Pass(a, g[i - 1])]
<1> DEFINE Run(m) == \E g \in [0..m -> Parsing(a)] :
                       g[0] = st /\ \A i \in 1..m : g[i] = Pass(a, g[i - 1])
           T == {m \in 0..n : ~Run(m)}
<1>0. \A s \in Parsing(a) : Pass(a, s) \in Parsing(a)
  BY PassParts, Zenon
<1>1. T = {}
  <2> SUFFICES ASSUME T # {} PROVE FALSE
    BY Zenon
  <2>1. T \subseteq Nat
    OBVIOUS
  <2>2. PICK m \in T : \A j \in T : m <= j
    BY <2>1, LeastNat, Zenon
  <2>3. Run(0)
    <3>1. [i \in 0..0 |-> st] \in [0..0 -> Parsing(a)] /\ [i \in 0..0 |-> st][0] = st
      OBVIOUS
    <3>2. \A i \in 1..0 : FALSE
      OBVIOUS
    <3> QED BY <3>1, <3>2, Zenon
  <2>4. m \in 1..n /\ m - 1 \in 0..n /\ Run(m - 1)
    <3> HIDE DEF Run
    <3>1. m \in 0..n /\ m # 0
      BY <2>2, <2>3
    <3>2. m - 1 \in 0..n /\ ~(m <= m - 1)
      BY <3>1
    <3>3. m - 1 \notin T
      BY <2>2, <3>2
    <3> QED BY <3>1, <3>2, <3>3
  <2>5. PICK f \in [0..(m - 1) -> Parsing(a)] :
          f[0] = st /\ \A i \in 1..(m - 1) : f[i] = Pass(a, f[i - 1])
    BY <2>4, Zenon
  <2> DEFINE g == [i \in 0..m |-> IF i = m THEN Pass(a, f[m - 1]) ELSE f[i]]
  <2>6. g \in [0..m -> Parsing(a)]
    <3>1. m - 1 \in 0..(m - 1) /\ \A i \in 0..m : i # m => i \in 0..(m - 1)
      BY <2>4
    <3>2. Pass(a, f[m - 1]) \in Parsing(a)
      BY <1>0, <3>1, Zenon
    <3>3. \A i \in 0..m : (IF i = m THEN Pass(a, f[m - 1]) ELSE f[i]) \in Parsing(a)
      BY <3>1, <3>2, Zenon
    <3> QED BY <3>3, Zenon
  <2>7. g[0] = st
    <3>1. 0 \in 0..m /\ 0 # m
      BY <2>4
    <3> QED BY <2>5, <3>1, Zenon
  <2>8. ASSUME NEW i \in 1..m PROVE g[i] = Pass(a, g[i - 1])
    <3>1. i - 1 \in 0..m /\ i - 1 # m /\ i \in 0..m /\ (i # m => i \in 1..(m - 1))
      BY <2>4
    <3>2. g[i - 1] = f[i - 1]
      BY <3>1, Zenon
    <3>3. CASE i = m
      <4>1. g[i] = Pass(a, f[m - 1])
        BY <3>1, <3>3, Zenon
      <4> HIDE DEF g
      <4> QED BY <3>2, <3>3, <4>1, Zenon
    <3>4. CASE i # m
      <4>1. g[i] = f[i]
        BY <3>1, <3>4, Zenon
      <4> HIDE DEF g
      <4> QED BY <2>5, <3>1, <3>2, <3>4, <4>1, Zenon
    <3> QED BY <3>3, <3>4, Zenon
  <2>9. Run(m)
    <3> HIDE DEF g
    <3> QED BY <2>6, <2>7, <2>8, Zenon
  <2> QED BY <2>2, <2>9, Zenon
<1>2. Run(n)
  BY <1>1
<1>3. PICK g \in [0..n -> Parsing(a)] : g[0] = st /\ \A i \in 1..n : g[i] = Pass(a, g[i - 1])
  BY <1>2, Zenon
<1>4. \A i \in 0..n : g[i] = IF i = 0 THEN st ELSE Pass(a, g[i - 1])
  <2>1. \A i \in 0..n : i # 0 => i \in 1..n
    OBVIOUS
  <2> QED BY <1>3, <2>1, Zenon
<1>5. g = [i \in 0..n |-> IF i = 0 THEN st ELSE Pass(a, g[i - 1])]
  BY <1>4, Zenon
<1> QED BY <1>5, Zenon

\* What holds before the loop, and after i + 1 passes if after i, holds at its end.
LEMMA LoopInduction ==
    ASSUME NEW a \in Seq(Byte), NEW st \in Parsing(a), NEW Q, st \in Q[0],
           \A i \in Nat : \A s \in Parsing(a) : s \in Q[i] => Pass(a, s) \in Q[i + 1]
    PROVE  ParseLoop(a, st) \in Parsing(a) /\ ParseLoop(a, st) \in Q[Len(a) \div HeaderTotal + 1]
<1> DEFINE n == Len(a) \div HeaderTotal + 1
           P(g) == g = [i \in 0..n |-> IF i = 0 THEN st ELSE Pass(a, g[i - 1])]
           after == CHOOSE g : P(g)
<1>1. n \in Nat
  BY DEF HeaderTotal
<1>2. ParseLoop(a, st) = after[n]
  BY Zenon DEF ParseLoop
<1> HIDE DEF n
<1>3. P(after)
  <2>1. \E g : P(g)
    BY <1>1, PassesExist, Zenon
  <2> QED BY <2>1, Zenon
<1> HIDE DEF after
<1>4. after[0] = st /\ \A i \in 0..n : i # 0 => after[i] = Pass(a, after[i - 1])
  <2>1. \A i \in 0..n : after[i] = IF i = 0 THEN st ELSE Pass(a, after[i - 1])
    BY <1>3, Zenon
  <2>2. 0 \in 0..n
    BY <1>1
  <2> QED BY <2>1, <2>2, Zenon
<1> DEFINE T == {i \in 0..n : ~(after[i] \in Parsing(a) /\ after[i] \in Q[i])}
<1>5. T = {}
  <2> SUFFICES ASSUME T # {} PROVE FALSE
    BY Zenon
  <2>1. T \subseteq Nat
    BY <1>1
  <2>2. PICK m \in T : \A j \in T : m <= j
    BY <2>1, LeastNat, Zenon
  <2>3. m # 0
    BY <1>4, <2>2, Zenon
  <2>4. m \in 0..n /\ m - 1 \in 0..n /\ m - 1 \in Nat /\ (m - 1) + 1 = m /\ ~(m <= m - 1)
    BY <1>1, <2>2, <2>3
  <2>5. after[m - 1] \in Parsing(a) /\ after[m - 1] \in Q[m - 1]
    BY <2>2, <2>4, Zenon
  <2>6. after[m] = Pass(a, after[m - 1])
    BY <1>4, <2>3, <2>4, Zenon
  <2>7. after[m] \in Parsing(a) /\ after[m] \in Q[m]
    BY <2>4, <2>5, <2>6, PassParts, ZenonT(60)
  <2> QED BY <2>2, <2>7, Zenon
<1>6. n \in 0..n
  BY <1>1
<1>7. after[n] \in Parsing(a) /\ after[n] \in Q[n]
  BY <1>5, <1>6, Zenon
<1> QED BY <1>2, <1>7, Zenon DEF n

\* The loop ends because nothing more can be parsed, not because the passes are used
\* up, and leaves less than the largest frame.
LEMMA LoopStops ==
    ASSUME NEW a \in Seq(Byte), NEW st \in Parsing(a), st.more
    PROVE  LET e == ParseLoop(a, st) IN
           /\ e \in Parsing(a) /\ ~e.more
           /\ Len(a) - e.offset < 4 + MaxFrameBytes
<1> DEFINE R(i, s) == /\ s.more => s.offset >= 16 * i
                      /\ ~s.more => Len(a) - s.offset < 4 + MaxFrameBytes
           Q == [i \in Nat |-> {s \in Parsing(a) : R(i, s)}]
           n == Len(a) \div HeaderTotal + 1
           e == ParseLoop(a, st)
<1>1. st \in Q[0]
  <2>1. 0 \in Nat /\ st.offset >= 16 * 0
    BY DEF Parsing
  <2> QED BY <2>1, Zenon
<1>2. ASSUME NEW i \in Nat, NEW s \in Parsing(a), s \in Q[i]
      PROVE  Pass(a, s) \in Q[i + 1]
  <2> DEFINE r == try_parse_one(a, s.offset)
             t == Pass(a, s)
  <2>1. s.offset \in 0..Len(a) /\ s.more \in BOOLEAN
    BY DEF Parsing
  <2>2. R(i, s)
    BY <1>2, Zenon
  <2>3. /\ r.ok \in BOOLEAN
        /\ ~r.ok => Len(a) - r.offset < 4 + MaxFrameBytes
        /\ r.ok => r.offset >= s.offset + HeaderTotal
        /\ r.offset \in Nat
    BY <2>1, ParseAny, Zenon
  <2>4. /\ t \in Parsing(a)
        /\ ~s.more => t = s
        /\ s.more => t.offset = r.offset /\ t.more = r.ok
    BY PassParts, Zenon
  <2> HIDE DEF r, t
  <2>5. R(i + 1, t)
    <3>1. CASE ~s.more
      BY <2>2, <2>4, <3>1, Zenon
    <3>2. CASE s.more /\ ~r.ok
      BY <2>3, <2>4, <3>2, Zenon
    <3>3. CASE s.more /\ r.ok
      <4>1. s.offset >= 16 * i /\ r.offset >= s.offset + 16 /\ t.more /\ t.offset = r.offset
        BY <2>2, <2>3, <2>4, <3>3, Zenon DEF HeaderTotal
      <4>2. r.offset >= 16 * (i + 1)
        BY <2>1, <2>3, <4>1
      <4> QED BY <4>1, <4>2, Zenon
    <3> QED BY <3>1, <3>2, <3>3, Zenon
  <2>6. i + 1 \in Nat
    OBVIOUS
  <2> HIDE DEF R
  <2> QED BY <2>4, <2>5, <2>6, Zenon DEF t
<1>3. e \in Parsing(a) /\ e \in Q[n]
  <2> HIDE DEF Q
  <2> QED BY <1>1, <1>2, LoopInduction, Zenon
<1>4. n \in Nat /\ 16 * n > Len(a)
  BY DEF HeaderTotal
<1> HIDE DEF n, e
<1>5. R(n, e)
  BY <1>3, <1>4, Zenon
<1>6. e.offset \in Int /\ e.offset <= Len(a) /\ e.more \in BOOLEAN
  BY <1>3 DEF Parsing
<1>7. ~e.more
  <2>1. ~(e.offset >= 16 * n)
    BY <1>4, <1>6
  <2> QED BY <1>5, <2>1, Zenon
<1> QED BY <1>3, <1>5, <1>7, Zenon DEF e

-----------------------------------------------------------------------------
\* The variables' types
TypeInv ==
    /\ sent \in Seq(Frame) /\ ends \in Seq(Nat) /\ Len(ends) = Len(sent)
    /\ wire \in Seq(Byte) /\ acc \in Seq(Byte) /\ read \in Nat /\ Len(acc) <= read
    /\ offset \in Nat /\ offset <= Len(acc)
    /\ frames \in Seq(Seen) /\ drops \in Nat /\ changed \in Nat

\* The frames lie one after the other in the stream of bytes.
EndsInv ==
    /\ Ends(Len(sent)) = read + Len(wire) /\ changed <= read + Len(wire)
    /\ \A k \in 1..Len(sent) : Ends(k) = Ends(k - 1) + Size(sent[k])
    /\ \A j, k \in 0..Len(sent) : j < k => Ends(j) < Ends(k)

\* Which byte of frame k is the changed one, if it is one of 1..Size(sent[k])
At(k) == changed - Ends(k - 1)

\* Where in the stream frame_acc_ begins
Base == read - Len(acc)

\* What has not been erased is, frame by frame, what was packed.
StreamInv == \A k \in 1..Len(sent) :
    Carries(acc \o wire, Ends(k - 1) - Base, sent[k], At(k))

\* fr and d are what on_frame_ was called with and drops for the first Len(fr) + d frames.
Content(fr, d) ==
    /\ (\A k \in 1..Len(sent) : At(k) \notin 13..Size(sent[k])) =>
          /\ d = 0
          /\ \A i \in 1..Len(fr) : /\ fr[i].payload = sent[i].payload
                                   /\ At(i) \notin 5..12 => fr[i] = sent[i]
    /\ \A k \in 1..Len(sent) : At(k) \in 13..Size(sent[k]) =>
          /\ d = IF k <= Len(fr) + d THEN 1 ELSE 0
          /\ \A i \in 1..Len(fr) : fr[i] = sent[IF i < k THEN i ELSE i + 1]

\* The parser is at the end of the last frame it has seen and, unless it goes on, the
\* next frame ends after the bytes it has, which end at upto.
Synced(upto, at, fr, d, more) ==
    /\ Len(fr) + d <= Len(sent)
    /\ at = Ends(Len(fr) + d)
    /\ Content(fr, d)
    /\ more \/ Len(fr) + d = Len(sent) \/ upto < Ends(Len(fr) + d + 1)

\* Every frame fits and no length field was changed.
Intact == Fitting /\ \A k \in 1..Len(sent) : At(k) \notin 1..4

\* The inductive invariant: the parser is in step while no length field is changed.
IInv == /\ TypeInv /\ EndsInv /\ StreamInv /\ BufferBounded
        /\ Intact => Synced(read, Base + offset, frames, drops, FALSE)

\* A frame has a header at least.
LEMMA FrameSize ==
    ASSUME NEW f \in Frame
    PROVE  Size(f) \in Nat /\ Size(f) >= 16 /\ Size(f) = 16 + Len(f.payload)
BY ByteAssumption DEF Frame, Size, HeaderTotal

\* Where frames end and where the changed byte is, as numbers
LEMMA EndsNat ==
    ASSUME TypeInv
    PROVE  /\ \A k \in 0..Len(sent) : Ends(k) \in Nat
           /\ \A k \in 1..Len(sent) : At(k) \in Int /\ sent[k] \in Frame
<1>1. \A k \in 0..Len(sent) : Ends(k) \in Nat
  BY DEF TypeInv, Ends
<1>2. ASSUME NEW k \in 1..Len(sent) PROVE At(k) \in Int /\ sent[k] \in Frame
  <2>1. k - 1 \in 0..Len(sent) /\ changed \in Int
    BY DEF TypeInv
  <2>2. Ends(k - 1) \in Nat
    BY <1>1, <2>1, Zenon
  <2> QED BY <2>1, <2>2 DEF At, TypeInv
<1> QED BY <1>1, <1>2, Zenon

\* A place outside a frame is in none of its parts.
LEMMA Outside ==
    ASSUME NEW x \in Int, NEW n \in Nat, ~(x >= 1 /\ x <= n), n >= 16
    PROVE  x \notin 1..4 /\ x \notin 5..12 /\ x \notin 13..n
<1>1. CASE x < 1
  BY <1>1
<1>2. CASE x > n
  BY <1>2
<1> QED BY <1>1, <1>2

\* A changed byte is in one frame only.
LEMMA AtOne ==
    ASSUME TypeInv, EndsInv, NEW j \in 1..Len(sent), NEW k \in 1..Len(sent), j # k,
           At(k) >= 1, At(k) <= Size(sent[k])
    PROVE  ~(At(j) >= 1 /\ At(j) <= Size(sent[j]))
<1>1. Len(sent) \in Nat /\ changed \in Int
  BY DEF TypeInv
<1>2. j - 1 \in 0..Len(sent) /\ k - 1 \in 0..Len(sent) /\ j \in 0..Len(sent) /\ k \in 0..Len(sent)
  BY <1>1
<1>3. Ends(j) \in Nat /\ Ends(k) \in Nat /\ Ends(j - 1) \in Nat /\ Ends(k - 1) \in Nat
  BY <1>2, EndsNat, Zenon
<1>4. Size(sent[j]) \in Nat /\ Size(sent[k]) \in Nat
  BY EndsNat, FrameSize, Zenon
<1>5. Ends(j) = Ends(j - 1) + Size(sent[j]) /\ Ends(k) = Ends(k - 1) + Size(sent[k])
  BY Zenon DEF EndsInv
<1>6. /\ j < k - 1 => Ends(j) < Ends(k - 1)
      /\ k < j - 1 => Ends(k) < Ends(j - 1)
  BY <1>2, Zenon DEF EndsInv
<1>7. (j < k => Ends(j) <= Ends(k - 1)) /\ (k < j => Ends(k) <= Ends(j - 1))
  BY <1>2, <1>3, <1>6
<1> QED BY <1>1, <1>3, <1>4, <1>5, <1>7 DEF At

\* Delivering the next frame
LEMMA ContentDelivered ==
    ASSUME TypeInv, EndsInv, NEW fr \in Seq(Seen), NEW d \in Nat, Content(fr, d),
           NEW m \in 1..Len(sent), m = Len(fr) + d + 1, At(m) \notin 13..Size(sent[m]),
           NEW g \in Seen, g.payload = sent[m].payload, At(m) \notin 5..12 => g = sent[m]
    PROVE  Content(Append(fr, g), d)
<1> DEFINE h == Append(fr, g)
           l == Len(fr)
<1>1. /\ Len(h) = l + 1 /\ h[l + 1] = g /\ l \in Nat
      /\ \A i \in 1..l : h[i] = fr[i]
      /\ \A i \in 1..(l + 1) : i \in 1..l \/ i = l + 1
  OBVIOUS
<1>2. ASSUME \A k \in 1..Len(sent) : At(k) \notin 13..Size(sent[k])
      PROVE  /\ d = 0
             /\ \A i \in 1..(l + 1) : /\ h[i].payload = sent[i].payload
                                      /\ At(i) \notin 5..12 => h[i] = sent[i]
  <2>1. /\ d = 0
        /\ \A i \in 1..l : /\ fr[i].payload = sent[i].payload
                           /\ At(i) \notin 5..12 => fr[i] = sent[i]
    BY <1>2, Zenon DEF Content
  <2>2. m = l + 1
    BY <1>1, <2>1
  <2> HIDE DEF h, l
  <2> QED BY <1>1, <2>1, <2>2, Zenon
<1>3. ASSUME NEW k \in 1..Len(sent), At(k) \in 13..Size(sent[k])
      PROVE  /\ d = IF k <= (l + 1) + d THEN 1 ELSE 0
             /\ \A i \in 1..(l + 1) : h[i] = sent[IF i < k THEN i ELSE i + 1]
  <2>1. /\ d = IF k <= l + d THEN 1 ELSE 0
        /\ \A i \in 1..l : fr[i] = sent[IF i < k THEN i ELSE i + 1]
    BY <1>3, Zenon DEF Content
  <2>2. k # m /\ At(k) >= 1 /\ At(k) <= Size(sent[k])
    BY <1>3
  <2>3. ~(At(m) >= 1 /\ At(m) <= Size(sent[m]))
    BY <2>2, AtOne, Zenon
  <2>4. At(m) \in Int /\ Size(sent[m]) \in Nat /\ Size(sent[m]) >= 16
    BY EndsNat, FrameSize, Zenon
  <2>5. g = sent[m]
    <3>1. At(m) \notin 5..12
      BY <2>3, <2>4, Outside, Zenon
    <3> QED BY <3>1, Zenon
  <2> HIDE DEF h, l
  <2>6. /\ d = IF k <= (l + 1) + d THEN 1 ELSE 0
        /\ m = IF l + 1 < k THEN l + 1 ELSE (l + 1) + 1
    <3>1. m = l + d + 1
      BY DEF l
    <3>2. CASE k <= l + d
      BY <1>1, <2>1, <3>1, <3>2
    <3>3. CASE ~(k <= l + d)
      BY <1>1, <2>1, <2>2, <3>1, <3>3
    <3> QED BY <3>2, <3>3, Zenon
  <2>7. h[l + 1] = sent[IF l + 1 < k THEN l + 1 ELSE (l + 1) + 1]
    BY <1>1, <2>5, <2>6, Zenon
  <2> QED BY <1>1, <2>1, <2>6, <2>7, Zenon
<1> HIDE DEF h, l
<1>4. Len(h) = l + 1
  BY <1>1, Zenon
<1>5. Content(h, d)
  BY <1>2, <1>3, <1>4, ZenonT(60) DEF Content
<1> QED BY <1>5, Zenon DEF h

\* Dropping it
LEMMA ContentDropped ==
    ASSUME TypeInv, EndsInv, NEW fr \in Seq(Seen), NEW d \in Nat, Content(fr, d),
           NEW m \in 1..Len(sent), m = Len(fr) + d + 1, At(m) \in 13..Size(sent[m])
    PROVE  Content(fr, d + 1)
<1>1. At(m) >= 1 /\ At(m) <= Size(sent[m])
  OBVIOUS
<1>2. ASSUME NEW k \in 1..Len(sent), At(k) \in 13..Size(sent[k]) PROVE k = m
  <2>1. At(k) >= 1 /\ At(k) <= Size(sent[k])
    BY <1>2
  <2> QED BY <1>1, <2>1, AtOne, Zenon
<1>3. /\ d = IF m <= Len(fr) + d THEN 1 ELSE 0
      /\ \A i \in 1..Len(fr) : fr[i] = sent[IF i < m THEN i ELSE i + 1]
  BY Zenon DEF Content
<1>4. d + 1 = IF m <= Len(fr) + (d + 1) THEN 1 ELSE 0
  <2> DEFINE l == Len(fr)
  <2>1. l \in Nat /\ m = l + d + 1 /\ d = IF m <= l + d THEN 1 ELSE 0
    BY <1>3
  <2> HIDE DEF l
  <2>2. d + 1 = IF m <= l + (d + 1) THEN 1 ELSE 0
    BY <2>1
  <2> QED BY <2>2, Zenon DEF l
<1> QED BY <1>2, <1>3, <1>4, Zenon DEF Content

\* A pass takes the parser from the end of one frame to the end of the next, or stops it.
LEMMA PassSynced ==
    ASSUME TypeInv, EndsInv, Intact,
           NEW a \in Seq(Byte), NEW b \in Int, b + Len(a) <= read + Len(wire),
           \A k \in 1..Len(sent) : Carries(a, Ends(k - 1) - b, sent[k], At(k)),
           NEW s \in Parsing(a), Synced(b + Len(a), b + s.offset, s.frames, s.drops, s.more)
    PROVE  LET t == Pass(a, s) IN Synced(b + Len(a), b + t.offset, t.frames, t.drops, t.more)
<1> DEFINE r == try_parse_one(a, s.offset)
           t == Pass(a, s)
           fr == s.frames
           d == s.drops
           n == Len(fr) + d
           m == n + 1
           o == s.offset
<1>1. o \in Nat /\ o <= Len(a) /\ fr \in Seq(Seen) /\ d \in Nat /\ s.more \in BOOLEAN
      /\ n \in Nat /\ Len(a) \in Nat /\ Len(sent) \in Nat /\ o \in 0..Len(a)
  BY DEF Parsing, TypeInv
<1>2. n <= Len(sent) /\ b + o = Ends(n) /\ Content(fr, d)
  BY Zenon DEF Synced
<1>3. /\ r.ok \in BOOLEAN /\ r.offset \in Nat /\ r.offset >= o /\ r.offset <= Len(a)
      /\ r.ok => r.offset >= o + HeaderTotal /\ r.frame \in Seen
  BY <1>1, ParseAny, Zenon
<1>4. /\ ~s.more => t = s
      /\ s.more => t.offset = r.offset /\ t.more = r.ok
      /\ s.more /\ ~r.ok => t.frames = fr /\ t.drops = d
      /\ s.more /\ r.ok /\ r.crc_ok => t.frames = Append(fr, r.frame) /\ t.drops = d
      /\ s.more /\ r.ok /\ ~r.crc_ok => t.frames = fr /\ t.drops = d + 1
  BY PassParts, Zenon
<1> HIDE DEF t
<1>5. CASE ~s.more
  BY <1>4, <1>5, Zenon DEF t
<1>6. CASE s.more /\ n = Len(sent)
  <2> HIDE DEF r, fr, d, o, n
  <2>1. b + o = read + Len(wire)
    BY <1>2, <1>6, Zenon DEF EndsInv
  <2>2. o = Len(a) /\ read + Len(wire) \in Int
    BY <1>1, <2>1 DEF TypeInv
  <2>3. ~r.ok /\ r.offset = o
    BY <1>1, <1>3, <2>2 DEF HeaderTotal
  <2>4. t.offset = o /\ t.frames = fr /\ t.drops = d
    BY <1>4, <1>6, <2>3, Zenon
  <2>5. Len(fr) + d <= Len(sent) /\ b + o = Ends(Len(fr) + d) /\ Len(fr) + d = Len(sent)
    BY <1>2, <1>6, Zenon DEF n
  <2> QED BY <1>2, <2>4, <2>5, Zenon DEF Synced, t
<1>7. CASE s.more /\ n # Len(sent)
  <2> DEFINE f == sent[m]
             c == At(m)
  <2>1. m \in 1..Len(sent) /\ m - 1 = n /\ m \in 0..Len(sent) /\ n \in 0..Len(sent)
    <3> HIDE DEF n
    <3> QED BY <1>1, <1>2, <1>7
  <2>2. f \in Frame /\ c \in Int /\ Ends(m) = Ends(n) + Size(f) /\ Ends(n) \in Nat
    <3>1. f \in Frame /\ c \in Int /\ Ends(n) \in Nat
      BY <2>1, EndsNat, Zenon
    <3>2. Ends(m) = Ends(m - 1) + Size(f)
      BY <2>1, Zenon DEF EndsInv
    <3> HIDE DEF n, m, f, c
    <3> QED BY <2>1, <3>1, <3>2
  <2>3. Carries(a, o, f, c)
    <3>1. Carries(a, Ends(m - 1) - b, f, c)
      BY <2>1, Zenon
    <3>2. Ends(m - 1) - b = o
      <4> HIDE DEF n, m, f, c, o
      <4> QED BY <1>1, <1>2, <2>1, <2>2
    <3> QED BY <3>1, <3>2, Zenon
  <2>4. c \notin 1..4 /\ HeaderAfterLen + Len(f.payload) <= MaxFrameBytes
    <3>1. f.payload \in Payloads
      BY <2>2 DEF Frame
    <3> QED BY <2>1, <3>1, Zenon DEF Intact, Fitting
  <2>5. /\ Len(a) - o < Size(f) => ~r.ok /\ r.offset = o
        /\ Len(a) - o >= Size(f) =>
              /\ r.ok /\ r.offset = o + Size(f)
              /\ r.crc_ok <=> c \notin 13..Size(f)
              /\ c \notin 13..Size(f) => r.frame.payload = f.payload
              /\ c \notin 5..Size(f) => r.frame = f
    BY <1>1, <2>2, <2>3, <2>4, ParsePacked, Zenon
  <2>6. Size(f) \in Nat /\ Size(f) >= 16
    BY <2>2, FrameSize, Zenon
  <2> HIDE DEF r, f, c, m, n, o
  <2>7. CASE Len(a) - o < Size(f)
    <3>1. t.offset = o /\ t.frames = fr /\ t.drops = d
      BY <1>4, <1>7, <2>5, <2>7, Zenon
    <3>2. b + Len(a) < Ends(m)
      BY <1>1, <1>2, <2>2, <2>6, <2>7
    <3>3. /\ Len(fr) + d <= Len(sent) /\ b + o = Ends(Len(fr) + d)
          /\ b + Len(a) < Ends(Len(fr) + d + 1)
      BY <1>2, <3>2, Zenon DEF n, m
    <3> QED BY <1>2, <3>1, <3>3, Zenon DEF Synced, t
  <2>8. CASE ~(Len(a) - o < Size(f))
    <3>1. Len(a) - o >= Size(f)
      BY <1>1, <2>6, <2>8
    <3>2. /\ r.ok /\ r.offset = o + Size(f)
          /\ r.crc_ok <=> c \notin 13..Size(f)
          /\ c \notin 13..Size(f) => r.frame.payload = f.payload
          /\ c \notin 5..Size(f) => r.frame = f
      BY <2>5, <3>1, Zenon
    <3>3. b + t.offset = Ends(m) /\ t.more /\ m <= Len(sent) /\ m = Len(fr) + d + 1
      <4>1. t.offset = o + Size(f) /\ t.more
        BY <1>3, <1>4, <1>7, <3>2, Zenon
      <4>2. b + (o + Size(f)) = Ends(m)
        BY <1>1, <1>2, <2>2, <2>6
      <4>3. m <= Len(sent)
        BY <2>1
      <4> QED BY <4>1, <4>2, <4>3, Zenon DEF m, n
    <3>4. CASE c \notin 13..Size(f)
      <4>1. t.frames = Append(fr, r.frame) /\ t.drops = d /\ r.frame \in Seen
        BY <1>3, <1>4, <1>7, <3>2, <3>4, ZenonT(60)
      <4>2. c \notin 5..12 => c \notin 5..Size(f)
        BY <2>2, <2>6, <3>4
      <4>3. Content(Append(fr, r.frame), d)
        BY <1>1, <1>2, <2>1, <3>2, <3>3, <3>4, <4>1, <4>2, ContentDelivered, ZenonT(60) DEF f, c
      <4>4. Len(Append(fr, r.frame)) + d = m
        BY <1>1, <3>3, <4>1
      <4> QED BY <3>3, <4>1, <4>3, <4>4, Zenon DEF Synced, t
    <3>5. CASE c \in 13..Size(f)
      <4>1. t.frames = fr /\ t.drops = d + 1
        BY <1>3, <1>4, <1>7, <3>2, <3>5, Zenon
      <4>2. Content(fr, d + 1)
        BY <1>1, <1>2, <2>1, <3>3, <3>5, ContentDropped, ZenonT(60) DEF f, c
      <4>3. Len(fr) + (d + 1) = m
        <5>1. Len(fr) \in Nat /\ d \in Nat /\ m = Len(fr) + d + 1
          BY <1>1, <3>3
        <5>2. \A x, y \in Nat : x + (y + 1) = x + y + 1
          OBVIOUS
        <5> QED BY <5>1, <5>2, Zenon
      <4> QED BY <3>3, <4>1, <4>2, <4>3, Zenon DEF Synced, t
    <3> QED BY <3>4, <3>5, Zenon
  <2> QED BY <2>7, <2>8, Zenon
<1> QED BY <1>1, <1>5, <1>6, <1>7, Zenon

\* The loop, from one frame's end to another's
LEMMA LoopSynced ==
    ASSUME TypeInv, EndsInv, Intact,
           NEW a \in Seq(Byte), NEW b \in Int, b + Len(a) <= read + Len(wire),
           \A k \in 1..Len(sent) : Carries(a, Ends(k - 1) - b, sent[k], At(k)),
           NEW st \in Parsing(a), st.more,
           Synced(b + Len(a), b + st.offset, st.frames, st.drops, TRUE)
    PROVE  LET e == ParseLoop(a, st) IN Synced(b + Len(a), b + e.offset, e.frames, e.drops, FALSE)
<1> DEFINE R(s) == Synced(b + Len(a), b + s.offset, s.frames, s.drops, s.more)
           Q == [i \in Nat |-> {s \in Parsing(a) : R(s)}]
           n == Len(a) \div HeaderTotal + 1
           e == ParseLoop(a, st)
<1>1. n \in Nat /\ 0 \in Nat /\ \A i \in Nat : i + 1 \in Nat
  BY DEF HeaderTotal
<1>2. st \in Q[0]
  <2>1. R(st)
    BY Zenon DEF Synced
  <2> HIDE DEF R
  <2> QED BY <1>1, <2>1, Zenon
<1>3. ASSUME NEW i \in Nat, NEW s \in Parsing(a), s \in Q[i]
      PROVE  Pass(a, s) \in Q[i + 1]
  <2>1. R(s)
    BY <1>3, Zenon
  <2>2. R(Pass(a, s)) /\ Pass(a, s) \in Parsing(a)
    BY <2>1, PassSynced, PassParts, Zenon
  <2> HIDE DEF R
  <2> QED BY <1>1, <2>2, Zenon
<1>4. e \in Q[n]
  <2> HIDE DEF Q
  <2> QED BY <1>2, <1>3, LoopInduction, Zenon
<1> HIDE DEF n
<1>5. R(e)
  BY <1>1, <1>4, Zenon
<1>6. ~e.more
  BY LoopStops, Zenon
<1> QED BY <1>5, <1>6, Zenon DEF Synced

\* A part of the bytes carries what they all do.
LEMMA CarriesPart ==
    ASSUME NEW s \in Seq(Byte), NEW u \in Seq(Byte), NEW x \in Nat, x + Len(u) <= Len(s),
           \A i \in 1..Len(u) : u[i] = s[x + i],
           NEW o \in Int, NEW f \in Frame, NEW c, Carries(s, o, f, c)
    PROVE  Carries(u, o - x, f, c)
<1> SUFFICES ASSUME NEW i \in 1..Size(f), (o - x) + i > 0, (o - x) + i <= Len(u)
             PROVE  IF i = c THEN u[(o - x) + i] \in Noise /\ u[(o - x) + i] # pack(f)[i]
                    ELSE u[(o - x) + i] = pack(f)[i]
  BY Zenon DEF Carries
<1>1. Len(u) \in Nat /\ Len(s) \in Nat /\ i \in Int
  BY FrameSize
<1>2. (o - x) + i \in 1..Len(u) /\ x + ((o - x) + i) = o + i /\ o + i > 0 /\ o + i <= Len(s)
  BY <1>1
<1>3. u[(o - x) + i] = s[o + i]
  BY <1>2, Zenon
<1> QED BY <1>2, <1>3, Zenon DEF Carries

\* Bytes behind a frame do not matter.
LEMMA CarriesMore ==
    ASSUME NEW s \in Seq(Byte), NEW t \in Seq(Byte), NEW o \in Int, NEW f \in Frame, NEW c,
           o + Size(f) <= Len(s), Carries(s, o, f, c)
    PROVE  Carries(s \o t, o, f, c)
<1> SUFFICES ASSUME NEW i \in 1..Size(f), o + i > 0
             PROVE  IF i = c THEN (s \o t)[o + i] \in Noise /\ (s \o t)[o + i] # pack(f)[i]
                    ELSE (s \o t)[o + i] = pack(f)[i]
  BY Zenon DEF Carries
<1>1. Len(s) \in Nat /\ Size(f) \in Nat
  BY FrameSize
<1>2. o + i \in 1..Len(s) /\ o + i <= Len(s)
  BY <1>1
<1>3. (s \o t)[o + i] = s[o + i]
  BY <1>2, Joined, Zenon
<1> QED BY <1>2, <1>3, Zenon DEF Carries

\* A frame just packed
LEMMA CarriesPacked ==
    ASSUME NEW s \in Seq(Byte), NEW f \in Frame, NEW c, c \notin 1..Size(f)
    PROVE  Carries(s \o pack(f), Len(s), f, c)
<1> SUFFICES ASSUME NEW i \in 1..Size(f) PROVE i # c /\ (s \o pack(f))[Len(s) + i] = pack(f)[i]
  BY Zenon DEF Carries
<1>1. pack(f) \in Seq(Byte) /\ Len(pack(f)) = Size(f)
  BY PackBytes, Zenon
<1>2. i \in 1..Len(pack(f)) /\ i # c
  BY <1>1, Zenon
<1>3. (s \o pack(f))[Len(s) + i] = pack(f)[i]
  BY <1>1, <1>2, Joined, Zenon
<1> QED BY <1>2, <1>3, Zenon

\* One byte changes, and it is the only one.
LEMMA CarriesChanged ==
    ASSUME NEW s \in Seq(Byte), NEW u \in Seq(Byte), Len(u) = Len(s), NEW x \in 1..Len(s),
           \A i \in 1..Len(s) : i # x => u[i] = s[i], u[x] \in Noise, u[x] # s[x],
           NEW o \in Int, NEW f \in Frame, NEW c, c \notin 1..Size(f), Carries(s, o, f, c)
    PROVE  Carries(u, o, f, x - o)
<1> SUFFICES ASSUME NEW i \in 1..Size(f), o + i > 0, o + i <= Len(u)
             PROVE  IF i = x - o THEN u[o + i] \in Noise /\ u[o + i] # pack(f)[i]
                    ELSE u[o + i] = pack(f)[i]
  BY Zenon DEF Carries
<1>1. Len(s) \in Nat /\ i \in Int
  BY FrameSize
<1>2. o + i \in 1..Len(s) /\ o + i <= Len(s) /\ (i = x - o <=> o + i = x)
  BY <1>1
<1>3. s[o + i] = pack(f)[i]
  BY <1>2, Zenon DEF Carries
<1> QED BY <1>2, <1>3, Zenon

-----------------------------------------------------------------------------
\* Nothing has been sent or read.
LEMMA InitInv == Init => IInv
<1> SUFFICES ASSUME Init PROVE IInv
  OBVIOUS
<1>1. TypeInv
  BY DEF Init, TypeInv
<1>2. Len(sent) = 0 /\ Len(frames) + drops = 0 /\ \A k \in 1..Len(sent) : FALSE
  BY DEF Init
<1>3. EndsInv
  <2>1. Ends(Len(sent)) = 0 /\ read + Len(wire) = 0 /\ changed <= read + Len(wire)
    BY <1>2 DEF Init, Ends
  <2>2. \A j, k \in 0..Len(sent) : ~(j < k)
    BY <1>2
  <2> QED BY <1>2, <2>1, <2>2, Zenon DEF EndsInv
<1>4. StreamInv
  BY <1>2, Zenon DEF StreamInv
<1>5. BufferBounded
  BY FrameAssumption DEF Init, BufferBounded
<1>6. Synced(read, Base + offset, frames, drops, FALSE)
  <2>1. Base + offset = 0 /\ Ends(0) = 0 /\ drops = 0 /\ \A i \in 1..Len(frames) : FALSE
    <3>1. Len(acc) = 0 /\ read = 0 /\ offset = 0 /\ drops = 0 /\ Len(frames) = 0
      BY DEF Init
    <3>2. Ends(0) = 0
      BY Zenon DEF Ends
    <3> QED BY <3>1, <3>2 DEF Base
  <2>2. Content(frames, drops)
    BY <1>2, <2>1, Zenon DEF Content
  <2>3. Len(frames) + drops = Len(sent) /\ Len(frames) + drops <= Len(sent)
    BY <1>2
  <2>4. Base + offset = Ends(Len(frames) + drops)
    BY <1>2, <2>1
  <2> QED BY <2>2, <2>3, <2>4, Zenon DEF Synced
<1> QED BY <1>1, <1>3, <1>4, <1>5, <1>6, Zenon DEF IInv

\* Where the frames are, after one more is sent
LEMMA SendEnds ==
    ASSUME TypeInv, EndsInv, NEW cmd \in Cmds, NEW payload \in Payloads, Send(cmd, payload)
    PROVE  LET f == [cmd |-> cmd, payload |-> payload]
               l == Len(sent)
           IN  /\ f \in Frame /\ TypeInv' /\ l \in Nat
               /\ Len(sent') = l + 1 /\ sent'[l + 1] = f
               /\ \A k \in 1..l : sent'[k] = sent[k]
               /\ Len(wire') = Len(wire) + Size(f)
               /\ \A k \in 0..l : Ends(k)' = Ends(k)
               /\ \A k : k = l + 1 => Ends(k)' = Ends(l) + Size(f)
<1> DEFINE f == [cmd |-> cmd, payload |-> payload]
           l == Len(sent)
<1>1. f \in Frame
  BY DEF Frame
<1>2. pack(f) \in Seq(Byte) /\ Len(pack(f)) = Size(f) /\ Size(f) \in Nat
  BY <1>1, PackBytes, FrameSize, Zenon
<1>3. /\ sent' = Append(sent, f) /\ wire' = wire \o pack(f) /\ ends' = Append(ends, read + Len(wire'))
      /\ read' = read /\ acc' = acc /\ offset' = offset /\ frames' = frames /\ drops' = drops
      /\ changed' = changed
  BY Zenon DEF Send
<1> HIDE DEF f
<1>4. l \in Nat /\ sent \in Seq(Frame) /\ ends \in Seq(Nat) /\ Len(ends) = l /\ read \in Nat
      /\ wire \in Seq(Byte) /\ Len(wire) \in Nat
  BY DEF TypeInv
<1>5. wire' \in Seq(Byte) /\ Len(wire') = Len(wire) + Size(f)
  <2>1. wire \o pack(f) \in Seq(Byte) /\ Len(wire \o pack(f)) = Len(wire) + Len(pack(f))
    BY <1>2, <1>4, Joined, Zenon
  <2> QED BY <1>2, <1>3, <2>1, Zenon
<1>6. sent' \in Seq(Frame) /\ Len(sent') = l + 1 /\ sent'[l + 1] = f /\ \A k \in 1..l : sent'[k] = sent[k]
  BY <1>1, <1>3, <1>4
<1> DEFINE v == read + Len(wire')
<1>7. v \in Nat /\ v = Ends(l) + Size(f)
  <2>1. Ends(l) = read + Len(wire)
    BY Zenon DEF EndsInv
  <2> QED BY <1>2, <1>4, <1>5, <2>1
<1> HIDE DEF v
<1>8. ends' \in Seq(Nat) /\ Len(ends') = l + 1 /\ ends'[l + 1] = v /\ \A k \in 1..l : ends'[k] = ends[k]
  <2>1. ends' = Append(ends, v)
    BY <1>3, Zenon DEF v
  <2> QED BY <1>4, <1>7, <2>1
<1>9. \A k \in 0..l : Ends(k)' = Ends(k)
  BY <1>4, <1>8 DEF Ends
<1>10. ASSUME NEW k, k = l + 1 PROVE Ends(k)' = v
  <2>1. k # 0 /\ ends'[k] = v
    BY <1>4, <1>8, <1>10
  <2> QED BY <2>1, Zenon DEF Ends
<1>11. TypeInv'
  <2>1. /\ acc' \in Seq(Byte) /\ read' \in Nat /\ Len(acc') <= read' /\ offset' \in Nat
        /\ offset' <= Len(acc') /\ frames' \in Seq(Seen) /\ drops' \in Nat /\ changed' \in Nat
    BY <1>3, Zenon DEF TypeInv
  <2> QED BY <1>5, <1>6, <1>8, <2>1, Zenon DEF TypeInv
<1> QED BY <1>1, <1>4, <1>5, <1>6, <1>7, <1>9, <1>10, <1>11, Zenon DEF f

\* Sending a frame
LEMMA SendInv ==
    ASSUME IInv, NEW cmd \in Cmds, NEW payload \in Payloads, Send(cmd, payload)
    PROVE  IInv'
<1> DEFINE f == [cmd |-> cmd, payload |-> payload]
<1>0. TypeInv /\ EndsInv /\ StreamInv /\ BufferBounded
      /\ (Intact => Synced(read, Base + offset, frames, drops, FALSE))
  BY Zenon DEF IInv
<1>1. PICK l \in Nat : l = Len(sent)
  BY <1>0 DEF TypeInv
<1>2. /\ f \in Frame /\ TypeInv'
      /\ Len(sent') = l + 1 /\ sent'[l + 1] = f
      /\ \A k \in 1..l : sent'[k] = sent[k]
      /\ Len(wire') = Len(wire) + Size(f)
      /\ \A k \in 0..l : Ends(k)' = Ends(k)
      /\ Ends(l + 1)' = Ends(l) + Size(f)
  BY <1>0, <1>1, SendEnds, Zenon
<1>3. /\ wire' = wire \o pack(f)
      /\ read' = read /\ acc' = acc /\ offset' = offset /\ frames' = frames /\ drops' = drops
      /\ changed' = changed
  BY Zenon DEF Send
<1> HIDE DEF f
<1>4. Size(f) \in Nat /\ Size(f) >= 16 /\ pack(f) \in Seq(Byte)
  BY <1>2, FrameSize, PackBytes, Zenon
<1>5. /\ \A k \in 0..l : Ends(k) \in Nat
      /\ \A k \in 1..l : At(k) \in Int /\ sent[k] \in Frame
  BY <1>0, <1>1, EndsNat, Zenon
<1>6. Ends(l) = read + Len(wire) /\ changed <= read + Len(wire) /\ changed \in Nat /\ read \in Nat
      /\ Len(wire) \in Nat /\ wire \in Seq(Byte) /\ acc \in Seq(Byte) /\ Len(acc) \in Nat
  BY <1>0, <1>1 DEF EndsInv, TypeInv
<1>7. \A k \in 1..(l + 1) : k \in 1..l \/ k = l + 1
  BY <1>1
<1>8. EndsInv'
  <2>1. Ends(l + 1)' = read' + Len(wire') /\ changed' <= read' + Len(wire')
    BY <1>2, <1>3, <1>4, <1>6
  <2>2. ASSUME NEW k \in 1..(l + 1) PROVE Ends(k)' = Ends(k - 1)' + Size(sent'[k])
    <3>1. CASE k \in 1..l
      <4>1. k \in 0..l /\ k - 1 \in 0..l
        BY <3>1
      <4>2. Ends(k) = Ends(k - 1) + Size(sent[k])
        BY <1>0, <1>1, <3>1, Zenon DEF EndsInv
      <4> QED BY <1>2, <3>1, <4>1, <4>2, Zenon
    <3>2. CASE k = l + 1
      <4>1. k - 1 = l /\ l \in 0..l
        BY <3>2
      <4>2. Ends(l)' = Ends(l)
        BY <1>2, <4>1, Zenon
      <4> QED BY <1>2, <3>2, <4>1, <4>2, Zenon
    <3> QED BY <1>7, <3>1, <3>2, Zenon
  <2>3. ASSUME NEW j \in 0..(l + 1), NEW k \in 0..(l + 1), j < k PROVE Ends(j)' < Ends(k)'
    <3>1. CASE k \in 0..l
      <4>1. j \in 0..l
        BY <2>3, <3>1
      <4>2. Ends(j) < Ends(k)
        BY <1>0, <1>1, <2>3, <3>1, <4>1, Zenon DEF EndsInv
      <4> QED BY <1>2, <3>1, <4>1, <4>2, Zenon
    <3>2. CASE k = l + 1
      <4>1. j \in 0..l /\ l \in 0..l /\ (j < l \/ j = l)
        BY <2>3, <3>2
      <4>2. Ends(j) < Ends(l) \/ j = l
        BY <1>0, <1>1, <4>1, Zenon DEF EndsInv
      <4>3. Ends(j) \in Nat /\ Ends(l) \in Nat
        BY <1>5, <4>1, Zenon
      <4>4. Ends(j) < Ends(l) + Size(f)
        BY <1>4, <4>2, <4>3
      <4> QED BY <1>2, <3>2, <4>1, <4>4, Zenon
    <3> QED BY <3>1, <3>2
  <2> QED BY <1>2, <2>1, <2>2, <2>3, ZenonT(60) DEF EndsInv
<1>9. /\ \A k \in 1..l : At(k)' = At(k)
      /\ At(l + 1)' \in Int /\ At(l + 1)' <= 0
  <2>1. ASSUME NEW k \in 1..l PROVE At(k)' = At(k)
    <3>1. k - 1 \in 0..l
      OBVIOUS
    <3>2. Ends(k - 1)' = Ends(k - 1)
      BY <1>2, <3>1, Zenon
    <3> QED BY <1>3, <3>2, Zenon DEF At
  <2>2. At(l + 1)' = changed' - Ends((l + 1) - 1)'
    BY Zenon DEF At
  <2>3. (l + 1) - 1 = l /\ l \in 0..l
    OBVIOUS
  <2>4. At(l + 1)' = changed - Ends(l)
    BY <1>2, <1>3, <2>2, <2>3, Zenon
  <2>5. changed - Ends(l) \in Int /\ changed - Ends(l) <= 0
    BY <1>6
  <2> QED BY <2>1, <2>4, <2>5, Zenon
<1>10. StreamInv'
  <2> DEFINE s == acc \o wire
  <2>1. s \in Seq(Byte) /\ Len(s) = Len(acc) + Len(wire)
    BY <1>6, Joined, Zenon
  <2>2. acc' \o wire' = s \o pack(f)
    <3>1. acc \o (wire \o pack(f)) = (acc \o wire) \o pack(f)
      BY <1>4, <1>6
    <3> QED BY <1>3, <3>1, Zenon
  <2>3. Base' = Base /\ Base \in Int /\ Base = read - Len(acc)
    BY <1>3, <1>6 DEF Base
  <2> HIDE DEF s
  <2>4. ASSUME NEW k \in 1..l
        PROVE  Carries(acc' \o wire', Ends(k - 1)' - Base', sent'[k], At(k)')
    <3>1. Carries(s, Ends(k - 1) - Base, sent[k], At(k))
      BY <1>0, <1>1, Zenon DEF StreamInv, s
    <3>2. k - 1 \in 0..l /\ k \in 0..l /\ l \in 0..l /\ (k < l \/ k = l)
      OBVIOUS
    <3>3. Ends(k - 1) \in Nat /\ Ends(k) \in Nat /\ Size(sent[k]) \in Nat /\ sent[k] \in Frame
      BY <1>5, <3>2, FrameSize, Zenon
    <3>4. Ends(k) = Ends(k - 1) + Size(sent[k]) /\ (Ends(k) < Ends(l) \/ k = l)
      BY <1>0, <1>1, <3>2, Zenon DEF EndsInv
    <3>5. (Ends(k - 1) - Base) + Size(sent[k]) <= Len(s) /\ Ends(k - 1) - Base \in Int
      <4>1. Ends(k) <= read + Len(wire)
        BY <1>6, <3>3, <3>4
      <4>2. /\ Base \in Int /\ Base = read - Len(acc) /\ Len(s) = Len(acc) + Len(wire)
            /\ read \in Nat /\ Len(acc) \in Nat /\ Len(wire) \in Nat
        BY <1>6, <2>1, <2>3, Zenon
      <4> QED BY <3>3, <3>4, <4>1, <4>2
    <3>6. Carries(s \o pack(f), Ends(k - 1) - Base, sent[k], At(k))
      BY <1>4, <2>1, <3>1, <3>3, <3>5, CarriesMore, Zenon
    <3>7. Ends(k - 1)' = Ends(k - 1) /\ sent'[k] = sent[k] /\ At(k)' = At(k)
      BY <1>2, <1>9, <3>2, Zenon
    <3> QED BY <2>2, <2>3, <3>6, <3>7, Zenon
  <2>5. Carries(acc' \o wire', Ends((l + 1) - 1)' - Base', sent'[l + 1], At(l + 1)')
    <3>1. (l + 1) - 1 = l /\ l \in 0..l /\ At(l + 1)' \notin 1..Size(f)
      BY <1>4, <1>9
    <3>2. Ends(l)' = Ends(l)
      BY <1>2, <3>1, Zenon
    <3>3. Ends(l) - Base = Len(s)
      BY <1>6, <2>1, <2>3
    <3>4. Carries(s \o pack(f), Len(s), f, At(l + 1)')
      BY <1>2, <2>1, <3>1, CarriesPacked, Zenon
    <3> QED BY <1>2, <2>2, <2>3, <3>1, <3>2, <3>3, <3>4, Zenon
  <2> QED BY <1>2, <1>7, <2>4, <2>5, Zenon DEF StreamInv
<1>11. BufferBounded'
  BY <1>0, <1>3, Zenon DEF BufferBounded
<1>12. ASSUME Intact' PROVE Synced(read, Base + offset, frames, drops, FALSE)'
  <2>1. \A k \in 1..l : k \in 1..(l + 1)
    OBVIOUS
  <2>2. Intact
    BY <1>1, <1>2, <1>9, <1>12, <2>1, Zenon DEF Intact, Fitting
  <2>3. Synced(read, Base + offset, frames, drops, FALSE)
    BY <1>0, <2>2, Zenon
  <2>4. PICK n \in Nat : n = Len(frames) + drops
    BY <1>0 DEF TypeInv
  <2>5. PICK p \in Nat : p = Len(frames)
    BY <1>0 DEF TypeInv
  <2>6. drops \in Nat /\ n = p + drops
    BY <1>0, <2>4, <2>5 DEF TypeInv
  <2>7. /\ n <= l /\ Base + offset = Ends(n) /\ (n = l \/ read < Ends(n + 1))
    BY <1>1, <2>3, <2>4, Zenon DEF Synced
  <2>8. n \in 0..l /\ n <= l + 1
    BY <2>7
  <2>9. Base' + offset' = Ends(n)'
    <3>1. Base' = Base
      BY <1>3, Zenon DEF Base
    <3> QED BY <1>2, <1>3, <2>7, <2>8, <3>1, Zenon
  <2>10. n = l + 1 \/ read' < Ends(n + 1)'
    <3>1. CASE n = l
      <4>1. read < Ends(l) + Size(f)
        BY <1>4, <1>6
      <4> QED BY <1>2, <1>3, <3>1, <4>1, Zenon
    <3>2. CASE n # l
      <4>1. n + 1 \in 0..l
        BY <2>8, <3>2
      <4> QED BY <1>2, <1>3, <2>7, <3>2, <4>1, Zenon
    <3> QED BY <3>1, <3>2, Zenon
  <2>11. Content(frames, drops)'
    <3>1. Content(frames, drops)
      BY <2>3, Zenon DEF Synced
    <3>2. ASSUME \A k \in 1..(l + 1) : At(k)' \notin 13..Size(sent'[k])
          PROVE  /\ drops = 0
                 /\ \A i \in 1..p : /\ frames[i].payload = sent'[i].payload
                                    /\ At(i)' \notin 5..12 => frames[i] = sent'[i]
      <4>1. \A k \in 1..l : At(k) \notin 13..Size(sent[k])
        BY <1>2, <1>9, <2>1, <3>2, Zenon
      <4>2. /\ drops = 0
            /\ \A i \in 1..p : /\ frames[i].payload = sent[i].payload
                               /\ At(i) \notin 5..12 => frames[i] = sent[i]
        BY <1>1, <2>5, <3>1, <4>1, Zenon DEF Content
      <4>3. \A i \in 1..p : i \in 1..l
        BY <2>6, <2>7
      <4> QED BY <1>2, <1>9, <4>2, <4>3, Zenon
    <3>3. ASSUME NEW k \in 1..(l + 1), At(k)' \in 13..Size(sent'[k])
          PROVE  /\ drops = IF k <= p + drops THEN 1 ELSE 0
                 /\ \A i \in 1..p : frames[i] = sent'[IF i < k THEN i ELSE i + 1]
      <4>1. k \in 1..l
        <5>1. CASE k = l + 1
          <6>1. At(k)' >= 13 /\ At(k)' <= 0 /\ At(k)' \in Int
            BY <1>9, <3>3, <5>1
          <6> QED BY <6>1
        <5> QED BY <1>7, <5>1, Zenon
      <4>2. At(k) \in 13..Size(sent[k])
        BY <1>2, <1>9, <3>3, <4>1, Zenon
      <4>3. /\ drops = IF k <= p + drops THEN 1 ELSE 0
            /\ \A i \in 1..p : frames[i] = sent[IF i < k THEN i ELSE i + 1]
        BY <1>1, <2>5, <3>1, <4>1, <4>2, Zenon DEF Content
      <4>4. \A i \in 1..p : (IF i < k THEN i ELSE i + 1) \in 1..l
        BY <2>6, <2>7, <4>1, <4>3
      <4>5. \A i \in 1..p : sent'[IF i < k THEN i ELSE i + 1] = sent[IF i < k THEN i ELSE i + 1]
        BY <1>2, <4>4, Zenon
      <4> QED BY <4>3, <4>5, Zenon
    <3>4. Len(frames') = p /\ drops' = drops /\ frames' = frames
      BY <1>3, <2>5, Zenon
    <3> QED BY <1>2, <3>2, <3>3, <3>4, Zenon DEF Content
  <2>12. Len(frames') + drops' = n
    BY <1>3, <2>4, Zenon
  <2>13. n <= Len(sent') /\ (n = Len(sent') \/ read' < Ends(n + 1)')
    BY <1>2, <2>8, <2>10, Zenon
  <2> QED BY <2>9, <2>11, <2>12, <2>13, Zenon DEF Synced
<1> QED BY <1>2, <1>8, <1>10, <1>11, <1>12, Zenon DEF IInv

\* A byte on the way changes, the only one.
LEMMA ChangeInv ==
    ASSUME IInv, NEW x \in 1..Len(wire), NEW b \in Noise, Change(x, b)
    PROVE  IInv'
<1>0. TypeInv /\ EndsInv /\ StreamInv /\ BufferBounded
      /\ (Intact => Synced(read, Base + offset, frames, drops, FALSE))
  BY Zenon DEF IInv
<1>1. PICK l \in Nat : l = Len(sent)
  BY <1>0 DEF TypeInv
<1>2. /\ changed = 0 /\ wire[x] # b /\ wire' = [wire EXCEPT ![x] = b] /\ changed' = read + x
      /\ sent' = sent /\ ends' = ends /\ read' = read /\ acc' = acc /\ offset' = offset
      /\ frames' = frames /\ drops' = drops
  BY Zenon DEF Change
<1>3. /\ read \in Nat /\ wire \in Seq(Byte) /\ Len(wire) \in Nat /\ acc \in Seq(Byte)
      /\ Len(acc) \in Nat /\ Len(acc) <= read /\ offset \in Nat /\ offset <= Len(acc) /\ b \in Byte
  BY <1>0, ByteAssumption DEF TypeInv
<1>4. /\ wire' \in Seq(Byte) /\ Len(wire') = Len(wire) /\ wire'[x] = b
      /\ \A i \in 1..Len(wire) : i # x => wire'[i] = wire[i]
  BY <1>2, <1>3
<1>5. TypeInv'
  <2>1. changed' \in Nat
    BY <1>2, <1>3
  <2> QED BY <1>0, <1>2, <1>4, <2>1, Zenon DEF TypeInv
<1>6. \A k : Ends(k)' = Ends(k)
  BY <1>2, Zenon DEF Ends
<1>7. EndsInv'
  <2>1. changed' <= read' + Len(wire')
    BY <1>2, <1>3, <1>4
  <2>2. Ends(l)' = read' + Len(wire')
    BY <1>0, <1>1, <1>2, <1>4, <1>6, Zenon DEF EndsInv
  <2>3. \A k \in 1..l : Ends(k)' = Ends(k - 1)' + Size(sent'[k])
    BY <1>0, <1>1, <1>2, <1>6, Zenon DEF EndsInv
  <2>4. \A j, k \in 0..l : j < k => Ends(j)' < Ends(k)'
    BY <1>0, <1>1, <1>6, Zenon DEF EndsInv
  <2>5. Len(sent') = l
    BY <1>1, <1>2, Zenon
  <2> QED BY <2>1, <2>2, <2>3, <2>4, <2>5, Zenon DEF EndsInv
<1>8. ASSUME NEW k \in 1..l
      PROVE  /\ sent[k] \in Frame /\ Size(sent[k]) \in Nat /\ Ends(k - 1) \in Nat
             /\ At(k) \in Int /\ At(k) <= 0 /\ At(k)' = (read + x) - Ends(k - 1)
  <2>1. k - 1 \in 0..l
    OBVIOUS
  <2>2. sent[k] \in Frame /\ Size(sent[k]) \in Nat /\ Ends(k - 1) \in Nat
    BY <1>0, <1>1, <2>1, EndsNat, FrameSize, Zenon
  <2>3. At(k) \in Int /\ At(k) <= 0
    BY <1>2, <2>2 DEF At
  <2>4. At(k)' = (read + x) - Ends(k - 1)
    BY <1>2, <1>6, Zenon DEF At
  <2> QED BY <2>2, <2>3, <2>4, Zenon
<1>9. StreamInv'
  <2> DEFINE s == acc \o wire
             u == acc \o wire'
             y == Len(acc) + x
  <2>1. /\ s \in Seq(Byte) /\ Len(s) = Len(acc) + Len(wire)
        /\ \A i \in 1..Len(acc) : s[i] = acc[i]
        /\ \A i \in 1..Len(wire) : s[Len(acc) + i] = wire[i]
    BY <1>3, Joined, Zenon
  <2>2. /\ u \in Seq(Byte) /\ Len(u) = Len(acc) + Len(wire')
        /\ \A i \in 1..Len(acc) : u[i] = acc[i]
        /\ \A i \in 1..Len(wire') : u[Len(acc) + i] = wire'[i]
    BY <1>3, <1>4, Joined, Zenon
  <2> HIDE DEF s, u
  <2>3. y \in 1..Len(s) /\ Len(u) = Len(s)
    BY <1>3, <1>4, <2>1, <2>2
  <2>4. u[y] = b /\ s[y] = wire[x]
    BY <1>4, <2>1, <2>2, Zenon
  <2>5. ASSUME NEW i \in 1..Len(s), i # y PROVE u[i] = s[i]
    <3>1. CASE i <= Len(acc)
      <4>1. i \in 1..Len(acc)
        BY <1>3, <2>1, <3>1
      <4> QED BY <2>1, <2>2, <4>1, Zenon
    <3>2. CASE ~(i <= Len(acc))
      <4> DEFINE j == i - Len(acc)
      <4>1. j \in 1..Len(wire) /\ Len(acc) + j = i /\ j # x
        BY <1>3, <2>1, <2>5, <3>2
      <4> HIDE DEF j
      <4>2. u[Len(acc) + j] = wire'[j] /\ s[Len(acc) + j] = wire[j] /\ wire'[j] = wire[j]
        BY <1>4, <2>1, <2>2, <4>1, Zenon
      <4> QED BY <4>1, <4>2, Zenon
    <3> QED BY <3>1, <3>2, Zenon
  <2>6. Base' = Base /\ Base \in Int /\ Base = read - Len(acc)
    BY <1>2, <1>3 DEF Base
  <2>7. acc' \o wire' = u
    BY <1>2, Zenon DEF u
  <2>8. ASSUME NEW k \in 1..l
        PROVE  Carries(acc' \o wire', Ends(k - 1)' - Base', sent'[k], At(k)')
    <3>1. Carries(s, Ends(k - 1) - Base, sent[k], At(k))
      BY <1>0, <1>1, Zenon DEF StreamInv, s
    <3> DEFINE o == Ends(k - 1) - Base
    <3>2. o \in Int /\ At(k) \notin 1..Size(sent[k])
      BY <1>8, <2>6
    <3>3. y - o = At(k)'
      <4>1. At(k)' = (read + x) - Ends(k - 1) /\ Ends(k - 1) \in Nat
        BY <1>8, Zenon
      <4>2. y - o = (read + x) - Ends(k - 1)
        BY <1>3, <2>6, <4>1
      <4> QED BY <4>1, <4>2, Zenon
    <3> HIDE DEF y, o
    <3>4. u[y] \in Noise /\ u[y] # s[y]
      BY <1>2, <2>4, Zenon
    <3>5. Carries(u, o, sent[k], y - o)
      BY <1>8, <2>1, <2>2, <2>3, <2>5, <3>1, <3>2, <3>4, CarriesChanged, ZenonT(60) DEF o
    <3>6. Ends(k - 1)' - Base' = o
      BY <1>6, <2>6, Zenon DEF o
    <3> QED BY <1>2, <2>7, <3>3, <3>5, <3>6, Zenon
  <2>9. Len(sent') = l
    BY <1>1, <1>2, Zenon
  <2> QED BY <2>8, <2>9, Zenon DEF StreamInv
<1>10. BufferBounded'
  BY <1>0, <1>2, Zenon DEF BufferBounded
<1>11. ASSUME Intact' PROVE Synced(read, Base + offset, frames, drops, FALSE)'
  <2>1. Intact
    <3>1. \A k \in 1..l : At(k) \notin 1..4
      BY <1>8
    <3>2. Fitting
      BY <1>11, Zenon DEF Intact, Fitting
    <3> QED BY <1>1, <3>1, <3>2, Zenon DEF Intact
  <2>2. Synced(read, Base + offset, frames, drops, FALSE)
    BY <1>0, <2>1, Zenon
  <2>3. PICK n \in Nat : n = Len(frames) + drops
    BY <1>0 DEF TypeInv
  <2>4. PICK p \in Nat : p = Len(frames)
    BY <1>0 DEF TypeInv
  <2>5. /\ n <= l /\ Base + offset = Ends(n) /\ (n = l \/ read < Ends(n + 1))
        /\ Content(frames, drops)
    BY <1>1, <2>2, <2>3, Zenon DEF Synced
  <2>6. \A k \in 1..l : At(k) \notin 13..Size(sent[k]) /\ At(k) \notin 5..12
    BY <1>8
  <2>7. drops = 0 /\ \A i \in 1..p : frames[i].payload = sent[i].payload /\ (At(i) \notin 5..12 => frames[i] = sent[i])
    BY <1>1, <2>4, <2>5, <2>6, Zenon DEF Content
  <2>8. p = n
    BY <2>3, <2>4, <2>7
  <2>9. \A i \in 1..p : frames[i] = sent[i]
    <3>1. \A i \in 1..p : i \in 1..l
      BY <2>5, <2>8
    <3> QED BY <2>6, <2>7, <3>1, Zenon
  <2>10. Ends(n) <= read
    BY <1>3, <2>5 DEF Base
  <2>11. ASSUME NEW k \in 1..l, At(k)' \in 13..Size(sent[k]) PROVE n < k
    <3>1. Ends(k) = Ends(k - 1) + Size(sent[k])
      BY <1>0, <1>1, Zenon DEF EndsInv
    <3>2. (read + x) - Ends(k - 1) <= Size(sent[k])
      BY <1>8, <2>11
    <3>3. Ends(k) > read /\ Ends(k) \in Nat
      BY <1>3, <1>8, <3>1, <3>2
    <3>4. k < n => Ends(k) < Ends(n)
      <4>1. k \in 0..l /\ n \in 0..l
        BY <2>5
      <4> QED BY <1>0, <1>1, <4>1, Zenon DEF EndsInv
    <3>5. Ends(n) \in Nat
      <4>1. n \in 0..l
        BY <2>5
      <4> QED BY <1>0, <1>1, <4>1, EndsNat, Zenon
    <3>6. ~(k < n) /\ k # n
      BY <1>3, <2>10, <3>3, <3>4, <3>5
    <3> QED BY <3>6
  <2>12. Content(frames, drops)'
    <3>1. Len(frames') = p /\ drops' = 0 /\ frames' = frames /\ sent' = sent /\ Len(sent') = l
      BY <1>1, <1>2, <2>4, <2>7, Zenon
    <3>2. \A k \in 1..l : At(k)' \in 13..Size(sent[k]) => ~(k <= p + 0) /\ \A i \in 1..p : i < k
      BY <2>8, <2>11
    <3> QED BY <2>9, <3>1, <3>2, Zenon DEF Content
  <2>13. /\ Len(frames') + drops' = n /\ n <= Len(sent') /\ Base' + offset' = Ends(n)'
         /\ (n = Len(sent') \/ read' < Ends(n + 1)')
    <3>1. Base' = Base
      BY <1>2, Zenon DEF Base
    <3> QED BY <1>1, <1>2, <1>6, <2>3, <2>5, <3>1, Zenon
  <2> QED BY <2>12, <2>13, Zenon DEF Synced
<1> QED BY <1>5, <1>7, <1>9, <1>10, <1>11, Zenon DEF IInv

\* Erasing the consumed front, or not, drops z bytes of the buffer.
LEMMA CompactCuts ==
    ASSUME NEW a \in Seq(Byte), NEW o \in 0..Len(a)
    PROVE  LET c == Compact(a, o) IN
           \E z \in 0..o : /\ c.acc \in Seq(Byte) /\ Len(c.acc) = Len(a) - z
                           /\ c.offset = o - z /\ c.offset <= Len(c.acc) - c.offset
                           /\ \A i \in 1..Len(c.acc) : c.acc[i] = a[z + i]
<1> DEFINE c == Compact(a, o)
<1>1. o \in Nat /\ Len(a) \in Nat /\ o <= Len(a)
  OBVIOUS
<1>2. CASE o > Len(a) \div 2
  <2> DEFINE q == SubSeq(a, o + 1, o + (Len(a) - o))
             m == Len(a) - o
  <2>1. o + (Len(a) - o) = Len(a) /\ m \in Nat /\ o + m <= Len(a) /\ o \in 0..o /\ o - o = 0
    BY <1>1
  <2>2. c = [acc |-> q, offset |-> 0]
    BY <1>2, <2>1, Zenon DEF Compact
  <2>3. q \in Seq(Byte) /\ Len(q) = m /\ \A i \in 1..m : q[i] = a[o + i]
    BY <1>1, <2>1, Piece, Zenon
  <2> HIDE DEF c, q
  <2>4. c.acc = q /\ c.offset = 0
    BY <2>2, Zenon
  <2>5. 0 <= m - 0
    BY <2>1
  <2>6. /\ c.acc \in Seq(Byte) /\ Len(c.acc) = Len(a) - o
        /\ c.offset = o - o /\ c.offset <= Len(c.acc) - c.offset
        /\ \A i \in 1..Len(c.acc) : c.acc[i] = a[o + i]
    <3>1. c.offset = o - o
      BY <2>1, <2>4, Zenon
    <3> QED BY <2>3, <2>4, <2>5, <3>1, Zenon
  <2> QED BY <2>1, <2>6, Zenon DEF c
<1>3. CASE ~(o > Len(a) \div 2)
  <2>1. c = [acc |-> a, offset |-> o]
    BY <1>3, Zenon DEF Compact
  <2> HIDE DEF c
  <2>2. c.acc = a /\ c.offset = o
    BY <2>1, Zenon
  <2>3. /\ Len(a) = Len(a) - 0 /\ o = o - 0 /\ 0 \in 0..o /\ o <= Len(a) - o
        /\ \A i \in 1..Len(a) : 0 + i = i
    BY <1>1, <1>3
  <2>4. \A i \in 1..Len(a) : a[i] = a[0 + i]
    BY <2>3, Zenon
  <2> QED BY <2>2, <2>3, <2>4, Zenon DEF c
<1> QED BY <1>2, <1>3, Zenon

\* What Read does to the buffer and the bytes on the way, apart from parsing: z bytes
\* of all the receiver has or will have are erased.
LEMMA ReadBytes ==
    ASSUME TypeInv, NEW n \in 1..Len(wire), Read(n)
    PROVE  LET a == acc \o SubSeq(wire, 1, n)
               st == [offset |-> offset, frames |-> frames, drops |-> drops, more |-> TRUE]
               e == ParseLoop(a, st)
           IN  /\ a \in Seq(Byte) /\ Len(a) = Len(acc) + n /\ st \in Parsing(a)
               /\ e \in Parsing(a) /\ frames' = e.frames /\ drops' = e.drops
               /\ \A i \in 1..Len(a) : a[i] = (acc \o wire)[i]
               /\ acc \o wire \in Seq(Byte) /\ Len(acc \o wire) = Len(acc) + Len(wire)
               /\ wire' \in Seq(Byte) /\ Len(wire') = Len(wire) - n
               /\ acc' \in Seq(Byte) /\ acc' \o wire' \in Seq(Byte)
               /\ Len(acc' \o wire') = Len(acc') + Len(wire')
               /\ \E z \in 0..e.offset :
                     /\ Len(acc') = Len(a) - z /\ offset' = e.offset - z
                     /\ offset' <= Len(acc') - offset'
                     /\ \A i \in 1..Len(acc' \o wire') : (acc' \o wire')[i] = (acc \o wire)[z + i]
<1> DEFINE f == SubSeq(wire, 1, n)
           a == acc \o f
           st == [offset |-> offset, frames |-> frames, drops |-> drops, more |-> TRUE]
           e == ParseLoop(a, st)
           c == Compact(a, e.offset)
           s == acc \o wire
           u == acc' \o wire'
<1>1. /\ wire \in Seq(Byte) /\ acc \in Seq(Byte) /\ Len(wire) \in Nat /\ Len(acc) \in Nat
      /\ n \in Nat /\ n <= Len(wire) /\ offset \in Nat /\ offset <= Len(acc)
      /\ frames \in Seq(Seen) /\ drops \in Nat
  BY DEF TypeInv
<1>2. f \in Seq(Byte) /\ Len(f) = n /\ \A i \in 1..n : f[i] = wire[i]
  <2>1. f \in Seq(Byte) /\ Len(f) = n
    BY <1>1
  <2>2. \A i \in 1..n : f[i] = wire[i]
    BY <1>1
  <2> QED BY <2>1, <2>2, Zenon
<1> HIDE DEF f
<1>3. /\ a \in Seq(Byte) /\ Len(a) = Len(acc) + n
      /\ \A i \in 1..Len(acc) : a[i] = acc[i]
      /\ \A i \in 1..n : a[Len(acc) + i] = f[i]
  BY <1>1, <1>2, Joined, Zenon
<1>4. /\ s \in Seq(Byte) /\ Len(s) = Len(acc) + Len(wire)
      /\ \A i \in 1..Len(acc) : s[i] = acc[i]
      /\ \A i \in 1..Len(wire) : s[Len(acc) + i] = wire[i]
  BY <1>1, Joined, Zenon
<1> HIDE DEF a, s
<1>5. ASSUME NEW i \in 1..Len(a) PROVE a[i] = s[i]
  <2>1. CASE i <= Len(acc)
    <3>1. i \in 1..Len(acc)
      BY <1>1, <1>3, <2>1
    <3> QED BY <1>3, <1>4, <3>1, Zenon
  <2>2. CASE ~(i <= Len(acc))
    <3> DEFINE j == i - Len(acc)
    <3>1. j \in 1..n /\ j \in 1..Len(wire) /\ Len(acc) + j = i
      BY <1>1, <1>3, <2>2
    <3> HIDE DEF j
    <3>2. a[Len(acc) + j] = s[Len(acc) + j]
      BY <1>2, <1>3, <1>4, <3>1, Zenon
    <3> QED BY <3>1, <3>2, Zenon
  <2> QED BY <2>1, <2>2, Zenon
<1>6. st \in Parsing(a) /\ st.more
  <2>1. offset \in 0..Len(a)
    BY <1>1, <1>3
  <2> QED BY <1>1, <2>1, Zenon DEF Parsing
<1>7. e \in Parsing(a)
  BY <1>3, <1>6, LoopStops, Zenon
<1>8. /\ wire' = SubSeq(wire, n + 1, Len(wire)) /\ acc' = c.acc /\ offset' = c.offset
      /\ frames' = e.frames /\ drops' = e.drops
  BY Zenon DEF Read, a, f
<1> HIDE DEF e, st
<1>9. e.offset \in 0..Len(a)
  BY <1>7 DEF Parsing
<1>10. PICK z \in 0..e.offset :
          /\ acc' \in Seq(Byte) /\ Len(acc') = Len(a) - z
          /\ offset' = e.offset - z /\ offset' <= Len(acc') - offset'
          /\ \A i \in 1..Len(acc') : acc'[i] = a[z + i]
  BY <1>3, <1>8, <1>9, CompactCuts, Zenon
<1>11. wire' \in Seq(Byte) /\ Len(wire') = Len(wire) - n /\ \A i \in 1..Len(wire') : wire'[i] = wire[n + i]
  <2> DEFINE m == Len(wire) - n
  <2>1. m \in Nat /\ n + m = Len(wire) /\ n + m <= Len(wire)
    BY <1>1
  <2>2. wire' = SubSeq(wire, n + 1, n + m)
    BY <1>8, <2>1, ZenonT(60)
  <2> HIDE DEF m
  <2>3. wire' \in Seq(Byte) /\ Len(wire') = m /\ \A i \in 1..m : wire'[i] = wire[n + i]
    BY <1>1, <2>1, <2>2, Piece
  <2> QED BY <2>3, Zenon DEF m
<1>12. /\ u \in Seq(Byte) /\ Len(u) = Len(acc') + Len(wire')
       /\ \A i \in 1..Len(acc') : u[i] = acc'[i]
       /\ \A i \in 1..Len(wire') : u[Len(acc') + i] = wire'[i]
  BY <1>10, <1>11, Joined, Zenon
<1>13. z \in Nat /\ z <= Len(a) /\ Len(a) \in Nat /\ Len(acc') \in Nat /\ Len(wire') \in Nat
  BY <1>1, <1>3, <1>9, <1>10, <1>11
<1> HIDE DEF u
<1>14. ASSUME NEW i \in 1..Len(u) PROVE u[i] = s[z + i]
  <2>1. CASE i <= Len(acc')
    <3>1. i \in 1..Len(acc') /\ z + i \in 1..Len(a)
      BY <1>10, <1>12, <1>13, <2>1
    <3> QED BY <1>5, <1>10, <1>12, <3>1, ZenonT(60)
  <2>2. CASE ~(i <= Len(acc'))
    <3> DEFINE j == i - Len(acc')
    <3>1. /\ j \in 1..Len(wire') /\ Len(acc') + j = i /\ n + j \in 1..Len(wire)
          /\ Len(acc) + (n + j) = z + i
      <4>1. /\ Len(a) = Len(acc) + n /\ Len(acc') = Len(a) - z /\ Len(wire') = Len(wire) - n
            /\ Len(u) = Len(acc') + Len(wire') /\ Len(acc) \in Nat /\ Len(wire) \in Nat /\ n \in Nat
            /\ z \in Nat /\ Len(acc') \in Nat /\ Len(wire') \in Nat
        BY <1>1, <1>3, <1>10, <1>11, <1>12, <1>13, Zenon
      <4> QED BY <2>2, <4>1
    <3> HIDE DEF j
    <3>2. u[Len(acc') + j] = wire'[j] /\ wire'[j] = wire[n + j] /\ s[Len(acc) + (n + j)] = wire[n + j]
      BY <1>4, <1>11, <1>12, <3>1, Zenon
    <3> QED BY <3>1, <3>2, Zenon
  <2> QED BY <2>1, <2>2, Zenon
<1> QED
  BY <1>3, <1>4, <1>5, <1>6, <1>7, <1>8, <1>10, <1>11, <1>12, <1>14, ZenonT(60) DEF a, s, u, e, st, f

\* Reading n bytes and parsing
LEMMA ReadInv ==
    ASSUME IInv, NEW n \in 1..Len(wire), Read(n)
    PROVE  IInv'
<1> DEFINE a == acc \o SubSeq(wire, 1, n)
           st == [offset |-> offset, frames |-> frames, drops |-> drops, more |-> TRUE]
           e == ParseLoop(a, st)
           s == acc \o wire
           u == acc' \o wire'
<1>0. TypeInv /\ EndsInv /\ StreamInv /\ BufferBounded
      /\ (Intact => Synced(read, Base + offset, frames, drops, FALSE))
  BY Zenon DEF IInv
<1>1. PICK l \in Nat : l = Len(sent)
  BY <1>0 DEF TypeInv
<1>2. sent' = sent /\ ends' = ends /\ changed' = changed /\ read' = read + n
  BY Zenon DEF Read
<1>3. /\ a \in Seq(Byte) /\ Len(a) = Len(acc) + n /\ st \in Parsing(a)
      /\ e \in Parsing(a) /\ frames' = e.frames /\ drops' = e.drops
      /\ \A i \in 1..Len(a) : a[i] = s[i]
      /\ s \in Seq(Byte) /\ Len(s) = Len(acc) + Len(wire)
      /\ wire' \in Seq(Byte) /\ Len(wire') = Len(wire) - n
      /\ acc' \in Seq(Byte) /\ u \in Seq(Byte)
      /\ Len(u) = Len(acc') + Len(wire')
      /\ \E z \in 0..e.offset :
            /\ Len(acc') = Len(a) - z /\ offset' = e.offset - z
            /\ offset' <= Len(acc') - offset'
            /\ \A i \in 1..Len(u) : u[i] = s[z + i]
  BY <1>0, ReadBytes, Zenon
<1>4. st.more /\ st.offset = offset /\ st.frames = frames /\ st.drops = drops
  BY Zenon
<1>5. ~e.more /\ Len(a) - e.offset < 4 + MaxFrameBytes
  BY <1>3, <1>4, LoopStops, ZenonT(60)
<1> HIDE DEF a, st, s, u
<1> HIDE DEF e
<1>6. PICK z \in 0..e.offset :
         /\ Len(acc') = Len(a) - z /\ offset' = e.offset - z
         /\ offset' <= Len(acc') - offset'
         /\ \A i \in 1..Len(u) : u[i] = s[z + i]
  BY <1>3, Zenon
<1>7. /\ e.offset \in Nat /\ e.offset <= Len(a) /\ e.frames \in Seq(Seen) /\ e.drops \in Nat
      /\ z \in Nat /\ z <= e.offset /\ Len(a) \in Nat
  <2>1. e.offset \in 0..Len(a) /\ e.frames \in Seq(Seen) /\ e.drops \in Nat
    BY <1>3 DEF Parsing
  <2>2. Len(a) \in Nat
    BY <1>3
  <2> QED BY <2>1, <2>2
<1>8. /\ read \in Nat /\ Len(acc) \in Nat /\ Len(acc) <= read /\ Len(wire) \in Nat /\ n \in Nat
      /\ n <= Len(wire) /\ changed \in Nat
  BY <1>0 DEF TypeInv
<1>l. /\ Len(a) = Len(acc) + n /\ Len(wire') = Len(wire) - n /\ Len(s) = Len(acc) + Len(wire)
      /\ Len(u) = Len(acc') + Len(wire') /\ Len(acc') = Len(a) - z /\ offset' = e.offset - z
  BY <1>3, <1>6, Zenon
<1>9. TypeInv'
  <2>1. offset' \in Nat /\ offset' <= Len(acc') /\ Len(acc') <= read' /\ read' \in Nat
    <3>1. offset' \in Nat /\ offset' <= Len(acc')
      <4>1. \A i, j, k \in Nat : k <= i /\ i <= j => i - k \in Nat /\ i - k <= j - k
        OBVIOUS
      <4>2. e.offset - z \in Nat /\ e.offset - z <= Len(a) - z
        BY <1>7, <4>1, Zenon
      <4> QED BY <1>l, <4>2, Zenon
    <3>2. Len(acc') <= read' /\ read' \in Nat
      BY <1>2, <1>l, <1>7, <1>8
    <3> QED BY <3>1, <3>2, Zenon
  <2> QED BY <1>0, <1>2, <1>3, <1>7, <2>1, ZenonT(60) DEF TypeInv
<1>10. \A k : Ends(k)' = Ends(k)
  BY <1>2, Zenon DEF Ends
<1>11. \A k : At(k)' = At(k)
  BY <1>2, <1>10, Zenon DEF At
<1>12. read' + Len(wire') = read + Len(wire) /\ Len(sent') = l
  BY <1>1, <1>2, <1>l, <1>8
<1>13. EndsInv'
  <2>1. Ends(l) = read + Len(wire) /\ changed <= read + Len(wire)
    BY <1>0, <1>1, Zenon DEF EndsInv
  <2>2. /\ \A k \in 1..l : Ends(k) = Ends(k - 1) + Size(sent[k])
        /\ \A j, k \in 0..l : j < k => Ends(j) < Ends(k)
    BY <1>0, <1>1, Zenon DEF EndsInv
  <2> QED BY <1>2, <1>10, <1>12, <2>1, <2>2, Zenon DEF EndsInv
<1>14. Base \in Int /\ Base = read - Len(acc) /\ Base' = Base + z /\ Base + Len(a) = read'
       /\ Base + Len(a) <= read + Len(wire)
  BY <1>2, <1>l, <1>7, <1>8 DEF Base
<1>15. ASSUME NEW k \in 1..l
       PROVE  /\ sent[k] \in Frame /\ Ends(k - 1) \in Nat
              /\ Carries(s, Ends(k - 1) - Base, sent[k], At(k))
  <2>1. k - 1 \in 0..l
    OBVIOUS
  <2> QED BY <1>0, <1>1, <2>1, EndsNat, ZenonT(60) DEF StreamInv, s
<1>16. StreamInv'
  <2>1. ASSUME NEW k \in 1..l PROVE Carries(u, Ends(k - 1)' - Base', sent'[k], At(k)')
    <3> DEFINE o == Ends(k - 1) - Base
    <3>1. o \in Int /\ Ends(k - 1) - Base' = o - z
      <4>1. Ends(k - 1) \in Nat
        BY <1>15, Zenon
      <4> QED BY <1>7, <1>14, <4>1
    <3>2. z + Len(u) <= Len(s)
      BY <1>l, <1>7, <1>8
    <3>3. Carries(s, o, sent[k], At(k)) /\ sent[k] \in Frame
      BY <1>15, Zenon
    <3> HIDE DEF o
    <3>4. Carries(u, o - z, sent[k], At(k))
      BY <1>3, <1>6, <1>7, <3>1, <3>2, <3>3, CarriesPart, ZenonT(60)
    <3> QED BY <1>2, <1>10, <1>11, <3>1, <3>4, ZenonT(60)
  <2> QED BY <1>12, <2>1, Zenon DEF StreamInv, u
<1>17. BufferBounded'
  <2>1. Len(acc') - offset' = Len(a) - e.offset
    BY <1>l, <1>7
  <2> QED BY <1>5, <1>6, <2>1, ZenonT(60) DEF BufferBounded, e
<1>18. ASSUME Intact' PROVE Synced(read, Base + offset, frames, drops, FALSE)'
  <2>1. Intact
    BY <1>1, <1>11, <1>12, <1>18, Zenon DEF Intact, Fitting
  <2>2. Synced(Base + Len(a), Base + st.offset, st.frames, st.drops, TRUE)
    <3>1. Synced(read, Base + offset, frames, drops, FALSE)
      BY <1>0, <2>1, Zenon
    <3>2. Synced(Base + Len(a), Base + offset, frames, drops, TRUE)
      BY <3>1, Zenon DEF Synced
    <3> QED BY <1>4, <3>2, Zenon
  <2>3. ASSUME NEW k \in 1..l PROVE Carries(a, Ends(k - 1) - Base, sent[k], At(k))
    <3> DEFINE o == Ends(k - 1) - Base
    <3>1. o \in Int /\ o - 0 = o /\ 0 \in Nat /\ 0 + Len(a) <= Len(s) /\ \A i \in 1..Len(a) : 0 + i = i
      <4>1. Ends(k - 1) \in Nat
        BY <1>15, Zenon
      <4>2. o \in Int /\ o - 0 = o
        BY <1>14, <4>1
      <4>3. 0 + Len(a) <= Len(s)
        BY <1>l, <1>7, <1>8
      <4> QED BY <1>7, <4>2, <4>3
    <3>2. Carries(s, o, sent[k], At(k)) /\ sent[k] \in Frame
      BY <1>15, Zenon
    <3> HIDE DEF o
    <3>3. \A i \in 1..Len(a) : a[i] = s[0 + i]
      BY <1>3, <3>1, Zenon
    <3>4. Carries(a, o - 0, sent[k], At(k))
      BY <1>3, <3>1, <3>2, <3>3, CarriesPart, ZenonT(60)
    <3> QED BY <3>1, <3>4, ZenonT(60) DEF o
  <2>4. Synced(Base + Len(a), Base + e.offset, e.frames, e.drops, FALSE)
    BY <1>0, <1>1, <1>3, <1>4, <1>14, <2>1, <2>2, <2>3, LoopSynced, ZenonT(60) DEF e
  <2>5. Base' + offset' = Base + e.offset
    <3>1. Base' = Base + z /\ offset' = e.offset - z
      BY <1>l, <1>14, Zenon
    <3>2. Base \in Int /\ e.offset \in Nat /\ z \in Nat
      BY <1>7, <1>14, ZenonT(60)
    <3>3. (Base + z) + (e.offset - z) = Base + e.offset
      BY <3>2
    <3> QED BY <3>1, <3>3, Zenon
  <2>6. PICK m : m = Len(e.frames) + e.drops
    BY Zenon
  <2>7. /\ m <= l /\ Base + e.offset = Ends(m) /\ Content(e.frames, e.drops)
        /\ (m = l \/ read' < Ends(m + 1))
    BY <1>1, <1>14, <2>4, <2>6, ZenonT(60) DEF Synced
  <2>8. Content(frames, drops)'
    <3>1. frames' = e.frames /\ drops' = e.drops
      BY <1>3, Zenon
    <3>2. Content(e.frames, e.drops)
      BY <2>7, Zenon
    <3> QED BY <1>1, <1>2, <1>11, <1>12, <3>1, <3>2, ZenonT(60) DEF Content
  <2>9. /\ Len(frames') + drops' = m /\ m <= Len(sent') /\ Base' + offset' = Ends(m)'
        /\ (m = Len(sent') \/ read' < Ends(m + 1)')
    BY <1>3, <1>10, <1>12, <2>5, <2>6, <2>7, ZenonT(60)
  <2> QED BY <2>8, <2>9, Zenon DEF Synced
<1> QED BY <1>9, <1>13, <1>16, <1>17, <1>18, Zenon DEF IInv

\* Every step keeps the invariant.
LEMMA Inductive == IInv /\ [Next]_vars => IInv'
<1> SUFFICES ASSUME IInv, [Next]_vars PROVE IInv'
  OBVIOUS
<1>1. CASE \E cmd \in Cmds, payload \in Payloads : Send(cmd, payload)
  BY <1>1, SendInv, Zenon
<1>2. CASE \E x \in 1..Len(wire), b \in Noise : Change(x, b)
  BY <1>2, ChangeInv, Zenon
<1>3. CASE \E n \in 1..Len(wire) : Read(n)
  BY <1>3, ReadInv, Zenon
<1>4. CASE UNCHANGED vars
  <2>1. /\ sent' = sent /\ ends' = ends /\ wire' = wire /\ read' = read /\ acc' = acc
        /\ offset' = offset /\ frames' = frames /\ drops' = drops /\ changed' = changed
    BY <1>4, Zenon DEF vars
  <2>2. Base' = Base /\ \A k : Ends(k)' = Ends(k)
    BY <2>1, Zenon DEF Base, Ends
  <2>3. \A k : At(k)' = At(k)
    BY <2>1, <2>2, Zenon DEF At
  <2>4. TypeInv' /\ BufferBounded'
    BY <2>1, Zenon DEF IInv, TypeInv, BufferBounded
  <2>5. EndsInv' /\ StreamInv'
    BY <2>1, <2>2, <2>3, Zenon DEF IInv, EndsInv, StreamInv
  <2>6. Content(frames, drops) => Content(frames, drops)'
    BY <2>1, <2>3, Zenon DEF Content
  <2>7. Synced(read, Base + offset, frames, drops, FALSE)
           => Synced(read, Base + offset, frames, drops, FALSE)'
    BY <2>1, <2>2, <2>6, Zenon DEF Synced
  <2>8. Intact' => Intact
    BY <2>1, <2>3, Zenon DEF Intact, Fitting
  <2> QED BY <2>4, <2>5, <2>7, <2>8, ZenonT(60) DEF IInv
<1> QED BY <1>1, <1>2, <1>3, <1>4, Zenon DEF Next

-----------------------------------------------------------------------------
\* The invariant always holds.
LEMMA Invariance == Spec => []IInv
BY InitInv, Inductive, PTL DEF Spec

\* A hit in bytes lo..hi of frame k, counted from the frame's beginning
LEMMA HitAt ==
    ASSUME TypeInv, EndsInv, NEW k \in 1..Len(sent), NEW lo \in Nat, NEW hi \in Nat, Hit(k, lo, hi)
    PROVE  At(k) \in lo..hi /\ At(k) <= Size(sent[k])
<1>1. k - 1 \in 0..Len(sent) /\ k \in 0..Len(sent) /\ changed \in Nat
  BY DEF TypeInv
<1>2. Ends(k - 1) \in Nat /\ Ends(k) \in Nat /\ Size(sent[k]) \in Nat
  BY <1>1, EndsNat, FrameSize, Zenon
<1>3. Ends(k) = Ends(k - 1) + Size(sent[k])
  BY Zenon DEF EndsInv
<1>4. changed \in (Ends(k - 1) + lo)..(Ends(k - 1) + hi) /\ changed <= Ends(k)
  BY Zenon DEF Hit
<1> QED BY <1>1, <1>2, <1>3, <1>4 DEF At

\* The parser has seen the frames whose last byte has been read.
LEMMA SyncedComplete ==
    ASSUME TypeInv, EndsInv, Synced(read, Base + offset, frames, drops, FALSE)
    PROVE  Complete /\ Len(frames) + drops <= Len(sent)
<1> DEFINE n == Len(frames) + drops
<1>1. /\ n \in Nat /\ Len(sent) \in Nat /\ read \in Nat /\ Base + offset \in Int /\ Base + offset <= read
      /\ n \in Int
  BY DEF TypeInv, Base
<1>2. n <= Len(sent) /\ Base + offset = Ends(n) /\ (n = Len(sent) \/ read < Ends(n + 1))
  BY Zenon DEF Synced
<1> HIDE DEF n
<1>3. ASSUME NEW k \in 1..Len(sent) PROVE ends[k] <= read <=> k <= n
  <2>1. Ends(k) = ends[k] /\ k \in 0..Len(sent) /\ n \in 0..Len(sent)
    BY <1>1, <1>2 DEF Ends
  <2>2. Ends(k) \in Nat /\ Ends(n) \in Nat
    BY <2>1, EndsNat, Zenon
  <2>3. CASE k <= n
    <3>1. k < n => Ends(k) < Ends(n)
      BY <2>1, Zenon DEF EndsInv
    <3>2. k < n \/ k = n
      BY <1>1, <2>3
    <3>3. Ends(k) <= read
      BY <1>1, <1>2, <2>2, <3>1, <3>2
    <3> QED BY <2>1, <2>3, <3>3, Zenon
  <2>4. CASE ~(k <= n)
    <3>1. n + 1 \in 0..Len(sent) /\ (n + 1 < k \/ n + 1 = k) /\ n # Len(sent)
      BY <1>1, <2>4
    <3>2. Ends(n + 1) \in Nat
      BY <3>1, EndsNat, Zenon
    <3>3. n + 1 < k => Ends(n + 1) < Ends(k)
      BY <2>1, <3>1, Zenon DEF EndsInv
    <3>4. read < Ends(n + 1)
      BY <1>2, <3>1, Zenon
    <3>5. ~(Ends(k) <= read)
      BY <1>1, <2>2, <3>1, <3>2, <3>3, <3>4
    <3> QED BY <2>1, <2>4, <3>5, Zenon
  <2> QED BY <2>3, <2>4, Zenon
<1> QED BY <1>2, <1>3, Zenon DEF Complete, n

\* A changed byte that is not in a length field leaves every length field intact.
LEMMA HitIntact ==
    ASSUME TypeInv, EndsInv, Fitting, NEW k \in 1..Len(sent), At(k) >= 5, At(k) <= Size(sent[k])
    PROVE  /\ Intact
           /\ \A j \in 1..Len(sent) : j # k => At(j) \notin 5..12 /\ At(j) \notin 13..Size(sent[j])
<1>1. ASSUME NEW j \in 1..Len(sent)
      PROVE  At(j) \in Int /\ Size(sent[j]) \in Nat /\ Size(sent[j]) >= 16
  BY EndsNat, FrameSize, Zenon
<1>2. ASSUME NEW j \in 1..Len(sent), j # k
      PROVE  ~(At(j) >= 1 /\ At(j) <= Size(sent[j]))
  <2>1. At(k) >= 1
    BY <1>1
  <2> QED BY <1>2, <2>1, AtOne, Zenon
<1>3. ASSUME NEW j \in 1..Len(sent) PROVE At(j) \notin 1..4
  <2>1. CASE j = k
    BY <1>1, <2>1
  <2>2. CASE j # k
    <3>1. ~(At(j) >= 1 /\ At(j) <= Size(sent[j]))
      BY <1>2, <2>2, Zenon
    <3>2. At(j) \in Int /\ Size(sent[j]) \in Nat /\ Size(sent[j]) >= 16
      BY <1>1, Zenon
    <3> QED BY <3>1, <3>2, Outside, Zenon
  <2> QED BY <2>1, <2>2, Zenon
<1>4. ASSUME NEW j \in 1..Len(sent), j # k
      PROVE  At(j) \notin 5..12 /\ At(j) \notin 13..Size(sent[j])
  <2>1. ~(At(j) >= 1 /\ At(j) <= Size(sent[j]))
    BY <1>2, <1>4, Zenon
  <2>2. At(j) \in Int /\ Size(sent[j]) \in Nat /\ Size(sent[j]) >= 16
    BY <1>1, Zenon
  <2> QED BY <2>1, <2>2, Outside, Zenon
<1> QED BY <1>3, <1>4, Zenon DEF Intact

\* With no byte changed the parser is in step with the frames as they were packed.
LEMMA CutsInvisibleHolds ==
    ASSUME Fitting, IInv
    PROVE  CutsInvisible
<1> SUFFICES ASSUME changed = 0
             PROVE  /\ Complete /\ drops = 0 /\ Len(frames) <= Len(sent)
                    /\ \A i \in DOMAIN frames : frames[i] = sent[i]
  BY Zenon DEF CutsInvisible
<1>1. TypeInv /\ EndsInv
  BY Zenon DEF IInv
<1>2. ASSUME NEW k \in 1..Len(sent)
      PROVE  At(k) \notin 1..4 /\ At(k) \notin 5..12 /\ At(k) \notin 13..Size(sent[k])
  <2>1. k - 1 \in 0..Len(sent)
    BY <1>1 DEF TypeInv
  <2>2. Ends(k - 1) \in Nat /\ Size(sent[k]) \in Nat
    BY <1>1, <2>1, EndsNat, FrameSize, Zenon
  <2>3. At(k) = 0 - Ends(k - 1)
    BY Zenon DEF At
  <2>4. At(k) \in Int /\ ~(At(k) >= 1 /\ At(k) <= Size(sent[k]))
    BY <2>2, <2>3
  <2>5. Size(sent[k]) >= 16
    BY <1>1, EndsNat, FrameSize, Zenon
  <2> QED BY <2>2, <2>4, <2>5, Outside, Zenon
<1>3. Synced(read, Base + offset, frames, drops, FALSE)
  BY <1>2, Zenon DEF IInv, Intact
<1>4. Complete /\ Len(frames) + drops <= Len(sent)
  BY <1>1, <1>3, SyncedComplete, Zenon
<1>5. /\ drops = 0
      /\ \A i \in 1..Len(frames) : At(i) \notin 5..12 => frames[i] = sent[i]
  BY <1>2, <1>3, Zenon DEF Synced, Content
<1>6. Len(frames) <= Len(sent) /\ DOMAIN frames = 1..Len(frames)
      /\ \A i \in 1..Len(frames) : i \in 1..Len(sent)
  BY <1>1, <1>4, <1>5 DEF TypeInv
<1>7. \A i \in DOMAIN frames : frames[i] = sent[i]
  BY <1>2, <1>5, <1>6, Zenon
<1> QED BY <1>4, <1>5, <1>6, <1>7, Zenon

\* A changed byte in the CRC or the payload of frame k makes k the one that is dropped.
LEMMA DamageContainedHolds ==
    ASSUME Fitting, IInv
    PROVE  DamageContained
<1> SUFFICES ASSUME NEW k \in 1..Len(sent),
                    Hit(k, HeaderTotal - 3, HeaderTotal + Len(sent[k].payload))
             PROVE  /\ Complete
                    /\ drops = IF ends[k] <= read THEN 1 ELSE 0
                    /\ Len(frames) + drops <= Len(sent)
                    /\ \A i \in DOMAIN frames : frames[i] = sent[IF i < k THEN i ELSE i + 1]
  BY Zenon DEF DamageContained
<1>1. TypeInv /\ EndsInv
  BY Zenon DEF IInv
<1>2. At(k) \in Int /\ Size(sent[k]) \in Nat /\ At(k) \in 13..Size(sent[k])
  <2>1. At(k) \in Int /\ Size(sent[k]) \in Nat
    BY <1>1, EndsNat, FrameSize, Zenon
  <2>2. HeaderTotal - 3 = 13 /\ 13 \in Nat
    BY DEF HeaderTotal
  <2>3. Hit(k, 13, Size(sent[k]))
    BY <2>2, Zenon DEF Size
  <2> QED BY <1>1, <2>1, <2>2, <2>3, HitAt, Zenon
<1>3. At(k) >= 5 /\ At(k) <= Size(sent[k])
  BY <1>2
<1>4. Synced(read, Base + offset, frames, drops, FALSE)
  BY <1>1, <1>3, HitIntact, Zenon DEF IInv
<1>5. Complete /\ Len(frames) + drops <= Len(sent)
  BY <1>1, <1>4, SyncedComplete, Zenon
<1>6. /\ drops = IF k <= Len(frames) + drops THEN 1 ELSE 0
      /\ \A i \in 1..Len(frames) : frames[i] = sent[IF i < k THEN i ELSE i + 1]
  BY <1>2, <1>4, Zenon DEF Synced, Content
<1>7. ends[k] <= read <=> k <= Len(frames) + drops
  BY <1>5, Zenon DEF Complete
<1>8. DOMAIN frames = 1..Len(frames)
  BY <1>1 DEF TypeInv
<1> QED BY <1>5, <1>6, <1>7, <1>8, Zenon

\* A changed byte in the rest of the header of frame k leaves all but k as it was.
LEMMA HeaderUnprotectedHolds ==
    ASSUME Fitting, IInv
    PROVE  HeaderUnprotected
<1> SUFFICES ASSUME NEW k \in 1..Len(sent), Hit(k, 5, HeaderTotal - 4)
             PROVE  /\ Complete /\ drops = 0
                    /\ Len(frames) <= Len(sent)
                    /\ \A i \in DOMAIN frames : /\ frames[i].payload = sent[i].payload
                                                /\ i # k => frames[i] = sent[i]
  BY Zenon DEF HeaderUnprotected
<1>1. TypeInv /\ EndsInv
  BY Zenon DEF IInv
<1>2. At(k) \in Int /\ Size(sent[k]) \in Nat /\ Size(sent[k]) >= 16
  BY <1>1, EndsNat, FrameSize, Zenon
<1>3. At(k) \in 5..12
  <2>1. HeaderTotal - 4 = 12 /\ 12 \in Nat /\ 5 \in Nat
    BY DEF HeaderTotal
  <2>2. Hit(k, 5, 12)
    BY <2>1, Zenon
  <2> QED BY <1>1, <2>1, <2>2, HitAt, Zenon
<1>4. At(k) >= 5 /\ At(k) <= Size(sent[k]) /\ At(k) \notin 13..Size(sent[k])
  BY <1>2, <1>3
<1>5. Synced(read, Base + offset, frames, drops, FALSE)
  BY <1>1, <1>4, HitIntact, Zenon DEF IInv
<1>6. Complete /\ Len(frames) + drops <= Len(sent)
  BY <1>1, <1>5, SyncedComplete, Zenon
<1>7. \A j \in 1..Len(sent) : At(j) \notin 13..Size(sent[j]) /\ (j # k => At(j) \notin 5..12)
  BY <1>1, <1>4, HitIntact, Zenon
<1>8. /\ drops = 0
      /\ \A i \in 1..Len(frames) : /\ frames[i].payload = sent[i].payload
                                   /\ At(i) \notin 5..12 => frames[i] = sent[i]
  BY <1>5, <1>7, Zenon DEF Synced, Content
<1>9. Len(frames) <= Len(sent) /\ DOMAIN frames = 1..Len(frames)
      /\ \A i \in 1..Len(frames) : i \in 1..Len(sent)
  BY <1>1, <1>6, <1>8 DEF TypeInv
<1>10. \A i \in DOMAIN frames : /\ frames[i].payload = sent[i].payload
                                /\ i # k => frames[i] = sent[i]
  BY <1>7, <1>8, <1>9, Zenon
<1> QED BY <1>6, <1>8, <1>9, <1>10, Zenon

-----------------------------------------------------------------------------
\* However long the session and whatever arrives, frame_acc_ holds at most twice the
\* bytes still to be parsed, and those are less than one largest frame.
THEOREM BufferBoundedAlways == Spec => []BufferBounded
<1>1. IInv => BufferBounded
  BY Zenon DEF IInv
<1> QED BY <1>1, Invariance, PTL

\* If no payload is too long for a frame, the way the bytes are cut into reads does not
\* show: on_frame_ sees exactly the frames read to their end, unchanged and in order.
THEOREM CutsInvisibleAlways ==
    ASSUME Fitting PROVE Spec => []CutsInvisible
<1>1. IInv => CutsInvisible
  BY CutsInvisibleHolds
<1> QED BY <1>1, Invariance, PTL

\* If no payload is too long for a frame, a byte changed in a payload or in the CRC costs
\* its own frame and no other.
THEOREM DamageContainedAlways ==
    ASSUME Fitting PROVE Spec => []DamageContained
<1>1. IInv => DamageContained
  BY DamageContainedHolds
<1> QED BY <1>1, Invariance, PTL

\* If no payload is too long for a frame, a byte changed in cmd, flags, ver or seq loses
\* no frame and no payload: the CRC does not cover them.
THEOREM HeaderUnprotectedAlways ==
    ASSUME Fitting PROVE Spec => []HeaderUnprotected
<1>1. IInv => HeaderUnprotected
  BY HeaderUnprotectedHolds
<1> QED BY <1>1, Invariance, PTL

=============================================================================
