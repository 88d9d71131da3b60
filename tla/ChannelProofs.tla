----------------------------- MODULE ChannelProofs -----------------------------
(***************************************************************************)
(* Proofs about Channel, for every queue and batch limit, every timer      *)
(* period and both orders in which do_write's arguments may be evaluated.  *)
(*                                                                         *)
(* OneWrite, ClosedOnce and TimersStop rest on IInv.  ByteAccounting,      *)
(* NoStall and the refinement of FifoPipe rest on LoopInv: what send()     *)
(* took is on the wire, then being written, then queued, until a write     *)
(* fails, and current_queue_bytes is the size of the last two.  LoopInv    *)
(* needs what the sums of make_batch_ are, so that comes first.            *)
(***************************************************************************)
EXTENDS Channel, SequenceTheorems, WellFoundedInduction, TLAPS

USE SMTT(30)

\* writing_ covers the outstanding write: do_write is entered only with writing_
\* clear, or from the handler of the one write there is.
WriterInv ==
    /\ writing \in BOOLEAN
    /\ flushed => outstanding # <<>>
    /\ \/ outstanding = <<>>
       \/ writing /\ outstanding = <<outstanding[1]>>

\* closed_ comes first, then the posted clean-up, then the closed socket.
CloseInv ==
    /\ {closed, cleanup} \subseteq BOOLEAN
    /\ cleanup => closed
    /\ socket = "closed" => closed
    /\ ClosedOnce

TimerInv ==
    /\ timer \in [Timers -> {"off", "armed", "fired"}]
    /\ TimersStop

IInv == WriterInv /\ CloseInv /\ TimerInv

\* A channel that asio_server has just made satisfies the invariant.
LEMMA InitInv == Init => IInv
BY Zenon DEF Init, IInv, WriterInv, CloseInv, TimerInv, ClosedOnce, TimersStop, Timers

-----------------------------------------------------------------------------
\* close() keeps CloseInv, whoever calls it and however often.
LEMMA CloseKeeps ==
    ASSUME CloseInv, NEW why, Close(why), UNCHANGED socket
    PROVE  CloseInv'
BY DEF CloseInv, Close, ClosedOnce

\* do_write with no other write pending starts at most one.
LEMMA DoWriteKeeps ==
    ASSUME NEW q, DoWrite(q, <<>>), ~flushed'
    PROVE  WriterInv'
<1> DEFINE k == BatchLen(q)
           b == SubSeq(q, 1, k)
<1>1. writing' = (k > 0) /\ outstanding' = IF k > 0 THEN Append(<<>>, b) ELSE <<>>
  BY DEF DoWrite
<1>2. Append(<<>>, b) = <<b>>
  OBVIOUS
<1> HIDE DEF k, b
<1>3. CASE k > 0
  <2>1. writing' = TRUE /\ outstanding' = <<b>>
    BY <1>1, <1>2, <1>3, Zenon
  <2>2. <<b>>[1] = b
    OBVIOUS
  <2>3. outstanding' = <<outstanding'[1]>>
    BY <2>1, <2>2
  <2> QED  BY <2>1, <2>3 DEF WriterInv
<1>4. CASE ~(k > 0)
  BY <1>1, <1>4 DEF WriterInv
<1> QED  BY <1>3, <1>4

\* send(), from a message handler or from the ping timer
LEMMA SendKeeps ==
    ASSUME WriterInv, CloseInv, NEW size, SendSize(size), UNCHANGED socket
    PROVE  WriterInv' /\ CloseInv'
<1> DEFINE m == [id |-> sent + 1, size |-> size]
<1>1. CASE SendRejected(m)
  <2>1. CloseInv'
    BY <1>1, CloseKeeps DEF SendRejected
  <2>2. WriterInv'
    BY <1>1 DEF SendRejected, writer, WriterInv
  <2> QED  BY <2>1, <2>2
<1>2. CASE SendQueued(m)
  <2>1. CloseInv'
    BY <1>2 DEF SendQueued, closing, CloseInv, ClosedOnce
  <2>2. CASE writing
    BY <1>2, <2>1, <2>2 DEF SendQueued, MayWrite, WriterInv
  <2>3. CASE ~writing
    <3>1. outstanding = <<>> /\ ~flushed
      BY <2>3 DEF WriterInv
    <3>2. DoWrite(Append(write_queue, m), <<>>) /\ ~flushed'
      BY <1>2, <2>3, <3>1 DEF SendQueued, MayWrite
    <3> QED  BY <2>1, <3>2, DoWriteKeeps
  <2> QED  BY <2>2, <2>3
<1> QED  BY <1>1, <1>2 DEF SendSize

-----------------------------------------------------------------------------
\* The handler of the only write leaves none.
LEMMA TailOfOne == \A b : Tail(<<b>>) = <<>>
OBVIOUS

\* Every handler of the channel keeps it.
LEMMA NextInv == IInv /\ [Next]_vars => IInv'
<1> SUFFICES ASSUME IInv, [Next]_vars PROVE IInv'
  OBVIOUS
<1> USE DEF IInv
<1>1. CASE Start
  <2>1. WriterInv' /\ CloseInv'
    BY <1>1 DEF Start, writer, closing, WriterInv, CloseInv, ClosedOnce
  <2>2. TimerInv'
    BY <1>1 DEF Start, TimerInv, TimersStop
  <2> QED  BY <2>1, <2>2
<1>2. ASSUME NEW size \in Sizes, Send(size) PROVE IInv'
  <2>1. WriterInv' /\ CloseInv'
    BY <1>2, SendKeeps DEF Send
  <2>2. TimerInv'
    BY <1>2 DEF Send, clocks, TimerInv, TimersStop
  <2> QED  BY <2>1, <2>2
<1>3. CASE Arrive \/ ReadDone \/ Tick
  BY <1>3 DEF Arrive, ReadDone, Tick, writer, closing, clocks, WriterInv, CloseInv,
              ClosedOnce, TimerInv, TimersStop
<1>4. CASE ReadError
  <2>1. CloseInv'
    BY <1>4, CloseKeeps DEF ReadError
  <2>2. WriterInv' /\ TimerInv'
    BY <1>4 DEF ReadError, writer, clocks, WriterInv, TimerInv, TimersStop
  <2> QED  BY <2>1, <2>2
<1>5. CASE Transmit
  BY <1>5 DEF Transmit, closing, clocks, WriterInv, CloseInv, ClosedOnce, TimerInv, TimersStop
<1>6. CASE WriteDone
  <2>1. CloseInv' /\ TimerInv'
    BY <1>6 DEF WriteDone, closing, clocks, CloseInv, ClosedOnce, TimerInv, TimersStop
  <2>2. ~flushed' /\ NextWrite(Tail(outstanding))
    BY <1>6 DEF WriteDone
  <2>3. outstanding = <<outstanding[1]>>
    BY <1>6 DEF WriteDone, WriterInv
  <2>4. Tail(outstanding) = <<>>
    BY <2>3, TailOfOne, Zenon
  <2>5. CASE write_queue = <<>>
    BY <2>1, <2>2, <2>4, <2>5, Zenon DEF NextWrite, WriterInv
  <2>6. CASE write_queue # <<>>
    BY <2>1, <2>2, <2>4, <2>6, DoWriteKeeps, Zenon DEF NextWrite
  <2> QED  BY <2>5, <2>6
<1>7. CASE WriteError
  <2>1. CloseInv'
    BY <1>7, CloseKeeps DEF WriteError
  <2>2. TimerInv'
    BY <1>7 DEF WriteError, clocks, TimerInv, TimersStop
  <2>3. outstanding = <<outstanding[1]>> /\ ~flushed /\ flushed' = flushed
        /\ writing' = writing /\ outstanding' = Tail(outstanding)
    BY <1>7 DEF WriteError, WriterInv
  <2>4. Tail(outstanding) = <<>>
    BY <2>3, TailOfOne, Zenon
  <2>5. WriterInv'
    BY <2>3, <2>4 DEF WriterInv
  <2> QED  BY <2>1, <2>2, <2>5
<1>8. CASE CleanUp
  <2>1. WriterInv' /\ CloseInv'
    BY <1>8, Zenon DEF CleanUp, writer, WriterInv, CloseInv, ClosedOnce
  <2>2. TimerInv'
    BY <1>8 DEF CleanUp, Cancelled, TimerInv, TimersStop
  <2> QED  BY <2>1, <2>2
<1>9. ASSUME NEW x \in Timers, Expire(x) PROVE IInv'
  <2>1. WriterInv' /\ CloseInv'
    BY <1>9 DEF Expire, writer, closing, WriterInv, CloseInv, ClosedOnce
  <2>2. TimerInv'
    BY <1>9 DEF Expire, TimerInv, TimersStop
  <2> QED  BY <2>1, <2>2
<1>10. CASE IdleHandler
  <2>1. WriterInv'
    BY <1>10 DEF IdleHandler, writer, WriterInv
  <2>2. CloseInv'
    <3>1. socket' = socket /\ (UNCHANGED closing \/ Close("timeout"))
      BY <1>10 DEF IdleHandler
    <3>2. CASE UNCHANGED closing
      BY <3>1, <3>2 DEF closing, CloseInv, ClosedOnce
    <3>3. CASE Close("timeout")
      BY <3>1, <3>3, CloseKeeps
    <3> QED  BY <3>1, <3>2, <3>3
  <2>3. TimerInv'
    BY <1>10 DEF IdleHandler, Arm, Disarm, CloseInv, TimerInv, TimersStop, Timers
  <2> QED  BY <2>1, <2>2, <2>3
<1>11. CASE PingHandler
  <2>1. CASE closed /\ Disarm("ping") /\ UNCHANGED <<queue, writer, sent, closing>>
    BY <1>11, <2>1 DEF PingHandler, Disarm, writer, closing, WriterInv, CloseInv,
                       ClosedOnce, TimerInv, TimersStop, Timers
  <2>2. CASE SendSize(PingSize) /\ Arm("ping")
    <3>1. socket' = socket
      BY <1>11 DEF PingHandler
    <3>2. WriterInv' /\ CloseInv'
      BY <2>2, <3>1, SendKeeps
    <3>3. TimerInv'
      BY <2>2, <3>1 DEF SendSize, Arm, CloseInv, TimerInv, TimersStop, Timers
    <3> QED  BY <3>2, <3>3
  <2> QED  BY <1>11, <2>1, <2>2 DEF PingHandler
<1>12. CASE StatsHandler
  <2>1. WriterInv' /\ CloseInv'
    BY <1>12 DEF StatsHandler, writer, closing, WriterInv, CloseInv, ClosedOnce
  <2>2. TimerInv'
    BY <1>12 DEF StatsHandler, Arm, Disarm, CloseInv, TimerInv, TimersStop, Timers
  <2> QED  BY <2>1, <2>2
<1>13. CASE UNCHANGED vars
  BY <1>13 DEF vars, writer, closing, clocks, WriterInv, CloseInv, ClosedOnce, TimerInv, TimersStop
<1> QED
  BY <1>1, <1>2, <1>3, <1>4, <1>5, <1>6, <1>7, <1>8, <1>9, <1>10, <1>11, <1>12, <1>13 DEF Next

-----------------------------------------------------------------------------
\* asio_channel never has two async_writes outstanding on its socket.
THEOREM SingleWrite == Spec => []OneWrite
<1>1. IInv => OneWrite
  <2> SUFFICES ASSUME IInv PROVE OneWrite
    OBVIOUS
  <2>1. CASE outstanding = <<>>
    BY <2>1 DEF OneWrite
  <2>2. CASE outstanding = <<outstanding[1]>>
    <3>1. Len(<<outstanding[1]>>) = 1
      OBVIOUS
    <3> QED  BY <2>2, <3>1 DEF OneWrite
  <2> QED  BY <2>1, <2>2 DEF IInv, WriterInv
<1> QED  BY <1>1, InitInv, NextInv, PTL DEF Spec

\* close() calls on_close once, whichever of its callers meet.
THEOREM OneOnClose == Spec => []ClosedOnce
<1>1. IInv => ClosedOnce  BY DEF IInv, CloseInv
<1> QED  BY <1>1, InitInv, NextInv, PTL DEF Spec

\* No timer is armed once the clean-up has closed the socket, although handlers
\* re-arm their timers: they look at closed_, which was set before.
THEOREM TimersEnd == Spec => []TimersStop
<1>1. IInv => TimersStop  BY DEF IInv, TimerInv
<1> QED  BY <1>1, InitInv, NextInv, PTL DEF Spec

-----------------------------------------------------------------------------
\* ---- Sums of message sizes -------------------------------------------------

\* A set of numbers has a least one: induction by least counterexample.
LEMMA LeastNat ==
    ASSUME NEW T, T \subseteq Nat, T # {}
    PROVE  \E x \in T : \A y \in T : x <= y
<1>1. PICK x \in T : \A y \in T : ~(<<y, x>> \in OpToRel(<, Nat))
  BY NatLessThanWellFounded, WFMin, Zenon
<1>2. \A y \in T : ~(y < x)
  BY <1>1, Zenon DEF OpToRel
<1> QED BY <1>2

\* A bounded set of numbers has the maximum BatchLen takes.
LEMMA GreatestBelow ==
    ASSUME NEW n \in Nat, NEW S, S \subseteq 0..n, S # {}
    PROVE  Max(S) \in S /\ \A y \in S : y <= Max(S)
<1> DEFINE T == {d \in 0..n : n - d \in S}
<1>1. T \subseteq Nat
  OBVIOUS
<1>2. PICK s : s \in S
  OBVIOUS
<1>3. n - s \in T
  BY <1>2
<1>4. PICK d \in T : \A y \in T : d <= y
  BY <1>1, <1>3, LeastNat, Zenon
<1>5. n - d \in S
  BY <1>4
<1>6. ASSUME NEW y \in S PROVE n - d >= y
  <2>1. n - y \in T
    BY <1>6
  <2>2. d <= n - y /\ y \in 0..n /\ d \in 0..n
    BY <1>4, <2>1
  <2> QED BY <2>2
<1>7. \E x \in S : \A y \in S : x >= y
  BY <1>5, <1>6
<1>8. Max(S) \in S /\ \A y \in S : Max(S) >= y
  BY <1>7, Zenon DEF Max
<1>9. PICK x \in S : x = Max(S) /\ \A y \in S : x >= y
  BY <1>8, Zenon
<1>10. \A y \in S : y <= x
  BY <1>9
<1> QED BY <1>9, <1>10

\* Two running sums of the same steps keep their distance.
LEMMA SameSteps ==
    ASSUME NEW n \in Nat, NEW f \in [0..n -> Int], NEW g \in [0..n -> Int],
           NEW h \in [1..n -> Int], NEW a \in Int,
           f[0] = g[0] + a,
           \A k \in 1..n : f[k] = f[k - 1] + h[k] /\ g[k] = g[k - 1] + h[k]
    PROVE  \A k \in 0..n : f[k] = g[k] + a
<1> DEFINE T == {k \in 0..n : f[k] # g[k] + a}
<1> SUFFICES ASSUME T # {} PROVE FALSE
  BY Zenon
<1>1. T \subseteq Nat
  OBVIOUS
<1>2. PICK k \in T : \A j \in T : k <= j
  BY <1>1, LeastNat, Zenon
<1>3. k \in 1..n /\ k - 1 \in 0..n /\ k - 1 \notin T
  BY <1>2
<1>4. f[k - 1] = g[k - 1] + a /\ f[k] = f[k - 1] + h[k] /\ g[k] = g[k - 1] + h[k]
  BY <1>3
<1>5. PICK d \in Int, v \in Int : d = h[k] /\ v = g[k - 1]
  BY <1>3
<1>6. f[k] = (v + a) + d /\ g[k] = v + d
  BY <1>4, <1>5
<1>7. f[k] = g[k] + a
  BY <1>6
<1> QED BY <1>2, <1>7

\* A running sum of natural steps exists.
LEMMA SumExists ==
    ASSUME NEW q, NEW n \in Nat, \A k \in 1..n : q[k].size \in Nat
    PROVE  \E f : f = [k \in 0..n |-> IF k = 0 THEN 0 ELSE f[k - 1] + q[k].size]
<1> DEFINE Sum(m) == \E f \in [0..m -> Nat] :
                       f[0] = 0 /\ \A k \in 1..m : f[k] = f[k - 1] + q[k].size
           T == {m \in 0..n : ~Sum(m)}
<1>1. T = {}
  <2> SUFFICES ASSUME T # {} PROVE FALSE
    BY Zenon
  <2>1. T \subseteq Nat
    OBVIOUS
  <2>2. PICK m \in T : \A j \in T : m <= j
    BY <2>1, LeastNat, Zenon
  <2>3. Sum(0)
    <3>1. [k \in 0..0 |-> 0] \in [0..0 -> Nat] /\ [k \in 0..0 |-> 0][0] = 0
      OBVIOUS
    <3>2. \A k \in 1..0 : FALSE
      OBVIOUS
    <3> QED BY <3>1, <3>2, Zenon
  <2>4. m \in 1..n /\ m - 1 \in 0..n /\ Sum(m - 1)
    <3> HIDE DEF Sum
    <3>1. m \in 0..n /\ m # 0
      BY <2>2, <2>3
    <3>2. m - 1 \in 0..n /\ ~(m <= m - 1)
      BY <3>1
    <3>3. m - 1 \notin T
      BY <2>2, <3>2
    <3> QED BY <3>1, <3>2, <3>3
  <2>6. PICK f \in [0..(m - 1) -> Nat] :
          f[0] = 0 /\ \A k \in 1..(m - 1) : f[k] = f[k - 1] + q[k].size
    BY <2>4, Zenon
  <2> DEFINE g == [k \in 0..m |-> IF k = m THEN f[m - 1] + q[m].size ELSE f[k]]
  <2>7. g \in [0..m -> Nat]
    <3>1. f[m - 1] \in Nat /\ q[m].size \in Nat
      BY <2>4, <2>6
    <3>2. \A k \in 0..m : k # m => k \in 0..(m - 1)
      BY <2>4
    <3> QED BY <2>6, <3>1, <3>2
  <2>8. g[0] = 0
    BY <2>4, <2>6
  <2>9. \A k \in 1..m : g[k] = g[k - 1] + q[k].size
    <3>1. ASSUME NEW k \in 1..m PROVE g[k] = g[k - 1] + q[k].size
      <4>1. k - 1 \in 0..m /\ k - 1 # m /\ k \in 0..m
        BY <2>4
      <4>2. g[k - 1] = f[k - 1]
        BY <4>1
      <4>3. CASE k = m
        BY <4>1, <4>2, <4>3
      <4>4. CASE k # m
        <5>1. k \in 1..(m - 1)
          BY <2>4, <4>4
        <5> QED BY <2>6, <4>1, <4>2, <4>4, <5>1
      <4> QED BY <4>3, <4>4
    <3> QED BY <3>1, Zenon
  <2>10. Sum(m)
    BY <2>7, <2>8, <2>9, Zenon
  <2> QED BY <2>2, <2>10, Zenon
<1>2. Sum(n)
  BY <1>1
<1>3. PICK f \in [0..n -> Nat] : f[0] = 0 /\ \A k \in 1..n : f[k] = f[k - 1] + q[k].size
  BY <1>2, Zenon
<1>4. f = [k \in 0..n |-> f[k]]
  OBVIOUS
<1>5. \A k \in 0..n : f[k] = IF k = 0 THEN 0 ELSE f[k - 1] + q[k].size
  BY <1>3
<1>6. f = [k \in 0..n |-> IF k = 0 THEN 0 ELSE f[k - 1] + q[k].size]
  BY <1>4, <1>5
<1> QED BY <1>6, Zenon

\* The recursive function acc, unfolded: it exists for every queue.
LEMMA AccUnfold ==
    ASSUME NEW q \in Seq(Message)
    PROVE  /\ \A k \in 0..Len(q) : Acc(q)[k] \in Nat
           /\ Acc(q)[0] = 0
           /\ \A k \in 1..Len(q) : Acc(q)[k] = Acc(q)[k - 1] + q[k].size
<1>1. Len(q) \in Nat /\ \A k \in 1..Len(q) : q[k] \in Message
  OBVIOUS
<1>2. \A m \in Message : m.size \in Nat
  BY SizeAssumption, Zenon DEF Message
<1>3. \A k \in 1..Len(q) : q[k].size \in Nat
  BY <1>1, <1>2
<1> DEFINE P(f) == f = [k \in 0..Len(q) |-> IF k = 0 THEN 0 ELSE f[k - 1] + q[k].size]
<1>4. \E f : P(f)
  BY <1>1, <1>3, SumExists
<1>5. Acc(q) = CHOOSE f : P(f)
  BY DEF Acc
<1>6. P(Acc(q))
  BY <1>4, <1>5, Zenon
<1> HIDE DEF P
<1>7. /\ Acc(q)[0] = 0
      /\ \A k \in 1..Len(q) : Acc(q)[k] = Acc(q)[k - 1] + q[k].size
  <2>1. Acc(q) = [k \in 0..Len(q) |-> IF k = 0 THEN 0 ELSE Acc(q)[k - 1] + q[k].size]
    BY <1>6 DEF P
  <2>2. \A k \in 0..Len(q) : Acc(q)[k] = IF k = 0 THEN 0 ELSE Acc(q)[k - 1] + q[k].size
    BY <2>1
  <2> QED BY <1>1, <2>2
<1> DEFINE T == {k \in 0..Len(q) : Acc(q)[k] \notin Nat}
<1>8. T = {}
  <2> SUFFICES ASSUME T # {} PROVE FALSE
    OBVIOUS
  <2>1. T \subseteq Nat
    OBVIOUS
  <2>2. PICK k \in T : \A j \in T : k <= j
    BY <2>1, LeastNat, Zenon
  <2>3. k \in 1..Len(q) /\ k - 1 \in 0..Len(q) /\ k - 1 \notin T
    BY <1>7, <2>2
  <2>4. Acc(q)[k - 1] \in Nat /\ q[k].size \in Nat
    BY <1>3, <2>3
  <2>5. Acc(q)[k] \in Nat
    BY <1>7, <2>3, <2>4
  <2> QED BY <2>2, <2>5
<1> QED BY <1>7, <1>8

\* No message is empty: send() returns at once for one that is.
LEMMA MessageSize == \A m \in Message : m.size \in Nat \ {0}
BY SizeAssumption, Zenon DEF Message

\* What is queued in all: nothing, one message more, or two parts.
LEMMA BytesEmpty == Bytes(<<>>) = 0
<1>1. <<>> \in Seq(Message) /\ Len(<<>>) = 0
  OBVIOUS
<1> QED BY <1>1, AccUnfold, Zenon DEF Bytes

\* A queue's size is a natural number.
LEMMA BytesNat == \A q \in Seq(Message) : Bytes(q) \in Nat
<1> SUFFICES ASSUME NEW q \in Seq(Message) PROVE Bytes(q) \in Nat
  OBVIOUS
<1>1. Len(q) \in 0..Len(q)
  OBVIOUS
<1> QED BY <1>1, AccUnfold DEF Bytes

\* Messages in the same places weigh the same.
LEMMA AccPrefix ==
    ASSUME NEW q \in Seq(Message), NEW r \in Seq(Message), NEW n \in 0..Len(q),
           n <= Len(r), \A i \in 1..n : q[i] = r[i]
    PROVE  Acc(q)[n] = Acc(r)[n]
<1>1. n \in Nat /\ n \in 0..n
  OBVIOUS
<1>2. \A k \in 0..n : k \in 0..Len(q) /\ k \in 0..Len(r)
  OBVIOUS
<1>3. \A k \in 0..n : Acc(q)[k] \in Nat /\ Acc(r)[k] \in Nat
  BY <1>2, AccUnfold
<1>4. \A k \in 1..n : k \in 1..Len(q) /\ k \in 1..Len(r) /\ k - 1 \in 0..n
  OBVIOUS
<1> DEFINE f == [k \in 0..n |-> Acc(q)[k]]
           g == [k \in 0..n |-> Acc(r)[k]]
           h == [k \in 1..n |-> q[k].size]
<1>5. /\ f \in [0..n -> Int] /\ g \in [0..n -> Int]
      /\ \A k \in 0..n : f[k] = Acc(q)[k] /\ g[k] = Acc(r)[k]
  BY <1>3
<1>6. h \in [1..n -> Int] /\ \A k \in 1..n : h[k] = q[k].size
  <2>1. \A k \in 1..n : q[k] \in Message
    BY <1>4
  <2> QED BY <2>1, MessageSize
<1> HIDE DEF f, g, h
<1>7. PICK a \in Int : a = 0 /\ f[0] = g[0] + a
  <2>1. 0 \in 0..n
    BY <1>1
  <2>2. f[0] = 0 /\ g[0] = 0
    BY <1>5, <2>1, AccUnfold, Zenon
  <2> QED BY <2>2
<1>8. \A k \in 1..n : f[k] = f[k - 1] + h[k] /\ g[k] = g[k - 1] + h[k]
  <2> SUFFICES ASSUME NEW k \in 1..n PROVE f[k] = f[k - 1] + h[k] /\ g[k] = g[k - 1] + h[k]
    OBVIOUS
  <2>1. Acc(q)[k] = Acc(q)[k - 1] + q[k].size /\ Acc(r)[k] = Acc(r)[k - 1] + q[k].size
    BY <1>4, AccUnfold, Zenon
  <2>2. k \in 0..n /\ k - 1 \in 0..n
    BY <1>4
  <2> QED BY <1>5, <1>6, <2>1, <2>2, Zenon
<1>9. \A k \in 0..n : f[k] = g[k] + a
  BY <1>1, <1>5, <1>6, <1>7, <1>8, SameSteps, Zenon
<1> QED BY <1>1, <1>5, <1>7, <1>9

\* push_back adds the message's size.
LEMMA BytesAppend ==
    ASSUME NEW q \in Seq(Message), NEW m \in Message
    PROVE  Bytes(Append(q, m)) = Bytes(q) + m.size
<1> DEFINE r == Append(q, m)
           n == Len(q)
<1>1. /\ r \in Seq(Message) /\ Len(r) = n + 1 /\ n \in Nat /\ r[n + 1] = m
      /\ \A i \in 1..n : r[i] = q[i]
  OBVIOUS
<1> HIDE DEF r
<1>2. Acc(r)[n] = Acc(q)[n]
  <2>1. n \in 0..Len(q) /\ n \in 0..Len(r)
    BY <1>1
  <2> QED BY <1>1, <2>1, AccPrefix
<1>3. Acc(r)[n + 1] = Acc(r)[n] + r[n + 1].size
  <2>1. n + 1 \in 1..Len(r) /\ (n + 1) - 1 = n
    BY <1>1
  <2>2. Acc(r)[n + 1] = Acc(r)[(n + 1) - 1] + r[n + 1].size
    BY <1>1, <2>1, AccUnfold
  <2> QED BY <2>1, <2>2
<1>4. Bytes(r) = Bytes(q) + m.size
  BY <1>1, <1>2, <1>3 DEF Bytes
<1> QED BY <1>4 DEF r

\* A queue cut in two
LEMMA Cut ==
    ASSUME NEW q \in Seq(Message), NEW k \in 0..Len(q)
    PROVE  /\ SubSeq(q, 1, k) \in Seq(Message) /\ Len(SubSeq(q, 1, k)) = k
           /\ \A i \in 1..k : SubSeq(q, 1, k)[i] = q[i]
           /\ Rest(q, k) \in Seq(Message) /\ Len(Rest(q, k)) = Len(q) - k
           /\ \A i \in 1..(Len(q) - k) : Rest(q, k)[i] = q[k + i]
           /\ SubSeq(q, 1, k) \o Rest(q, k) = q
<1>1. Len(q) \in Nat /\ k \in Int /\ \A i \in 1..Len(q) : q[i] \in Message
  OBVIOUS
<1>2. /\ SubSeq(q, 1, k) \in Seq(Message) /\ Len(SubSeq(q, 1, k)) = k
      /\ \A i \in 1..k : SubSeq(q, 1, k)[i] = q[i]
  <2>1. \A i \in 1..k : q[i] \in Message
    BY <1>1
  <2>2. /\ SubSeq(q, 1, k) \in Seq(Message)
        /\ Len(SubSeq(q, 1, k)) = IF 1 <= k THEN k - 1 + 1 ELSE 0
        /\ \A i \in 1..(k - 1 + 1) : SubSeq(q, 1, k)[i] = q[1 + i - 1]
    BY <1>1, <2>1, SubSeqProperties
  <2> QED BY <1>1, <2>2
<1>3. /\ Rest(q, k) \in Seq(Message) /\ Len(Rest(q, k)) = Len(q) - k
      /\ \A i \in 1..(Len(q) - k) : Rest(q, k)[i] = q[k + i]
  <2>1. \A i \in (k + 1)..Len(q) : q[i] \in Message
    BY <1>1
  <2>2. /\ SubSeq(q, k + 1, Len(q)) \in Seq(Message)
        /\ Len(SubSeq(q, k + 1, Len(q))) = IF k + 1 <= Len(q) THEN Len(q) - (k + 1) + 1 ELSE 0
        /\ \A i \in 1..(Len(q) - (k + 1) + 1) : SubSeq(q, k + 1, Len(q))[i] = q[(k + 1) + i - 1]
    BY <1>1, <2>1, SubSeqProperties
  <2> QED BY <1>1, <2>2 DEF Rest
<1>4. SubSeq(q, 1, k) \o Rest(q, k) = q
  <2>1. 1 \in 1..(Len(q) + 1) /\ k \in (1 - 1)..Len(q) /\ Len(q) \in k..Len(q)
    BY <1>1
  <2>2. SubSeq(q, 1, k) \o SubSeq(q, k + 1, Len(q)) = SubSeq(q, 1, Len(q))
    BY <2>1, ConcatAdjacentSubSeq, Zenon
  <2> QED BY <2>2, SubSeqFull, Zenon DEF Rest
<1> QED BY <1>2, <1>3, <1>4

\* Taking a batch splits the size.
LEMMA BytesCut ==
    ASSUME NEW q \in Seq(Message), NEW k \in 0..Len(q)
    PROVE  Bytes(q) = Bytes(SubSeq(q, 1, k)) + Bytes(Rest(q, k))
<1> DEFINE n == Len(q) - k
           a == SubSeq(q, 1, k)
           b == Rest(q, k)
           f == [i \in 0..n |-> Acc(q)[k + i]]
<1>1. n \in Nat /\ Len(q) \in Nat /\ k \in Nat /\ k + n = Len(q)
  OBVIOUS
<1>2. /\ a \in Seq(Message) /\ Len(a) = k /\ \A i \in 1..k : a[i] = q[i]
      /\ b \in Seq(Message) /\ Len(b) = n /\ \A i \in 1..n : b[i] = q[k + i]
  BY Cut
<1> HIDE DEF n, a, b, f
<1>3. Bytes(a) = Acc(q)[k]
  <2>1. k \in 0..Len(a) /\ k <= Len(q)
    BY <1>1, <1>2
  <2>2. Acc(a)[k] = Acc(q)[k]
    BY <1>2, <2>1, AccPrefix, Zenon
  <2> QED BY <1>2, <2>2 DEF Bytes
<1>4. \A i \in 0..n : /\ f[i] = Acc(q)[k + i] /\ k + i \in 0..Len(q)
                      /\ f[i] \in Nat /\ Acc(b)[i] \in Nat
  <2> SUFFICES ASSUME NEW i \in 0..n
               PROVE  /\ f[i] = Acc(q)[k + i] /\ k + i \in 0..Len(q)
                      /\ f[i] \in Nat /\ Acc(b)[i] \in Nat
    OBVIOUS
  <2>1. k + i \in 0..Len(q) /\ i \in 0..Len(b)
    BY <1>1, <1>2
  <2>2. f[i] = Acc(q)[k + i]
    BY DEF f
  <2> QED BY <1>2, <2>1, <2>2, AccUnfold
<1> DEFINE g == [i \in 0..n |-> Acc(b)[i]]
           h == [i \in 1..n |-> b[i].size]
<1>5. /\ f \in [0..n -> Int] /\ g \in [0..n -> Int]
      /\ \A i \in 0..n : g[i] = Acc(b)[i]
  BY <1>4 DEF f
<1>6. h \in [1..n -> Int] /\ \A i \in 1..n : h[i] = b[i].size
  <2>1. \A i \in 1..n : b[i] \in Message
    BY <1>2
  <2> QED BY <2>1, MessageSize
<1> HIDE DEF g, h
<1>7. \A i \in 0..n : f[i] = g[i] + Acc(q)[k]
  <2>1. PICK c \in Int : c = Acc(q)[k] /\ f[0] = g[0] + c
    <3>1. 0 \in 0..n /\ k + 0 = k
      BY <1>1
    <3>2. f[0] = Acc(q)[k] /\ f[0] \in Nat /\ g[0] = 0
      BY <1>2, <1>4, <1>5, <3>1, AccUnfold
    <3> QED BY <3>2
  <2>2. \A i \in 1..n : f[i] = f[i - 1] + h[i] /\ g[i] = g[i - 1] + h[i]
    <3> SUFFICES ASSUME NEW i \in 1..n PROVE f[i] = f[i - 1] + h[i] /\ g[i] = g[i - 1] + h[i]
      OBVIOUS
    <3>1. /\ i \in 0..n /\ i - 1 \in 0..n /\ i \in 1..Len(b) /\ k + i \in 1..Len(q)
          /\ k + (i - 1) = (k + i) - 1
      BY <1>1, <1>2
    <3>2. Acc(b)[i] = Acc(b)[i - 1] + b[i].size
      BY <1>2, <3>1, AccUnfold
    <3>3. Acc(q)[k + i] = Acc(q)[(k + i) - 1] + q[k + i].size
      BY <3>1, AccUnfold, Zenon
    <3>4. f[i] = Acc(q)[k + i] /\ f[i - 1] = Acc(q)[(k + i) - 1] /\ b[i] = q[k + i]
      BY <1>2, <1>4, <3>1
    <3> QED BY <1>5, <1>6, <3>1, <3>2, <3>3, <3>4
  <2>3. \A i \in 0..n : f[i] = g[i] + c
    BY <1>1, <1>5, <1>6, <2>1, <2>2, SameSteps, Zenon
  <2> QED BY <2>1, <2>3
<1>8. Bytes(q) = Bytes(b) + Bytes(a)
  <2>1. n \in 0..n
    BY <1>1
  <2>2. f[n] = Acc(q)[Len(q)]
    BY <1>1, <1>4, <2>1, Zenon
  <2> QED BY <1>2, <1>3, <1>5, <1>7, <2>1, <2>2 DEF Bytes
<1>9. Bytes(a) \in Nat /\ Bytes(b) \in Nat
  BY <1>2, BytesNat
<1>10. Bytes(q) = Bytes(a) + Bytes(b)
  BY <1>8, <1>9
<1> QED BY <1>10 DEF a, b

\* make_batch_ takes some messages from the front, and none only when the queue
\* is empty or its first message is too large for any batch.
LEMMA BatchTakes ==
    ASSUME NEW q \in Seq(Message)
    PROVE  /\ BatchLen(q) \in 0..Len(q)
           /\ BatchLen(q) = 0 /\ q # <<>> => Oversized(q[1])
<1> DEFINE S == {k \in 0..Len(q) : k <= MaxBatchMsgs /\ Acc(q)[k] <= MaxBatchBytes}
<1>1. Len(q) \in Nat /\ S \subseteq 0..Len(q)
  OBVIOUS
<1>2. 0 \in S
  <2>1. 0 \in 0..Len(q) /\ Acc(q)[0] = 0
    BY <1>1, AccUnfold
  <2> QED BY <2>1, LimitAssumption
<1>3. PICK k \in S : k = BatchLen(q) /\ \A y \in S : y <= k
  BY <1>1, <1>2, GreatestBelow DEF BatchLen
<1>4. ASSUME k = 0, q # <<>> PROVE Oversized(q[1])
  <2>1. 1 \in 0..Len(q) /\ 1 \in 1..Len(q)
    BY <1>1, <1>4, EmptySeq
  <2>2. 1 \notin S
    BY <1>3, <1>4
  <2>3. ~(Acc(q)[1] <= MaxBatchBytes)
    BY <2>1, <2>2, LimitAssumption
  <2>4. q[1] \in Message
    BY <2>1
  <2>5. Acc(q)[1] = q[1].size /\ q[1].size \in Nat
    <3>1. Acc(q)[1] = Acc(q)[1 - 1] + q[1].size
      BY <2>1, AccUnfold
    <3>2. Acc(q)[1 - 1] = 0
      BY AccUnfold
    <3> QED BY <2>4, <3>1, <3>2, MessageSize
  <2> QED BY <2>3, <2>5, LimitAssumption DEF Oversized
<1> QED BY <1>3, <1>4

-----------------------------------------------------------------------------
\* ---- The write loop ---------------------------------------------------------

\* Given to async_write and not yet on the wire
Pending == IF flushed THEN <<>> ELSE InFlight

\* A write has failed: its handler closed the channel and left writing_ set.
Failed == writing /\ outstanding = <<>>

\* What send() took is on the wire, then being written, then queued, until a
\* write fails; after that the wire still holds a prefix.
FlowInv ==
    /\ write_queue \in Seq(Message) /\ accepted \in Seq(Message) /\ wire \in Seq(Message)
    /\ InFlight \in Seq(Message)
    /\ sent \in Nat
    /\ Failed => closed
    /\ \E r \in Seq(Message) : accepted = wire \o r
    /\ BufferFirst /\ ~Failed => accepted = (wire \o Pending) \o write_queue
    /\ ~BufferFirst => wire = <<>>

\* current_queue_bytes counts at least what is queued or being written, and
\* exactly that while no write has failed and its bytes were handed over.
ByteInv ==
    /\ current_queue_bytes \in 0..MaxQueueBytes
    /\ current_queue_bytes >= Bytes(write_queue) + Bytes(InFlight)
    /\ BufferFirst /\ ~Failed => current_queue_bytes = Bytes(write_queue) + Bytes(InFlight)

LoopInv == FlowInv /\ ByteInv /\ NoStall

\* The one write there is
LEMMA TheWrite ==
    ASSUME NEW b
    PROVE  <<b>> # <<>> /\ Head(<<b>>) = b /\ Tail(<<b>>) = <<>>
OBVIOUS

\* InFlight is the one outstanding write, and writing_ says whether there is one.
LEMMA InFlightOne ==
    ASSUME WriterInv
    PROVE  /\ outstanding = <<>> => InFlight = <<>> /\ ~flushed
           /\ outstanding # <<>> =>
                InFlight = Head(outstanding) /\ Tail(outstanding) = <<>> /\ writing
<1>1. outstanding = <<>> => InFlight = <<>> /\ ~flushed
  BY DEF InFlight, WriterInv
<1>2. ASSUME outstanding # <<>>
      PROVE  InFlight = Head(outstanding) /\ Tail(outstanding) = <<>> /\ writing
  <2>1. writing /\ outstanding = <<outstanding[1]>>
    BY <1>2 DEF WriterInv
  <2>2. InFlight = Head(outstanding)
    BY <1>2 DEF InFlight
  <2>3. Tail(outstanding) = <<>>
    BY <2>1, TheWrite, Zenon
  <2> QED BY <2>1, <2>2, <2>3
<1> QED BY <1>1, <1>2

\* do_write cuts the queue in two: the batch it gives to async_write and the
\* rest.  It gives nothing only when the first message is too large.
LEMMA DoWriteCuts ==
    ASSUME NEW q \in Seq(Message), DoWrite(q, <<>>)
    PROVE  \E b, r \in Seq(Message) :
             /\ q = b \o r /\ Bytes(q) = Bytes(b) + Bytes(r)
             /\ write_queue' = r /\ InFlight' = b /\ ~Failed'
             /\ r # <<>> => outstanding' # <<>> \/ Oversized(Head(r))
<1> DEFINE k == BatchLen(q)
           b == SubSeq(q, 1, k)
           r == Rest(q, k)
<1>1. k \in 0..Len(q) /\ (k = 0 /\ q # <<>> => Oversized(q[1]))
  BY BatchTakes
<1>2. /\ b \in Seq(Message) /\ Len(b) = k /\ r \in Seq(Message) /\ Len(r) = Len(q) - k
      /\ b \o r = q /\ Bytes(q) = Bytes(b) + Bytes(r)
  BY <1>1, Cut, BytesCut, Zenon
<1>3. /\ write_queue' = r /\ writing' = (k > 0)
      /\ outstanding' = IF k > 0 THEN Append(<<>>, b) ELSE <<>>
  BY DEF DoWrite
<1>4. Append(<<>>, b) = <<b>>
  OBVIOUS
<1> HIDE DEF k, b, r
<1>5. CASE k > 0
  <2>1. outstanding' = <<b>> /\ outstanding' # <<>>
    BY <1>3, <1>4, <1>5
  <2>2. InFlight' = b /\ ~Failed'
    BY <2>1 DEF InFlight, Failed
  <2> QED BY <1>2, <1>3, <2>1, <2>2, Zenon
<1>6. CASE k = 0
  <2>0. (k > 0) = FALSE
    BY <1>6
  <2>1. outstanding' = <<>> /\ ~writing'
    BY <1>3, <2>0, Zenon
  <2>2. b = <<>>
    BY <1>2, <1>6, EmptySeq
  <2>3. InFlight' = b /\ ~Failed'
    BY <2>1, <2>2, Zenon DEF InFlight, Failed
  <2>4. ASSUME r # <<>> PROVE Oversized(Head(r))
    <3>1. r = q
      BY <1>2, <2>2
    <3> QED BY <1>1, <1>6, <2>4, <3>1
  <2> QED BY <1>2, <1>3, <2>3, <2>4, Zenon
<1>7. k > 0 \/ k = 0
  BY <1>1
<1> QED BY <1>5, <1>6, <1>7

\* Regrouping queues
LEMMA Regroup ==
    \A s, t, u \in Seq(Message) :
        (s \o t) \o u = s \o (t \o u) /\ s \o t \in Seq(Message) /\ s \o <<>> = s
<1> SUFFICES ASSUME NEW s \in Seq(Message), NEW t \in Seq(Message), NEW u \in Seq(Message)
             PROVE  (s \o t) \o u = s \o (t \o u) /\ s \o t \in Seq(Message) /\ s \o <<>> = s
  OBVIOUS
<1>1. (s \o t) \o u = s \o (t \o u)
  BY ConcatAssociative
<1>2. s \o t \in Seq(Message)
  BY ConcatProperties
<1>3. s \o <<>> = s
  OBVIOUS
<1> QED BY <1>1, <1>2, <1>3

\* Named, so that the provers apply the two regroupings to the queues meant.
Associates(s, t, u) == (s \o t) \o u = s \o (t \o u)
SplitsOff(w, s, t, q) ==
    \E r \in Seq(Message) : (w \o (s \o t)) \o q = (w \o s) \o r

\* Queues are joined in either grouping.
LEMMA Association == \A s, t, u \in Seq(Message) : Associates(s, t, u)
<1> SUFFICES ASSUME NEW s \in Seq(Message), NEW t \in Seq(Message), NEW u \in Seq(Message)
             PROVE  Associates(s, t, u)
  BY Zenon
<1> QED BY ConcatAssociative DEF Associates

\* The first part of a batch cut in two joins the wire, the second what follows.
LEMMA SplitOff == \A w, s, t, q \in Seq(Message) : SplitsOff(w, s, t, q)
<1> SUFFICES ASSUME NEW w \in Seq(Message), NEW s \in Seq(Message),
                    NEW t \in Seq(Message), NEW q \in Seq(Message)
             PROVE  SplitsOff(w, s, t, q)
  BY Zenon
<1>1. w \o s \in Seq(Message) /\ t \o q \in Seq(Message)
  BY ConcatProperties
<1>2. Associates(w, s, t)
  BY Association, Zenon
<1>3. Associates(w \o s, t, q)
  BY <1>1, Association, Zenon
<1>4. (w \o (s \o t)) \o q = (w \o s) \o (t \o q)
  BY <1>2, <1>3, Zenon DEF Associates
<1> QED BY <1>1, <1>4, Zenon DEF SplitsOff

\* A message joins the end of whatever stands behind the wire.
LEMMA AppendOut ==
    \A s, t \in Seq(Message), m \in Message :
        Append(s \o t, m) = s \o Append(t, m) /\ Append(t, m) \in Seq(Message)
<1> SUFFICES ASSUME NEW s \in Seq(Message), NEW t \in Seq(Message), NEW m \in Message
             PROVE  Append(s \o t, m) = s \o Append(t, m) /\ Append(t, m) \in Seq(Message)
  BY Zenon
<1>1. <<m>> \in Seq(Message) /\ s \o t \in Seq(Message) /\ Append(t, m) \in Seq(Message)
  BY ConcatProperties
<1>2. Append(s \o t, m) = (s \o t) \o <<m>> /\ Append(t, m) = t \o <<m>>
  BY <1>1, AppendIsConcat
<1>3. (s \o t) \o <<m>> = s \o (t \o <<m>>)
  BY <1>1, ConcatAssociative
<1> QED BY <1>1, <1>2, <1>3, Zenon

\* The steps of the channel as the write loop sees them.
LEMMA LoopSteps ==
    ASSUME [Next]_vars, sent \in Nat
    PROVE  /\ sent' \in Nat
           /\ closed => closed'
           /\ \/ UNCHANGED <<queue, writer>>
              \/ UNCHANGED closed /\ ~closed /\ \E m \in Message : SendQueued(m)
              \/ UNCHANGED closed /\ Transmit
              \/ UNCHANGED closed /\ WriteDone
              \/ WriteError /\ closed' = TRUE
<1>1. ASSUME NEW size \in Sizes \cup {PingSize}, SendSize(size)
      PROVE  /\ sent' \in Nat /\ ~closed
             /\ \/ UNCHANGED <<queue, writer>>
                \/ UNCHANGED closed /\ \E m \in Message : SendQueued(m)
  <2>1. sent' \in Nat /\ sent + 1 \in 1..MaxMsgs /\ ~closed
    BY <1>1, BoundAssumption DEF SendSize
  <2>2. PICK m \in Message : m = [id |-> sent + 1, size |-> size]
    BY <2>1, Zenon DEF Message
  <2>3. SendRejected(m) \/ SendQueued(m)
    BY <1>1, <2>2 DEF SendSize
  <2>4. SendRejected(m) => UNCHANGED <<queue, writer>>
    BY DEF SendRejected
  <2>5. SendQueued(m) => UNCHANGED closed
    BY DEF SendQueued, closing
  <2> QED BY <2>1, <2>3, <2>4, <2>5, Zenon
<1>2. ASSUME NEW size \in Sizes, Send(size)
      PROVE  /\ sent' \in Nat /\ ~closed
             /\ \/ UNCHANGED <<queue, writer>>
                \/ UNCHANGED closed /\ \E m \in Message : SendQueued(m)
  BY <1>1, <1>2 DEF Send
<1>3. CASE PingHandler
  <2>1. CASE closed /\ Disarm("ping") /\ UNCHANGED <<queue, writer, sent, closing>>
    BY <2>1 DEF closing
  <2>2. CASE SendSize(PingSize)
    BY <1>1, <2>2, Zenon
  <2> QED BY <1>3, <2>1, <2>2, Zenon DEF PingHandler
<1>4. CASE Start \/ Arrive \/ ReadDone \/ CleanUp \/ StatsHandler \/ Tick \/ \E x \in Timers : Expire(x)
  BY <1>4 DEF Start, Arrive, ReadDone, CleanUp, StatsHandler, Tick, Expire, closing
<1>5. CASE ReadError \/ IdleHandler
  <2>1. UNCHANGED <<queue, writer, sent>> /\ (UNCHANGED closing \/ \E why : Close(why))
    BY <1>5, Zenon DEF ReadError, IdleHandler
  <2> QED BY <2>1 DEF Close, closing
<1>6. CASE Transmit
  BY <1>6 DEF Transmit, closing
<1>7. CASE WriteDone
  BY <1>7 DEF WriteDone, closing
<1>8. CASE WriteError
  BY <1>8, Zenon DEF WriteError, Close
<1>9. CASE UNCHANGED vars
  BY <1>9 DEF vars, closing
<1> QED BY <1>2, <1>3, <1>4, <1>5, <1>6, <1>7, <1>8, <1>9, Zenon DEF Next

\* What the frame of a step leaves alone.
LEMMA LoopKept ==
    ASSUME LoopInv, UNCHANGED <<queue, writer>>, sent' \in Nat, closed => closed'
    PROVE  LoopInv'
<1>1. UNCHANGED <<write_queue, current_queue_bytes, accepted, writing, outstanding, flushed, wire>>
  BY DEF queue, writer
<1>2. InFlight' = InFlight
  BY <1>1 DEF InFlight
<1>3. Pending' = Pending /\ (Failed' <=> Failed)
  BY <1>1, <1>2 DEF Pending, Failed
<1>4. FlowInv'
  BY <1>1, <1>2, <1>3, Zenon DEF LoopInv, FlowInv
<1>5. ByteInv' /\ NoStall'
  BY <1>1, <1>2, <1>3 DEF LoopInv, ByteInv, NoStall
<1> QED BY <1>4, <1>5 DEF LoopInv

\* send() while a write is going on: the message waits at the end of the queue.
LEMMA SendWaits ==
    ASSUME WriterInv, LoopInv, sent' \in Nat, UNCHANGED closed, ~closed, writing,
           NEW m \in Message, SendQueued(m)
    PROVE  LoopInv'
<1>1. /\ write_queue' = Append(write_queue, m) /\ accepted' = Append(accepted, m)
      /\ current_queue_bytes' = current_queue_bytes + m.size
      /\ current_queue_bytes + m.size <= MaxQueueBytes
      /\ UNCHANGED <<writing, outstanding, flushed, wire>>
  BY DEF SendQueued, MayWrite, Fits
<1>2. InFlight' = InFlight
  BY <1>1 DEF InFlight
<1>3. Pending' = Pending /\ (Failed' <=> Failed) /\ ~Failed
  BY <1>1, <1>2 DEF Pending, Failed, LoopInv, FlowInv
<1>4. PICK p \in Seq(Message) : p = Pending
  BY EmptySeq, Zenon DEF Pending, LoopInv, FlowInv
<1>5. PICK w, q, a \in Seq(Message) : w = wire /\ q = write_queue /\ a = accepted
  BY Zenon DEF LoopInv, FlowInv
<1>6. FlowInv'
  <2>1. write_queue' \in Seq(Message) /\ accepted' \in Seq(Message) /\ wire' \in Seq(Message)
        /\ InFlight' \in Seq(Message) /\ sent' \in Nat /\ ~Failed'
    BY <1>1, <1>2, <1>3 DEF LoopInv, FlowInv
  <2>2. \E r \in Seq(Message) : accepted' = wire' \o r
    <3>1. PICK r \in Seq(Message) : a = w \o r
      BY <1>5, Zenon DEF LoopInv, FlowInv
    <3>2. Append(w \o r, m) = w \o Append(r, m) /\ Append(r, m) \in Seq(Message)
      BY AppendOut, Zenon
    <3> QED BY <1>1, <1>5, <3>1, <3>2, Zenon
  <2>3. BufferFirst => accepted' = (wire' \o Pending') \o write_queue'
    <3> SUFFICES ASSUME BufferFirst PROVE accepted' = (wire' \o Pending') \o write_queue'
      BY Zenon
    <3>1. a = (w \o p) \o q
      BY <1>3, <1>4, <1>5, Zenon DEF LoopInv, FlowInv
    <3>2. w \o p \in Seq(Message)
      BY Regroup, Zenon
    <3>3. Append((w \o p) \o q, m) = (w \o p) \o Append(q, m)
      BY <3>2, AppendOut, Zenon
    <3> QED BY <1>1, <1>3, <1>4, <1>5, <3>1, <3>3
  <2>4. ~BufferFirst => wire' = <<>>
    BY <1>1 DEF LoopInv, FlowInv
  <2> QED BY <2>1, <2>2, <2>3, <2>4, Zenon DEF FlowInv
<1>7. ByteInv'
  <2>1. Bytes(write_queue') = Bytes(write_queue) + m.size
    BY <1>1, <1>5, BytesAppend
  <2>2. m.size \in Nat /\ Bytes(write_queue) \in Nat /\ Bytes(InFlight) \in Nat
    BY MessageSize, BytesNat, Zenon DEF LoopInv, FlowInv
  <2>3. MaxQueueBytes \in Nat /\ current_queue_bytes \in 0..MaxQueueBytes
    BY LimitAssumption DEF LoopInv, ByteInv
  <2>4. current_queue_bytes' \in 0..MaxQueueBytes
    BY <1>1, <2>2, <2>3
  <2>5. /\ current_queue_bytes >= Bytes(write_queue) + Bytes(InFlight)
        /\ BufferFirst => current_queue_bytes = Bytes(write_queue) + Bytes(InFlight)
    BY <1>3, Zenon DEF LoopInv, ByteInv
  <2>6. current_queue_bytes' >= Bytes(write_queue') + Bytes(InFlight')
    BY <1>1, <1>2, <2>1, <2>2, <2>3, <2>5
  <2>7. BufferFirst => current_queue_bytes' = Bytes(write_queue') + Bytes(InFlight')
    BY <1>1, <1>2, <1>3, <2>1, <2>2, <2>3, <2>5
  <2> QED BY <2>4, <2>6, <2>7, Zenon DEF ByteInv
<1>8. NoStall'
  BY <1>1, <1>3 DEF NoStall, Failed
<1> QED BY <1>6, <1>7, <1>8 DEF LoopInv

\* A write starts with the queue q, nothing else being written: all that was
\* taken and is not on the wire is in q.
LEMMA WriteStarts ==
    ASSUME NEW q \in Seq(Message), DoWrite(q, <<>>), ~flushed', sent' \in Nat,
           accepted' \in Seq(Message), wire' \in Seq(Message),
           \E r \in Seq(Message) : accepted' = wire' \o r,
           BufferFirst => accepted' = wire' \o q,
           ~BufferFirst => wire' = <<>>,
           current_queue_bytes' \in 0..MaxQueueBytes,
           current_queue_bytes' >= Bytes(q),
           BufferFirst => current_queue_bytes' = Bytes(q)
    PROVE  LoopInv'
<1>1. PICK b, r \in Seq(Message) :
        /\ q = b \o r /\ Bytes(q) = Bytes(b) + Bytes(r)
        /\ write_queue' = r /\ InFlight' = b /\ ~Failed'
        /\ r # <<>> => outstanding' # <<>> \/ Oversized(Head(r))
  BY DoWriteCuts, Zenon
<1>2. Pending' = b
  BY <1>1 DEF Pending
<1>3. BufferFirst => accepted' = (wire' \o Pending') \o write_queue'
  <2> SUFFICES ASSUME BufferFirst PROVE accepted' = (wire' \o Pending') \o write_queue'
    BY Zenon
  <2>1. PICK w \in Seq(Message) : w = wire'
    OBVIOUS
  <2>2. Associates(w, b, r)
    BY Association, Zenon
  <2> QED BY <1>1, <1>2, <2>1, <2>2, Zenon DEF Associates
<1>4. FlowInv'
  BY <1>1, <1>3, Zenon DEF FlowInv
<1>5. Bytes(b) \in Nat /\ Bytes(r) \in Nat
  BY BytesNat
<1>6. Bytes(write_queue') + Bytes(InFlight') = Bytes(q)
  BY <1>1, <1>5
<1>7. ByteInv'
  BY <1>6 DEF ByteInv
<1>8. NoStall'
  BY <1>1 DEF NoStall
<1> QED BY <1>4, <1>7, <1>8, Zenon DEF LoopInv

\* send() on an idle channel: do_write at once.
LEMMA SendStarts ==
    ASSUME WriterInv, LoopInv, sent' \in Nat, UNCHANGED closed, ~writing,
           NEW m \in Message, SendQueued(m)
    PROVE  LoopInv'
<1>1. outstanding = <<>> /\ InFlight = <<>> /\ ~flushed /\ ~Failed /\ Pending = <<>>
  BY InFlightOne DEF WriterInv, Failed, Pending
<1>2. PICK w, q, a \in Seq(Message) : w = wire /\ q = write_queue /\ a = accepted
  BY Zenon DEF LoopInv, FlowInv
<1>3. /\ DoWrite(Append(q, m), <<>>) /\ accepted' = Append(a, m)
      /\ current_queue_bytes' = current_queue_bytes + m.size
      /\ current_queue_bytes + m.size <= MaxQueueBytes
      /\ UNCHANGED <<flushed, wire>>
  BY <1>1, <1>2 DEF SendQueued, MayWrite, Fits
<1>4. Append(q, m) \in Seq(Message) /\ Append(a, m) \in Seq(Message)
  OBVIOUS
<1>5. \E r \in Seq(Message) : accepted' = wire' \o r
  <2>1. PICK r \in Seq(Message) : a = w \o r
    BY <1>2, Zenon DEF LoopInv, FlowInv
  <2>2. Append(w \o r, m) = w \o Append(r, m) /\ Append(r, m) \in Seq(Message)
    BY ONLY AppendOut, Zenon
  <2> QED BY <1>2, <1>3, <2>1, <2>2, Zenon
<1>6. BufferFirst => accepted' = wire' \o Append(q, m)
  <2> SUFFICES ASSUME BufferFirst PROVE accepted' = wire' \o Append(q, m)
    BY Zenon
  <2>1. a = (w \o <<>>) \o q
    BY <1>1, <1>2, Zenon DEF LoopInv, FlowInv
  <2>2. w \o <<>> = w
    BY ONLY Regroup
  <2>3. Append(w \o q, m) = w \o Append(q, m)
    BY ONLY AppendOut, Zenon
  <2> QED BY <1>2, <1>3, <2>1, <2>2, <2>3, Zenon
<1>7. Bytes(Append(q, m)) = Bytes(q) + m.size /\ m.size \in Nat /\ Bytes(q) \in Nat
  BY BytesAppend, BytesNat, MessageSize
<1>8. /\ MaxQueueBytes \in Nat /\ current_queue_bytes \in 0..MaxQueueBytes
      /\ current_queue_bytes >= Bytes(q)
      /\ BufferFirst => current_queue_bytes = Bytes(q)
  BY <1>1, <1>2, <1>7, BytesEmpty, LimitAssumption DEF LoopInv, ByteInv
<1>9. /\ current_queue_bytes' \in 0..MaxQueueBytes
      /\ current_queue_bytes' >= Bytes(Append(q, m))
      /\ BufferFirst => current_queue_bytes' = Bytes(Append(q, m))
  BY <1>3, <1>7, <1>8
<1>10. wire' \in Seq(Message) /\ (~BufferFirst => wire' = <<>>)
  BY <1>3 DEF LoopInv, FlowInv
<1> QED BY <1>1, <1>3, <1>4, <1>5, <1>6, <1>9, <1>10, WriteStarts, Zenon

\* The batch goes out.
LEMMA TransmitLoop ==
    ASSUME WriterInv, LoopInv, sent' \in Nat, UNCHANGED closed, Transmit
    PROVE  LoopInv'
<1>1. /\ outstanding # <<>> /\ ~flushed /\ flushed' = TRUE
      /\ wire' = wire \o Transmitted(Head(outstanding))
      /\ UNCHANGED <<write_queue, current_queue_bytes, accepted, writing, outstanding>>
  BY DEF Transmit, queue
<1>2. InFlight' = InFlight /\ Pending' = <<>> /\ ~Failed /\ ~Failed' /\ Pending = InFlight
  BY <1>1 DEF InFlight, Pending, Failed
<1>3. PICK w, q, a, b \in Seq(Message) :
        w = wire /\ q = write_queue /\ a = accepted /\ b = InFlight
  BY Zenon DEF LoopInv, FlowInv
<1>4. b = Head(outstanding)
  BY <1>1, <1>3, InFlightOne
<1>5. CASE BufferFirst
  <2>1. a = (w \o b) \o q /\ wire' = w \o b
    BY <1>1, <1>2, <1>3, <1>4, <1>5, Zenon DEF LoopInv, FlowInv, Transmitted
  <2>2. w \o b \in Seq(Message) /\ (w \o b) \o <<>> = w \o b
    <3>1. w \o b \in Seq(Message)
      BY ONLY Regroup
    <3> QED BY ONLY <3>1, Regroup
  <2>3. FlowInv'
    BY <1>1, <1>2, <1>3, <1>5, <2>1, <2>2, Zenon DEF LoopInv, FlowInv
  <2> QED BY <1>1, <1>2, <2>3 DEF LoopInv, ByteInv, NoStall
<1>6. CASE ~BufferFirst
  <2>1. wire' = w
    <3>1. wire' = w \o <<>>
      BY <1>1, <1>3, <1>6 DEF Transmitted
    <3>2. w \o <<>> = w
      BY ONLY Regroup
    <3> QED BY <3>1, <3>2
  <2>2. FlowInv'
    BY <1>1, <1>2, <1>3, <1>6, <2>1, Zenon DEF LoopInv, FlowInv
  <2> QED BY <1>1, <1>2, <2>2 DEF LoopInv, ByteInv, NoStall
<1> QED BY <1>5, <1>6

\* The write handler: the bytes are subtracted and the next batch starts.
LEMMA WriteDoneLoop ==
    ASSUME WriterInv, LoopInv, sent' \in Nat, UNCHANGED closed, WriteDone
    PROVE  LoopInv'
<1>1. /\ outstanding # <<>> /\ flushed /\ ~flushed'
      /\ current_queue_bytes' = current_queue_bytes - Freed(Head(outstanding))
      /\ NextWrite(Tail(outstanding)) /\ UNCHANGED <<accepted, wire>>
  BY DEF WriteDone, WriterInv
<1>2. PICK w, q, a, b \in Seq(Message) :
        w = wire /\ q = write_queue /\ a = accepted /\ b = InFlight
  BY Zenon DEF LoopInv, FlowInv
<1>3. b = Head(outstanding) /\ NextWrite(<<>>) /\ Pending = <<>> /\ ~Failed
  BY <1>1, <1>2, InFlightOne, Zenon DEF Pending, Failed
<1>4. BufferFirst => a = w \o q
  <2> SUFFICES ASSUME BufferFirst PROVE a = w \o q
    OBVIOUS
  <2>1. a = (w \o <<>>) \o q
    BY <1>2, <1>3, Zenon DEF LoopInv, FlowInv
  <2>2. w \o <<>> = w
    BY ONLY Regroup
  <2> QED BY <2>1, <2>2
<1>5. /\ current_queue_bytes' \in 0..MaxQueueBytes
      /\ current_queue_bytes' >= Bytes(q)
      /\ BufferFirst => current_queue_bytes' = Bytes(q)
  <2>1. Bytes(q) \in Nat /\ Bytes(b) \in Nat /\ MaxQueueBytes \in Nat
    BY BytesNat, LimitAssumption
  <2>2. /\ current_queue_bytes \in 0..MaxQueueBytes
        /\ current_queue_bytes >= Bytes(q) + Bytes(b)
        /\ BufferFirst => current_queue_bytes = Bytes(q) + Bytes(b)
    BY <1>2, <1>3 DEF LoopInv, ByteInv
  <2>3. current_queue_bytes' = current_queue_bytes - (IF BufferFirst THEN Bytes(b) ELSE 0)
    BY <1>1, <1>3, BytesEmpty DEF Freed, Transmitted
  <2> QED BY <2>1, <2>2, <2>3
<1>6. \E r \in Seq(Message) : accepted' = wire' \o r
  BY <1>1, Zenon DEF LoopInv, FlowInv
<1>7. accepted' = a /\ wire' = w /\ (~BufferFirst => wire' = <<>>)
  BY <1>1, <1>2 DEF LoopInv, FlowInv
<1>8. CASE q # <<>>
  <2>1. DoWrite(q, <<>>)
    BY <1>2, <1>3, <1>8 DEF NextWrite
  <2> QED BY <1>1, <1>4, <1>5, <1>6, <1>7, <2>1, WriteStarts, Zenon
<1>9. CASE q = <<>>
  <2>1. ~writing' /\ outstanding' = <<>> /\ write_queue' = q
    BY <1>2, <1>3, <1>9 DEF NextWrite
  <2>2. InFlight' = <<>> /\ Pending' = <<>> /\ ~Failed'
    BY <1>1, <2>1 DEF InFlight, Pending, Failed
  <2>3. w \o <<>> = w /\ <<>> \in Seq(Message)
    BY ONLY Regroup
  <2>4. FlowInv'
    BY <1>4, <1>6, <1>7, <1>9, <2>1, <2>2, <2>3, Zenon DEF FlowInv
  <2>5. ByteInv'
    BY <1>5, <1>9, <2>1, <2>2, BytesEmpty DEF ByteInv
  <2>6. NoStall'
    BY <1>9, <2>1 DEF NoStall
  <2> QED BY <2>4, <2>5, <2>6 DEF LoopInv
<1> QED BY <1>8, <1>9

\* A write fails: part of the batch may have gone out, and nothing follows it.
LEMMA WriteErrorLoop ==
    ASSUME WriterInv, LoopInv, sent' \in Nat, WriteError, closed' = TRUE
    PROVE  LoopInv' /\ \E x \in Seq(Message) : wire' = wire \o x
<1>1. /\ outstanding # <<>> /\ ~flushed /\ outstanding' = Tail(outstanding)
      /\ UNCHANGED <<write_queue, current_queue_bytes, accepted, writing, flushed>>
  BY DEF WriteError, queue
<1>2. PICK w, q, a, b \in Seq(Message) :
        w = wire /\ q = write_queue /\ a = accepted /\ b = InFlight
  BY Zenon DEF LoopInv, FlowInv
<1>3. b = Head(outstanding) /\ Tail(outstanding) = <<>> /\ Pending = b /\ ~Failed
  BY <1>1, <1>2, InFlightOne DEF Pending, Failed
<1>4. PICK k \in 0..Len(b) : /\ wire' = w \o SubSeq(b, 1, k)
                             /\ ~BufferFirst => k = 0
  <2>1. Len(b) \in Nat /\ Len(<<>>) = 0
    OBVIOUS
  <2>2. PICK k \in 0..IF socket = "open" THEN Len(Transmitted(b)) ELSE 0 :
          wire' = w \o SubSeq(b, 1, k)
    BY <1>2, <1>3, Zenon DEF WriteError
  <2>3. k \in 0..Len(b) /\ (~BufferFirst => k = 0)
    BY <2>1, <2>2 DEF Transmitted
  <2> QED BY <2>2, <2>3, Zenon
<1>5. PICK s, t \in Seq(Message) : s = SubSeq(b, 1, k) /\ s \o t = b /\ Len(s) = k
  BY Cut, Zenon
<1>6. w \o s \in Seq(Message)
  BY ONLY Regroup
<1>7. InFlight' = <<>> /\ Failed'
  BY <1>1, <1>3, InFlightOne DEF InFlight, Failed
<1>8. \E r \in Seq(Message) : accepted' = wire' \o r
  <2>1. CASE BufferFirst
    <3>1. a = (w \o b) \o q
      BY <1>2, <1>3, <2>1, Zenon DEF LoopInv, FlowInv
    <3>2. SplitsOff(w, s, t, q)
      BY SplitOff, Zenon
    <3>3. PICK r \in Seq(Message) : (w \o b) \o q = (w \o s) \o r
      BY <1>5, <3>2, Zenon DEF SplitsOff
    <3> QED BY <1>1, <1>2, <1>4, <1>5, <3>1, <3>3, Zenon
  <2>2. CASE ~BufferFirst
    <3>1. s = <<>> /\ w \o <<>> = w
      BY <1>4, <1>5, <2>2, EmptySeq
    <3>2. wire' = wire
      BY <1>2, <1>4, <1>5, <3>1, Zenon
    <3> QED BY <1>1, <3>2, Zenon DEF LoopInv, FlowInv
  <2> QED BY <2>1, <2>2, Zenon
<1>9. ~BufferFirst => wire' = <<>>
  <2> SUFFICES ASSUME ~BufferFirst PROVE wire' = <<>>
    OBVIOUS
  <2>1. s = <<>> /\ w = <<>>
    BY <1>2, <1>4, <1>5, EmptySeq DEF LoopInv, FlowInv
  <2> QED BY <1>4, <1>5, <2>1
<1>10. FlowInv'
  <2>1. wire' \in Seq(Message) /\ InFlight' \in Seq(Message)
    BY <1>4, <1>5, <1>6, <1>7
  <2> QED BY <1>1, <1>7, <1>8, <1>9, <2>1, Zenon DEF LoopInv, FlowInv
<1>11. ByteInv'
  <2>1. Bytes(q) \in Nat /\ Bytes(b) \in Nat /\ Bytes(<<>>) = 0
    BY BytesNat, BytesEmpty
  <2>2. current_queue_bytes \in 0..MaxQueueBytes /\ current_queue_bytes >= Bytes(q) + Bytes(b)
    BY <1>2 DEF LoopInv, ByteInv
  <2>3. write_queue' = q /\ current_queue_bytes' = current_queue_bytes
    BY <1>1, <1>2
  <2>4. MaxQueueBytes \in Nat
    BY LimitAssumption
  <2>5. current_queue_bytes >= Bytes(q) + 0
    BY <2>1, <2>2, <2>4
  <2> QED BY <1>7, <2>1, <2>2, <2>3, <2>5, Zenon DEF ByteInv
<1>12. NoStall'
  BY DEF NoStall
<1> QED BY <1>2, <1>4, <1>5, <1>10, <1>11, <1>12, Zenon DEF LoopInv

\* Every step keeps the write loop's invariant.
LEMMA NextLoop == IInv /\ LoopInv /\ [Next]_vars => LoopInv'
<1> SUFFICES ASSUME IInv, LoopInv, [Next]_vars PROVE LoopInv'
  OBVIOUS
<1>1. WriterInv /\ sent \in Nat
  BY DEF IInv, LoopInv, FlowInv
<1>2. /\ sent' \in Nat
      /\ closed => closed'
      /\ \/ UNCHANGED <<queue, writer>>
         \/ UNCHANGED closed /\ ~closed /\ \E m \in Message : SendQueued(m)
         \/ UNCHANGED closed /\ Transmit
         \/ UNCHANGED closed /\ WriteDone
         \/ WriteError /\ closed' = TRUE
  BY <1>1, LoopSteps, Zenon
<1>3. CASE UNCHANGED <<queue, writer>>
  BY <1>2, <1>3, LoopKept
<1>4. CASE UNCHANGED closed /\ ~closed /\ \E m \in Message : SendQueued(m)
  <2>1. CASE writing
    BY <1>1, <1>2, <1>4, <2>1, SendWaits, Zenon
  <2>2. CASE ~writing
    BY <1>1, <1>2, <1>4, <2>2, SendStarts
  <2> QED BY <2>1, <2>2
<1>5. CASE UNCHANGED closed /\ Transmit
  BY <1>1, <1>2, <1>5, TransmitLoop
<1>6. CASE UNCHANGED closed /\ WriteDone
  BY <1>1, <1>2, <1>6, WriteDoneLoop
<1>7. CASE WriteError /\ closed' = TRUE
  BY <1>1, <1>2, <1>7, WriteErrorLoop
<1> QED BY <1>2, <1>3, <1>4, <1>5, <1>6, <1>7, Zenon

\* A new channel has nothing queued, written or accepted.
LEMMA InitLoop == Init => LoopInv
<1> SUFFICES ASSUME Init PROVE LoopInv
  OBVIOUS
<1>1. /\ write_queue = <<>> /\ accepted = <<>> /\ wire = <<>> /\ InFlight = <<>>
      /\ Pending = <<>> /\ sent = 0 /\ ~writing /\ current_queue_bytes = 0
  BY DEF Init, InFlight, Pending
<1>2. <<>> \in Seq(Message) /\ <<>> = <<>> \o <<>> /\ <<>> = (<<>> \o <<>>) \o <<>>
  OBVIOUS
<1>3. FlowInv
  BY <1>1, <1>2, Zenon DEF FlowInv, Failed
<1>4. ByteInv /\ NoStall
  BY <1>1, BytesEmpty, LimitAssumption DEF ByteInv, NoStall
<1> QED BY <1>3, <1>4 DEF LoopInv

\* Both invariants hold throughout.
THEOREM LoopInvariance == Spec => [](IInv /\ LoopInv)
BY InitInv, NextInv, InitLoop, NextLoop, PTL DEF Spec

\* The write loop sleeps on a non-empty queue only behind a message too large for
\* any batch, whichever of send(), write completions and close meet.
THEOREM LoopAwake == Spec => []NoStall
<1>1. LoopInv => NoStall  BY DEF LoopInv
<1> QED BY LoopInvariance, <1>1, PTL

\* While the channel is open current_queue_bytes is exactly what is queued or
\* being written, provided do_write hands its buffer over before it is moved from.
THEOREM ExactBytes ==
    ASSUME BufferFirst
    PROVE  Spec => []ByteAccounting
<1>1. LoopInv => ByteAccounting
  BY DEF LoopInv, FlowInv, ByteInv, ByteAccounting
<1> QED BY LoopInvariance, <1>1, PTL

-----------------------------------------------------------------------------
\* The members the write loop does not touch
RestInv ==
    /\ socket \in {"new", "open", "closed"}
    /\ flushed \in BOOLEAN
    /\ reading \in {"off", "waiting", "arrived"}
    /\ due \in [Timers -> Nat]
    /\ now \in Nat /\ last_recv \in Nat /\ heard \in Nat
    /\ reason \in {"none", "read", "write", "timeout", "force_closed"}

\* The timers have periods.
LEMMA PeriodNat == \A x \in Timers : Period[x] \in Nat
BY LimitAssumption DEF Timers, Period

\* Arming or disarming a timer sets a due time.
LEMMA ArmDue ==
    ASSUME due \in [Timers -> Nat], now \in Nat, NEW x \in Timers, Arm(x) \/ Disarm(x)
    PROVE  due' \in [Timers -> Nat]
BY PeriodNat DEF Arm, Disarm

\* close() records one of its callers' reasons.
LEMMA CloseReason ==
    ASSUME NEW why \in {"read", "write", "timeout", "force_closed"}, Close(why),
           reason \in {"none", "read", "write", "timeout", "force_closed"}
    PROVE  reason' \in {"none", "read", "write", "timeout", "force_closed"}
BY DEF Close

\* send() changes the reason only through close(), and never flushed.
LEMMA SendRest ==
    ASSUME NEW size, SendSize(size), RestInv
    PROVE  /\ UNCHANGED flushed
           /\ reason' \in {"none", "read", "write", "timeout", "force_closed"}
<1> DEFINE m == [id |-> sent + 1, size |-> size]
<1>1. CASE SendRejected(m)
  BY <1>1, CloseReason DEF SendRejected, writer, RestInv
<1>2. CASE SendQueued(m)
  BY <1>2, ZenonT(40) DEF SendQueued, closing, RestInv
<1> QED BY <1>1, <1>2, Zenon DEF SendSize

\* Every handler of the channel keeps the types of these members.
LEMMA NextRest == RestInv /\ [Next]_vars => RestInv'
<1> SUFFICES ASSUME RestInv, [Next]_vars PROVE RestInv'
  OBVIOUS
<1> USE DEF RestInv, queue, writer, clocks, closing
<1>1. CASE Start
  BY <1>1, PeriodNat DEF Start
<1>2. ASSUME NEW size \in Sizes, Send(size) PROVE RestInv'
  BY <1>2, SendRest DEF Send
<1>3. CASE Arrive
  BY <1>3 DEF Arrive
<1>4. CASE ReadDone
  BY <1>4 DEF ReadDone
<1>5. CASE ReadError
  BY <1>5, CloseReason DEF ReadError
<1>6. CASE Transmit
  BY <1>6 DEF Transmit
<1>7. CASE WriteDone
  BY <1>7, Zenon DEF WriteDone
<1>8. CASE WriteError
  BY <1>8, CloseReason DEF WriteError
<1>9. CASE CleanUp
  BY <1>9 DEF CleanUp, Shutdown
<1>10. ASSUME NEW x \in Timers, Expire(x) PROVE RestInv'
  BY <1>10 DEF Expire
<1>11. CASE IdleHandler
  <2>1. due' \in [Timers -> Nat]
    BY <1>11, ArmDue, Zenon DEF IdleHandler, Timers
  <2>2. reason' \in {"none", "read", "write", "timeout", "force_closed"}
    BY <1>11, CloseReason, Zenon DEF IdleHandler
  <2> QED BY <1>11, <2>1, <2>2 DEF IdleHandler
<1>12. CASE PingHandler
  <2>1. due' \in [Timers -> Nat]
    BY <1>12, ArmDue, Zenon DEF PingHandler, Timers
  <2>2. UNCHANGED flushed /\ reason' \in {"none", "read", "write", "timeout", "force_closed"}
    BY <1>12, SendRest, Zenon DEF PingHandler
  <2> QED BY <1>12, <2>1, <2>2, Zenon DEF PingHandler
<1>13. CASE StatsHandler
  <2>1. due' \in [Timers -> Nat]
    BY <1>13, ArmDue, Zenon DEF StatsHandler, Timers
  <2> QED BY <1>13, <2>1, Zenon DEF StatsHandler
<1>14. CASE Tick
  BY <1>14 DEF Tick
<1>15. CASE UNCHANGED vars
  BY <1>15, Zenon DEF vars
<1> QED BY <1>1, <1>2, <1>3, <1>4, <1>5, <1>6, <1>7, <1>8, <1>9, <1>10, <1>11,
           <1>12, <1>13, <1>14, <1>15 DEF Next

\* The three invariants give every member its type.
LEMMA InvTypes == IInv /\ LoopInv /\ RestInv => TypeOK
<1> SUFFICES ASSUME IInv, LoopInv, RestInv PROVE TypeOK
  OBVIOUS
<1>1. outstanding \in Seq(Seq(Message))
  <2>1. CASE outstanding = <<>>
    BY <2>1
  <2>2. CASE outstanding # <<>>
    <3>1. PICK b \in Seq(Message) : b = InFlight
      BY DEF LoopInv, FlowInv
    <3>2. outstanding = <<outstanding[1]>> /\ InFlight = Head(outstanding)
      BY <2>2, InFlightOne DEF IInv, WriterInv
    <3>3. Head(<<outstanding[1]>>) = outstanding[1]
      BY TheWrite
    <3>4. outstanding = <<b>>
      BY <3>1, <3>2, <3>3, Zenon
    <3> QED BY <3>4
  <2> QED BY <2>1, <2>2
<1>2. {closed, writing, flushed, cleanup} \subseteq BOOLEAN
  BY DEF IInv, WriterInv, CloseInv, RestInv
<1>3. on_closes \in Nat
  BY DEF IInv, CloseInv, ClosedOnce
<1> QED BY <1>1, <1>2, <1>3
        DEF TypeOK, IInv, TimerInv, LoopInv, FlowInv, ByteInv, RestInv

\* Every member keeps its type; in particular current_queue_bytes never goes
\* below zero nor above max_queue_bytes, whatever send() and the write handler
\* add and subtract.
THEOREM ChannelTypes == Spec => []TypeOK
<1>1. ASSUME Init PROVE RestInv
  <2>1. due \in [Timers -> Nat] /\ now \in Nat /\ last_recv \in Nat /\ heard \in Nat
    BY <1>1 DEF Init
  <2>2. flushed \in BOOLEAN
    BY <1>1, Zenon DEF Init
  <2> QED BY <1>1, <2>1, <2>2 DEF Init, RestInv
<1> QED BY LoopInvariance, <1>1, NextRest, InvTypes, PTL DEF Spec

-----------------------------------------------------------------------------
\* A prefix is cut out of the whole by its length.
LEMMA PrefixCut ==
    ASSUME NEW s \in Seq(Message), NEW t \in Seq(Message)
    PROVE  /\ Len(s) \in Nat /\ Len(s \o t) \in Nat /\ Len(s) <= Len(s \o t)
           /\ s = SubSeq(s \o t, 1, Len(s))
<1>1. Len(s) \in Nat /\ Len(t) \in Nat /\ Len(s \o t) = Len(s) + Len(t)
  BY ConcatProperties, LenProperties
<1>2. s \o t \in Seq(Message)
  BY ConcatProperties
<1>3. Len(s) <= Len(s \o t)
  BY <1>1
<1>4. PICK u \in Seq(Message) : u = SubSeq(s \o t, 1, Len(s)) /\ Len(u) = Len(s)
      /\ \A i \in 1..Len(s) : u[i] = (s \o t)[i]
  BY <1>1, <1>2, <1>3, Cut
<1>5. \A i \in 1..Len(s) : (s \o t)[i] = s[i]
  BY ConcatProperties
<1>6. u = s
  BY <1>4, <1>5, SeqEqual
<1> QED BY <1>1, <1>3, <1>4, <1>6

\* What reaches the wire in one step delivers the next few messages.
LEMMA DeliverStep ==
    ASSUME LoopInv, LoopInv', UNCHANGED accepted, NEW x \in Seq(Message), wire' = wire \o x,
           closed' \in {closed, TRUE}
    PROVE  Pipe!Deliver
<1>1. PICK w \in Seq(Message) : w = wire
  BY DEF LoopInv, FlowInv
<1>2. PICK v, r \in Seq(Message) : v = wire' /\ accepted' = v \o r
  BY Zenon DEF LoopInv, FlowInv
<1>3. Len(w) \in Nat /\ Len(v) \in Nat /\ Len(w) <= Len(v)
  BY <1>1, <1>2, PrefixCut
<1>4. Len(v \o r) \in Nat /\ Len(v) <= Len(v \o r) /\ v = SubSeq(v \o r, 1, Len(v))
  BY PrefixCut
<1>5. Len(v) \in Len(wire)..Len(accepted)
  BY <1>1, <1>2, <1>3, <1>4
<1>6. wire' = SubSeq(accepted, 1, Len(v))
  BY <1>2, <1>4
<1> QED BY <1>5, <1>6, Zenon DEF Pipe!Deliver

\* Every step of the channel is a step of the pipe or leaves it alone.
LEMMA PipeStep ==
    IInv /\ LoopInv /\ IInv' /\ LoopInv' /\ [Next]_vars => [Pipe!Next]_Pipe!pipeVars
<1> SUFFICES ASSUME IInv, LoopInv, IInv', LoopInv', [Next]_vars
             PROVE  [Pipe!Next]_Pipe!pipeVars
  OBVIOUS
<1>1. sent \in Nat /\ closed \in BOOLEAN /\ closed' \in BOOLEAN
  BY DEF IInv, CloseInv, LoopInv, FlowInv
<1>2. /\ closed => closed'
      /\ \/ UNCHANGED <<queue, writer>>
         \/ UNCHANGED closed /\ ~closed /\ \E m \in Message : SendQueued(m)
         \/ UNCHANGED closed /\ Transmit
         \/ UNCHANGED closed /\ WriteDone
         \/ WriteError /\ closed' = TRUE
  BY <1>1, LoopSteps, Zenon
<1>3. CASE UNCHANGED <<queue, writer>>
  <2>1. UNCHANGED <<accepted, wire>>
    BY <1>3 DEF queue, writer
  <2>2. CASE closed' = closed
    BY <2>1, <2>2 DEF Pipe!pipeVars
  <2>3. CASE closed' # closed
    <3>1. closed' = TRUE
      BY <1>1, <1>2, <2>3
    <3> QED BY <2>1, <3>1 DEF Pipe!Next, Pipe!Shut
  <2> QED BY <2>2, <2>3
<1>4. CASE UNCHANGED closed /\ ~closed /\ \E m \in Message : SendQueued(m)
  <2>1. Pipe!Take
    BY <1>4 DEF Pipe!Take, SendQueued
  <2> QED BY <2>1 DEF Pipe!Next
<1>5. CASE UNCHANGED closed /\ Transmit
  <2>1. PICK x \in Seq(Message) : wire' = wire \o x
    BY <1>5, InFlightOne, Zenon DEF Transmit, Transmitted, LoopInv, FlowInv, IInv
  <2>2. Pipe!Deliver
    BY <1>5, <2>1, DeliverStep, Zenon DEF Transmit, queue
  <2> QED BY <2>2 DEF Pipe!Next
<1>6. CASE UNCHANGED closed /\ WriteDone
  BY <1>6 DEF WriteDone, Pipe!pipeVars
<1>7. CASE WriteError /\ closed' = TRUE
  <2>1. PICK x \in Seq(Message) : wire' = wire \o x
    <3>1. sent' \in Nat
      BY DEF LoopInv, FlowInv
    <3> QED BY <1>7, <3>1, WriteErrorLoop, Zenon DEF IInv
  <2>2. Pipe!Deliver
    BY <1>7, <2>1, DeliverStep, Zenon DEF WriteError, queue
  <2> QED BY <2>2 DEF Pipe!Next
<1> QED BY <1>2, <1>3, <1>4, <1>5, <1>6, <1>7, Zenon

\* The channel implements the first-in first-out pipe: what the peer receives is
\* always a prefix of what send() took, in order, whatever the batching, failing
\* writes and closes do to the queue.
THEOREM ChannelIsPipe == Spec => PipeSpec
<1>1. Init => Pipe!Init
  BY DEF Init, Pipe!Init
<1> QED BY <1>1, LoopInvariance, PipeStep, PTL DEF Spec, PipeSpec, Pipe!Spec
================================================================================
