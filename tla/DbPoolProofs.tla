----------------------------- MODULE DbPoolProofs -----------------------------
(***************************************************************************)
(* Proofs about DbPool for any number of threads, connections and          *)
(* attempts.                                                               *)
(***************************************************************************)
EXTENDS DbPool, FiniteSetTheorems, TLAPS

\* Where a thread is says whether it holds a connection, and how many attempts
\* it has left.
Places_OK ==
    \A t \in Threads :
        /\ conn[t] # None <=> at[t] \in {"execute", "select", "delay"}
        /\ at[t] = "delay" => attempt[t] < MaxAttempts

\* No call is made before the pool is open or after it is closed.
ClosedIsQuiet ==
    state \in {"opening", "closed"} => pending = 0 /\ \A t \in Threads : at[t] = "idle"

\* open() pushes the indices in order.
OpeningInOrder ==
    state = "opening" =>
        /\ Len(free_indices) <= PoolSize
        /\ \A k \in 1..Len(free_indices) : free_indices[k] = k - 1

IInv == TypeOK /\ Places_OK /\ ClosedIsQuiet /\ OpeningInOrder /\ ConnExclusive /\ NoConnLost

USE SizeAssumption, AttemptsAssumption, NoConnAssumption

\* Time for the provers, also on a busy machine.
USE SMTT(20), ZenonT(20)

\* Before open() nothing is free and nothing is held.
LEMMA InitInv == Init => IInv
<1> SUFFICES ASSUME Init PROVE IInv
  OBVIOUS
<1>1. TypeOK
  BY DEF Init, TypeOK, Conns, Places, Ops
<1>2. Places_OK /\ ClosedIsQuiet
  BY DEF Init, Places_OK, ClosedIsQuiet
<1>3. ConnExclusive /\ NoConnLost /\ OpeningInOrder
  BY DEF Init, ConnExclusive, NoConnLost, OpeningInOrder, Free, Held, Conns
<1> QED BY <1>1, <1>2, <1>3 DEF IInv

\* open() adds each index once, and leaves none out when it succeeds.
LEMMA OpenInv ==
    ASSUME IInv, Connect \/ OpenFails \/ Opened PROVE IInv'
<1> USE DEF IInv
<1>1. /\ state = "opening" /\ UNCHANGED <<pending, conn, at, op, attempt>>
      /\ free_indices \in Seq(Conns) /\ Len(free_indices) \in Nat
  BY DEF Connect, OpenFails, Opened, TypeOK
<1>2. \A t \in Threads : at[t] = "idle" /\ conn[t] = None
  BY <1>1 DEF ClosedIsQuiet, Places_OK
<1>3. Places_OK' /\ ClosedIsQuiet'
  BY <1>1, Zenon DEF Places_OK, ClosedIsQuiet
<1>4. \A i \in Conns : ~Held(i)'
  BY <1>1, <1>2 DEF Held, Conns
<1>5. CASE Connect
  <2>1. Len(free_indices) \in Conns
    BY <1>1, <1>5 DEF Connect, Conns
  <2>2. /\ free_indices' \in Seq(Conns) /\ Len(free_indices') = Len(free_indices) + 1
        /\ \A k \in 1..Len(free_indices') : free_indices'[k] = k - 1
    BY <1>1, <1>5, <2>1 DEF Connect, OpeningInOrder
  <2>3. state' = "opening"
    BY <1>1, <1>5 DEF Connect
  <2>4. TypeOK'
    BY <1>1, <2>2, <2>3 DEF TypeOK
  <2>5. OpeningInOrder' /\ NoConnLost'
    BY <1>1, <1>5, <2>2, <2>3 DEF Connect, OpeningInOrder, NoConnLost
  <2>6. ConnExclusive'
    BY <1>1, <1>2, <1>4, <2>2 DEF ConnExclusive
  <2> QED BY <1>3, <2>4, <2>5, <2>6
<1>6. CASE OpenFails
  <2>1. TypeOK'
    BY <1>1, <1>6 DEF OpenFails, TypeOK
  <2>2. ConnExclusive' /\ NoConnLost' /\ OpeningInOrder'
    BY <1>1, <1>2, <1>4, <1>6 DEF OpenFails, ConnExclusive, NoConnLost, OpeningInOrder
  <2> QED BY <1>3, <2>1, <2>2
<1>7. CASE Opened
  <2>1. TypeOK' /\ OpeningInOrder'
    BY <1>1, <1>7 DEF Opened, TypeOK, OpeningInOrder
  <2>2. ConnExclusive'
    BY <1>1, <1>7 DEF Opened, ConnExclusive, Free, Held
  <2>3. ASSUME NEW i \in Conns PROVE Free(i)'
    <3>1. i + 1 \in 1..Len(free_indices) /\ free_indices[i + 1] = i
      BY <1>1, <1>7 DEF Opened, OpeningInOrder, Conns
    <3> QED BY <1>7, <3>1 DEF Opened, Free
  <2> QED BY <1>3, <2>1, <2>2, <2>3 DEF NoConnLost
<1> QED BY <1>5, <1>6, <1>7

\* Taking the head of free_indices_ moves one index from free to held.
LEMMA AcquireInv ==
    ASSUME IInv, NEW t \in Threads, Acquire(t) PROVE IInv'
<1> USE DEF IInv
<1> DEFINE f == free_indices
<1>0. f \in Seq(Conns) /\ f # <<>>
  BY DEF Acquire, TypeOK
<1>h. PICK h \in Conns : h = Head(f)
  BY <1>0
<1>1. Len(f) \in Nat /\ Len(f) > 0 /\ h = f[1] /\ f \in Seq(Conns)
  BY <1>0, <1>h
<1>2. /\ f' \in Seq(Conns) /\ Len(f') = Len(f) - 1
      /\ \A k \in 1..Len(f') : f'[k] = f[k + 1]
  BY <1>1 DEF Acquire
<1>3. conn[t] = None /\ h # None
  BY <1>1 DEF Acquire, Places_OK, Conns
<1>4. TypeOK'
  BY <1>1, <1>2, <1>h DEF Acquire, TypeOK, Places
<1>5. Places_OK' /\ ClosedIsQuiet' /\ OpeningInOrder'
  BY <1>1, <1>3, <1>h DEF Acquire, Places_OK, ClosedIsQuiet, OpeningInOrder, TypeOK, Conns
<1>6. Held(h)' /\ ~Held(h) /\ ~Free(h)'
  <2>1. Free(h)
    BY <1>1 DEF Free
  <2>2. ~Held(h)
    BY <2>1, <1>1 DEF ConnExclusive
  <2>3. \A k \in 1..Len(f') : f'[k] # h
    BY <1>1, <1>2 DEF ConnExclusive
  <2>4. Held(h)'
    BY <1>h DEF Held, Acquire, TypeOK
  <2> QED BY <2>2, <2>3, <2>4 DEF Free
<1>7. \A i \in Conns \ {h} : (Free(i)' <=> Free(i)) /\ (Held(i)' <=> Held(i))
  <2> SUFFICES ASSUME NEW i \in Conns, i # h
               PROVE (Free(i)' <=> Free(i)) /\ (Held(i)' <=> Held(i))
    OBVIOUS
  <2>1. Free(i)' => Free(i)
    BY <1>1, <1>2 DEF Free
  <2>2. ASSUME Free(i) PROVE Free(i)'
    <3>1. PICK k \in 1..Len(f) : f[k] = i
      BY <2>2 DEF Free
    <3>2. k # 1 /\ k - 1 \in 1..Len(f')
      BY <3>1, <1>1, <1>2
    <3>3. f'[k - 1] = i
      BY <3>1, <3>2, <1>2
    <3> QED BY <3>2, <3>3 DEF Free
  <2>3. Held(i)' <=> Held(i)
    BY <1>h, <1>3 DEF Held, Acquire, TypeOK, Conns
  <2> QED BY <2>1, <2>2, <2>3
<1>8. ConnExclusive'
  <2>1. \A s, u \in Threads : s # u /\ conn'[s] # None => conn'[s] # conn'[u]
    BY <1>h, <1>6, <1>3 DEF Acquire, TypeOK, ConnExclusive, Held
  <2>2. \A j, k \in 1..Len(f') : j # k => f'[j] # f'[k]
    BY <1>1, <1>2 DEF ConnExclusive
  <2>3. \A i \in Conns : ~(Free(i)' /\ Held(i)')
    BY <1>6, <1>7 DEF ConnExclusive
  <2> QED BY <2>1, <2>2, <2>3 DEF ConnExclusive
<1>9. NoConnLost'
  BY <1>6, <1>7 DEF NoConnLost, Acquire
<1> QED BY <1>4, <1>5, <1>8, <1>9

\* Giving a held connection back moves one index from held to free.
LEMMA ReleaseConns ==
    ASSUME IInv, NEW t \in Threads, conn[t] # None, Release(t)
    PROVE  /\ free_indices' \in Seq(Conns)
           /\ conn' \in [Threads -> Conns \cup {None}]
           /\ ConnExclusive'
           /\ \A i \in Conns : (Free(i) \/ Held(i)) => (Free(i)' \/ Held(i)')
<1> USE DEF IInv
<1> DEFINE f == free_indices
           h == conn[t]
<1>1. /\ f \in Seq(Conns) /\ Len(f) \in Nat /\ h \in Conns
      /\ Held(h) /\ ~Free(h)
  BY DEF TypeOK, ConnExclusive, Held
<1>2. /\ f' \in Seq(Conns) /\ Len(f') = Len(f) + 1
      /\ f'[Len(f) + 1] = h
      /\ \A k \in 1..Len(f) : f'[k] = f[k]
  BY <1>1 DEF Release
<1>3. conn' = [conn EXCEPT ![t] = None] /\ conn' \in [Threads -> Conns \cup {None}]
  BY DEF Release, TypeOK
<1>4. \A i \in Conns : Free(i)' <=> (Free(i) \/ i = h)
  BY <1>1, <1>2 DEF Free
<1>5. \A i \in Conns : Held(i)' <=> (Held(i) /\ i # h)
  BY <1>3, <1>1 DEF Held, TypeOK, ConnExclusive, Conns
<1>6. \A s, u \in Threads : s # u /\ conn'[s] # None => conn'[s] # conn'[u]
  BY <1>3 DEF ConnExclusive, TypeOK
<1>7. \A j, k \in 1..Len(f') : j # k => f'[j] # f'[k]
  BY <1>1, <1>2 DEF ConnExclusive, Free
<1>8. ConnExclusive'
  BY <1>4, <1>5, <1>6, <1>7 DEF ConnExclusive
<1> QED BY <1>2, <1>3, <1>4, <1>5, <1>8

\* Ending a call gives the connection back and keeps the rest.
LEMMA ReturnInv ==
    ASSUME IInv, NEW t \in Threads, at[t] \in {"execute", "select", "delay"}, Return(t)
    PROVE  IInv'
<1>1. conn[t] # None /\ state \notin {"opening", "closed"}
  BY DEF IInv, Places_OK, ClosedIsQuiet
<1>2. /\ free_indices' \in Seq(Conns)
      /\ conn' \in [Threads -> Conns \cup {None}]
      /\ ConnExclusive'
      /\ \A i \in Conns : (Free(i) \/ Held(i)) => (Free(i)' \/ Held(i)')
  BY <1>1, ReleaseConns DEF Return
<1>3. TypeOK'
  BY <1>2, Zenon DEF IInv, Return, TypeOK, Places
<1>4. Places_OK' /\ ClosedIsQuiet' /\ OpeningInOrder'
  BY <1>1 DEF IInv, Return, Release, Places_OK, ClosedIsQuiet, OpeningInOrder, TypeOK
<1>5. NoConnLost'
  BY <1>1, <1>2 DEF IInv, Return, NoConnLost
<1> QED BY <1>2, <1>3, <1>4, <1>5 DEF IInv

\* So does the end of a loop body that goes round again.
LEMMA NextAttemptInv ==
    ASSUME IInv, NEW t \in Threads, NextAttempt(t) PROVE IInv'
<1>1. conn[t] # None /\ state \notin {"opening", "closed"} /\ at[t] = "delay"
  BY DEF IInv, Places_OK, ClosedIsQuiet, NextAttempt
<1>2. /\ free_indices' \in Seq(Conns)
      /\ conn' \in [Threads -> Conns \cup {None}]
      /\ ConnExclusive'
      /\ \A i \in Conns : (Free(i) \/ Held(i)) => (Free(i)' \/ Held(i)')
  BY <1>1, ReleaseConns DEF NextAttempt
<1>3. attempt[t] \in 1..MaxAttempts /\ attempt[t] < MaxAttempts
  BY <1>1 DEF IInv, Places_OK, TypeOK
<1>4. TypeOK'
  <2>1. attempt' \in [Threads -> 1..MaxAttempts]
    BY <1>3 DEF IInv, NextAttempt, TypeOK
  <2> QED BY <1>2, <2>1 DEF IInv, NextAttempt, TypeOK, Places
<1>5. Places_OK' /\ ClosedIsQuiet' /\ OpeningInOrder'
  BY <1>1 DEF IInv, NextAttempt, Release, Places_OK, ClosedIsQuiet, OpeningInOrder, TypeOK
<1>6. NoConnLost'
  BY <1>1, <1>2 DEF IInv, NextAttempt, NoConnLost
<1> QED BY <1>2, <1>4, <1>5, <1>6 DEF IInv

\* A step that leaves conn and free_indices alone keeps their two invariants.
LEMMA ConnsUnchanged ==
    ASSUME ConnExclusive, NoConnLost, UNCHANGED <<free_indices, conn>>,
           state' \in {"running", "stopping"} => state \in {"running", "stopping"}
    PROVE  ConnExclusive' /\ NoConnLost'
BY DEF ConnExclusive, NoConnLost, Free, Held

\* Waiting for the next attempt keeps the connection.
LEMMA DelayInv ==
    ASSUME IInv, NEW t \in Threads, at[t] \in {"execute", "select"},
           ~LastAttempt(t), Delay(t)
    PROVE  IInv'
<1>1. TypeOK'
  BY DEF IInv, Delay, TypeOK, Places
<1>2. Places_OK' /\ ClosedIsQuiet' /\ OpeningInOrder'
  BY DEF IInv, Delay, LastAttempt, Places_OK, ClosedIsQuiet, OpeningInOrder, TypeOK
<1>3. ConnExclusive' /\ NoConnLost'
  BY ConnsUnchanged DEF IInv, Delay
<1> QED BY <1>1, <1>2, <1>3 DEF IInv

\* Every step of a DAO call keeps the invariant.
LEMMA CallInv ==
    ASSUME IInv, NEW t \in Threads, Call(t) PROVE IInv'
<1>1. CASE Acquire(t)
  BY <1>1, AcquireInv
<1>2. CASE AcquireTimeout(t)
  <2>1. TypeOK' /\ Places_OK' /\ ClosedIsQuiet' /\ OpeningInOrder'
    BY <1>2 DEF IInv, AcquireTimeout, TypeOK, Places, Places_OK, ClosedIsQuiet, OpeningInOrder
  <2>2. ConnExclusive' /\ NoConnLost'
    BY <1>2, ConnsUnchanged DEF IInv, AcquireTimeout
  <2> QED BY <2>1, <2>2 DEF IInv
<1>3. CASE Save(t)
  BY <1>3, ReturnInv, DelayInv DEF Save, Retry
<1>4. CASE Insert(t)
  <2>1. CASE Return(t) \/ Retry(t)
    BY <1>4, <2>1, ReturnInv, DelayInv DEF Insert, Retry
  <2>2. CASE /\ at' = [at EXCEPT ![t] = "select"]
             /\ UNCHANGED <<state, pending, free_indices, conn, op, attempt>>
    <3>1. TypeOK' /\ Places_OK' /\ ClosedIsQuiet' /\ OpeningInOrder'
      BY <1>4, <2>2 DEF IInv, Insert, TypeOK, Places, Places_OK, ClosedIsQuiet, OpeningInOrder
    <3>2. ConnExclusive' /\ NoConnLost'
      BY <2>2, ConnsUnchanged DEF IInv
    <3> QED BY <3>1, <3>2 DEF IInv
  <2> QED BY <1>4, <2>1, <2>2 DEF Insert
<1>5. CASE Select(t)
  BY <1>5, ReturnInv, DelayInv DEF Select, Retry
<1>6. CASE NextAttempt(t)
  BY <1>6, NextAttemptInv
<1> QED BY <1>1, <1>2, <1>3, <1>4, <1>5, <1>6 DEF Call

\* IInv is inductive.
LEMMA NextInv == IInv /\ [Next]_vars => IInv'
<1> SUFFICES ASSUME IInv, [Next]_vars PROVE IInv'
  OBVIOUS
<1>0. CASE Connect \/ OpenFails \/ Opened
  BY <1>0, OpenInv
<1>1. CASE PostTask
  <2>1. TypeOK' /\ Places_OK' /\ ClosedIsQuiet' /\ OpeningInOrder'
    BY <1>1 DEF IInv, PostTask, TypeOK, Places_OK, ClosedIsQuiet, OpeningInOrder
  <2> QED BY <1>1, <2>1, ConnsUnchanged DEF IInv, PostTask
<1>2. CASE Stop
  <2>1. TypeOK' /\ Places_OK' /\ ClosedIsQuiet' /\ OpeningInOrder'
    BY <1>2 DEF IInv, Stop, TypeOK, Places_OK, ClosedIsQuiet, OpeningInOrder
  <2> QED BY <1>2, <2>1, ConnsUnchanged DEF IInv, Stop
<1>3. CASE Close
  <2>1. TypeOK' /\ Places_OK' /\ ClosedIsQuiet' /\ OpeningInOrder'
    BY <1>3 DEF IInv, Close, Joined, TypeOK, Places_OK, ClosedIsQuiet, OpeningInOrder
  <2>2. ConnExclusive' /\ NoConnLost'
    BY <1>3 DEF IInv, Close, ConnExclusive, NoConnLost, Free, Held
  <2> QED BY <2>1, <2>2 DEF IInv
<1>4. ASSUME NEW t \in Threads, Call(t) PROVE IInv'
  BY <1>4, CallInv
<1>5. ASSUME NEW t \in Threads, NEW g \in Ops, Begin(t, g) PROVE IInv'
  <2>1. TypeOK' /\ Places_OK' /\ ClosedIsQuiet' /\ OpeningInOrder'
    BY <1>5 DEF IInv, Begin, TypeOK, Places, Places_OK, ClosedIsQuiet, OpeningInOrder
  <2> QED BY <1>5, <2>1, ConnsUnchanged DEF IInv, Begin
<1>6. CASE UNCHANGED vars
  BY <1>6 DEF vars, IInv, TypeOK, Places_OK, ClosedIsQuiet, OpeningInOrder, ConnExclusive,
              NoConnLost, Free, Held
<1> QED BY <1>0, <1>1, <1>2, <1>3, <1>4, <1>5, <1>6 DEF Next

\* Counting: a thread that waits in acquire() holds nothing, so the others hold
\* fewer indices than there are connections.
LEMMA FreeForTheAsking ==
    ASSUME IInv, IsFiniteSet(Threads), Cardinality(Threads) <= PoolSize
    PROVE  NeverExhausted
<1> SUFFICES ASSUME NEW t \in Threads, at[t] = "acquire", free_indices = <<>>
             PROVE  FALSE
  BY DEF NeverExhausted
<1> DEFINE H == {u \in Threads \ {t} : conn[u] # None}
           g == [u \in H |-> conn[u]]
<1>1. conn[t] = None /\ state \notin {"opening", "closed"}
  BY DEF IInv, Places_OK, ClosedIsQuiet
<1>2. \A i \in Conns : Held(i)
  BY <1>1 DEF IInv, TypeOK, NoConnLost, Free
<1>3. g \in Surjection(H, Conns)
  <2>1. g \in [H -> Conns]
    BY DEF IInv, TypeOK
  <2>2. ASSUME NEW i \in Conns PROVE \E u \in H : g[u] = i
    <3>1. PICK u \in Threads : conn[u] = i
      BY <1>2 DEF Held
    <3>2. u \in H
      BY <1>1, <3>1 DEF Conns
    <3> QED BY <3>1, <3>2
  <2> QED BY <2>1, <2>2 DEF Surjection
<1>4. /\ IsFiniteSet(Threads \ {t})
      /\ Cardinality(Threads \ {t}) = Cardinality(Threads) - 1
  BY FS_RemoveElement
<1>5. IsFiniteSet(H) /\ Cardinality(H) <= Cardinality(Threads \ {t})
  <2>1. H \in SUBSET (Threads \ {t})
    OBVIOUS
  <2> HIDE DEF H
  <2> QED BY <1>4, <2>1, FS_Subset
<1>6. Cardinality(Conns) <= Cardinality(H)
  <2> HIDE DEF H, g
  <2> QED BY <1>3, <1>5, FS_Surjection
<1>7. Cardinality(Conns) = PoolSize
  BY FS_Interval DEF Conns
<1>8. Cardinality(Threads) \in Nat /\ Cardinality(H) \in Nat
  <2> HIDE DEF H
  <2> QED BY <1>5, FS_CardinalityType
<1> QED BY <1>4, <1>5, <1>6, <1>7, <1>8

-----------------------------------------------------------------------------
\* The inductive invariant holds in every reachable state.
THEOREM Invariance == Spec => []IInv
BY InitInv, NextInv, PTL DEF Spec

\* The local state of the threads and the queue stay well formed: no call makes
\* more than kMaxAttempts attempts.
THEOREM TypeCorrect == Spec => []TypeOK
<1>1. IInv => TypeOK
  BY DEF IInv
<1> QED BY <1>1, Invariance, PTL

\* acquire() and ~DbConnection never let two threads share a connection.
THEOREM Exclusive == Spec => []ConnExclusive
<1>1. IInv => ConnExclusive
  BY DEF IInv
<1> QED BY <1>1, Invariance, PTL

\* No return, break, continue or retry of a DAO call leaks a connection.
THEOREM NothingLost == Spec => []NoConnLost
<1>1. IInv => NoConnLost
  BY DEF IInv
<1> QED BY <1>1, Invariance, PTL

\* game_server::stop closes the pool under nobody's feet.
THEOREM ClosedUnused == Spec => []NoUseAfterClose
<1>1. IInv => NoUseAfterClose
  BY DEF IInv, ClosedIsQuiet, Places_OK, NoUseAfterClose
<1> QED BY <1>1, Invariance, PTL

\* As long as init() makes no more pool threads than connections, no DAO call
\* ever waits for a connection.
THEOREM NeverWaits ==
    ASSUME IsFiniteSet(Threads), Cardinality(Threads) <= PoolSize
    PROVE  Spec => []NeverExhausted
<1>1. IInv => NeverExhausted
  BY FreeForTheAsking
<1> QED BY <1>1, Invariance, PTL
===============================================================================
