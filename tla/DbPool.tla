-------------------------------- MODULE DbPool --------------------------------
(***************************************************************************)
(* DbConnectionPool and the retry loops of PlayerDao that use it, run by   *)
(* the threads of game_server's db_pool_.                                  *)
(*                                                                         *)
(* A thread takes a posted task and makes one DAO call.  Each attempt of   *)
(* the call acquires a connection (an index into connections_), runs its   *)
(* statements and gives the connection back when the DbConnection object   *)
(* leaves the loop body, which is after retry_delay.  acquire() waits at   *)
(* most 5 seconds for an index.  stop() joins the threads, then closes the *)
(* pool.                                                                   *)
(***************************************************************************)
EXTENDS Integers, Sequences, FiniteSets

CONSTANTS
    Threads,      \* threads of db_pool_
    PoolSize,     \* DbConfig.pool_size
    MaxAttempts,  \* kMaxAttempts
    None,         \* a DbConnection that is not valid()
    PendingBound  \* bound: tasks posted and not yet taken by a thread

Conns == 0..(PoolSize - 1)

ASSUME SizeAssumption == PoolSize \in Nat
ASSUME AttemptsAssumption == MaxAttempts \in Nat \ {0}
ASSUME NoConnAssumption == None \notin Int
ASSUME PendingAssumption == PendingBound \in Nat

VARIABLES
    state,         \* the server: opening the pool, running, stopping (in join), closed
    pending,       \* tasks posted to the thread pool
    free_indices,  \* the queue free_indices_
    conn,          \* conn[t]: index held by t's DbConnection, or None
    at,            \* at[t]: where t is in its DAO call
    op,            \* op[t]: the DAO function t is in
    attempt        \* attempt[t]: the loop counter

vars == <<state, pending, free_indices, conn, at, op, attempt>>

Ops == {"find_or_create", "save"}
Places == {"idle", "acquire", "execute", "select", "delay"}

-----------------------------------------------------------------------------
\* DbConnectionPool::open, one round of the loop: connection i is made
Connect ==
    /\ state = "opening"
    /\ Len(free_indices) < PoolSize
    /\ free_indices' = Append(free_indices, Len(free_indices))
    /\ UNCHANGED <<state, pending, conn, at, op, attempt>>

\* open: mysql_init or mysql_real_connect fails.  The connections made so far
\* are closed, and init() goes on without a PlayerDao: no task is ever posted.
OpenFails ==
    /\ state = "opening"
    /\ Len(free_indices) < PoolSize
    /\ free_indices' = <<>>
    /\ state' = "closed"
    /\ UNCHANGED <<pending, conn, at, op, attempt>>

\* open returns true
Opened ==
    /\ state = "opening"
    /\ Len(free_indices) = PoolSize
    /\ state' = "running"
    /\ UNCHANGED <<pending, free_indices, conn, at, op, attempt>>

\* DbConnectionPool::acquire, a free index is there
Acquire(t) ==
    /\ at[t] = "acquire"
    /\ free_indices # <<>>
    /\ conn' = [conn EXCEPT ![t] = Head(free_indices)]
    /\ free_indices' = Tail(free_indices)
    /\ at' = [at EXCEPT ![t] = "execute"]
    /\ UNCHANGED <<state, pending, op, attempt>>

\* acquire, 5 seconds pass with no free index: the call breaks out of its loop
\* and fails.
AcquireTimeout(t) ==
    /\ at[t] = "acquire"
    /\ free_indices = <<>>
    /\ at' = [at EXCEPT ![t] = "idle"]
    /\ UNCHANGED <<state, pending, free_indices, conn, op, attempt>>

\* ~DbConnection: DbConnectionPool::release
Release(t) ==
    /\ free_indices' = Append(free_indices, conn[t])
    /\ conn' = [conn EXCEPT ![t] = None]

\* The call returns (a record, true, nullopt or false): the connection goes
\* back.
Return(t) ==
    /\ Release(t)
    /\ at' = [at EXCEPT ![t] = "idle"]
    /\ UNCHANGED <<state, pending, op, attempt>>

\* A retryable error: another round after retry_delay, unless this was the last.
LastAttemptOffByOne(t) == attempt[t] > MaxAttempts
LastAttempt(t) == attempt[t] >= MaxAttempts

DelayReleased(t) ==
    /\ at' = [at EXCEPT ![t] = "delay"]
    /\ free_indices' = Append(free_indices, conn[t])
    /\ UNCHANGED <<state, pending, conn, op, attempt>>
Delay(t) ==
    /\ at' = [at EXCEPT ![t] = "delay"]
    /\ UNCHANGED <<state, pending, free_indices, conn, op, attempt>>

Retry(t) ==
    \/ LastAttempt(t) /\ Return(t)
    \/ ~LastAttempt(t) /\ Delay(t)

\* retry_delay is over: end of the loop body, next attempt
NextAttemptLeaking(t) ==
    /\ at[t] = "delay"
    /\ conn' = [conn EXCEPT ![t] = None]
    /\ attempt' = [attempt EXCEPT ![t] = @ + 1]
    /\ at' = [at EXCEPT ![t] = "acquire"]
    /\ UNCHANGED <<state, pending, free_indices, op>>
NextAttemptUncounted(t) ==
    /\ at[t] = "delay"
    /\ Release(t)
    /\ at' = [at EXCEPT ![t] = "acquire"]
    /\ UNCHANGED <<state, pending, op, attempt>>
NextAttempt(t) ==
    /\ at[t] = "delay"
    /\ Release(t)
    /\ attempt' = [attempt EXCEPT ![t] = @ + 1]
    /\ at' = [at EXCEPT ![t] = "acquire"]
    /\ UNCHANGED <<state, pending, op>>

\* save_position / save_stats: mysql_query succeeds or fails for good, or fails
\* with a retryable error
Save(t) ==
    /\ at[t] = "execute" /\ op[t] = "save"
    /\ Return(t) \/ Retry(t)

\* find_or_create, INSERT IGNORE: executed (or not prepared) and on to the
\* SELECT, failed for good, or failed with a retryable error
Insert(t) ==
    /\ at[t] = "execute" /\ op[t] = "find_or_create"
    /\ \/ /\ at' = [at EXCEPT ![t] = "select"]
          /\ UNCHANGED <<state, pending, free_indices, conn, op, attempt>>
       \/ Return(t)
       \/ Retry(t)

\* find_or_create, SELECT: a record, or nothing (every failure is retried)
Select(t) ==
    /\ at[t] = "select"
    /\ Return(t) \/ Retry(t)

-----------------------------------------------------------------------------
\* The io thread posts a task.
PostTask ==
    /\ state = "running"
    /\ pending < PendingBound
    /\ pending' = pending + 1
    /\ UNCHANGED <<state, free_indices, conn, at, op, attempt>>

\* A thread takes a task and enters a DAO function.
Begin(t, f) ==
    /\ at[t] = "idle"
    /\ pending > 0
    /\ pending' = pending - 1
    /\ at' = [at EXCEPT ![t] = "acquire"]
    /\ op' = [op EXCEPT ![t] = f]
    /\ attempt' = [attempt EXCEPT ![t] = 1]
    /\ UNCHANGED <<state, free_indices, conn>>

\* game_server::stop reaches db_pool_->join()
Stop ==
    /\ state = "running"
    /\ state' = "stopping"
    /\ UNCHANGED <<pending, free_indices, conn, at, op, attempt>>

\* join returns when every posted task has been run
QueueEmpty == pending = 0
Joined == pending = 0 /\ \A t \in Threads : at[t] = "idle"

\* db_manager_->close(): DbConnectionPool::close
Close ==
    /\ state = "stopping"
    /\ Joined
    /\ state' = "closed"
    /\ free_indices' = <<>>
    /\ UNCHANGED <<pending, conn, at, op, attempt>>

Init ==
    /\ state = "opening"
    /\ pending = 0
    /\ free_indices = <<>>
    /\ conn = [t \in Threads |-> None]
    /\ at = [t \in Threads |-> "idle"]
    /\ op = [t \in Threads |-> "save"]
    /\ attempt = [t \in Threads |-> 1]

Call(t) ==
    \/ Acquire(t)
    \/ AcquireTimeout(t)
    \/ Save(t)
    \/ Insert(t)
    \/ Select(t)
    \/ NextAttempt(t)

Next ==
    \/ Connect
    \/ OpenFails
    \/ Opened
    \/ PostTask
    \/ Stop
    \/ Close
    \/ \E t \in Threads : Call(t) \/ \E f \in Ops : Begin(t, f)

Spec == Init /\ [][Next]_vars

\* Pool threads keep running; retry_delay and acquire's wait are finite.
FairSpec ==
    /\ Spec
    /\ WF_vars(Close)
    /\ \A t \in Threads : WF_vars(Call(t)) /\ WF_vars(\E f \in Ops : Begin(t, f))
-----------------------------------------------------------------------------
\* The types of the pool's queue and of the threads' local state; a call makes
\* at most kMaxAttempts attempts.
TypeOK ==
    /\ state \in {"opening", "running", "stopping", "closed"}
    /\ pending \in Nat
    /\ free_indices \in Seq(Conns)
    /\ conn \in [Threads -> Conns \cup {None}]
    /\ at \in [Threads -> Places]
    /\ op \in [Threads -> Ops]
    /\ attempt \in [Threads -> 1..MaxAttempts]

Free(i) == \E k \in 1..Len(free_indices) : free_indices[k] = i
Held(i) == \E t \in Threads : conn[t] = i

\* No MYSQL handle is ever used by two threads: an index is held by at most one
\* DbConnection, waits at most once in free_indices_, and never both.
ConnExclusive ==
    /\ \A s, t \in Threads : s # t /\ conn[s] # None => conn[s] # conn[t]
    /\ \A j, k \in 1..Len(free_indices) : j # k => free_indices[j] # free_indices[k]
    /\ \A i \in Conns : ~(Free(i) /\ Held(i))

\* From the end of open() until the pool is closed no connection is lost,
\* whichever way an attempt ends.
NoConnLost == state \in {"running", "stopping"} => \A i \in Conns : Free(i) \/ Held(i)

\* With no more threads than connections ("pool-size-sync" in
\* IMPROVEMENT_ROADMAP.md) acquire() never has to wait, so its 5 second
\* timeout, which fails a save without a retry, never happens.
NeverExhausted == \A t \in Threads : at[t] = "acquire" => free_indices # <<>>

\* stop() closes the MYSQL handles only when no thread is in a DAO call.
NoUseAfterClose == state = "closed" => \A t \in Threads : conn[t] = None /\ at[t] = "idle"

\* Every DAO call returns, however its statements fail.
CallReturns == \A t \in Threads : at[t] # "idle" ~> at[t] = "idle"

\* stop() gets past db_pool_->join(): the tasks pending at that moment all end.
StopCompletes == state = "stopping" ~> state = "closed"
===============================================================================
