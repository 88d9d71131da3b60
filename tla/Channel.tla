-------------------------------- MODULE Channel --------------------------------
(***************************************************************************)
(* asio_channel: the send queue with its byte limit, the batching write    *)
(* loop, closing, and the three timers.  All of it runs on the io_context  *)
(* thread, so a handler is one action; what interleaves are the handlers:  *)
(* send() calls from message handlers, completions of async_read_some and  *)
(* async_write, timer expiries, and the clean-up that close() posts.       *)
(*                                                                         *)
(* A message is its number and its size.  The unit of time is 5 seconds.   *)
(* The statistics counters no decision depends on (enq_msgs, deq_msgs,     *)
(* bytes_sent, peak_queued, last_send_ms, force_closes) are left out.      *)
(***************************************************************************)
EXTENDS Integers, Sequences, FiniteSetsExt

CONSTANTS
    Sizes,          \* sizes of the messages handlers send
    PingSize,       \* size of the frame send_ping builds
    MaxQueueBytes,  \* max_queue_bytes
    MaxBatchBytes,  \* k_max_batch_bytes
    MaxBatchMsgs,   \* k_max_batch_msgs
    IdleLimit,      \* idle_limit_
    PingInterval,   \* ping_interval_
    StatsInterval,  \* stats_interval_
    BufferFirst,    \* do_write's asio::buffer(buffer) is evaluated before the
                    \* lambda's buffer = std::move(buffer): the C++ standard
                    \* leaves the order to the compiler
    MaxMsgs,        \* bound: messages offered to an open channel, pings included
    MaxTime         \* bound: how far the clock runs

ASSUME SizeAssumption == Sizes \subseteq Nat \ {0} /\ PingSize \in Nat \ {0}
ASSUME LimitAssumption ==
    /\ MaxQueueBytes \in Nat /\ MaxBatchBytes \in Nat
    /\ MaxBatchMsgs \in Nat \ {0}
    /\ {IdleLimit, PingInterval, StatsInterval} \subseteq Nat \ {0}
ASSUME OrderAssumption == BufferFirst \in BOOLEAN
ASSUME BoundAssumption == MaxMsgs \in Nat /\ MaxTime \in Nat

Timers == {"idle", "ping", "stats"}
Period == [idle |-> IdleLimit, ping |-> PingInterval, stats |-> StatsInterval]
Message == [id : 1..MaxMsgs, size : Sizes \cup {PingSize}]

VARIABLES
    socket,               \* new, open, closed
    closed,               \* closed_
    writing,              \* writing_
    write_queue,          \* write_queue_
    current_queue_bytes,
    outstanding,          \* batches given to async_write, handler not yet run
    flushed,              \* the first of them is written, its handler queued
    reading,              \* async_read_some: off, waiting, or arrived (handler queued)
    cleanup,              \* the lambda close() posted has not run yet
    timer,                \* timer[x]: off, armed, or fired (its handler queued)
    due,                  \* due[x]: when an armed timer expires
    now,                  \* steady_clock
    last_recv,            \* last_recv_ms
    sent,                 \* messages offered so far
    accepted,             \* history: messages queued, in order
    wire,                 \* history: messages written to the socket
    heard,                \* history: when the read handler last had bytes, until the close
    on_closes,            \* history: calls of the handler's on_close
    reason                \* history: why the channel closed

queue == <<write_queue, current_queue_bytes, accepted>>
writer == <<writing, outstanding, flushed, wire>>
clocks == <<timer, due, now, last_recv, heard>>
closing == <<closed, cleanup, on_closes, reason>>
vars == <<socket, queue, writer, reading, sent, clocks, closing>>

-----------------------------------------------------------------------------
\* Acc(q)[k]: the size of the first k messages of q, make_batch_'s acc
Acc(q) ==
    LET acc[k \in 0..Len(q)] == IF k = 0 THEN 0 ELSE acc[k - 1] + q[k].size
    IN acc
Bytes(q) == Acc(q)[Len(q)]

\* close(): the first caller wins, posts the clean-up and calls on_close.
CloseUnguarded(why) ==
    /\ closed' = TRUE
    /\ cleanup' = TRUE
    /\ on_closes' = on_closes + 1
    /\ reason' = why
Close(why) ==
    /\ closed' = TRUE
    /\ cleanup' = (cleanup \/ ~closed)
    /\ on_closes' = IF closed THEN on_closes ELSE on_closes + 1
    /\ reason' = IF closed THEN reason ELSE why

\* make_batch_: how many messages of q fit the limits.  A first message larger
\* than MaxBatchBytes makes it 0.
BatchLen(q) ==
    Max({k \in 0..Len(q) : k <= MaxBatchMsgs /\ Acc(q)[k] <= MaxBatchBytes})

RestKeepingLast(q, k) == IF k = 0 THEN q ELSE SubSeq(q, k, Len(q))
Rest(q, k) == SubSeq(q, k + 1, Len(q))

\* do_write with the queue q and the writes pending in others
DoWrite(q, others) ==
    LET k == BatchLen(q) IN
    /\ write_queue' = Rest(q, k)
    /\ writing' = (k > 0)
    /\ outstanding' = IF k > 0 THEN Append(others, SubSeq(q, 1, k)) ELSE others

\* The bytes async_write was given: none when the lambda took them first.
Transmitted(batch) == IF BufferFirst THEN batch ELSE <<>>

\* compare_exchange on writing_
MayWriteAlways == TRUE
MayWrite == ~writing

-----------------------------------------------------------------------------
\* send() returns at once on a closed channel (and for size <= 0); otherwise m
\* is queued and written unless a write is going on, or, when the queue is full,
\* the channel is closed by force.
FitsUnchecked(m) == TRUE
Fits(m) == current_queue_bytes + m.size <= MaxQueueBytes

SendRejected(m) ==
    /\ ~Fits(m)
    /\ Close("force_closed")
    /\ UNCHANGED <<queue, writer>>

SendQueued(m) ==
    /\ Fits(m)
    /\ current_queue_bytes' = current_queue_bytes + m.size
    /\ accepted' = Append(accepted, m)
    /\ IF MayWrite
       THEN DoWrite(Append(write_queue, m), outstanding)
       ELSE /\ write_queue' = Append(write_queue, m)
            /\ UNCHANGED <<writing, outstanding>>
    /\ UNCHANGED <<flushed, wire, closing>>

SendSize(size) ==
    LET m == [id |-> sent + 1, size |-> size] IN
    /\ ~closed
    /\ sent < MaxMsgs
    /\ sent' = sent + 1
    /\ SendRejected(m) \/ SendQueued(m)

\* A message handler, of this channel or of another one, calls send().
Send(size) ==
    /\ socket # "new"
    /\ SendSize(size)
    /\ UNCHANGED <<socket, reading, clocks>>

-----------------------------------------------------------------------------
\* start(): the first read, on_accept, the timers
Start ==
    /\ socket = "new"
    /\ socket' = "open"
    /\ reading' = "waiting"
    /\ timer' = [x \in Timers |-> "armed"]
    /\ due' = [x \in Timers |-> now + Period[x]]
    /\ last_recv' = now
    /\ heard' = now
    /\ UNCHANGED <<now, queue, writer, sent, closing>>

\* Bytes arrive for the read that waits; its handler is queued.
Arrive ==
    /\ reading = "waiting" /\ socket = "open"
    /\ reading' = "arrived"
    /\ UNCHANGED <<socket, queue, writer, sent, clocks, closing>>

\* The read handler: the frames are parsed (closed_ is not looked at) and the
\* next read starts.  last_recv_ms is not touched.
ReadDone ==
    /\ reading = "arrived"
    /\ reading' = "waiting"
    /\ heard' = IF closed THEN heard ELSE now
    /\ UNCHANGED <<socket, queue, writer, sent, timer, due, now, last_recv, closing>>

\* async_read_some fails: end of stream, a reset, or the socket was closed here.
ReadError ==
    /\ reading = "waiting"
    /\ reading' = "off"
    /\ Close("read")
    /\ UNCHANGED <<socket, queue, writer, sent, clocks>>

\* All bytes of the first outstanding batch go out; its handler is queued.
Transmit ==
    /\ outstanding # <<>> /\ ~flushed /\ socket = "open"
    /\ flushed' = TRUE
    /\ wire' = wire \o Transmitted(Head(outstanding))
    /\ UNCHANGED <<socket, queue, writing, outstanding, reading, sent, clocks, closing>>

\* The n the handler subtracts from current_queue_bytes
FreedMessages(batch) == Len(Transmitted(batch))
Freed(batch) == Bytes(Transmitted(batch))

\* The end of the write handler: writing_ is cleared and, if the queue is not
\* empty, taken again for the next batch.
GoIdle(others) ==
    /\ writing' = FALSE
    /\ outstanding' = others
    /\ UNCHANGED write_queue
NextWrite(others) ==
    IF write_queue = <<>>
    THEN /\ writing' = FALSE
         /\ outstanding' = others
         /\ UNCHANGED write_queue
    ELSE DoWrite(write_queue, others)

\* The write handler without error; it runs even if the channel was closed
\* while it was queued.
WriteDone ==
    /\ flushed
    /\ flushed' = FALSE
    /\ current_queue_bytes' = current_queue_bytes - Freed(Head(outstanding))
    /\ NextWrite(Tail(outstanding))
    /\ UNCHANGED <<socket, accepted, wire, reading, sent, clocks, closing>>

\* async_write fails, by the peer or because the socket was closed here: some
\* of the batch may have gone out.  writing_ stays set.
WriteError ==
    /\ outstanding # <<>> /\ ~flushed
    /\ \E k \in 0..IF socket = "open" THEN Len(Transmitted(Head(outstanding))) ELSE 0 :
         wire' = wire \o SubSeq(Head(outstanding), 1, k)
    /\ outstanding' = Tail(outstanding)
    /\ Close("write")
    /\ UNCHANGED <<socket, queue, writing, flushed, reading, sent, clocks>>

\* The lambda close() posted: timers cancelled, socket closed.
CancelledButPing(t) == [x \in Timers |->
    IF t[x] = "armed" /\ x # "ping" THEN "off" ELSE t[x]]
Cancelled(t) == [x \in Timers |-> IF t[x] = "armed" THEN "off" ELSE t[x]]

ShutdownSkipped == socket
Shutdown == "closed"

CleanUp ==
    /\ cleanup
    /\ cleanup' = FALSE
    /\ timer' = Cancelled(timer)
    /\ socket' = Shutdown
    /\ UNCHANGED <<queue, writer, reading, sent, due, now, last_recv, heard,
                   closed, on_closes, reason>>

-----------------------------------------------------------------------------
\* A timer expires: its handler is queued.
Expire(x) ==
    /\ timer[x] = "armed" /\ now >= due[x]
    /\ timer' = [timer EXCEPT ![x] = "fired"]
    /\ UNCHANGED <<socket, queue, writer, reading, sent, due, now, last_recv,
                   heard, closing>>

Arm(x) ==
    /\ timer' = [timer EXCEPT ![x] = "armed"]
    /\ due' = [due EXCEPT ![x] = now + Period[x]]

Disarm(x) ==
    /\ timer' = [timer EXCEPT ![x] = "off"]
    /\ due' = [due EXCEPT ![x] = 0]

IdleHandler ==
    /\ timer["idle"] = "fired"
    /\ IF closed THEN Disarm("idle") /\ UNCHANGED closing
       ELSE IF now - last_recv >= IdleLimit
       THEN Disarm("idle") /\ Close("timeout")
       ELSE Arm("idle") /\ UNCHANGED closing
    /\ UNCHANGED <<socket, queue, writer, reading, sent, now, last_recv, heard>>

\* The timer is armed again even when send_ping has just closed the channel.
PingHandler ==
    /\ timer["ping"] = "fired"
    /\ \/ closed /\ Disarm("ping") /\ UNCHANGED <<queue, writer, sent, closing>>
       \/ SendSize(PingSize) /\ Arm("ping")
    /\ UNCHANGED <<socket, reading, now, last_recv, heard>>

StatsHandler ==
    /\ timer["stats"] = "fired"
    /\ IF closed THEN Disarm("stats") ELSE Arm("stats")
    /\ UNCHANGED <<socket, queue, writer, reading, sent, now, last_recv,
                   heard, closing>>

\* Time passes, also while handlers are waiting to run.
Tick ==
    /\ now < MaxTime
    /\ now' = now + 1
    /\ UNCHANGED <<socket, queue, writer, reading, sent, timer, due, last_recv,
                   heard, closing>>

Init ==
    /\ socket = "new"
    /\ closed = FALSE /\ writing = FALSE
    /\ write_queue = <<>> /\ current_queue_bytes = 0
    /\ outstanding = <<>> /\ flushed = FALSE /\ reading = "off" /\ cleanup = FALSE
    /\ timer = [x \in Timers |-> "off"] /\ due = [x \in Timers |-> 0]
    /\ now = 0 /\ last_recv = 0 /\ heard = 0
    /\ sent = 0 /\ accepted = <<>> /\ wire = <<>>
    /\ on_closes = 0 /\ reason = "none"

Next ==
    \/ Start
    \/ \E size \in Sizes : Send(size)
    \/ Arrive
    \/ ReadDone
    \/ ReadError
    \/ Transmit
    \/ WriteDone
    \/ WriteError
    \/ CleanUp
    \/ \E x \in Timers : Expire(x)
    \/ IdleHandler
    \/ PingHandler
    \/ StatsHandler
    \/ Tick

Spec == Init /\ [][Next]_vars

\* io_context::run eventually runs every queued handler, and aborts the reads
\* and writes of a closed socket.  Of the peer it is assumed that it keeps
\* reading, so that a write ends; nothing is assumed of what it sends.
FairSpec ==
    /\ Spec
    /\ WF_vars(Transmit) /\ WF_vars(WriteDone) /\ WF_vars(ReadDone)
    /\ WF_vars(CleanUp)
    /\ WF_vars(socket = "closed" /\ (ReadError \/ WriteError))
    /\ WF_vars(IdleHandler) /\ WF_vars(PingHandler) /\ WF_vars(StatsHandler)

-----------------------------------------------------------------------------
\* The types of the channel's members.
TypeOK ==
    /\ socket \in {"new", "open", "closed"}
    /\ {closed, writing, flushed, cleanup} \subseteq BOOLEAN
    /\ reading \in {"off", "waiting", "arrived"}
    /\ write_queue \in Seq(Message)
    /\ current_queue_bytes \in 0..MaxQueueBytes
    /\ outstanding \in Seq(Seq(Message))
    /\ timer \in [Timers -> {"off", "armed", "fired"}]
    /\ due \in [Timers -> Nat]
    /\ {now, last_recv, heard} \subseteq Nat
    /\ {sent, on_closes} \subseteq Nat
    /\ accepted \in Seq(Message)
    /\ wire \in Seq(Message)
    /\ reason \in {"none", "read", "write", "timeout", "force_closed"}

\* At most one async_write is outstanding, as asio requires of a stream: two
\* would interleave their bytes.
OneWrite == Len(outstanding) <= 1

\* The messages given to async_write, whose handler has not run
InFlight == IF outstanding = <<>> THEN <<>> ELSE Head(outstanding)

\* current_queue_bytes, which decides whether send() kills the connection, is
\* the size of what is queued or being written.
ByteAccounting ==
    ~closed => current_queue_bytes = Bytes(write_queue) + Bytes(InFlight)

Oversized(m) == m.size > MaxBatchBytes

\* While the channel is open the write loop goes to sleep on a queue that is not
\* empty only when make_batch_ cannot take even the first message.
NoStall ==
    ~closed /\ write_queue # <<>> => outstanding # <<>> \/ Oversized(Head(write_queue))

\* close() runs the handler's on_close exactly once, however many of read
\* error, write error, timeout and full queue meet.
ClosedOnce == on_closes = IF closed THEN 1 ELSE 0

\* After the posted clean-up no timer is armed, although a timer handler may
\* have re-armed itself after close().
TimersStop == socket = "closed" => \A x \in Timers : timer[x] # "armed"

\* A closed channel ends all its asynchronous operations, each of which holds
\* a shared_ptr to it.
Released ==
    closed ~> /\ reading = "off"
              /\ outstanding = <<>>
              /\ \A x \in Timers : timer[x] = "off"

\* A message send() has queued reaches the peer unless the channel closes, or it
\* or one before it is larger than a batch.
EventuallySent ==
    \A n \in 1..MaxMsgs :
        Len(accepted) >= n ~>
            \/ Len(wire) >= n
            \/ closed
            \/ \E i \in (1..n) \cap DOMAIN accepted : Oversized(accepted[i])

\* The send path implements a first-in first-out pipe.
Pipe == INSTANCE FifoPipe WITH taken <- accepted, delivered <- wire, shut <- closed
PipeSpec == Pipe!Spec

-----------------------------------------------------------------------------
\* What documents and comments say of the channel and the code does not do.

\* "asio::async_write -> completion callback -> next batch" (ARCHITECTURE.md:158):
\* when an open channel has nothing queued and nothing being written, all it
\* took has been written.
NothingSwallowed ==
    ~closed /\ write_queue = <<>> /\ outstanding = <<>> => wire = accepted

\* "times out after 30 seconds without receiving" (asio_channel.hpp:83): a
\* channel that times out has heard nothing for idle_limit_.
TimeoutMeansSilence == reason = "timeout" => now - heard >= IdleLimit
===============================================================================
