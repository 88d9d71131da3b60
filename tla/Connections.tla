------------------------------ MODULE Connections ------------------------------
(***************************************************************************)
(* Who knows of a connection, and how a frame reaches it: asio_server's    *)
(* accept loop and its table of channels, game_server's table of raw       *)
(* pointers, and the sends of the message handlers, which game_server      *)
(* makes with mtx_ held.  A send to a channel whose queue is full closes   *)
(* that channel, and on_close locks mtx_.                                  *)
(*                                                                         *)
(* Everything runs on the io_context thread.  A callback that cannot meet  *)
(* a held mtx_ is one action; a message handler is followed send by send.  *)
(* A queue is counted in frames.  Module Channel has its bytes and timers. *)
(***************************************************************************)
EXTENDS Naturals, Sequences

CONSTANTS
    MaxChannels,  \* bound: connections accepted
    QueueFrames,  \* frames that fit max_queue_bytes
    MaxHandled,   \* bound: message frames handled
    Threading     \* main_thread_manager_ is set: moves and chat leave the io thread

Ids == 1..MaxChannels

VARIABLES
    next_channel_id,  \* asio_server::next_channel_id_
    server_channels,  \* ids in asio_server::channels_
    channels,         \* ids in game_server::channels_
    closed,           \* ids of the channels with closed_ set
    queued,           \* queued[c]: frames accepted and not yet written
    writing,          \* writing[c]: how many of them async_write has
    mtx,              \* mtx_ is held
    at,               \* where the io thread is: loop, call, sending, on_close
    from,             \* the channel whose frame it handles, 0 for none
    calls,            \* the calls the handler has yet to make
    todo,             \* the channels the current call has yet to send to
    handled           \* frames handled so far

tables == <<next_channel_id, server_channels, channels>>
queues == <<queued, writing>>
handler == <<at, from, calls, todo>>
vars == <<tables, closed, queues, mtx, handler, handled>>

Init ==
    /\ next_channel_id = 1
    /\ server_channels = {} /\ channels = {}
    /\ closed = {}
    /\ queued = [c \in Ids |-> 0] /\ writing = [c \in Ids |-> 0]
    /\ mtx = FALSE
    /\ at = "loop" /\ from = 0 /\ calls = <<>> /\ todo = {}
    /\ handled = 0

-----------------------------------------------------------------------------
\* do_accept's handler: the next id, the table, start() with on_accept.
Accept ==
    /\ at = "loop"
    /\ next_channel_id <= MaxChannels
    /\ next_channel_id' = next_channel_id + 1
    /\ server_channels' = server_channels \cup {next_channel_id}
    /\ channels' = channels \cup {next_channel_id}
    /\ UNCHANGED <<closed, queues, mtx, handler, handled>>

\* game_server::on_close under mtx_, then the callback asio_server set
OnClose(c) ==
    /\ channels' = channels \ {c}
    /\ server_channels' = server_channels \ {c}

\* close() from a failed read or write or from the idle timer: mtx_ is free.
Close(c) ==
    /\ at = "loop"
    /\ c \in server_channels /\ c \notin closed
    /\ closed' = closed \cup {c}
    /\ OnClose(c)
    /\ UNCHANGED <<next_channel_id, queues, mtx, handler, handled>>

\* async_write completed: what came in meanwhile is the next batch.
Written(c) ==
    /\ at = "loop"
    /\ c \notin closed /\ writing[c] > 0
    /\ queued' = [queued EXCEPT ![c] = @ - writing[c]]
    /\ writing' = [writing EXCEPT ![c] = queued[c] - @]
    /\ UNCHANGED <<tables, closed, mtx, handler, handled>>

-----------------------------------------------------------------------------
\* The sends each handler makes, in order.  Replies of the guild and map-enter
\* handlers are "reply"; a login is answered without the lock.
handle_attack == <<"send_test_frame", "broadcast_except">>
handle_move == <<"broadcast_except", "send_test_frame">>
handle_chat == <<"broadcast", "send_test_frame">>
handle_map_enter == <<"send_test_frame">>
handle_login == <<"send_frame">>

Calls == [attack |-> handle_attack, move |-> handle_move, chat |-> handle_chat,
          reply |-> handle_map_enter, login |-> handle_login]
Handlers == IF Threading THEN {"attack", "reply", "login"} ELSE DOMAIN Calls

\* A message frame of c: parse_frames_ hands out the ones it has read even after
\* c is closed.
Handle(c, h) ==
    /\ at = "loop"
    /\ c < next_channel_id
    /\ handled < MaxHandled
    /\ handled' = handled + 1
    /\ at' = "call" /\ from' = c /\ calls' = Calls[h]
    /\ UNCHANGED <<tables, closed, queues, mtx, todo>>

Targets(call, c) ==
    [broadcast        |-> channels,
     broadcast_except |-> channels \ {c},
     send_test_frame  |-> channels \cap {c},
     send_frame       |-> channels \cap {c}][call]

\* The next call: all but send_frame take mtx_ for as long as they send.
Call ==
    /\ at = "call" /\ calls # <<>>
    /\ at' = "sending"
    /\ mtx' = (Head(calls) # "send_frame")
    /\ calls' = Tail(calls)
    /\ todo' = Targets(Head(calls), from)
    /\ UNCHANGED <<tables, closed, queues, from, handled>>

\* enqueue_send_ takes the frame, and do_write starts unless a write goes on.
Enqueue(c) ==
    /\ c \notin closed /\ queued[c] < QueueFrames
    /\ queued' = [queued EXCEPT ![c] = @ + 1]
    /\ writing' = IF writing[c] = 0 THEN [writing EXCEPT ![c] = 1] ELSE writing
    /\ todo' = todo \ {c}
    /\ UNCHANGED <<tables, closed, at>>

\* The queue is full: send() closes c.  When this thread holds mtx_, on_close's
\* lock_guard never returns (undefined for std::mutex; glibc's mutex blocks).
Overflow(c) ==
    /\ c \notin closed /\ queued[c] = QueueFrames
    /\ closed' = closed \cup {c}
    /\ IF mtx
       THEN at' = "on_close" /\ UNCHANGED <<tables, todo>>
       ELSE OnClose(c) /\ todo' = todo \ {c} /\ UNCHANGED <<next_channel_id, at>>
    /\ UNCHANGED queues

SendClosed(c) ==
    /\ c \in closed
    /\ todo' = todo \ {c}
    /\ UNCHANGED <<tables, closed, queues, at>>

\* send() on one of the targets; the table is unordered.
SendOne ==
    /\ at = "sending"
    /\ \E c \in todo : Enqueue(c) \/ Overflow(c) \/ SendClosed(c)
    /\ UNCHANGED <<mtx, from, calls, handled>>

CallReturns ==
    /\ at = "sending" /\ todo = {}
    /\ mtx' = FALSE
    /\ IF calls = <<>> THEN at' = "loop" /\ from' = 0
                       ELSE at' = "call" /\ from' = from
    /\ UNCHANGED <<tables, closed, queues, calls, todo, handled>>

HandlerStep == Call \/ SendOne \/ CallReturns

Next ==
    \/ Accept
    \/ \E c \in Ids : Close(c) \/ Written(c)
    \/ \E c \in Ids, h \in Handlers : Handle(c, h)
    \/ HandlerStep

Spec == Init /\ [][Next]_vars

\* The thread that runs a handler goes on running it.
FairSpec == Spec /\ WF_vars(HandlerStep)

-----------------------------------------------------------------------------
\* The raw pointers of game_server are those of channels asio_server keeps alive,
\* while a broadcast goes through them as well.
NoDangling == channels = server_channels /\ todo \subseteq server_channels

\* A closed channel is still in the tables only when the io thread waits for the
\* mtx_ it holds, and then it closed a channel because its queue was full.
StaysOnlyBlocked ==
    \A c \in server_channels \cap closed :
        /\ at = "on_close" /\ mtx
        /\ c \in todo /\ queued[c] = QueueFrames

\* A channel that is closed leaves asio_server's table: the comment above
\* set_close_callback says it is removed automatically when the channel ends.
ClosedRemoved == \A c \in Ids : c \in closed ~> c \notin server_channels
================================================================================
