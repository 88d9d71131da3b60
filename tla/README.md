# TLA+ models of the ECS/Asio game server

These modules model the server's session core, its database work, its network
channels and acceptor, the frames and messages on the wire, its game threads and
its guilds. TLC checks them on small instances; TLAPS proves the
safety properties for every instance. `PROJECT.json` lists the runs, the
source lines behind each definition, the hazards and the findings.

## The system

| Part | State | Operations | What makes it hard |
|---|---|---|---|
| Session core (`server/game/game_server.*`, `handlers/player_handlers.cpp`) | `channels_`, `channel_to_entity_`, `channel_to_db_id_`, `db_strands_`, `player_map_mapping_` | accept, close, login, attack, map change, periodic flush, stop | a login leaves the io thread and comes back later; frames arrive after close; a flush races the logout |
| Player persistence (`db/dao/player_dao.cpp`, `db/failure_sink.cpp`) | the players table, the sink file | find or create, save position, save stats, record | one of two statements fails; an answer is lost |
| Connection pool (`db/db_connection.cpp`) | connections, free indices | open, acquire, release, close | timeout, retry loops with many exits, shutdown |
| Network channel (`network/asio_channel.*`) | send queue and its byte count, `writing_`, `closed_`, three timers | start, send, read, write, close, expiry | completions, timers and closing in any order |
| Guilds (`handlers/guild_handlers.cpp`) | `guilds_`, `channel_to_guild_`, `next_guild_id_` | create, join, leave | two tables for one relation |
| Redis client (`db/redis_client.cpp`) | tokens, cached players | get, set, delete, expiry | the cache outlives the session |
| ECS (`game/ecs`) | entities, component stores | create, destroy, add, get, snapshot | raw pointers used by three kinds of thread |
| Systems (`game/systems`) | components | movement, AI, combat, map | order of the phases, floating point |
| Threads (`game/threading`) | map threads, packet and task queues | start, stop, post, move a player | locks held while running tasks and joining |
| Acceptor (`network/asio_server.cpp`) | `channels_`, next id | listen, accept, stop | two tables of channels, one of raw pointers; closing from inside a send |
| Frame codec (`common/network/frame_codec.hpp`) | `frame_acc_` and its offset | pack, parse, compact | reads cut anywhere, damaged bytes, lengths at the limits |
| Messages (`common/protocol`) | none | `serialize`, `parse` of 41 structs | two hand-written halves per message |
| Configuration, start-up, clients | | | not part of the models |

One thread runs the `io_context` (`server/main.cpp`), so accept, close, message and
timer handlers run one at a time and to completion. `db_pool_` has its own threads;
each connection has a strand there, on which its database tasks run in order. The
main thread manager and one thread per map run the game loop. An io handler posts
to a strand, a login task posts its result back to the io thread, and a channel
calls the session core's `on_accept`, handlers and `on_close`.

What should hold, part by part: a character, a player id and a strand belong to an
open connection; what is saved of a character goes to its own row; a logout save is last on its strand and is never forgotten; a
connection of the pool has one user and is always returned; the channel sends each
message once, in order, and closes once; a closed channel leaves both tables of
channels; the
frames that arrive are the frames sent, however they are cut; a message parses to
what was serialized; no game thread works on a map that is gone, and stopping ends;
the guild tables agree.

## Modules

| Module | Models | State and actions |
|---|---|---|
| `GameServer` | session core, persistence, cache | the tables under their own names; one action per io handler, one per SQL statement of a strand task |
| `DbPool` | connection pool, DAO retry loops, the end of `stop()` | `free_indices`, and for each thread its connection, place in the call and attempt |
| `Channel` | `asio_channel` | its members; one action per handler, plus the socket, timer and clock events that queue handlers |
| `FifoPipe` | what the channel promises about sending | `taken`, `delivered`, `shut` |
| `Guild` | guild handlers | `guilds`, `members` (how often a channel is listed), `channel_to_guild`, `next_guild_id`; `used` is history: the ids that have ever named a guild |
| `Connections` | acceptor, `game_server`'s channel table, the sends under `mtx_` | the two tables, `closed`, queues counted in frames, who holds `mtx_`; one action per callback, one per call and per send of a handler |
| `FrameCodec` | `pack`, `try_parse_one`, `parse_frames_` | the bytes on the way, `acc` and `offset`; send, change a byte, read any number of bytes |
| `Protocol` | `serialize` and `parse` of every message struct | one message at a time: send whole or cut short, parse |
| `MapThreads` | main thread manager, map thread manager, map threads, what the io thread asks of them | each thread's place in its loop, the queues, the mutexes held over several steps, the tables of players |
| `MC*` | model values, small sets, symmetry | |
| `GameServerProofs`, `LogoutProofs` | theorems about `GameServer`, the second extending the first | |
| `DbPoolProofs`, `MapThreadProofs`, `ChannelProofs`, `FrameCodecProofs`, `ProtocolProofs` | theorems about the module each extends | |
| `TableProofs` | theorems about `Guild`, which it extends, and `Connections`, which it instantiates as `C` | |

### GameServer

`OnAccept`, `OnClose`, `HandleLogin`, `HandleAttack`, `HandleMapEnter`,
`LoginContinuation` and `FlushPlayers` are the handlers of the io thread.
`LoginInsert`, `LoginSelect`, `LoginFinish`, `FlushSave`, `LogoutSavePosition` and
`LogoutSaveStats` are the steps of strand tasks: `strand[c]` is the queue, `run[c]`
how far its head is. `link[c]` is the connection; in state `closing` the channel is
out of the tables but frames already received are still dispatched, as
`parse_frames_` and the read handler do not look at `closed_`. `logins`, `farewell`
and `confirmed` are history.

Abstractions:
- `map` stands for all the columns `save_position` writes, and for the character's
  position and map. Moves by packets or by the movement system are not modelled.
- Of the columns `save_stats` writes only `hp` varies: `on_close` passes level 1 and
  exp 0.
- A DAO call's retry loop is one step with the outcomes "applied and reported", "not
  applied" and "applied, but reported as failed". `DbPool` has the loop.
- The sink is the file or, when the file fails, stderr, where `record` falls back to.
- `LoginRequests` says which names each client logs in with, and in which order.
- A rejected token changes nothing and is left out. Redis calls do not fail.
- `MonsterAttack` is atomic. The race on `Health::hp` between the io thread and the
  main thread is outside the model.
- Sending is left to `Channel` and `Connections`; a close it causes is an `OnClose`
  at another moment.
- `catch (...)` around the logout save records nothing. Nothing in that block throws
  anything but `std::exception`, so it is left out.
- Entities of monsters and maps share the id counter; only players' are numbered.
- `use_ecs` is set, as in the shipped configuration, so the map threads run.

### DbPool

`open()` connects one index after the other (`Connect`) and returns (`Opened`); when a
connection cannot be made it closes those it has (`OpenFails`), and `init()` goes on
without a `PlayerDao`, so nothing is ever posted. A thread takes a task and makes one DAO call. Each attempt acquires an index, runs
its statements and releases the index at the end of the loop body, which is after
`retry_delay`. `AcquireTimeout` is enabled only while no index is free.

### Channel

Handlers run one at a time; the socket, the timers and the clock act between them.
A completion that is queued still runs after the socket was closed. Time is counted
in units of 5 seconds: stats 1, ping 2, idle 6. `BufferFirst` is the order in which
the compiler evaluates the arguments of `async_write` in `do_write`; C++ leaves it
open. With GCC the buffer is moved first, with Clang it is taken first. The passing
runs use the second order, under which the rest of the protocol can be examined;
`channel_moved_buffer` uses the first. `heard` is history: when the read handler last
had bytes. Statistics counters are left out.

The refinement mapping to `FifoPipe` takes `accepted` (messages queued) for `taken`,
`wire` for `delivered` and `closed` for `shut`.

### Connections

A composition of acceptor, channel and session core, cut down to what decides
whether a closed channel leaves the tables. A callback that cannot meet a held
`mtx_` is one action; a message handler is followed call by call and, inside a call,
send by send. `Overflow` is `send()` on a full queue: it closes the channel at once,
and `on_close` wants `mtx_`. Without the lock (`send_frame` after a login) it runs
through; with it the thread stays at `on_close`. Locking a `std::mutex` twice is
undefined; with glibc, on which the Dockerfile builds, it blocks, and the model has
that outcome. `Threading` is whether the map threads run, in which case moves and
chats send nothing from the io thread.

### FrameCodec and Protocol

`FrameCodec` has the header byte by byte. The CRC is a
parameter, `crc32`. `CrcAssumption` says that it is four bytes and differs for
payloads that differ in one byte, which CRC-32 guarantees: it notices every error
within 32 consecutive bits. `Pass` is the body of the loop of `parse_frames_` and
`ParseLoop` the loop, cut after more passes than the buffer has room for headers
(`LoopStops` in `FrameCodecProofs`: by then it has stopped); the client's `recv_loop`
is the same loop. One byte of the stream may change into a value of `Noise`. `ends`
is history: where each frame ends in the stream.

`Protocol` gives each struct three sequences: the fields `serialize()` writes, the
fields `parse()` reads, and before each of these the n of the test `p + n > end`, 0 if
there is none. It interprets them over bytes. A read past the payload yields the byte
`after`, as the receive buffer goes on there. The values sent are the parameter
`Values`; `ValueAssumption` says no more than that they have the types of the fields.

### MapThreads

`at[m]` is where map m's thread is in `thread_loop`, `main` where the main thread is
in `main_loop`, `io` what the io thread is in the middle of. `map_lock` and
`global_lock` are the mutexes that are held while something else may run; the
sections of the others contain no such point and are single steps. `spawn_timer_`
is written by two threads without a lock, so whether a spawn is due is a free
choice; the room left is counted under `objects_mutex_`. The operations of the
managers' public interface (`destroy_map_thread`, `handle_map_transfer`,
`add_player_to_map` and `remove_player_from_map` have no caller in the server yet)
may be called at any time, up to `MaxOps`. Left out: positions, the ECS update, what
packet handlers log, and the map threads' task queue, which nothing fills.

## Runs

| Run | Shows |
|---|---|
| `session` | seven invariants, two connections, two players, two maps, a database |
| `relogin` | one connection logs in twice, under one name or two, beside another of the same player, with Redis: what is saved is the character of the row's own player (`SavesOwnCharacter`), and every logout save is settled though one pool thread serves both connections. The invariants of `session` are theorems, so they hold here too |
| `db_pool` | connections are exclusive, never lost, not used after close; calls return and `stop()` completes, with more threads than connections |
| `channel` | one write, byte accounting, no stall but behind a message larger than a batch, one `on_close`, timers stop, `FifoPipe`; a closed channel is released, a queued message is sent |
| `frame_codec` | frames survive any cut; a damaged payload or CRC costs its own frame only, a damaged header field other than the length none; the buffer stays bounded |
| `protocol` | 37 of 41 structs come back as they were sent, and the four others as far as `RoundTrip` says; 29 refuse every message cut short |
| `map_threads` | capped monsters, no use of an erased map, player tables, order and arrival of chats, stop ends. Deadlock is checked here |
| `guild` | the tables agree, no empty guild, no id that ever named a guild is given out again |

Four more runs show where a comment or document and the code part; TLC finds a
counterexample to what the text says:

| Run | The code |
|---|---|
| `player_serialized` | one player's tasks run on two strands after a reconnect |
| `channel_moved_buffer` | with GCC's evaluation order batches are dropped |
| `channel_idle` | a channel that keeps receiving is closed after 30 seconds |
| `connections` | a send to a full queue under `mtx_` blocks the io thread for good, and the closed channel stays in the tables |

Differences seen while modelling that have no run of their own:
- a second login on a connection leaves the first entity without an owner:
  `NoOrphanEntity` excepts such connections;
- without a database a login frame handled after the close registers the channel
  again, so `SessionOnlyOpen` is checked and proved with a database only;
- a map change handled after the close puts the channel back into
  `player_map_mapping_`, with or without a database, and nothing removes it:
  `SessionOnlyOpen` leaves that table out. Channel ids are not used again and the
  entry is read only for frames of that channel;
- a cache entry survives the logout when the close overtakes the login;
- a restored character's packets are routed to map 1;
- a flush saves no stats, and its failure is not recorded;
- `pool_size` 0 makes one thread and no connection;
- a message over 64 KB blocks the send queue: `do_write` takes an empty batch and
  stops. `NoStall` and `EventuallySent` except exactly that (`Oversized`);
- `force_closes` counts a forced close twice;
- `guild_info_res` and `guild_member_info` step over one byte too many
  (`DoubleIncrement`; `docs/CODING_STYLE.md:318` warns of just that), and the two
  lists of structs parse each element from the same place; the
  server's handlers parse none of these four;
- the first length check of the `Underchecked` structs is smaller than what is read
  after it. The server's handlers parse none of them either;
- a frame whose length field is damaged can make the reader discard what it has, frames
  behind it included; `FrameCodec` models it and claims nothing then;
- a comment at `main_thread_manager.cpp:110` calls priority 1 high, where 0 goes
  first (`main_thread_manager.hpp:17` and `operator<`); nothing else is ever queued;
- a comment at `asio_channel.cpp:258` compacts at half the buffer or more, the code
  at more than half;
- a transfer to a map without a thread takes the player off the old map and leaves
  the table naming it, and so does destroying a map: `stranded` in `TableAgrees`;
- entities that coincide have distance 0, by which `movement_system.cpp:126` divides.

### Bounds

- Two channels are enough for an attack on another player, for one player on two
  connections and for two strands competing for a thread; two maps and one point of
  hp tell a stale save from a fresh one. `relogin` has one map: its two properties are
  about whose row is written and about saves coming to an end, not about what a save
  holds, and the third entity makes two maps too many states.
- `LoginRequests` and `StrandBound` bound the client's logins and the flushes
  waiting on a strand. With `StrandBound` 1 a logout still queues behind a flush.
- `PendingBound` 2 with three threads and two connections lets every thread be busy,
  one wait for a connection and tasks wait for a thread.
- `MaxMsgs` 3 with a queue of 4 bytes, batches of 2 and messages of 1 to 3 fills the
  queue, splits it into batches, has a write in progress meanwhile and meets a message
  that fits the queue but no batch. It also bounds pings. In `channel`
  the limits are 1, 2 and 2 units, so that every timer fires within `MaxTime` 2;
  `channel_idle` keeps the real ratio.
- Two frames, with every cut and every place for one damaged byte, have a damaged
  frame before and behind a good one. `MaxFrameBytes` 20 lets damage make a
  length too large, too small and just possible.
- Strings and lists of up to two elements and numbers of one, two and four different
  bytes tell every field of a struct from its neighbours, and its bytes from each other.
- Two maps and two operations let a chat be under way when a map is destroyed or the
  system is stopped; a cap of one monster is below the batch of three.
- Two channels, queues of two frames and four handled frames fill a queue.
- `MaxGuilds` 5 lets ids outlive their guilds.

Deadlock is checked in `map_threads` only: elsewhere channel ids, messages, time and
guild ids are used up, and a server that was stopped does nothing.

### Fairness

- `GameServer`: the io thread runs the posted continuation (weak fairness); a strand
  with a task gets a thread (strong fairness, since a thread is free only now and
  then; asio serves its queue in order).
- `DbPool`: threads keep running; `retry_delay` and `acquire` end.
- `Channel`: `io_context::run` runs every queued handler and aborts operations of a
  closed socket. The peer is assumed to keep reading, or a write might never end;
  nothing is assumed about what it sends.
- `MapThreads`: each thread that is not waiting for a mutex runs on, and the io thread
  finishes what it began; it need not call anything. Weak fairness suffices for both
  properties; nothing is assumed about who wins a mutex. No mutex is held over the
  loops' sleep of 16 ms.
- `Connections`: the io thread goes on with the handler it is in.

## Proofs

Every safety property of a passing run is also a theorem, for every value of the
constants that the modules' `ASSUME`s allow. The argument is always an inductive
invariant that strengthens the property.

`GameServerProofs` and `LogoutProofs`, for any channels, players, maps and bounds.
- `TypeCorrect`, `OwnCharacter`. `TypeOK` is not inductive: an `UPDATE` keeps the table
  well-typed only if the row exists. `TypeInv` adds that save tasks, continuations and
  table entries carry players whose row was found, that a started task is of the kind
  its progress says, and `EntityOwned`.
- `NoOrphan`. `StageInv` follows the one login of a connection: it is a task on the
  strand, then a continuation on the io thread, then an entity the tables name, and
  never two of these. A connection that logs in again is left out from that moment.
- `LogoutLast`, `NothingForgotten` and, given a DAO, `ClosedHasNoSession`. `LogoutInv`
  adds that the tables agree with the connection's state and that the farewell snapshot
  is the last task of the strand until it has run. Without a DAO `ClosedHasNoSession` is
  false: a late login frame registers the channel again.
- `OwnCharacterSaved`. `OwnRow` is inductive beside `TypeInv`: with a DAO only the login
  continuation makes entries, the entity's and the id's in one step, and whatever else
  happens erases entries or writes components whose player stays.
- `DurableLogout`. `DurableInv` adds that tasks, continuations and table entries of a
  channel carry only names that channel asked for, so that while a connection is the
  only one of its player nobody else writes the row; and what the logout's first
  statement has put there when its second one runs.

`DbPoolProofs`, for any threads and pool size. The invariant adds to the types that
an index is free at most once, held by at most one thread and never both, and that a
thread holds one exactly where the code has a live `DbConnection`; and that `open()`
adds the indices in order, with no call under way before it is done. `NeverWaits`
needs a finite set of threads no larger than the pool and counts: the thread in
`acquire` holds nothing, so fewer indices are held than there are.

`TableProofs`, on `Guild`, for any channels and id bound. `Agreement` needs `FreshIds`:
ids from `next_guild_id` on have never named a guild. `NoReuse` follows from the same.

`TableProofs`, on `Connections`, for any number of channels and any queue size:
`PointersLive`, that `game_server`'s raw pointers name channels `asio_server` still
owns, also in the middle of a broadcast; and `OnlyOverflowBlocks`, that a closed channel
is still in a table only in the situation the run `connections` finds. So that situation
is the only way for a closed channel to stay. The invariant adds that ids are handed out
in order, hence a new channel was never closed, and that `mtx_` is free between calls.

`MapThreadProofs`, for any maps, channels, caps and operations.
- `CapHolds` and `ErasedUnused`. The second needs who holds `map_threads_mutex_`: the
  main thread while it goes through the maps, so no map is erased under it, and the io
  thread while it joins; and that the maps `stop_all_map_threads` has passed have ended.
- `TableHolds`. `AgreeInv` adds that a map without a thread has only stranded players
  in the table, so that a map created again under the same id finds nobody it lacks.
- `ChatsInOrder`. `ChatInv` adds that chats wait in the order of their numbers, newer
  than every chat a map has seen or has queued; the chat being sent stands between the
  two, except for the maps it has reached.

`ChannelProofs`, for any limits, timer periods and message sizes and both evaluation
orders.
- `SingleWrite`, `OneOnClose` and `TimersEnd`. `IInv` says that `writing_` is set while
  a write is outstanding, and the order of closing: `closed_`, then the posted clean-up,
  then the socket. A timer handler looks at `closed_`, so none arms its timer once the
  socket is closed.
- `LoopAwake`, `ChannelTypes` and, when the buffer is taken before it is moved from,
  `ExactBytes`. `LoopInv` says that what `send()` took is on the wire, then being
  written, then queued, until a write fails; that `current_queue_bytes` is the size of
  the last two; and that a write that failed has closed the channel. With the other
  order `ExactBytes` is false: the handler subtracts the size of an empty buffer.
- `ChannelIsPipe`, the refinement: queueing is `Take`, bytes that go out in a write that
  ends well or badly are `Deliver`, a first `close()` is `Shut`, and every other step
  leaves the pipe alone. It holds for both orders; with the second nothing is delivered.

`FrameCodecProofs`, for any commands, payloads, size limit and number of frames, any
values a byte may change into and any CRC that satisfies `CrcAssumption`.
- `BufferBoundedAlways`, with no further assumption: bad lengths included.
- `CutsInvisibleAlways`, `DamageContainedAlways` and `HeaderUnprotectedAlways`, given
  `Fitting`, that every payload makes a frame of at most `k_max_frame_bytes`. `pack` does
  not check that, and without it they are false: the receiver discards such a frame
  with what it has of those behind it.

None of the four is inductive: what the next read delivers depends on bytes that are
still in the buffer or on the way. `IInv` adds `EndsInv`, the frames lie one behind the
other in the stream; `StreamInv`, the bytes of `acc \o wire` that belong to frame k are
those `pack` wrote, but for the changed one, for all of the frame that has not been
erased; and, while no length field is changed (`Intact`), `Synced`: the parser stands
at the end of the last frame it delivered or dropped, what it delivered is what was
sent (`Content`), and the next frame ends behind what has been read. From the bytes
up: `PackBytes` and `Header` say that `get_le16` and `get_le32` undo `put_le16` and
`put_le32`; `ParsePacked` that `try_parse_one` waits for the last byte of a packed
frame and then returns it, its verdict on the CRC false exactly for a byte changed there
or in the payload (`Verdict`); `PassSynced` and `LoopSynced` carry `Synced` through
`parse_frames_`. TLC checked `IInv` on the instance of `frame_codec` before.

`ProtocolProofs`, for any strings, lists, numbers below 2^32 and flags in the fields,
any place where a message is cut and any byte behind it.
- `RoundTripAlways`. The state invariant is small: what is on the wire is a first part
  of what `serialize()` wrote (`OnWire`), beside the two properties. The work is in `parse()`. `ConcatLaid` says
  where each field lies, `NumberBytes` that `read_le32` undoes `write_le32`, `StepRead`
  that a field whose bytes have arrived is read as it was written. `AllRead` carries
  that through all fields of a struct that satisfies `Matching`: both halves have the
  same fields in the same order, and no check asks for more bytes than the smallest
  message has from there on.
- `TruncationAlwaysRefused`. `GuardedStep` says that parsing either stays in step or has
  been refused within what arrived, if the struct satisfies `Guarded`: the bytes that
  earlier checks made sure of, less those read since, cover the next field.
- `Matching` and `Guarded` are shown struct by struct, from the layouts. The structs
  that lack one are exactly those the two properties except.

The lemmas on sizes in `ChannelProofs` say what `make_batch_`'s running sum is for
every queue. `Acc` is a recursive function; that it exists and unfolds, and that sums
agree with appending and cutting, is shown by taking the least position where it fails
(`LeastNat`), since no installed prover instantiates the library's induction rules.
`ParseLoop`, `Concat` and `Parse` are treated the same way (`PassesExist`,
`LoopInduction`; `ConcatSteps`, `ParseSteps`, `UpTo`).

Only model-checked: liveness, which is out of the prover's reach (`LogoutSettles`,
`CallReturns`, `StopCompletes`, `Released`, `EventuallySent`, `ChatReachesMaps`,
`StopEnds`). Of `Protocol` nothing is claimed, and nothing proved, about what comes back
from a list of structs that is not empty.

## Not modelled

- Movement, the positions of monsters, the AI state machine and the map system: they
  decide by distances between floating-point positions and normalised vectors, which
  integers do not reproduce. What they do to a
  session, damage to a player at any moment, is `MonsterAttack`.
- Component stores: what three kinds of thread do at once through the pointers
  `get()` returns is a data race on numbers; the model makes each damage one step.
- A crash of the process: nothing is recovered, the next start reads the players
  table as it is.
- The order in which `game_server::stop()` ends channels, threads and pool; `main.cpp`
  does not call it. `DbPool` and `MapThreads` have its effect on each part.
- The accept loop after an error or `stop()`: `do_accept` arms itself again and changes
  no table.
- Packet buffer (only tests and a benchmark create one), `Transaction` (no caller), `DbManager`
  (opens a pool per role), Redis connections, configuration, logging, start-up and
  the clients.
