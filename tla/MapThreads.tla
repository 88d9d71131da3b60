------------------------------ MODULE MapThreads ------------------------------
(***************************************************************************)
(* The threading system: MainThreadManager's thread, the MapThread of each *)
(* map and the io thread, which posts to them and starts and stops them    *)
(* (game_server's initialize_ and shutdown_threading_system, its handlers  *)
(* and the managers' public operations).                                   *)
(*                                                                         *)
(* A step is what a thread does between two points where another may get   *)
(* in: mutexes held over such a point are variables, the others (packets,  *)
(* objects, task queue, player map) make their sections single steps.      *)
(* spawn_timer_ has no mutex though main and map thread both add to it:    *)
(* that race can make any update find a spawn due or not, so the timer is  *)
(* a free choice.  The ECS update, positions, what a packet's handler logs *)
(* and the task queues nobody fills (network_tasks_, the map threads' own) *)
(* are left out.                                                           *)
(***************************************************************************)
EXTENDS Naturals, Sequences

CONSTANTS
    Maps,           \* map ids of config_.maps; 1 is get_player_map's default
    Channels,
    MaxMonsters,    \* MAX_MONSTERS
    SpawnBatch,     \* monsters spawned at a time: 3
    MaxOps          \* bound: operations the io thread calls

ASSUME MapAssumption == Maps \subseteq Nat \ {0} /\ 1 \in Maps
ASSUME SpawnAssumption == {MaxMonsters, SpawnBatch, MaxOps} \subseteq Nat

None == 0
Idle == [kind |-> "idle"]

VARIABLES
    running,        \* MainThreadManager's running_
    main,           \* where its thread is: [at, job, todo]
    global_tasks,   \* global_tasks_
    global_lock,    \* global_mutex_ is held (by the main thread)
    task_queue,     \* task_queue_, in no order
    map_lock,       \* owner of map_threads_mutex_: none, main, io
    threads,        \* keys of map_threads_
    map_running,    \* running_ of each MapThread
    at,             \* at[m]: where the map's thread is
    packet_queue,
    players,        \* local_players_
    monsters,       \* size of local_monsters_
    mapping,        \* MapThreadManager's player_map_mapping_
    io,             \* what the io thread is doing: [at, todo]
    player_map,     \* game_server's player_map_mapping_
    ops,            \* operations called so far
    handled,        \* history: the chats each map's thread has processed
    stranded        \* history: channels whose map disappeared under them

mainVars == <<running, main>>
queues == <<global_tasks, global_lock, task_queue>>
table == <<map_lock, threads, map_running>>
people == <<players, mapping, stranded>>
mail == <<packet_queue, handled>>
ioVars == <<io, player_map, ops>>
vars == <<mainVars, queues, table, at, people, monsters, mail, ioVars>>

Put(f, x, v) == [f EXCEPT ![x] = v]
Lesser(i, j) == IF i < j THEN i ELSE j
Elements(q) == {q[i] : i \in DOMAIN q}

-----------------------------------------------------------------------------
\* MapThread: the loop of thread_loop

\* The first test of the loop's condition
ThreadBegins(m) ==
    /\ at[m] = "new"
    /\ at' = Put(at, m, IF map_running[m] THEN "packets" ELSE "ended")
    /\ UNCHANGED <<mainVars, queues, table, people, monsters, mail, ioVars>>

\* process_packets takes the packets one by one; what a chat does is seen in handled.
process_single_packet(m, p) ==
    handled' = IF p.kind = "chat" THEN Put(handled, m, Append(handled[m], p)) ELSE handled

ProcessPacket_dropped(m) ==
    /\ at[m] = "packets" /\ packet_queue[m] # <<>>
    /\ packet_queue' = Put(packet_queue, m, Tail(packet_queue[m]))
    /\ UNCHANGED <<mainVars, queues, table, at, people, monsters, handled, ioVars>>
ProcessPacket(m) ==
    /\ at[m] = "packets" /\ packet_queue[m] # <<>>
    /\ packet_queue' = Put(packet_queue, m, Tail(packet_queue[m]))
    /\ process_single_packet(m, Head(packet_queue[m]))
    /\ UNCHANGED <<mainVars, queues, table, at, people, monsters, ioVars>>

PacketsDone(m) ==
    /\ at[m] = "packets" /\ packet_queue[m] = <<>>
    /\ at' = Put(at, m, "update")
    /\ UNCHANGED <<mainVars, queues, table, people, monsters, mail, ioVars>>

\* spawn_monsters on either thread: the timer decides without a mutex, what is
\* spawned is counted under objects_mutex_.
SpawnFullBatch(m) ==
    monsters' = IF monsters[m] >= MaxMonsters THEN monsters
                ELSE Put(monsters, m, monsters[m] + SpawnBatch)
Spawn(m) ==
    monsters' = IF monsters[m] >= MaxMonsters THEN monsters
                ELSE Put(monsters, m, monsters[m] + Lesser(SpawnBatch, MaxMonsters - monsters[m]))

\* update_map (but for the positions of the monsters), the pause, and the loop's
\* condition.
ThreadUpdate(m) ==
    /\ at[m] = "update"
    /\ Spawn(m) \/ UNCHANGED monsters
    /\ at' = Put(at, m, IF map_running[m] THEN "packets" ELSE "ended")
    /\ UNCHANGED <<mainVars, queues, table, people, mail, ioVars>>

MapThread(m) == ThreadBegins(m) \/ ProcessPacket(m) \/ PacketsDone(m) \/ ThreadUpdate(m)

-----------------------------------------------------------------------------
\* MainThreadManager: the loop of main_loop

Go(place) == main' = [main EXCEPT !.at = place]

\* The loop's condition and the lock of process_global_systems, which holds
\* global_mutex_ while the tasks run
MainTop ==
    /\ main.at = "top"
    /\ global_lock' = running
    /\ Go(IF running THEN "globals" ELSE "ended")
    /\ UNCHANGED <<running, global_tasks, task_queue, table, at, people, monsters, mail, ioVars>>

\* global_tasks_.front() and pop()
NextGlobal_lifo == [task |-> global_tasks[Len(global_tasks)],
                    rest |-> SubSeq(global_tasks, 1, Len(global_tasks) - 1)]
NextGlobal == [task |-> Head(global_tasks), rest |-> Tail(global_tasks)]

GlobalsDone ==
    /\ main.at = "globals" /\ global_tasks = <<>>
    /\ global_lock' = FALSE
    /\ Go("tasks")
    /\ UNCHANGED <<running, global_tasks, task_queue, table, at, people, monsters, mail, ioVars>>

\* A chat task reads the active maps, then sends to them one by one.
GlobalTask ==
    /\ main.at = "globals" /\ global_tasks # <<>> /\ map_lock = "none"
    /\ global_tasks' = NextGlobal.rest
    /\ main' = [at |-> "chat", job |-> NextGlobal.task,
                todo |-> {m \in threads : map_running[m]}]
    /\ UNCHANGED <<running, global_lock, task_queue, table, at, people, monsters, mail, ioVars>>

\* send_packet_to_map drops a packet for a map without a thread.
Deliver(m, packet) ==
    packet_queue' = IF m \in threads
                    THEN Put(packet_queue, m, Append(packet_queue[m], packet))
                    ELSE packet_queue

ChatSend ==
    /\ main.at = "chat" /\ map_lock = "none"
    /\ \E m \in main.todo : /\ Deliver(m, main.job)
                            /\ main' = [main EXCEPT !.todo = @ \ {m}]
    /\ UNCHANGED <<running, queues, table, at, people, monsters, handled, ioVars>>

ChatSent ==
    /\ main.at = "chat" /\ main.todo = {}
    /\ main' = [main EXCEPT !.at = "globals", !.job = Idle]
    /\ UNCHANGED <<running, queues, table, at, people, monsters, mail, ioVars>>

\* process_task_queue: the priority queue gives a task with the lowest number,
\* any of them if there are several, and runs it without the mutex.
Runs(t) == \A u \in task_queue : t.priority <= u.priority

TakeTask ==
    /\ main.at = "tasks"
    /\ \E t \in task_queue : /\ Runs(t)
                             /\ task_queue' = task_queue \ {t}
                             /\ main' = [main EXCEPT !.at = "task", !.job = t]
    /\ UNCHANGED <<running, global_tasks, global_lock, table, at, people, monsters, mail, ioVars>>

TasksDone ==
    /\ main.at = "tasks" /\ task_queue = {}
    /\ Go("update")
    /\ UNCHANGED <<running, queues, table, at, people, monsters, mail, ioVars>>

\* MapThreadManager::move_player_to_map leaves the old map before it looks for
\* the new one, and writes the table only if there is a new one.
AddPlayer(m, c, ps) == [ps EXCEPT ![m] = @ \cup {c}]
RemovePlayer(m, c, ps) == [ps EXCEPT ![m] = @ \ {c}]

move_player_add_first(c, from, to) ==
    /\ players' = LET both == IF to \in threads THEN AddPlayer(to, c, players) ELSE players
                  IN  IF from \in threads THEN RemovePlayer(from, c, both) ELSE both
    /\ mapping' = IF to \in threads THEN Put(mapping, c, to) ELSE mapping
    /\ stranded' = IF to \in threads THEN stranded \ {c} ELSE stranded \cup {c}
move_player_to_map(c, from, to) ==
    /\ players' = LET left == IF from \in threads THEN RemovePlayer(from, c, players) ELSE players
                  IN  IF to \in threads THEN AddPlayer(to, c, left) ELSE left
    /\ mapping' = IF to \in threads THEN Put(mapping, c, to) ELSE mapping
    /\ stranded' = IF to \in threads THEN stranded \ {c} ELSE stranded \cup {c}

RunTask ==
    /\ main.at = "task" /\ map_lock = "none"
    /\ move_player_to_map(main.job.c, main.job.from, main.job.to)
    /\ main' = [main EXCEPT !.at = "tasks", !.job = Idle]
    /\ UNCHANGED <<running, queues, table, at, monsters, mail, ioVars>>

\* update_all_map_threads: update_map of every map under map_threads_mutex_
UpdateLock ==
    /\ main.at = "update" /\ map_lock = "none"
    /\ map_lock' = "main"
    /\ main' = [main EXCEPT !.at = "maps", !.todo = {m \in threads : map_running[m]}]
    /\ UNCHANGED <<running, queues, threads, map_running, at, people, monsters, mail, ioVars>>

UpdateMap ==
    /\ \/ /\ main.at = "maps"
          /\ \E m \in main.todo : main' = [at |-> "spawn", job |-> m, todo |-> main.todo \ {m}]
          /\ UNCHANGED monsters
       \/ /\ main.at = "spawn"
          /\ Spawn(main.job) \/ UNCHANGED monsters
          /\ main' = [main EXCEPT !.at = "maps", !.job = Idle]
    /\ UNCHANGED <<running, queues, table, at, people, mail, ioVars>>

UpdateDone ==
    /\ main.at = "maps" /\ main.todo = {}
    /\ map_lock' = "none"
    /\ Go("top")
    /\ UNCHANGED <<running, queues, threads, map_running, at, people, monsters, mail, ioVars>>

MainThread ==
    \/ MainTop \/ GlobalTask \/ ChatSend \/ ChatSent \/ GlobalsDone
    \/ TakeTask \/ RunTask \/ TasksDone
    \/ UpdateLock \/ UpdateMap \/ UpdateDone

-----------------------------------------------------------------------------
\* The io thread

\* initialize_threading_system: the main thread runs before the maps exist.
Start ==
    /\ io.at = "new"
    /\ running' = TRUE /\ main' = [main EXCEPT !.at = "top"]
    /\ io' = [at |-> "creating", todo |-> Maps]
    /\ UNCHANGED <<queues, table, at, people, monsters, mail, player_map, ops>>

\* create_map_thread: a fresh MapThread, whose thread starts at once
Created(m) ==
    /\ map_lock = "none" /\ m \notin threads
    /\ threads' = threads \cup {m}
    /\ map_running' = Put(map_running, m, TRUE)
    /\ at' = Put(at, m, "new")
    /\ players' = Put(players, m, {})
    /\ packet_queue' = Put(packet_queue, m, <<>>)
    /\ monsters' = Put(monsters, m, 0)
    /\ UNCHANGED <<mainVars, queues, map_lock, mapping, stranded, handled, player_map>>

Create ==
    /\ io.at = "creating" /\ \E m \in io.todo : Created(m) /\ io' = [io EXCEPT !.todo = @ \ {m}]
    /\ UNCHANGED ops
Serve ==
    /\ io.at = "creating" /\ io.todo = {}
    /\ io' = [io EXCEPT !.at = "serving"]
    /\ UNCHANGED <<mainVars, queues, table, at, people, monsters, mail, player_map, ops>>

\* An operation of a public interface; each posted thing carries its number.
Call == io.at = "serving" /\ ops < MaxOps /\ ops' = ops + 1

CreateAgain(m) == Call /\ Created(m) /\ UNCHANGED io

\* route_packet_to_map, for a handler of a movement or combat message
Route(c) ==
    /\ Call /\ map_lock = "none"
    /\ Deliver(player_map[c], [kind |-> "packet", n |-> ops])
    /\ UNCHANGED <<mainVars, queues, table, at, people, monsters, handled, io, player_map>>

\* handle_map_enter changes the server's own table only.
MapEnter(c, m) ==
    /\ Call
    /\ player_map' = Put(player_map, c, m)
    /\ UNCHANGED <<mainVars, queues, table, at, people, monsters, mail, io>>

\* handle_global_chat waits for global_mutex_.
Chat ==
    /\ Call /\ ~global_lock
    /\ global_tasks' = Append(global_tasks, [kind |-> "chat", n |-> ops])
    /\ UNCHANGED <<mainVars, global_lock, task_queue, table, at, people, monsters, mail, io, player_map>>

\* handle_map_transfer adds a task of priority 1.
Transfer(c, from, to) ==
    /\ Call
    /\ task_queue' = task_queue \cup {[priority |-> 1, n |-> ops, c |-> c, from |-> from, to |-> to]}
    /\ UNCHANGED <<mainVars, global_tasks, global_lock, table, at, people, monsters, mail, io, player_map>>

add_player_to_map(m, c) ==
    /\ Call /\ map_lock = "none"
    /\ m \in threads
    /\ players' = AddPlayer(m, c, players)
    /\ mapping' = Put(mapping, c, m)
    /\ stranded' = stranded \ {c}
    /\ UNCHANGED <<mainVars, queues, table, at, monsters, mail, io, player_map>>

remove_player_from_map(m, c) ==
    /\ Call /\ map_lock = "none"
    /\ m \in threads
    /\ players' = RemovePlayer(m, c, players)
    /\ mapping' = Put(mapping, c, None)
    /\ stranded' = stranded \ {c}
    /\ UNCHANGED <<mainVars, queues, table, at, monsters, mail, io, player_map>>

\* destroy_map_thread stops and joins the thread with map_threads_mutex_ held;
\* the table keeps the players of the map.
destroy_map_thread(m) ==
    /\ Call /\ map_lock = "none"
    /\ m \in threads
    /\ map_lock' = "io"
    /\ map_running' = Put(map_running, m, FALSE)
    /\ io' = [at |-> "joining", todo |-> {m}]
    /\ UNCHANGED <<mainVars, queues, threads, at, people, monsters, mail, player_map>>

Destroyed_unjoined ==
    /\ io.at = "joining"
    /\ threads' = threads \ io.todo
    /\ stranded' = stranded \cup {c \in Channels : mapping[c] \in io.todo}
    /\ map_lock' = "none"
    /\ io' = [at |-> "serving", todo |-> {}]
    /\ UNCHANGED <<mainVars, queues, map_running, at, players, mapping, monsters, mail, player_map, ops>>
Destroyed ==
    /\ io.at = "joining" /\ \A m \in io.todo : at[m] = "ended"
    /\ threads' = threads \ io.todo
    /\ stranded' = stranded \cup {c \in Channels : mapping[c] \in io.todo}
    /\ map_lock' = "none"
    /\ io' = [at |-> "serving", todo |-> {}]
    /\ UNCHANGED <<mainVars, queues, map_running, at, players, mapping, monsters, mail, player_map, ops>>

\* MainThreadManager::stop joins the main thread, then stop_all_map_threads
\* stops and joins the maps one after another.
Stop_running ==
    /\ io.at = "serving"
    /\ io' = [io EXCEPT !.at = "join"]
    /\ UNCHANGED <<mainVars, queues, table, at, people, monsters, mail, player_map, ops>>
Stop ==
    /\ io.at = "serving"
    /\ running' = FALSE
    /\ io' = [io EXCEPT !.at = "join"]
    /\ UNCHANGED <<main, queues, table, at, people, monsters, mail, player_map, ops>>

StopAll ==
    /\ io.at = "join" /\ main.at = "ended" /\ map_lock = "none"
    /\ map_lock' = "io"
    /\ io' = [at |-> "stopping", todo |-> threads]
    /\ UNCHANGED <<mainVars, queues, threads, map_running, at, people, monsters, mail, player_map, ops>>

StopMap ==
    /\ io.at = "stopping" /\ \A m \in io.todo : map_running[m]
    /\ \E m \in io.todo : map_running' = Put(map_running, m, FALSE)
    /\ UNCHANGED <<mainVars, queues, map_lock, threads, at, people, monsters, mail, ioVars>>

JoinMap ==
    /\ io.at = "stopping"
    /\ \E m \in io.todo : /\ ~map_running[m] /\ at[m] = "ended"
                          /\ io' = [io EXCEPT !.todo = @ \ {m}]
    /\ UNCHANGED <<mainVars, queues, table, at, people, monsters, mail, player_map, ops>>

Stopped ==
    /\ io.at = "stopping" /\ io.todo = {}
    /\ threads' = {} /\ map_lock' = "none"
    /\ io' = [io EXCEPT !.at = "stopped"]
    /\ UNCHANGED <<mainVars, queues, map_running, at, people, monsters, mail, player_map, ops>>

\* The system has stopped; nothing uses the managers again.
Rest == io.at = "stopped" /\ UNCHANGED vars

Operation ==
    \/ \E c \in Channels : \/ Route(c)
                           \/ \E m \in Maps : MapEnter(c, m)
                           \/ \E from, to \in Maps : Transfer(c, from, to)
                           \/ \E m \in Maps : add_player_to_map(m, c) \/ remove_player_from_map(m, c)
    \/ Chat
    \/ \E m \in Maps : CreateAgain(m) \/ destroy_map_thread(m)

\* What the io thread has begun
IoThread == Start \/ Create \/ Serve \/ Destroyed \/ StopAll \/ StopMap \/ JoinMap \/ Stopped

-----------------------------------------------------------------------------
Each(v) == [m \in Maps |-> v]

Init ==
    /\ running = FALSE
    /\ main = [at |-> "off", job |-> Idle, todo |-> {}]
    /\ global_tasks = <<>> /\ global_lock = FALSE /\ task_queue = {}
    /\ map_lock = "none" /\ threads = {} /\ map_running = Each(FALSE)
    /\ at = Each("ended")
    /\ packet_queue = Each(<<>>) /\ handled = Each(<<>>)
    /\ players = Each({}) /\ monsters = Each(0)
    /\ mapping = [c \in Channels |-> None] /\ player_map = [c \in Channels |-> 1]
    /\ io = [at |-> "new", todo |-> {}] /\ ops = 0 /\ stranded = {}

Next == MainThread \/ (\E m \in Maps : MapThread(m)) \/ IoThread \/ Operation \/ Stop \/ Rest

Spec == Init /\ [][Next]_vars

\* Every thread that is not blocked runs on: the loops sleep 16 ms, no mutex is
\* held over a sleep, and the io thread finishes what it has begun.
FairSpec == /\ Spec
            /\ WF_vars(MainThread) /\ WF_vars(IoThread)
            /\ \A m \in Maps : WF_vars(MapThread(m))

-----------------------------------------------------------------------------
\* Main and map thread race on spawn_timer_ and may both find a spawn due; the
\* map still never holds more than MAX_MONSTERS, because the room left is
\* counted under objects_mutex_ (spawn_monsters).
MonsterCap == \A m \in Maps : monsters[m] <= MaxMonsters

\* No thread works on a MapThread that is gone: neither the main thread inside
\* update_all_map_threads nor the map's own thread, which destroy_map_thread and
\* stop_all_map_threads join before they erase the map.
NoUseAfterErase ==
    /\ main.at = "spawn" => main.job \in threads
    /\ \A m \in Maps : at[m] # "ended" => m \in threads

\* A player the table places on a map is among the map's own players, except for
\* those whose transfer had no target or whose map was destroyed: both leave the
\* table behind (move_player_to_map, destroy_map_thread).
TableAgrees ==
    \A c \in Channels : mapping[c] \in threads /\ c \notin stranded => c \in players[mapping[c]]

Ordered(q) ==
    \A i, j \in DOMAIN q : i < j /\ q[i].kind = "chat" /\ q[j].kind = "chat" => q[i].n < q[j].n

\* Every map sees global chats in the order they were posted, though they pass
\* three queues and two threads on the way (handle_global_chat, add_packet,
\* process_packets).
ChatOrder == \A m \in Maps : Ordered(handled[m] \o packet_queue[m])

\* A chat posted while a map runs is processed on that map, unless the map or the
\* system is stopped first (process_global_systems, process_packets).
ChatReachesMaps ==
    \A m \in Maps, n \in 0 .. MaxOps - 1 :
        LET chat == [kind |-> "chat", n |-> n]
        IN  (map_running[m] /\ chat \in Elements(global_tasks))
                ~> (chat \in Elements(handled[m]) \/ ~map_running[m] \/ ~running)

\* stop ends: the main thread and every map's thread leave their loops and are
\* joined, whatever was queued and whichever mutex was held when it was called
\* (MainThreadManager::stop, stop_all_map_threads).
StopEnds == io.at = "join" ~> io.at = "stopped" /\ main.at = "ended" /\ \A m \in Maps : at[m] = "ended"

=============================================================================
