--------------------------- MODULE MapThreadProofs ---------------------------
(***************************************************************************)
(* The safety invariants of module MapThreads, for any maps, channels,     *)
(* caps and number of operations.                                          *)
(*                                                                         *)
(* NoUseAfterErase is not inductive: it needs who holds                    *)
(* map_threads_mutex_ while the main thread updates maps and while the io  *)
(* thread joins, and that the maps stop_all_map_threads has passed have    *)
(* ended.  TableAgrees needs that a map created again finds no player      *)
(* placed on it (AgreeInv), ChatOrder that every chat queued is newer than *)
(* those its map has seen, the one being sent included (ChatInv).          *)
(***************************************************************************)
EXTENDS MapThreads, SequenceTheorems, TLAPS

USE SMTT(30)

Places == {"new", "packets", "update", "ended"}

TypeInv ==
    /\ threads \subseteq Maps
    /\ at \in [Maps -> Places]
    /\ monsters \in [Maps -> Nat]
    /\ main = [at |-> main.at, job |-> main.job, todo |-> main.todo]
    /\ io = [at |-> io.at, todo |-> io.todo]

\* The main thread goes through maps of the table, with the mutex.
MainInv ==
    /\ main.at \in {"maps", "spawn"} => map_lock = "main" /\ main.todo \subseteq threads
    /\ main.at = "spawn" => main.job \in threads

\* The io thread creates maps of the configuration and joins threads with the mutex.
IoInv ==
    /\ io.at \in {"joining", "stopping"} => map_lock = "io"
    /\ io.at = "creating" => io.todo \subseteq Maps
    /\ io.at = "stopping" => \A m \in threads \ io.todo : at[m] = "ended"

ThreadInv == \A m \in Maps : at[m] # "ended" => m \in threads

IInv == TypeInv /\ MainInv /\ IoInv /\ ThreadInv /\ MonsterCap

\* The variables of IInv, but for the monsters
control == <<main, map_lock, threads, at, io>>

-----------------------------------------------------------------------------
\* A spawn on a map of the table keeps to the cap.
LEMMA SpawnCap ==
    ASSUME monsters \in [Maps -> Nat], MonsterCap, NEW m \in Maps,
           Spawn(m) \/ UNCHANGED monsters
    PROVE  monsters' \in [Maps -> Nat] /\ MonsterCap'
<1>1. CASE monsters' = monsters
    BY <1>1 DEF MonsterCap
<1>2. CASE Spawn(m) /\ monsters[m] < MaxMonsters
    <2> DEFINE more == Lesser(SpawnBatch, MaxMonsters - monsters[m])
    <2>1. more \in Nat /\ monsters[m] + more <= MaxMonsters
        BY <1>2, SpawnAssumption DEF Lesser
    <2>2. monsters' = [monsters EXCEPT ![m] = monsters[m] + more]
        BY <1>2, SpawnAssumption DEF Spawn, Put
    <2> HIDE DEF more
    <2> QED BY <2>1, <2>2, SpawnAssumption DEF MonsterCap
<1>3. CASE Spawn(m) /\ ~(monsters[m] < MaxMonsters)
    <2>1. monsters' = monsters
        BY <1>3, SpawnAssumption DEF Spawn
    <2> QED BY <2>1 DEF MonsterCap
<1> QED BY <1>1, <1>2, <1>3

\* A step that leaves the variables of the invariant alone
LEMMA Frame ==
    ASSUME IInv, UNCHANGED control, UNCHANGED monsters
    PROVE  IInv'
BY DEF IInv, TypeInv, MainInv, IoInv, ThreadInv, MonsterCap, control

\* A step of the main thread that ends outside the update of the maps
LEMMA MainFrame ==
    ASSUME IInv, UNCHANGED <<map_lock, threads, at, io, monsters>>,
           main' = [at |-> main'.at, job |-> main'.job, todo |-> main'.todo],
           main'.at \notin {"maps", "spawn"}
    PROVE  IInv'
BY DEF IInv, TypeInv, MainInv, IoInv, ThreadInv, MonsterCap

\* Initially there is no thread.
LEMMA InitInv == Init => IInv
<1> SUFFICES ASSUME Init PROVE IInv
    OBVIOUS
<1>1. /\ threads = {}
      /\ at = [m \in Maps |-> "ended"] /\ monsters = [m \in Maps |-> 0]
      /\ main = [at |-> "off", job |-> Idle, todo |-> {}]
      /\ io = [at |-> "new", todo |-> {}]
    BY DEF Init, Each
<1>2. TypeInv /\ MainInv /\ IoInv /\ ThreadInv
    BY <1>1 DEF TypeInv, MainInv, IoInv, ThreadInv, Places
<1>3. MonsterCap
    <2>1. 0 <= MaxMonsters
        <3>1. MaxMonsters \in Nat
            BY SpawnAssumption
        <3> QED BY <3>1
    <2>2. SUFFICES ASSUME NEW m \in Maps PROVE monsters[m] <= MaxMonsters
        BY Zenon DEF MonsterCap
    <2>3. monsters[m] = 0
        BY <1>1
    <2> QED BY <2>1, <2>3
<1> QED BY <1>2, <1>3 DEF IInv

-----------------------------------------------------------------------------
\* A map's own thread
LEMMA MapThreadStep ==
    ASSUME IInv, NEW m \in Maps, MapThread(m)
    PROVE  IInv'
<1> USE DEF IInv, TypeInv, MainInv, IoInv, ThreadInv, Places
<1>1. CASE ProcessPacket(m)
    BY <1>1, Frame DEF ProcessPacket, control, mainVars, table, ioVars
<1>2. CASE ThreadBegins(m) \/ PacketsDone(m) \/ ThreadUpdate(m)
    <2>1. UNCHANGED <<main, map_lock, threads, io>>
        BY <1>2 DEF ThreadBegins, PacketsDone, ThreadUpdate, mainVars, table, ioVars
    <2>2. at[m] # "ended" /\ at' = [at EXCEPT ![m] = at'[m]] /\ at'[m] \in Places
        <3>1. CASE ThreadBegins(m)
            BY <3>1 DEF ThreadBegins, Put
        <3>2. CASE PacketsDone(m)
            BY <3>2 DEF PacketsDone, Put
        <3>3. CASE ThreadUpdate(m)
            BY <3>3 DEF ThreadUpdate, Put
        <3> QED BY <1>2, <3>1, <3>2, <3>3
    <2>3. Spawn(m) \/ UNCHANGED monsters
        BY <1>2 DEF ThreadBegins, PacketsDone, ThreadUpdate
    <2>4. monsters' \in [Maps -> Nat] /\ MonsterCap'
        BY <2>3, SpawnCap
    <2>5. at' \in [Maps -> Places] /\ \A n \in Maps : n # m => at'[n] = at[n]
        BY <2>2
    <2>6. m \in threads
        BY <2>2
    <2>7. io.at = "stopping" => m \in io.todo
        BY <2>2, <2>6
    <2> QED BY <2>1, <2>4, <2>5, <2>6, <2>7
<1> QED BY <1>1, <1>2 DEF MapThread

-----------------------------------------------------------------------------
\* The main thread
LEMMA MainThreadStep ==
    ASSUME IInv, MainThread
    PROVE  IInv'
<1>t. main = [at |-> main.at, job |-> main.job, todo |-> main.todo]
    BY DEF IInv, TypeInv
<1>1. CASE MainTop \/ GlobalsDone \/ TasksDone
    <2>1. UNCHANGED <<map_lock, threads, at, io, monsters>>
        BY <1>1 DEF MainTop, GlobalsDone, TasksDone, table, ioVars
    <2>2. \E place \in {"globals", "ended", "tasks", "update"} : main' = [main EXCEPT !.at = place]
        BY <1>1 DEF MainTop, GlobalsDone, TasksDone, Go
    <2> QED BY <1>t, <2>1, <2>2, MainFrame
<1>2. CASE GlobalTask
    <2>1. UNCHANGED <<map_lock, threads, at, io, monsters>>
        BY <1>2 DEF GlobalTask, table, ioVars
    <2> QED BY <1>2, <2>1, MainFrame DEF GlobalTask
<1>3. CASE ChatSend \/ ChatSent
    <2>1. UNCHANGED <<map_lock, threads, at, io, monsters>>
        BY <1>3 DEF ChatSend, ChatSent, table, ioVars
    <2>2. main'.at \in {"chat", "globals"} /\ main' = [at |-> main'.at, job |-> main'.job, todo |-> main'.todo]
        BY <1>t, <1>3, ZenonT(40) DEF ChatSend, ChatSent
    <2> QED BY <2>1, <2>2, MainFrame
<1>4. CASE TakeTask \/ RunTask
    <2>1. UNCHANGED <<map_lock, threads, at, io, monsters>>
        BY <1>4, Zenon DEF TakeTask, RunTask, table, ioVars
    <2>2. main'.at \in {"task", "tasks"} /\ main' = [at |-> main'.at, job |-> main'.job, todo |-> main'.todo]
        BY <1>t, <1>4, Zenon DEF TakeTask, RunTask
    <2> QED BY <2>1, <2>2, MainFrame
<1>5. CASE UpdateLock
    <2>1. UNCHANGED <<threads, at, io, monsters>> /\ map_lock = "none" /\ map_lock' = "main"
        BY <1>5 DEF UpdateLock, ioVars
    <2>2. main' = [at |-> "maps", job |-> main.job, todo |-> {m \in threads : map_running[m]}]
        BY <1>t, <1>5, Zenon DEF UpdateLock
    <2> QED BY <2>1, <2>2 DEF IInv, TypeInv, MainInv, IoInv, ThreadInv, MonsterCap
<1>6. CASE UpdateMap
    <2>1. UNCHANGED <<map_lock, threads, at, io>>
        BY <1>6 DEF UpdateMap, table, ioVars
    <2>2. CASE main.at = "maps"
        <3>1. UNCHANGED monsters
            BY <1>6, <2>2 DEF UpdateMap
        <3>2. PICK m \in main.todo : main' = [at |-> "spawn", job |-> m, todo |-> main.todo \ {m}]
            BY <1>6, <2>2 DEF UpdateMap
        <3> QED BY <2>1, <2>2, <3>1, <3>2 DEF IInv, TypeInv, MainInv, IoInv, ThreadInv, MonsterCap
    <2>3. CASE main.at = "spawn"
        <3>1. main.job \in Maps
            BY <2>3 DEF IInv, TypeInv, MainInv
        <3>2. Spawn(main.job) \/ UNCHANGED monsters
            BY <1>6, <2>3 DEF UpdateMap
        <3>3. monsters' \in [Maps -> Nat] /\ MonsterCap'
            BY <3>1, <3>2, SpawnCap DEF IInv, TypeInv
        <3>4. main' = [at |-> "maps", job |-> Idle, todo |-> main.todo]
            BY <1>t, <1>6, <2>3, Zenon DEF UpdateMap
        <3> QED BY <2>1, <2>3, <3>3, <3>4 DEF IInv, TypeInv, MainInv, IoInv, ThreadInv
    <2> QED BY <1>6, <2>2, <2>3 DEF UpdateMap
<1>7. CASE UpdateDone
    <2>1. UNCHANGED <<threads, at, io, monsters>> /\ main.at = "maps" /\ map_lock' = "none"
        BY <1>7 DEF UpdateDone, ioVars
    <2>2. main' = [at |-> "top", job |-> main.job, todo |-> main.todo]
        BY <1>t, <1>7 DEF UpdateDone, Go
    <2> QED BY <2>1, <2>2 DEF IInv, TypeInv, MainInv, IoInv, ThreadInv, MonsterCap
<1> QED BY <1>1, <1>2, <1>3, <1>4, <1>5, <1>6, <1>7 DEF MainThread

-----------------------------------------------------------------------------
\* A new MapThread, at the start or later
LEMMA CreatedStep ==
    ASSUME IInv, NEW m \in Maps, Created(m), NEW S \in SUBSET Maps,
           io' = io \/ (io.at = "creating" /\ io' = [at |-> "creating", todo |-> S])
    PROVE  IInv'
<1>1. UNCHANGED main /\ map_lock = "none" /\ map_lock' = "none" /\ threads' = threads \cup {m}
    BY DEF Created, mainVars
<1>2. at' = [at EXCEPT ![m] = "new"] /\ monsters' = [monsters EXCEPT ![m] = 0]
    BY DEF Created, Put
<1>3. MaxMonsters \in Nat
    BY SpawnAssumption
<1>4. monsters' \in [Maps -> Nat] /\ MonsterCap'
    BY <1>2, <1>3 DEF IInv, TypeInv, MonsterCap
<1>5. at' \in [Maps -> Places] /\ \A n \in Maps : n # m => at'[n] = at[n]
    BY <1>2 DEF IInv, TypeInv, Places
<1> QED BY <1>1, <1>4, <1>5 DEF IInv, TypeInv, MainInv, IoInv, ThreadInv

\* The io thread
LEMMA IoThreadStep ==
    ASSUME IInv, IoThread
    PROVE  IInv'
<1>t. io = [at |-> io.at, todo |-> io.todo] /\ main = [at |-> main.at, job |-> main.job, todo |-> main.todo]
    BY DEF IInv, TypeInv
<1>1. CASE Start
    <2>1. UNCHANGED <<map_lock, threads, at, monsters>> /\ io' = [at |-> "creating", todo |-> Maps]
        BY <1>1 DEF Start, table
    <2>2. main' = [at |-> "top", job |-> main.job, todo |-> main.todo]
        BY <1>t, <1>1 DEF Start
    <2> QED BY <2>1, <2>2 DEF IInv, TypeInv, MainInv, IoInv, ThreadInv, MonsterCap
<1>2. CASE Create
    <2>1. PICK m \in io.todo : Created(m) /\ io' = [io EXCEPT !.todo = @ \ {m}]
        BY <1>2 DEF Create
    <2>2. io.at = "creating" /\ io.todo \subseteq Maps
        BY <1>2 DEF Create, IInv, IoInv
    <2>3. io' = [at |-> "creating", todo |-> io.todo \ {m}]
        BY <1>t, <2>1, <2>2
    <2> QED BY <2>1, <2>2, <2>3, CreatedStep, Zenon
<1>3. CASE Serve
    <2>1. UNCHANGED <<main, map_lock, threads, at, monsters>> /\ io'.at = "serving"
          /\ io' = [at |-> io'.at, todo |-> io'.todo]
        BY <1>t, <1>3 DEF Serve, mainVars, table
    <2> QED BY <2>1 DEF IInv, TypeInv, MainInv, IoInv, ThreadInv, MonsterCap
<1>4. CASE Destroyed
    <2>1. /\ io.at = "joining" /\ \A m \in io.todo : at[m] = "ended"
          /\ threads' = threads \ io.todo
          /\ io' = [at |-> "serving", todo |-> {}]
          /\ UNCHANGED <<main, at, monsters>>
        BY <1>4 DEF Destroyed, mainVars
    <2>2. main.at \notin {"maps", "spawn"}
        BY <2>1 DEF IInv, MainInv, IoInv
    <2> QED BY <2>1, <2>2 DEF IInv, TypeInv, MainInv, IoInv, ThreadInv, MonsterCap
<1>5. CASE StopAll
    <2>1. /\ map_lock = "none" /\ map_lock' = "io"
          /\ io' = [at |-> "stopping", todo |-> threads]
          /\ UNCHANGED <<main, threads, at, monsters>>
        BY <1>5 DEF StopAll, mainVars
    <2> QED BY <2>1 DEF IInv, TypeInv, MainInv, IoInv, ThreadInv, MonsterCap
<1>6. CASE StopMap
    BY <1>6, Frame DEF StopMap, control, mainVars, ioVars
<1>7. CASE JoinMap
    <2>1. PICK m \in io.todo : at[m] = "ended" /\ io' = [io EXCEPT !.todo = @ \ {m}]
        BY <1>7 DEF JoinMap
    <2>2. io.at = "stopping" /\ io' = [at |-> "stopping", todo |-> io.todo \ {m}]
        BY <1>t, <1>7, <2>1 DEF JoinMap
    <2>3. UNCHANGED <<main, map_lock, threads, at, monsters>>
        BY <1>7 DEF JoinMap, mainVars, table
    <2> QED BY <2>1, <2>2, <2>3, Zenon DEF IInv, TypeInv, MainInv, IoInv, ThreadInv, MonsterCap
<1>8. CASE Stopped
    <2>1. /\ io.at = "stopping" /\ io.todo = {} /\ threads' = {}
          /\ io' = [at |-> "stopped", todo |-> io.todo]
          /\ UNCHANGED <<main, at, monsters>>
        BY <1>t, <1>8 DEF Stopped, mainVars
    <2>2. main.at \notin {"maps", "spawn"} /\ \A m \in Maps : at[m] = "ended"
        BY <2>1 DEF IInv, MainInv, IoInv, ThreadInv
    <2> QED BY <2>1, <2>2 DEF IInv, TypeInv, MainInv, IoInv, ThreadInv, MonsterCap
<1> QED BY <1>1, <1>2, <1>3, <1>4, <1>5, <1>6, <1>7, <1>8 DEF IoThread

\* The operations it calls: only those on the threads touch the invariant.
LEMMA OperationStep ==
    ASSUME IInv, Operation
    PROVE  IInv'
<1>1. CASE \E c \in Channels : Route(c) \/ \E m \in Maps : MapEnter(c, m)
    <2>1. UNCHANGED control /\ UNCHANGED monsters
        BY <1>1 DEF Route, MapEnter, control, mainVars, table
    <2> QED BY <2>1, Frame
<1>2. CASE \E c \in Channels, from, to \in Maps : Transfer(c, from, to)
    <2>1. UNCHANGED control /\ UNCHANGED monsters
        BY <1>2 DEF Transfer, control, mainVars, table
    <2> QED BY <2>1, Frame
<1>3. CASE \E c \in Channels, m \in Maps : add_player_to_map(m, c) \/ remove_player_from_map(m, c)
    <2>1. UNCHANGED control /\ UNCHANGED monsters
        BY <1>3 DEF add_player_to_map, remove_player_from_map, control, mainVars, table
    <2> QED BY <2>1, Frame
<1>4. CASE Chat
    BY <1>4, Frame DEF Chat, control, mainVars, table
<1>5. ASSUME NEW m \in Maps, CreateAgain(m) PROVE IInv'
    <2>1. Created(m) /\ io' = io /\ {} \in SUBSET Maps
        BY <1>5 DEF CreateAgain
    <2> QED BY <2>1, CreatedStep
<1>6. ASSUME NEW m \in Maps, destroy_map_thread(m) PROVE IInv'
    <2>1. /\ map_lock = "none" /\ map_lock' = "io"
          /\ io' = [at |-> "joining", todo |-> {m}]
          /\ UNCHANGED <<main, threads, at, monsters>>
        BY <1>6 DEF destroy_map_thread, mainVars
    <2> QED BY <2>1 DEF IInv, TypeInv, MainInv, IoInv, ThreadInv, MonsterCap
<1> QED BY <1>1, <1>2, <1>3, <1>4, <1>5, <1>6 DEF Operation

\* Every step keeps the invariant.
LEMMA StepInv == IInv /\ [Next]_vars => IInv'
<1> SUFFICES ASSUME IInv, [Next]_vars PROVE IInv'
    OBVIOUS
<1>1. CASE Stop
    <2>1. UNCHANGED <<main, map_lock, threads, at, monsters>> /\ io'.at = "join"
          /\ io' = [at |-> io'.at, todo |-> io'.todo]
        BY <1>1 DEF Stop, table, IInv, TypeInv
    <2> QED BY <2>1 DEF IInv, TypeInv, MainInv, IoInv, ThreadInv, MonsterCap
<1>2. CASE UNCHANGED vars
    BY <1>2, Frame DEF vars, control, mainVars, table, ioVars
<1>3. CASE Rest
    BY <1>2, <1>3 DEF Rest
<1> QED BY <1>1, <1>2, <1>3, MainThreadStep, MapThreadStep, IoThreadStep, OperationStep DEF Next

-----------------------------------------------------------------------------
\* No map ever holds more monsters than MAX_MONSTERS, though two threads spawn
\* on it and race on the timer that says when (spawn_monsters).
THEOREM CapHolds == Spec => []MonsterCap
<1>1. IInv => MonsterCap
    BY DEF IInv
<1> QED BY <1>1, InitInv, StepInv, PTL DEF Spec

\* No thread ever works on a MapThread that destroy_map_thread or
\* stop_all_map_threads has erased, for any number of maps and operations.
THEOREM ErasedUnused == Spec => []NoUseAfterErase
<1>1. IInv => NoUseAfterErase
    BY DEF IInv, MainInv, ThreadInv, NoUseAfterErase
<1> QED BY <1>1, InitInv, StepInv, PTL DEF Spec

-----------------------------------------------------------------------------
\* The table of players.  A player it places is on that map's own list as long
\* as the map exists and a map that comes again finds no player placed on it;
\* only the end of the system empties the list of threads under the players.
AgreeInv ==
    /\ mapping \in [Channels -> Maps \cup {None}]
    /\ players = [m \in Maps |-> players[m]]
    /\ io.at = "stopped" => threads = {}
    /\ io.at # "stopped" =>
         \A c \in Channels \ stranded : mapping[c] # None =>
            mapping[c] \in threads /\ c \in players[mapping[c]]

\* A step that leaves the table and the lists alone and does not end the system
LEMMA AgreeFrame ==
    ASSUME AgreeInv, UNCHANGED <<threads, players, mapping, stranded>>,
           io'.at = "stopped" <=> io.at = "stopped"
    PROVE  AgreeInv'
BY DEF AgreeInv

\* No MapThread has the number that stands for no map.
LEMMA NoneNoMap == \A m \in Maps : m # None
<1>1. \A m \in Maps : m \in Nat \ {0}
    BY MapAssumption
<1> QED BY <1>1, Zenon DEF None

\* A step that places c on a map of the table, or takes c off one, and leaves
\* the others where they are.
LEMMA PlaceAgrees ==
    ASSUME AgreeInv, threads \subseteq Maps, NEW c, NEW to \in threads, UNCHANGED <<threads, io>>,
           mapping' = Put(mapping, c, to), stranded' = stranded \ {c},
           players' = [m \in Maps |-> players'[m]],
           c \in players'[to],
           \A d, m : d # c /\ m \in Maps /\ d \in players[m] => d \in players'[m]
    PROVE  AgreeInv'
<1>1. mapping' \in [Channels -> Maps \cup {None}]
    BY Zenon DEF AgreeInv, Put
<1>2. io'.at = "stopped" => threads' = {}
    BY DEF AgreeInv
<1>3. ASSUME io'.at # "stopped", NEW d \in Channels \ stranded', mapping'[d] # None
      PROVE  mapping'[d] \in threads' /\ d \in players'[mapping'[d]]
    <2>1. CASE d = c
        BY <1>3, <2>1 DEF AgreeInv, Put
    <2>2. CASE d # c
        <3>1. mapping'[d] = mapping[d] /\ d \in Channels \ stranded
            BY <1>3, <2>2 DEF AgreeInv, Put
        <3>2. mapping[d] \in threads /\ d \in players[mapping[d]]
            BY <1>3, <3>1 DEF AgreeInv
        <3> QED BY <2>2, <3>1, <3>2
    <2> QED BY <2>1, <2>2
<1> QED BY <1>1, <1>2, <1>3 DEF AgreeInv

\* move_player_to_map
LEMMA MoveAgrees ==
    ASSUME IInv, AgreeInv, UNCHANGED <<threads, io>>, NEW c, NEW from, NEW to,
           move_player_to_map(c, from, to)
    PROVE  AgreeInv'
<1> DEFINE left == IF from \in threads THEN RemovePlayer(from, c, players) ELSE players
<1>1. threads \subseteq Maps
    BY DEF IInv, TypeInv
<1>2. /\ left = [m \in Maps |-> left[m]]
      /\ \A d, m : d # c /\ m \in Maps /\ d \in players[m] => d \in left[m]
    <2>1. CASE from \in threads
        <3>1. left = [m \in Maps |-> IF m = from THEN players[m] \ {c} ELSE players[m]]
            BY <1>1, <2>1 DEF RemovePlayer, AgreeInv
        <3> QED BY <3>1
    <2>2. CASE from \notin threads
        BY <2>2 DEF AgreeInv
    <2> QED BY <2>1, <2>2
<1> HIDE DEF left
<1>3. CASE to \in threads
    <2>1. /\ mapping' = Put(mapping, c, to) /\ stranded' = stranded \ {c}
          /\ players' = [left EXCEPT ![to] = @ \cup {c}]
        BY <1>3 DEF move_player_to_map, AddPlayer, left
    <2>2. players' = [m \in Maps |-> IF m = to THEN left[m] \cup {c} ELSE left[m]]
        BY <1>1, <1>2, <1>3, <2>1, Zenon
    <2>3. players' = [m \in Maps |-> players'[m]] /\ c \in players'[to]
        BY <1>1, <1>3, <2>2
    <2>4. \A d, m : d # c /\ m \in Maps /\ d \in players[m] => d \in players'[m]
        BY <1>2, <2>2
    <2> QED BY <1>1, <1>3, <2>1, <2>3, <2>4, PlaceAgrees, Zenon
<1>4. CASE to \notin threads
    <2>1. mapping' = mapping /\ stranded' = stranded \cup {c} /\ players' = left
        BY <1>4 DEF move_player_to_map, left
    <2>2. ASSUME io'.at # "stopped", NEW d \in Channels \ stranded', mapping'[d] # None
          PROVE  mapping'[d] \in threads' /\ d \in players'[mapping'[d]]
        <3>1. d # c /\ d \in Channels \ stranded
            BY <2>1, <2>2
        <3>2. mapping[d] \in threads /\ d \in players[mapping[d]]
            BY <2>1, <2>2, <3>1 DEF AgreeInv
        <3> QED BY <1>1, <1>2, <2>1, <3>1, <3>2
    <2> QED BY <1>2, <2>1, <2>2 DEF AgreeInv
<1> QED BY <1>3, <1>4

\* A new MapThread starts with no player and none is placed on it.
LEMMA CreatedAgrees ==
    ASSUME IInv, AgreeInv, NEW m \in Maps, Created(m),
           io.at # "stopped", io'.at # "stopped"
    PROVE  AgreeInv'
<1>1. /\ m \notin threads /\ threads' = threads \cup {m} /\ UNCHANGED <<mapping, stranded>>
      /\ players' = [players EXCEPT ![m] = {}]
    BY DEF Created, Put
<1>2. players' = [n \in Maps |-> IF n = m THEN {} ELSE players[n]]
    BY <1>1 DEF AgreeInv
<1>3. ASSUME NEW d \in Channels \ stranded', mapping'[d] # None
      PROVE  mapping'[d] \in threads' /\ d \in players'[mapping'[d]]
    <2>1. mapping[d] \in threads /\ d \in players[mapping[d]] /\ threads \subseteq Maps
        BY <1>1, <1>3, Zenon DEF AgreeInv, IInv, TypeInv
    <2> QED BY <1>1, <1>2, <2>1
<1> QED BY <1>1, <1>2, <1>3 DEF AgreeInv

\* Every step keeps the table and the lists in agreement.
LEMMA StepAgrees == IInv /\ AgreeInv /\ [Next]_vars => AgreeInv'
<1> SUFFICES ASSUME IInv, AgreeInv, [Next]_vars PROVE AgreeInv'
    OBVIOUS
<1>t. threads \subseteq Maps /\ io = [at |-> io.at, todo |-> io.todo]
    BY DEF IInv, TypeInv
<1>1. ASSUME NEW m \in Maps, MapThread(m) PROVE AgreeInv'
    <2>1. UNCHANGED <<threads, players, mapping, stranded, io>>
        BY <1>1 DEF MapThread, ThreadBegins, ProcessPacket, PacketsDone, ThreadUpdate, table, people, ioVars
    <2> QED BY <2>1, AgreeFrame
<1>2. CASE MainThread /\ ~RunTask
    <2>1. UNCHANGED <<threads, players, mapping, stranded, io>>
        BY <1>2, Zenon DEF MainThread, MainTop, GlobalTask, ChatSend, ChatSent, GlobalsDone, TakeTask,
                    TasksDone, UpdateLock, UpdateMap, UpdateDone, table, people, ioVars
    <2> QED BY <2>1, AgreeFrame
<1>3. CASE RunTask
    <2>1. UNCHANGED <<threads, io>> /\ move_player_to_map(main.job.c, main.job.from, main.job.to)
        BY <1>3 DEF RunTask, table, ioVars
    <2> QED BY <2>1, MoveAgrees
<1>4. CASE Start \/ Serve \/ StopAll \/ StopMap \/ JoinMap \/ Stop
    <2>1. UNCHANGED <<threads, players, mapping, stranded>>
        BY <1>4, Zenon DEF Start, Serve, StopAll, StopMap, JoinMap, Stop, table, people
    <2>2. io'.at # "stopped" /\ io.at # "stopped"
        <3>1. CASE Start \/ StopAll
            BY <3>1 DEF Start, StopAll
        <3>4. CASE StopMap
            BY <3>4 DEF StopMap, ioVars
        <3>2. CASE Serve \/ Stop
            BY <1>t, <3>2 DEF Serve, Stop
        <3>3. CASE JoinMap
            BY <1>t, <3>3 DEF JoinMap
        <3> QED BY <1>4, <3>1, <3>2, <3>3, <3>4
    <2> QED BY <2>1, <2>2, AgreeFrame
<1>5. CASE Create
    <2>1. PICK m \in io.todo : Created(m) /\ io' = [io EXCEPT !.todo = @ \ {m}]
        BY <1>5 DEF Create
    <2>2. io.at = "creating" /\ m \in Maps /\ io'.at = "creating"
        BY <1>t, <1>5, <2>1 DEF Create, IInv, IoInv
    <2> QED BY <2>1, <2>2, CreatedAgrees
<1>6. CASE Destroyed
    <2>1. /\ io.at = "joining" /\ io'.at = "serving" /\ UNCHANGED <<players, mapping>>
          /\ threads' = threads \ io.todo
          /\ stranded' = stranded \cup {c \in Channels : mapping[c] \in io.todo}
        BY <1>6 DEF Destroyed
    <2>2. ASSUME NEW d \in Channels \ stranded', mapping'[d] # None
          PROVE  mapping'[d] \in threads' /\ d \in players'[mapping'[d]]
        <3>1. mapping[d] \notin io.todo /\ d \notin stranded
            BY <2>1, <2>2
        <3> QED BY <2>1, <2>2, <3>1 DEF AgreeInv
    <2> QED BY <2>1, <2>2 DEF AgreeInv
<1>7. CASE Stopped
    <2>1. threads' = {} /\ io'.at = "stopped" /\ UNCHANGED <<players, mapping>>
        BY <1>t, <1>7 DEF Stopped, people
    <2> QED BY <2>1 DEF AgreeInv
<1>8. CASE Operation
    <2>0. io.at = "serving"
        BY <1>8, Zenon DEF Operation, Route, MapEnter, Transfer, add_player_to_map, remove_player_from_map,
                    Chat, CreateAgain, destroy_map_thread, Call
    <2>1. CASE \/ Chat
               \/ \E c \in Channels : Route(c) \/ \E m \in Maps : MapEnter(c, m)
               \/ \E c \in Channels, from, to \in Maps : Transfer(c, from, to)
        <3>1. UNCHANGED <<threads, players, mapping, stranded, io>>
            BY <2>1 DEF Chat, Route, MapEnter, Transfer, table, people
        <3> QED BY <3>1, AgreeFrame
    <2>2. ASSUME NEW m \in Maps, destroy_map_thread(m) PROVE AgreeInv'
        <3>1. UNCHANGED <<threads, players, mapping, stranded>> /\ io'.at = "joining"
            BY <2>2 DEF destroy_map_thread, people
        <3> QED BY <2>0, <3>1, AgreeFrame
    <2>3. ASSUME NEW m \in Maps, CreateAgain(m) PROVE AgreeInv'
        BY <2>0, <2>3, CreatedAgrees DEF CreateAgain
    <2>4. ASSUME NEW m \in Maps, NEW c \in Channels, add_player_to_map(m, c) PROVE AgreeInv'
        <3>1. /\ m \in threads /\ UNCHANGED <<threads, io>>
              /\ mapping' = Put(mapping, c, m) /\ stranded' = stranded \ {c}
              /\ players' = [players EXCEPT ![m] = @ \cup {c}]
            BY <2>4 DEF add_player_to_map, AddPlayer, table
        <3>2. players' = [n \in Maps |-> IF n = m THEN players[n] \cup {c} ELSE players[n]]
            BY <3>1 DEF AgreeInv
        <3>3. players' = [n \in Maps |-> players'[n]] /\ c \in players'[m]
            BY <3>2
        <3>4. \A d, n : d # c /\ n \in Maps /\ d \in players[n] => d \in players'[n]
            BY <3>2
        <3> QED BY <1>t, <3>1, <3>3, <3>4, PlaceAgrees, Zenon
    <2>5. ASSUME NEW m \in Maps, NEW c \in Channels, remove_player_from_map(m, c) PROVE AgreeInv'
        <3>1. /\ UNCHANGED <<threads, io>>
              /\ mapping' = [mapping EXCEPT ![c] = None] /\ stranded' = stranded \ {c}
              /\ players' = [players EXCEPT ![m] = @ \ {c}]
            BY <2>5 DEF remove_player_from_map, RemovePlayer, table, Put
        <3>2. players' = [n \in Maps |-> IF n = m THEN players[n] \ {c} ELSE players[n]]
            BY <3>1, Zenon DEF AgreeInv
        <3>3. mapping' \in [Channels -> Maps \cup {None}] /\ mapping'[c] = None
            BY <3>1 DEF AgreeInv
        <3>4. ASSUME NEW d \in Channels \ stranded', mapping'[d] # None
              PROVE  mapping'[d] \in threads' /\ d \in players'[mapping'[d]]
            <4>1. d # c /\ mapping'[d] = mapping[d] /\ d \notin stranded
                BY <3>1, <3>3, <3>4 DEF AgreeInv
            <4>2. mapping[d] \in threads /\ d \in players[mapping[d]]
                BY <2>0, <3>4, <4>1 DEF AgreeInv
            <4> QED BY <1>t, <3>1, <3>2, <4>1, <4>2
        <3> QED BY <2>0, <3>1, <3>2, <3>3, <3>4 DEF AgreeInv
    <2> QED BY <1>8, <2>1, <2>2, <2>3, <2>4, <2>5 DEF Operation
<1>9. CASE UNCHANGED vars
    BY <1>9, AgreeFrame DEF vars, table, people, ioVars
<1>10. CASE Rest
    BY <1>9, <1>10 DEF Rest
<1> QED BY <1>1, <1>2, <1>3, <1>4, <1>5, <1>6, <1>7, <1>8, <1>9, <1>10 DEF Next, MainThread, IoThread

\* A player the table places on a map is among the map's own players, for any
\* order of logins, transfers, destroyed and recreated maps on three threads.
THEOREM TableHolds == Spec => []TableAgrees
<1>1. Init => AgreeInv
    BY DEF Init, AgreeInv, Each
<1>2. IInv /\ AgreeInv => TableAgrees
    <2> SUFFICES ASSUME IInv, AgreeInv, NEW c \in Channels,
                        mapping[c] \in threads, c \notin stranded
                 PROVE  c \in players[mapping[c]]
        BY DEF TableAgrees
    <2>1. threads \subseteq Maps
        BY DEF IInv, TypeInv
    <2> QED BY <2>1, NoneNoMap, Zenon DEF AgreeInv
<1> QED BY <1>1, <1>2, InitInv, StepInv, StepAgrees, PTL DEF Spec

-----------------------------------------------------------------------------
\* What a task of the main thread or an io operation posts or a map handles is
\* a numbered item; only chats are ordered.
Item == [kind : {"chat", "packet"}, n : Nat]
Below(q, n) == \A i \in DOMAIN q : q[i].kind = "chat" => q[i].n < n
Seen(m) == handled[m] \o packet_queue[m]

\* Chats wait in the order of their numbers, later than every chat a map has
\* seen; the one being sent is between the two, but for the maps it has reached.
ChatInv ==
    /\ ops \in Nat
    /\ handled \in [Maps -> Seq(Item)] /\ packet_queue \in [Maps -> Seq(Item)]
    /\ global_tasks \in Seq(Item) /\ \A i \in DOMAIN global_tasks : global_tasks[i].kind = "chat"
    /\ Ordered(global_tasks) /\ Below(global_tasks, ops)
    /\ \A m \in Maps : /\ Ordered(Seen(m)) /\ Below(Seen(m), ops)
                       /\ \A i \in DOMAIN global_tasks : Below(Seen(m), global_tasks[i].n)
    /\ main.at = "chat" =>
         /\ main.job \in Item /\ main.job.kind = "chat" /\ main.job.n < ops
         /\ \A i \in DOMAIN global_tasks : main.job.n < global_tasks[i].n
         /\ \A m \in Maps \cap main.todo : Below(Seen(m), main.job.n)

\* The sequences the chats wait in, and what they keep of their order
LEMMA AppendOrdered ==
    ASSUME NEW q \in Seq(Item), NEW x \in Item, NEW n \in Nat,
           Ordered(q), x.kind = "chat" => Below(q, x.n)
    PROVE  /\ Ordered(Append(q, x))
           /\ Below(q, n) /\ (x.kind = "chat" => x.n < n) => Below(Append(q, x), n)
<1> DEFINE r == Append(q, x)
<1>1. /\ Len(q) \in Nat /\ DOMAIN q = 1 .. Len(q) /\ DOMAIN r = 1 .. Len(q) + 1
      /\ r[Len(q) + 1] = x /\ \A i \in 1 .. Len(q) : r[i] = q[i]
    OBVIOUS
<1> HIDE DEF r
<1>2. ASSUME NEW i \in DOMAIN r, NEW j \in DOMAIN r, i < j, r[i].kind = "chat", r[j].kind = "chat"
      PROVE  r[i].n < r[j].n
    <2>1. i \in DOMAIN q /\ r[i] = q[i]
        BY <1>1, <1>2
    <2>2. CASE j = Len(q) + 1
        BY <1>1, <1>2, <2>1, <2>2 DEF Below
    <2>3. CASE j # Len(q) + 1
        <3>1. j \in DOMAIN q /\ r[j] = q[j]
            BY <1>1, <2>3
        <3> QED BY <1>2, <2>1, <3>1 DEF Ordered
    <2> QED BY <2>2, <2>3
<1>3. Ordered(r)
    BY <1>2 DEF Ordered
<1>4. ASSUME Below(q, n), x.kind = "chat" => x.n < n, NEW i \in DOMAIN r, r[i].kind = "chat"
      PROVE  r[i].n < n
    <2>1. CASE i = Len(q) + 1
        BY <1>1, <1>4, <2>1
    <2>2. CASE i # Len(q) + 1
        <3>1. i \in DOMAIN q /\ r[i] = q[i]
            BY <1>1, <2>2
        <3> QED BY <1>4, <3>1 DEF Below
    <2> QED BY <2>1, <2>2
<1> QED BY <1>3, <1>4 DEF Below, r

\* A sequence embedded in order in another is as ordered as that one.
LEMMA PartOrdered ==
    ASSUME NEW q, NEW r, NEW f \in [DOMAIN r -> DOMAIN q],
           \A i \in DOMAIN r : r[i] = q[f[i]],
           \A i, j \in DOMAIN r : i < j => f[i] < f[j]
    PROVE  /\ Ordered(q) => Ordered(r)
           /\ \A n : Below(q, n) => Below(r, n)
BY DEF Ordered, Below

\* Taking the first packet of a map's queue, and handling it if it is a chat
LEMMA TakeFirst ==
    ASSUME NEW h \in Seq(Item), NEW q \in Seq(Item), q # <<>>
    PROVE  /\ Append(h, Head(q)) \o Tail(q) = h \o q
           /\ Ordered(h \o q) => Ordered(h \o Tail(q))
           /\ \A n : Below(h \o q, n) => Below(h \o Tail(q), n)
<1>1. Head(q) \in Item /\ Tail(q) \in Seq(Item) /\ Len(Tail(q)) = Len(q) - 1
      /\ Len(q) \in Nat \ {0} /\ Len(h) \in Nat /\ Head(q) = q[1]
      /\ \A i \in 1 .. Len(Tail(q)) : Tail(q)[i] = q[i + 1]
    BY HeadTailProperties
<1>2. Append(h, Head(q)) \o Tail(q) = h \o q
    BY <1>1
<1> DEFINE whole == h \o q
           part == h \o Tail(q)
           f == [i \in DOMAIN part |-> IF i <= Len(h) THEN i ELSE i + 1]
<1>3. /\ DOMAIN whole = 1 .. Len(h) + Len(q) /\ DOMAIN part = 1 .. Len(h) + Len(q) - 1
      /\ \A i \in DOMAIN whole : whole[i] = IF i <= Len(h) THEN h[i] ELSE q[i - Len(h)]
      /\ \A i \in DOMAIN part : part[i] = IF i <= Len(h) THEN h[i] ELSE Tail(q)[i - Len(h)]
    BY <1>1
<1> HIDE DEF whole, part
<1>4. f \in [DOMAIN part -> DOMAIN whole] /\ \A i, j \in DOMAIN part : i < j => f[i] < f[j]
    BY <1>1, <1>3
<1>5. ASSUME NEW i \in DOMAIN part PROVE part[i] = whole[f[i]]
    <2>1. CASE i <= Len(h)
        BY <1>3, <1>4, <2>1
    <2>2. CASE ~(i <= Len(h))
        <3>1. i \in Nat /\ f[i] = i + 1 /\ i - Len(h) \in 1 .. Len(Tail(q)) /\ ~(i + 1 <= Len(h))
            BY <1>1, <1>3, <2>2
        <3>2. part[i] = q[(i - Len(h)) + 1] /\ whole[f[i]] = q[(i + 1) - Len(h)]
            BY <1>1, <1>3, <1>4, <2>2, <3>1
        <3>3. (i - Len(h)) + 1 = (i + 1) - Len(h)
            BY <1>1, <3>1
        <3> QED BY <3>2, <3>3
    <2> QED BY <2>1, <2>2
<1> HIDE DEF f
<1>6. (Ordered(whole) => Ordered(part)) /\ \A n : Below(whole, n) => Below(part, n)
    BY <1>4, <1>5, PartOrdered, Zenon
<1> QED BY <1>2, <1>6 DEF whole, part

\* A map that is created again has lost the packets its queue still held.
LEMMA QueueLost ==
    ASSUME NEW h \in Seq(Item), NEW q \in Seq(Item)
    PROVE  /\ Ordered(h \o q) => Ordered(h \o <<>>)
           /\ \A n : Below(h \o q, n) => Below(h \o <<>>, n)
<1> DEFINE whole == h \o q
           f == [i \in DOMAIN h |-> i]
<1>1. h \o <<>> = h
    OBVIOUS
<1>2. Len(h) \in Nat /\ Len(q) \in Nat /\ DOMAIN h = 1 .. Len(h) /\ DOMAIN whole = 1 .. Len(h) + Len(q)
      /\ \A i \in DOMAIN h : h[i] = whole[i]
    OBVIOUS
<1> HIDE DEF whole
<1>3. f \in [DOMAIN h -> DOMAIN whole] /\ (\A i \in DOMAIN h : h[i] = whole[f[i]])
      /\ (\A i, j \in DOMAIN h : i < j => f[i] < f[j])
    BY <1>2
<1> HIDE DEF f
<1>4. (Ordered(whole) => Ordered(h)) /\ \A n : Below(whole, n) => Below(h, n)
    BY <1>3, PartOrdered, Zenon
<1> QED BY <1>1, <1>4 DEF whole

\* A later bound is a bound.
LEMMA BelowMono ==
    ASSUME NEW q \in Seq(Item), NEW k \in Nat, NEW n \in Nat, k <= n, Below(q, k)
    PROVE  Below(q, n)
<1> SUFFICES ASSUME NEW i \in DOMAIN q, q[i].kind = "chat" PROVE q[i].n < n
    BY DEF Below
<1>0. q[i] \in Item
    OBVIOUS
<1>1. q[i].n \in Nat
    BY <1>0 DEF Item
<1>2. q[i].n < k
    BY DEF Below
<1> QED BY <1>1, <1>2

\* A step that takes nothing to the maps and posts no chat
LEMMA ChatFrame ==
    ASSUME ChatInv, UNCHANGED global_tasks, main' = main \/ main'.at # "chat",
           ops' \in Nat, ops <= ops',
           handled' \in [Maps -> Seq(Item)], packet_queue' \in [Maps -> Seq(Item)],
           \A m \in Maps : /\ Ordered(Seen(m)) => Ordered(Seen(m)')
                           /\ \A n : Below(Seen(m), n) => Below(Seen(m)', n)
    PROVE  ChatInv'
<1>1. Ordered(global_tasks') /\ Below(global_tasks', ops')
    <2>1. global_tasks \in Seq(Item) /\ ops \in Nat
        BY Zenon DEF ChatInv
    <2> QED BY <2>1, BelowMono, Zenon DEF ChatInv
<1>2. ASSUME NEW m \in Maps
      PROVE  /\ Ordered(Seen(m)') /\ Below(Seen(m)', ops')
             /\ \A i \in DOMAIN global_tasks' : Below(Seen(m)', global_tasks'[i].n)
    <2>0. handled'[m] \in Seq(Item) /\ packet_queue'[m] \in Seq(Item)
        OBVIOUS
    <2>1. Seen(m)' \in Seq(Item)
        BY <2>0 DEF Seen
    <2>2. Below(Seen(m)', ops)
        BY Zenon DEF ChatInv
    <2>3. Below(Seen(m)', ops')
        BY <2>1, <2>2, BelowMono, Zenon DEF ChatInv
    <2> QED BY <2>3 DEF ChatInv
<1>3. ASSUME main'.at = "chat"
      PROVE  /\ main'.job \in Item /\ main'.job.kind = "chat" /\ main'.job.n < ops'
             /\ \A i \in DOMAIN global_tasks' : main'.job.n < global_tasks'[i].n
             /\ \A m \in Maps \cap main'.todo : Below(Seen(m)', main'.job.n)
    <2>1. main' = main
        BY <1>3
    <2>2. main.job \in Item /\ main.job.kind = "chat" /\ main.job.n < ops
        BY <1>3, <2>1 DEF ChatInv
    <2>3. main.job.n \in Nat
        BY <2>2, Zenon DEF Item
    <2>4. main'.job.n < ops'
        BY <2>1, <2>2, <2>3 DEF ChatInv
    <2> QED BY <1>3, <2>1, <2>2, <2>4 DEF ChatInv
<1> QED BY <1>1, <1>2, <1>3, Zenon DEF ChatInv

\* The same for a step that leaves the maps' queues alone
LEMMA ChatStill ==
    ASSUME ChatInv, UNCHANGED <<global_tasks, handled, packet_queue>>,
           main' = main \/ main'.at # "chat", ops' \in {ops, ops + 1}
    PROVE  ChatInv'
<1>1. ops' \in Nat /\ ops <= ops'
    BY DEF ChatInv
<1>2. \A m \in Maps : Seen(m)' = Seen(m)
    BY DEF Seen
<1> QED BY <1>1, <1>2, ChatFrame, Zenon DEF ChatInv

\* What is queued last is seen last.
LEMMA ConcatAppend ==
    ASSUME NEW h \in Seq(Item), NEW q \in Seq(Item), NEW x \in Item
    PROVE  h \o Append(q, x) = Append(h \o q, x)
<1>1. h \o q \in Seq(Item) /\ <<x>> \in Seq(Item)
    OBVIOUS
<1>2. Append(q, x) = q \o <<x>> /\ Append(h \o q, x) = (h \o q) \o <<x>>
    BY <1>1, AppendIsConcat, Zenon
<1>3. (h \o q) \o <<x>> = h \o (q \o <<x>>)
    <2>1. ASSUME NEW r \in Seq(Item) PROVE (h \o q) \o r = h \o (q \o r)
        BY ConcatAssociative
    <2> QED BY <1>1, <2>1, Zenon
<1> QED BY <1>2, <1>3, Zenon

\* add_packet: the item comes last in what the map will have seen.
LEMMA Delivered ==
    ASSUME ChatInv, NEW m \in Maps, NEW x \in Item,
           packet_queue' = Put(packet_queue, m, Append(packet_queue[m], x)), UNCHANGED handled
    PROVE  /\ packet_queue' \in [Maps -> Seq(Item)]
           /\ Seen(m) \in Seq(Item) /\ Seen(m)' = Append(Seen(m), x)
           /\ \A k \in Maps : k # m => Seen(k)' = Seen(k)
<1>1. handled[m] \in Seq(Item) /\ packet_queue[m] \in Seq(Item)
    BY DEF ChatInv
<1>2. Append(packet_queue[m], x) \in Seq(Item)
    BY <1>1
<1>3. packet_queue' \in [Maps -> Seq(Item)] /\ packet_queue'[m] = Append(packet_queue[m], x)
      /\ \A k \in Maps : k # m => packet_queue'[k] = packet_queue[k]
    BY <1>2 DEF Put, ChatInv
<1>4. handled[m] \o Append(packet_queue[m], x) = Append(handled[m] \o packet_queue[m], x)
    BY <1>1, ConcatAppend, ZenonT(40)
<1>5. handled[m] \o packet_queue[m] \in Seq(Item)
    BY <1>1
<1> QED BY <1>3, <1>4, <1>5, Zenon DEF Seen

\* process_packets: the order stays what it was, whether the packet is kept in
\* the history (a chat) or not.
LEMMA ProcessKeepsOrder ==
    ASSUME ChatInv, NEW m \in Maps, ProcessPacket(m)
    PROVE  ChatInv'
<1> DEFINE h == handled[m]
           q == packet_queue[m]
<1>1. h \in Seq(Item) /\ q \in Seq(Item) /\ q # <<>>
    BY ZenonT(40) DEF ProcessPacket, ChatInv
<1>2. Head(q) \in Item /\ Tail(q) \in Seq(Item)
    BY <1>1, HeadTailProperties, Zenon
<1>3. Append(h, Head(q)) \in Seq(Item)
    BY <1>1, <1>2
<1>4. UNCHANGED <<global_tasks, main, ops>> /\ packet_queue' = [packet_queue EXCEPT ![m] = Tail(q)]
      /\ handled' = IF Head(q).kind = "chat" THEN [handled EXCEPT ![m] = Append(h, Head(q))] ELSE handled
    BY Zenon DEF ProcessPacket, process_single_packet, mainVars, queues, ioVars, Put
<1>5. packet_queue' \in [Maps -> Seq(Item)] /\ handled' \in [Maps -> Seq(Item)]
    BY <1>2, <1>3, <1>4 DEF ChatInv
<1>6. packet_queue'[m] = Tail(q) /\ handled'[m] \in {Append(h, Head(q)), h}
      /\ \A k \in Maps : k # m => Seen(k)' = Seen(k)
    BY <1>4 DEF ChatInv, Seen
<1>7. /\ Append(h, Head(q)) \o Tail(q) = h \o q
      /\ Ordered(h \o q) => Ordered(h \o Tail(q))
      /\ \A n : Below(h \o q, n) => Below(h \o Tail(q), n)
    BY <1>1, TakeFirst, Zenon
<1>8. Seen(m) = h \o q /\ Seen(m)' \in {h \o q, h \o Tail(q)}
    BY <1>6, <1>7, Zenon DEF Seen
<1> HIDE DEF h, q
<1>9. \A k \in Maps : /\ Ordered(Seen(k)) => Ordered(Seen(k)')
                      /\ \A n : Below(Seen(k), n) => Below(Seen(k)', n)
    BY <1>6, <1>7, <1>8, Zenon
<1> QED BY <1>4, <1>5, <1>9, ChatFrame, Zenon DEF ChatInv

\* create_map_thread: what the erased MapThread had not handled is gone.
LEMMA CreatedKeepsOrder ==
    ASSUME ChatInv, NEW m \in Maps, Created(m), ops' \in {ops, ops + 1}
    PROVE  ChatInv'
<1>1. UNCHANGED <<global_tasks, main, handled>> /\ packet_queue' = [packet_queue EXCEPT ![m] = <<>>]
    BY DEF Created, Put, mainVars, queues
<1>2. handled' \in [Maps -> Seq(Item)] /\ packet_queue' \in [Maps -> Seq(Item)]
      /\ ops' \in Nat /\ ops <= ops'
    BY <1>1 DEF ChatInv
<1>3. handled[m] \in Seq(Item) /\ packet_queue[m] \in Seq(Item)
    BY Zenon DEF ChatInv
<1>4. Seen(m) = handled[m] \o packet_queue[m] /\ Seen(m)' = handled[m] \o <<>>
      /\ \A k \in Maps : k # m => Seen(k)' = Seen(k)
    BY <1>1 DEF ChatInv, Seen
<1>5. \A k \in Maps : /\ Ordered(Seen(k)) => Ordered(Seen(k)')
                      /\ \A n : Below(Seen(k), n) => Below(Seen(k)', n)
    BY <1>3, <1>4, QueueLost, Zenon
<1> QED BY <1>1, <1>2, <1>5, ChatFrame

\* route_packet_to_map: other packets pass between the chats.
LEMMA RouteKeepsOrder ==
    ASSUME IInv, ChatInv, NEW c, Route(c)
    PROVE  ChatInv'
<1>0. PICK m, x : m = player_map[c] /\ x = [kind |-> "packet", n |-> ops]
    BY Zenon
<1>1. UNCHANGED <<global_tasks, main, handled>> /\ ops' = ops + 1 /\ Deliver(m, x)
    BY <1>0 DEF Route, Call, mainVars, queues
<1>2. x \in Item /\ x.kind # "chat" /\ threads \subseteq Maps
    BY <1>0 DEF Item, ChatInv, IInv, TypeInv
<1>3. CASE m \notin threads
    BY <1>1, <1>3, ChatStill DEF Deliver
<1>4. CASE m \in threads
    <2>1. packet_queue' = Put(packet_queue, m, Append(packet_queue[m], x)) /\ m \in Maps
        BY <1>1, <1>2, <1>4 DEF Deliver
    <2>2. /\ packet_queue' \in [Maps -> Seq(Item)]
          /\ Seen(m) \in Seq(Item) /\ Seen(m)' = Append(Seen(m), x)
          /\ \A k \in Maps : k # m => Seen(k)' = Seen(k)
        BY <1>1, <1>2, <2>1, Delivered
    <2>3. handled' \in [Maps -> Seq(Item)] /\ ops' \in Nat /\ ops <= ops'
        BY <1>1 DEF ChatInv
    <2>4. Ordered(Seen(m)) => Ordered(Seen(m)')
        BY <1>2, <2>2, <2>3, AppendOrdered
    <2>5. \A n : Below(Seen(m), n) => Below(Seen(m)', n)
        <3>1. DOMAIN Seen(m)' = 1 .. Len(Seen(m)) + 1 /\ DOMAIN Seen(m) = 1 .. Len(Seen(m))
              /\ Seen(m)'[Len(Seen(m)) + 1] = x /\ \A i \in DOMAIN Seen(m) : Seen(m)'[i] = Seen(m)[i]
            BY <2>2
        <3>2. Len(Seen(m)) \in Nat
            BY <2>2
        <3> QED BY <1>2, <3>1, <3>2 DEF Below
    <2> QED BY <1>1, <2>2, <2>3, <2>4, <2>5, ChatFrame, Zenon
<1> QED BY <1>3, <1>4

\* handle_global_chat gives the chat the highest number so far.
LEMMA ChatKeepsOrder ==
    ASSUME ChatInv, Chat
    PROVE  ChatInv'
<1> DEFINE x == [kind |-> "chat", n |-> ops]
<1>1. UNCHANGED <<main, handled, packet_queue>> /\ ops' = ops + 1 /\ global_tasks' = Append(global_tasks, x)
    BY Zenon DEF Chat, Call, mainVars, mail
<1>2. x \in Item /\ x.kind = "chat" /\ x.n = ops /\ ops \in Nat /\ ops' \in Nat /\ ops < ops'
    BY <1>1 DEF Item, ChatInv
<1> HIDE DEF x
<1>3. /\ global_tasks' \in Seq(Item)
      /\ DOMAIN global_tasks' = 1 .. Len(global_tasks) + 1
      /\ DOMAIN global_tasks = 1 .. Len(global_tasks) /\ Len(global_tasks) \in Nat
      /\ global_tasks'[Len(global_tasks) + 1] = x
      /\ \A i \in DOMAIN global_tasks : global_tasks'[i] = global_tasks[i]
    <2>1. global_tasks \in Seq(Item)
        BY Zenon DEF ChatInv
    <2> QED BY <1>1, <1>2, <2>1, AppendProperties
<1>4. \A i \in DOMAIN global_tasks' : i \in DOMAIN global_tasks \/ global_tasks'[i] = x
    BY <1>3
<1>5. \A i \in DOMAIN global_tasks' : global_tasks'[i].kind = "chat"
    BY <1>2, <1>3, <1>4, Zenon DEF ChatInv
<1>6. Ordered(global_tasks') /\ Below(global_tasks', ops')
    <2>1. global_tasks \in Seq(Item) /\ Below(global_tasks, ops) /\ Ordered(global_tasks)
        BY DEF ChatInv
    <2>2. Below(global_tasks, ops')
        BY <1>2, <2>1, BelowMono
    <2> QED BY <1>1, <1>2, <2>1, <2>2, AppendOrdered
<1>7. \A k \in Maps : Seen(k)' = Seen(k) /\ Seen(k) \in Seq(Item)
    BY <1>1 DEF Seen, ChatInv
<1>8. ASSUME NEW k \in Maps
      PROVE  /\ Ordered(Seen(k)') /\ Below(Seen(k)', ops')
             /\ \A i \in DOMAIN global_tasks' : Below(Seen(k)', global_tasks'[i].n)
    <2>1. Below(Seen(k), ops')
        BY <1>2, <1>7, BelowMono DEF ChatInv
    <2> QED BY <1>2, <1>3, <1>4, <1>7, <2>1, Zenon DEF ChatInv
<1>9. ASSUME main'.at = "chat"
      PROVE  /\ main'.job \in Item /\ main'.job.kind = "chat" /\ main'.job.n < ops'
             /\ \A i \in DOMAIN global_tasks' : main'.job.n < global_tasks'[i].n
             /\ \A k \in Maps \cap main'.todo : Below(Seen(k)', main'.job.n)
    <2>1. main.at = "chat" /\ main' = main
        BY <1>1, <1>9, Zenon
    <2>2. main.job \in Item /\ main.job.n < ops
        BY <2>1 DEF ChatInv
    <2>3. main.job.n \in Nat
        BY <2>2 DEF Item
    <2>4. main.job.n < ops'
        BY <1>2, <2>2, <2>3
    <2>5. \A i \in DOMAIN global_tasks' : main.job.n < global_tasks'[i].n
        BY <1>2, <1>3, <1>4, <2>1, <2>2, Zenon DEF ChatInv
    <2> QED BY <1>7, <2>1, <2>4, <2>5 DEF ChatInv
<1>10. handled' \in [Maps -> Seq(Item)] /\ packet_queue' \in [Maps -> Seq(Item)]
    BY <1>1, Zenon DEF ChatInv
<1> QED BY <1>2, <1>3, <1>5, <1>6, <1>8, <1>9, <1>10, Zenon DEF ChatInv

\* process_global_systems takes the oldest chat, which no map has seen.
LEMMA GlobalTaskKeepsOrder ==
    ASSUME ChatInv, GlobalTask
    PROVE  ChatInv'
<1>1. /\ global_tasks # <<>> /\ global_tasks' = Tail(global_tasks)
      /\ main'.job = Head(global_tasks) /\ UNCHANGED <<ops, handled, packet_queue>>
    BY ZenonT(40) DEF GlobalTask, NextGlobal, ioVars, mail
<1>2. /\ global_tasks \in Seq(Item) /\ Len(global_tasks) \in Nat \ {0}
      /\ DOMAIN global_tasks = 1 .. Len(global_tasks) /\ Head(global_tasks) = global_tasks[1]
    BY <1>1 DEF ChatInv
<1>3. /\ global_tasks' \in Seq(Item) /\ Len(global_tasks') = Len(global_tasks) - 1
      /\ \A i \in 1 .. Len(global_tasks') : global_tasks'[i] = global_tasks[i + 1]
    BY <1>1, <1>2, HeadTailProperties
<1>4. DOMAIN global_tasks' = 1 .. Len(global_tasks) - 1
    BY <1>3
<1>5. \A i \in DOMAIN global_tasks' : /\ i + 1 \in DOMAIN global_tasks /\ 1 < i + 1
                                      /\ global_tasks'[i] = global_tasks[i + 1]
    BY <1>2, <1>3, <1>4
<1>6. Ordered(global_tasks') /\ Below(global_tasks', ops')
    <2>1. ASSUME NEW i \in DOMAIN global_tasks', NEW j \in DOMAIN global_tasks', i < j
          PROVE  i + 1 < j + 1
        BY <1>2, <1>4, <2>1
    <2> QED BY <1>1, <1>5, <2>1 DEF ChatInv, Ordered, Below
<1>7. 1 \in DOMAIN global_tasks
    BY <1>2
<1>8. main'.job \in Item /\ main'.job.kind = "chat" /\ main'.job.n < ops'
    BY <1>1, <1>2, <1>7 DEF ChatInv, Below
<1>9. \A i \in DOMAIN global_tasks' : main'.job.n < global_tasks'[i].n
    BY <1>1, <1>2, <1>5, <1>7, Zenon DEF ChatInv, Ordered
<1>10. \A m \in Maps : Seen(m)' = Seen(m)
    BY <1>1 DEF Seen
<1>11. \A m \in Maps : Below(Seen(m)', main'.job.n)
    BY <1>1, <1>2, <1>7, <1>10, Zenon DEF ChatInv
<1>12. \A i \in DOMAIN global_tasks' : global_tasks'[i].kind = "chat"
    BY <1>5 DEF ChatInv
<1>13. \A m \in Maps : /\ Ordered(Seen(m)') /\ Below(Seen(m)', ops')
                       /\ \A i \in DOMAIN global_tasks' : Below(Seen(m)', global_tasks'[i].n)
    BY <1>1, <1>5, <1>10 DEF ChatInv
<1> QED BY <1>1, <1>3, <1>6, <1>8, <1>9, <1>11, <1>12, <1>13 DEF ChatInv

\* send_packet_to_map for one of the maps the chat has not reached yet
LEMMA ChatSendKeepsOrder ==
    ASSUME IInv, ChatInv, ChatSend
    PROVE  ChatInv'
<1>1. PICK m \in main.todo : Deliver(m, main.job) /\ main' = [main EXCEPT !.todo = @ \ {m}]
    BY Zenon DEF ChatSend
<1>2. main = [at |-> main.at, job |-> main.job, todo |-> main.todo] /\ threads \subseteq Maps
    BY DEF IInv, TypeInv
<1>3. PICK x : x = main.job
    OBVIOUS
<1>4. main.at = "chat" /\ main' = [at |-> "chat", job |-> x, todo |-> main.todo \ {m}]
      /\ UNCHANGED <<global_tasks, ops, handled>>
    BY <1>1, <1>2, <1>3 DEF ChatSend, queues, ioVars
<1>5. /\ x \in Item /\ x.kind = "chat" /\ x.n < ops
      /\ \A i \in DOMAIN global_tasks : x.n < global_tasks[i].n
      /\ \A k \in Maps \cap main.todo : Below(Seen(k), x.n)
    BY <1>3, <1>4, Zenon DEF ChatInv
<1>6. x.n \in Nat /\ ops \in Nat
    BY <1>5, Zenon DEF Item, ChatInv
<1>7. ASSUME packet_queue' \in [Maps -> Seq(Item)],
             \A k \in Maps : Ordered(Seen(k)') /\ Below(Seen(k)', ops),
             \A k \in Maps, i \in DOMAIN global_tasks : Below(Seen(k)', global_tasks[i].n),
             \A k \in (Maps \cap main.todo) \ {m} : Below(Seen(k)', x.n)
      PROVE  ChatInv'
    <2>1. /\ handled' \in [Maps -> Seq(Item)] /\ ops' \in Nat
          /\ global_tasks' \in Seq(Item) /\ Ordered(global_tasks') /\ Below(global_tasks', ops')
          /\ \A i \in DOMAIN global_tasks' : global_tasks'[i].kind = "chat"
        BY <1>4, Zenon DEF ChatInv
    <2>2. \A k \in Maps : /\ Ordered(Seen(k)') /\ Below(Seen(k)', ops')
                          /\ \A i \in DOMAIN global_tasks' : Below(Seen(k)', global_tasks'[i].n)
        BY <1>4, <1>7, Zenon
    <2>3. main'.job = x /\ main'.todo = main.todo \ {m}
        BY <1>4
    <2>4. /\ main'.job \in Item /\ main'.job.kind = "chat" /\ main'.job.n < ops'
          /\ \A i \in DOMAIN global_tasks' : main'.job.n < global_tasks'[i].n
        BY <1>4, <1>5, <2>3, Zenon
    <2>5. \A k \in Maps \cap main'.todo : Below(Seen(k)', main'.job.n)
        BY <1>7, <2>3, Zenon
    <2> QED BY <1>7, <2>1, <2>2, <2>4, <2>5, Zenon DEF ChatInv
<1>8. CASE m \notin threads
    <2>1. packet_queue' = packet_queue
        BY <1>1, <1>8, Zenon DEF Deliver
    <2>2. \A k \in Maps : Seen(k)' = Seen(k)
        BY <1>4, <2>1, Zenon DEF Seen
    <2>3. packet_queue' \in [Maps -> Seq(Item)]
        BY <2>1, Zenon DEF ChatInv
    <2>4. \A k \in Maps : Ordered(Seen(k)') /\ Below(Seen(k)', ops)
        BY <2>2, Zenon DEF ChatInv
    <2>5. \A k \in Maps, i \in DOMAIN global_tasks : Below(Seen(k)', global_tasks[i].n)
        BY <2>2, Zenon DEF ChatInv
    <2>6. \A k \in (Maps \cap main.todo) \ {m} : Below(Seen(k)', x.n)
        BY <1>5, <2>2, Zenon
    <2> QED BY <1>7, <2>3, <2>4, <2>5, <2>6, Zenon
<1>9. CASE m \in threads
    <2>1. m \in Maps /\ packet_queue' = Put(packet_queue, m, Append(packet_queue[m], x))
        BY <1>1, <1>2, <1>3, <1>9, Zenon DEF Deliver
    <2>2. /\ packet_queue' \in [Maps -> Seq(Item)]
          /\ Seen(m) \in Seq(Item) /\ Seen(m)' = Append(Seen(m), x)
          /\ \A k \in Maps : k # m => Seen(k)' = Seen(k)
        BY <1>4, <1>5, <2>1, Delivered, Zenon
    <2>3. Ordered(Seen(m)) /\ Below(Seen(m), x.n)
        BY <1>5, <2>1, Zenon DEF ChatInv
    <2>4. Ordered(Seen(m)') /\ \A n \in Nat : x.n < n /\ Below(Seen(m), n) => Below(Seen(m)', n)
        BY <1>5, <1>6, <2>2, <2>3, AppendOrdered, Zenon
    <2>5. Below(Seen(m)', ops)
        BY <1>5, <1>6, <2>1, <2>4, Zenon DEF ChatInv
    <2>6. ASSUME NEW i \in DOMAIN global_tasks PROVE Below(Seen(m)', global_tasks[i].n)
        <3>1. global_tasks[i] \in Item
            BY DEF ChatInv
        <3>2. global_tasks[i].n \in Nat
            BY <3>1 DEF Item
        <3> QED BY <1>5, <2>1, <2>4, <3>2, ZenonT(40) DEF ChatInv
    <2>7. \A k \in Maps : Ordered(Seen(k)') /\ Below(Seen(k)', ops)
        BY <2>2, <2>4, <2>5, Zenon DEF ChatInv
    <2>8. \A k \in Maps, i \in DOMAIN global_tasks : Below(Seen(k)', global_tasks[i].n)
        BY <2>2, <2>6, Zenon DEF ChatInv
    <2>9. \A k \in (Maps \cap main.todo) \ {m} : Below(Seen(k)', x.n)
        BY <1>5, <2>2
    <2> QED BY <1>7, <2>2, <2>7, <2>8, <2>9
<1> QED BY <1>8, <1>9

\* Every step keeps the chats in order.
LEMMA StepChat == IInv /\ ChatInv /\ [Next]_vars => ChatInv'
<1> SUFFICES ASSUME IInv, ChatInv, [Next]_vars PROVE ChatInv'
    OBVIOUS
<1>t. main = [at |-> main.at, job |-> main.job, todo |-> main.todo]
    BY DEF IInv, TypeInv
<1>1. ASSUME NEW m \in Maps, MapThread(m) PROVE ChatInv'
    <2>1. CASE ThreadBegins(m) \/ PacketsDone(m) \/ ThreadUpdate(m)
        <3>1. UNCHANGED <<global_tasks, handled, packet_queue, main, ops>>
            BY <2>1 DEF ThreadBegins, PacketsDone, ThreadUpdate, mainVars, queues, mail, ioVars
        <3> QED BY <3>1, ChatStill
    <2> QED BY <1>1, <2>1, ProcessKeepsOrder DEF MapThread
<1>2. CASE MainThread
    <2>1. CASE MainTop \/ GlobalsDone \/ TasksDone \/ UpdateDone
        <3>1. UNCHANGED <<global_tasks, handled, packet_queue, ops>>
            BY <2>1 DEF MainTop, GlobalsDone, TasksDone, UpdateDone, queues, mail, ioVars
        <3>2. \E place \in {"globals", "ended", "tasks", "update", "top"} : main' = [main EXCEPT !.at = place]
            BY <2>1 DEF MainTop, GlobalsDone, TasksDone, UpdateDone, Go
        <3> QED BY <1>t, <3>1, <3>2, ChatStill, Zenon
    <2>2. CASE ChatSent \/ RunTask \/ TakeTask \/ UpdateLock
        <3>1. UNCHANGED <<global_tasks, handled, packet_queue, ops>>
            BY <2>2, Zenon DEF ChatSent, RunTask, TakeTask, UpdateLock, queues, mail, ioVars
        <3>2. main'.at \in {"globals", "tasks", "task", "maps"}
            <4>1. CASE ChatSent \/ RunTask
                BY <1>t, <4>1, Zenon DEF ChatSent, RunTask
            <4>2. CASE TakeTask
                BY <1>t, <4>2 DEF TakeTask
            <4>3. CASE UpdateLock
                BY <1>t, <4>3 DEF UpdateLock
            <4> QED BY <2>2, <4>1, <4>2, <4>3
        <3> QED BY <3>1, <3>2, ChatStill
    <2>3. CASE UpdateMap
        <3>1. UNCHANGED <<global_tasks, handled, packet_queue, ops>>
            BY <2>3 DEF UpdateMap, queues, mail, ioVars
        <3>2. main'.at \in {"spawn", "maps"}
            <4>1. CASE main.at = "maps"
                BY <2>3, <4>1 DEF UpdateMap
            <4>2. CASE main.at = "spawn"
                BY <1>t, <2>3, <4>2, Zenon DEF UpdateMap
            <4> QED BY <2>3, <4>1, <4>2 DEF UpdateMap
        <3> QED BY <3>1, <3>2, ChatStill
    <2> QED BY <1>2, <2>1, <2>2, <2>3, GlobalTaskKeepsOrder, ChatSendKeepsOrder DEF MainThread
<1>3. CASE IoThread
    <2>1. CASE Start
        <3>1. UNCHANGED <<global_tasks, handled, packet_queue, ops>> /\ main'.at = "top"
            BY <1>t, <2>1 DEF Start, queues, mail
        <3> QED BY <3>1, ChatStill
    <2>2. CASE Create
        <3>1. PICK m \in io.todo : Created(m)
            BY <2>2 DEF Create
        <3>2. m \in Maps /\ ops' = ops
            BY <2>2, <3>1 DEF Create, IInv, IoInv
        <3> QED BY <3>1, <3>2, CreatedKeepsOrder
    <2>3. CASE Serve \/ Destroyed \/ StopAll \/ StopMap \/ JoinMap \/ Stopped
        <3>1. UNCHANGED <<global_tasks, handled, packet_queue, main, ops>>
            BY <2>3, Zenon DEF Serve, Destroyed, StopAll, StopMap, JoinMap, Stopped, mainVars, queues, mail, ioVars
        <3> QED BY <3>1, ChatStill
    <2> QED BY <1>3, <2>1, <2>2, <2>3 DEF IoThread
<1>4. CASE Operation
    <2>1. CASE \E c \in Channels, m \in Maps : \/ MapEnter(c, m)
                                               \/ add_player_to_map(m, c)
                                               \/ remove_player_from_map(m, c)
        <3>1. UNCHANGED <<global_tasks, handled, packet_queue, main>> /\ ops' = ops + 1
            BY <2>1, Zenon DEF MapEnter, add_player_to_map, remove_player_from_map, Call, mainVars, queues, mail
        <3> QED BY <3>1, ChatStill, Zenon
    <2>2. CASE \E c \in Channels, from, to \in Maps : Transfer(c, from, to)
        <3>1. UNCHANGED <<global_tasks, handled, packet_queue, main>> /\ ops' = ops + 1
            BY <2>2 DEF Transfer, Call, mainVars, mail
        <3> QED BY <3>1, ChatStill
    <2>3. ASSUME NEW m \in Maps, destroy_map_thread(m) PROVE ChatInv'
        <3>1. UNCHANGED <<global_tasks, handled, packet_queue, main>> /\ ops' = ops + 1
            BY <2>3 DEF destroy_map_thread, Call, mainVars, queues, mail
        <3> QED BY <3>1, ChatStill
    <2>4. ASSUME NEW m \in Maps, CreateAgain(m) PROVE ChatInv'
        BY <2>4, CreatedKeepsOrder DEF CreateAgain, Call
    <2> QED BY <1>4, <2>1, <2>2, <2>3, <2>4, RouteKeepsOrder, ChatKeepsOrder DEF Operation
<1>5. CASE Stop \/ UNCHANGED vars \/ Rest
    <2>1. UNCHANGED <<global_tasks, handled, packet_queue, main, ops>>
        BY <1>5 DEF Stop, Rest, vars, mainVars, queues, mail, ioVars
    <2> QED BY <2>1, ChatStill
<1> QED BY <1>1, <1>2, <1>3, <1>4, <1>5 DEF Next

\* Every map sees the global chats in the order handle_global_chat posted them,
\* for any number of chats and maps, though each chat passes two queues and is
\* sent by a thread that others interrupt between two maps.
THEOREM ChatsInOrder == Spec => []ChatOrder
<1>1. Init => ChatInv
    <2> SUFFICES ASSUME Init PROVE ChatInv
        OBVIOUS
    <2>1. /\ ops = 0 /\ global_tasks = <<>> /\ main.at = "off"
          /\ handled = [m \in Maps |-> <<>>] /\ packet_queue = [m \in Maps |-> <<>>]
        BY DEF Init, Each
    <2>2. <<>> \in Seq(Item) /\ <<>> \o <<>> = <<>> /\ DOMAIN <<>> = {}
        OBVIOUS
    <2>3. \A m \in Maps : Seen(m) = <<>>
        BY <2>1, <2>2, Zenon DEF Seen
    <2>4. Ordered(<<>>) /\ \A n : Below(<<>>, n)
        BY <2>2 DEF Ordered, Below
    <2> QED BY <2>1, <2>2, <2>3, <2>4, Zenon DEF ChatInv
<1>2. ChatInv => ChatOrder
    BY Zenon DEF ChatInv, ChatOrder, Seen
<1> QED BY <1>1, <1>2, InitInv, StepInv, StepChat, PTL DEF Spec

==============================================================================
