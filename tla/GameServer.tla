------------------------------ MODULE GameServer ------------------------------
(***************************************************************************)
(* The session core of server/game: game_server's tables (channels_,       *)
(* channel_to_entity_, channel_to_db_id_, db_strands_,                     *)
(* player_map_mapping_), the player entities they point to, and the        *)
(* database work the server hands to its thread pool.                      *)
(*                                                                         *)
(* Two kinds of thread interleave here.  The one io_context thread runs    *)
(* accept, close, message and timer handlers to completion, one at a time: *)
(* each is one action.  The threads of db_pool_ run the tasks posted on    *)
(* the per-channel strands: a task is one action per SQL statement.  A     *)
(* login starts on the io thread, continues on a strand and comes back to  *)
(* the io thread as a posted continuation, so the tables it finds on its   *)
(* return need not be the ones it left.                                    *)
(*                                                                         *)
(* Data.  The columns save_position writes (pos_x, pos_y, pos_z, map_id)   *)
(* are one value, "map"; of those save_stats writes only hp varies (the    *)
(* code passes level = 1 and exp = 0).  A player's name stands for its row *)
(* id: players.name is a UNIQUE KEY.                                       *)
(***************************************************************************)
EXTENDS Naturals, Sequences, FiniteSets

CONSTANTS
    Channels,         \* channel ids: each is handed out once by asio_server
    Players,          \* names in login requests
    Maps,             \* ids of config_.maps
    DefaultMap,       \* map 1
    MaxHp,            \* the max_hp column's default
    None,             \* std::nullopt / end() of a lookup
    DbThreads,        \* threads of db_pool_
    HaveDao,          \* player_dao_ is set: built with MySQL and a pool is open
    HaveRedis,        \* redis_client_ is set
    LoginRequests,    \* bound: the sequences of names a client logs in with
    StrandBound       \* bound: tasks waiting on one strand when the timer fires

Row == [map : Maps, hp : 0..MaxHp]
Snapshot == [player : Players, map : Maps, hp : 0..MaxHp]

ASSUME MapAssumption == DefaultMap \in Maps
ASSUME HpAssumption == MaxHp \in Nat \ {0}
ASSUME NoneAssumption == None \notin Players \cup Maps \cup Row \cup Snapshot
ASSUME FlagAssumption == HaveDao \in BOOLEAN /\ HaveRedis \in BOOLEAN
ASSUME BoundAssumption ==
    /\ DbThreads \in Nat /\ StrandBound \in Nat
    /\ LoginRequests \in [Channels -> SUBSET Seq(Players)]

VARIABLES
    link,               \* the connection: fresh, open, closing, gone
    channels,           \* channels_
    db_strands,         \* keys of db_strands_
    channel_to_entity,  \* channel -> entity id, 0 when absent
    channel_to_db_id,   \* channel -> player, None when absent
    player_map_mapping, \* channel -> map, None when absent
    active_entities,    \* EntityManager::active_entities_
    components,         \* components[e]: Player, Position and Health of entity e
    strand,             \* strand[c]: tasks posted on c's strand, oldest first
    run,                \* run[c]: how far the task at the head of strand[c] is
    io_queue,           \* login continuations posted to io_exec_
    db,                 \* the players table
    sink,               \* snapshots in FailureSink's file
    cache,              \* players with a player:{id}:data key in Redis
    logins,             \* history: names in the login requests c has sent
    farewell,           \* history: what on_close(c) posted to be saved
    confirmed           \* history: c's logout task saw both writes succeed

tables == <<channels, db_strands, channel_to_entity, channel_to_db_id,
            player_map_mapping>>
ecs == <<active_entities, components>>
pool == <<strand, run>>
stores == <<db, sink, cache>>
history == <<logins, farewell, confirmed>>
vars == <<link, tables, ecs, pool, io_queue, stores, history>>

-----------------------------------------------------------------------------
Entity(c) == channel_to_entity[c]
Online(c) == Entity(c) # 0

Component == [player : Players, channel : Channels, map : Maps, hp : 0..MaxHp]
Task == [kind : {"login", "flush", "logout"}, player : Players, map : Maps,
         hp : 0..MaxHp]
Phase == {"idle", "select", "finish", "stats"}
Run == [at : Phase, row : Row \cup {None}, posOk : BOOLEAN]
Continuation == [channel : Channels, player : Players, row : Row \cup {None}]

Idle == [at |-> "idle", row |-> None, posOk |-> FALSE]
DefaultRow == [map |-> DefaultMap, hp |-> MaxHp]

LoginTask(p) == [kind |-> "login", player |-> p, map |-> DefaultMap, hp |-> 0]

SaveTask(kind, p, e) ==
    [kind |-> kind, player |-> p, map |-> components[e].map,
     hp |-> components[e].hp]

\* asio::post on c's strand
PostFront(c, t) == <<t>> \o strand[c]
Post(c, t) == Append(strand[c], t)

\* A frame is dispatched while the socket still delivers: parse_frames_ and a
\* read completion already queued do not look at closed_.
Delivers(c) == link[c] \in {"open", "closing"}

-----------------------------------------------------------------------------
\* ---- io_context thread ----------------------------------------------------

OnAccept(c) ==
    /\ link[c] = "fresh"
    /\ link' = [link EXCEPT ![c] = "open"]
    /\ channels' = channels \cup {c}
    /\ db_strands' = db_strands \cup {c}
    /\ player_map_mapping' = [player_map_mapping EXCEPT ![c] = DefaultMap]
    /\ UNCHANGED <<channel_to_entity, channel_to_db_id, ecs, pool, io_queue,
                   stores, history>>

\* EntityManager::create_entity
NewEntityByCount == Cardinality(active_entities) + 1
NewEntity == Len(components) + 1

\* create_entity, its four components, and the channel's entry
SpawnKeepingEntry(c, p, row) ==
    /\ components' = Append(components, [player |-> p, channel |-> c,
                                         map |-> row.map, hp |-> row.hp])
    /\ active_entities' = active_entities \cup {NewEntity}
    /\ channel_to_entity' = IF Online(c) THEN channel_to_entity
                            ELSE [channel_to_entity EXCEPT ![c] = NewEntity]
Spawn(c, p, row) ==
    /\ components' = Append(components, [player |-> p, channel |-> c,
                                         map |-> row.map, hp |-> row.hp])
    /\ active_entities' = active_entities \cup {NewEntity}
    /\ channel_to_entity' = [channel_to_entity EXCEPT ![c] = NewEntity]

\* A login frame: a strand task when there is a DAO, an entity at once otherwise.
HandleLogin(c, p) ==
    /\ Delivers(c)
    /\ Append(logins[c], p) \in LoginRequests[c]
    /\ logins' = [logins EXCEPT ![c] = Append(@, p)]
    /\ IF HaveDao
       THEN /\ c \in db_strands
            /\ strand' = [strand EXCEPT ![c] = Post(c, LoginTask(p))]
            /\ UNCHANGED <<tables, ecs>>
       ELSE /\ Spawn(c, p, DefaultRow)
            /\ UNCHANGED <<channels, db_strands, channel_to_db_id,
                           player_map_mapping, strand>>
    /\ UNCHANGED <<link, run, io_queue, stores, farewell, confirmed>>

\* The continuation spawns only for a channel that is still there and a row
\* that was found.
AdmittedUnchecked(k) == k.row # None
Admitted(k) == k.channel \in channels /\ k.row # None

\* The lambda a login task posts back to io_exec_.
LoginContinuation ==
    /\ io_queue # <<>>
    /\ io_queue' = Tail(io_queue)
    /\ LET k == Head(io_queue) IN
       IF Admitted(k)
       THEN /\ Spawn(k.channel, k.player, k.row)
            /\ channel_to_db_id' = [channel_to_db_id EXCEPT ![k.channel] = k.player]
            /\ UNCHANGED <<channels, db_strands, player_map_mapping>>
       ELSE UNCHANGED <<tables, ecs>>
    /\ UNCHANGED <<link, pool, stores, history>>

DamageUnclamped(h, d) == h - d
TakeDamage(h, d) == IF h > d THEN h - d ELSE 0

\* A killed character's channel loses its entry.
EntryErased(t) == [channel_to_entity EXCEPT ![t] = 0]

\* Attack frame from c on the character of channel t.  The damage
\* 10 + skill_id * 5 wraps at 2^32, so no value is excluded.
HandleAttack(c, t, d) ==
    /\ Delivers(c)
    /\ Online(c) /\ Online(t)
    /\ LET e == Entity(t)
           left == TakeDamage(components[e].hp, d)
       IN /\ components' = [components EXCEPT ![e].hp = left]
          /\ IF left = 0
             THEN /\ active_entities' = active_entities \ {e}
                  /\ channel_to_entity' = EntryErased(t)
             ELSE UNCHANGED <<active_entities, channel_to_entity>>
    /\ UNCHANGED <<link, channels, db_strands, channel_to_db_id,
                   player_map_mapping, pool, io_queue, stores, history>>

HandleMapEnter(c, m) ==
    /\ Delivers(c)
    /\ player_map_mapping' =
         IF player_map_mapping[c] = m \/ (player_map_mapping[c] = None /\ m = DefaultMap)
         THEN player_map_mapping
         ELSE [player_map_mapping EXCEPT ![c] = m]
    /\ components' = IF Online(c) THEN [components EXCEPT ![Entity(c)].map = m]
                                  ELSE components
    /\ UNCHANGED <<link, channels, db_strands, channel_to_entity,
                   channel_to_db_id, active_entities, pool, io_queue, stores,
                   history>>

\* AISystem::attack_target on the MainThreadManager thread: a fixed damage to
\* the Health of whatever entity a monster targets.
MonsterAttack(e) ==
    /\ components[e].hp > 0
    /\ components' = [components EXCEPT ![e].hp = TakeDamage(@, 1)]
    /\ UNCHANGED <<link, tables, active_entities, pool, io_queue, stores, history>>

Flushable(c) == /\ channel_to_db_id[c] # None
                /\ Online(c)
                /\ c \in db_strands

\* flush_timer_ fires: one save_position task per player that is online.
FlushPlayers ==
    /\ HaveDao
    /\ \E c \in Channels : Flushable(c)
    /\ \A c \in Channels : Len(strand[c]) < StrandBound
    /\ strand' = [c \in Channels |->
                    IF Flushable(c)
                    THEN Post(c, SaveTask("flush", channel_to_db_id[c], Entity(c)))
                    ELSE strand[c]]
    /\ UNCHANGED <<link, tables, ecs, run, io_queue, stores, history>>

\* on_close erases the channel from every table, posts the logout save, drops
\* the cached player and destroys the entity.
Saves(c) == /\ HaveDao
            /\ c \in db_strands
            /\ channel_to_db_id[c] # None
            /\ Online(c)

StrandsAfterClose(c) == db_strands \ {c}

EntitiesKept(c) == active_entities
EntitiesAfterClose(c) == active_entities \ {Entity(c)}

OnClose(c) ==
    /\ link[c] = "open"
    /\ link' = [link EXCEPT ![c] = "closing"]
    /\ channels' = channels \ {c}
    /\ channel_to_entity' = [channel_to_entity EXCEPT ![c] = 0]
    /\ channel_to_db_id' = [channel_to_db_id EXCEPT ![c] = None]
    /\ db_strands' = StrandsAfterClose(c)
    /\ IF Saves(c)
       THEN LET t == SaveTask("logout", channel_to_db_id[c], Entity(c)) IN
            /\ strand' = [strand EXCEPT ![c] = Post(c, t)]
            /\ farewell' = [farewell EXCEPT ![c] =
                              [player |-> t.player, map |-> t.map, hp |-> t.hp]]
       ELSE UNCHANGED <<strand, farewell>>
    /\ cache' = IF HaveRedis THEN cache \ {channel_to_db_id[c]} ELSE cache
    /\ player_map_mapping' = [player_map_mapping EXCEPT ![c] = None]
    /\ active_entities' = EntitiesAfterClose(c)
    /\ UNCHANGED <<components, run, io_queue, db, sink, logins, confirmed>>

\* The handler close() posts: the socket is closed, no more frames.
SocketClosed(c) ==
    /\ link[c] = "closing"
    /\ link' = [link EXCEPT ![c] = "gone"]
    /\ UNCHANGED <<tables, ecs, pool, io_queue, stores, history>>

-----------------------------------------------------------------------------
\* ---- DB thread pool --------------------------------------------------------

Busy(c) == run[c].at # "idle"

\* A pool thread takes the task at the head of c's strand; a strand runs one
\* task at a time.
ThreadFree == Cardinality({d \in Channels : Busy(d)}) < DbThreads

Starts(c, kind) ==
    /\ ~Busy(c)
    /\ strand[c] # <<>>
    /\ Head(strand[c]).kind = kind
    /\ ThreadFree

At(c, phase) == run[c].at = phase

Pop(c) == strand' = [strand EXCEPT ![c] = Tail(@)]

\* What an UPDATE does to the table: applied and reported, not applied, or
\* applied while the answer is lost and every retry fails.
SavePosition(t, ok) ==
    \/ db' = [db EXCEPT ![t.player].map = t.map]
    \/ ~ok /\ UNCHANGED db

SaveStats(t, ok) ==
    \/ db' = [db EXCEPT ![t.player].hp = t.hp]
    \/ ~ok /\ UNCHANGED db

\* find_or_create, INSERT IGNORE.  It goes on to the SELECT when the statement
\* ran or could not be prepared, and gives up when executing it failed for good;
\* a lost answer gives up with the row in place.
LoginInsert(c) ==
    /\ Starts(c, "login")
    /\ \/ db' = [db EXCEPT ![Head(strand[c]).player] =
                   IF @ = None THEN DefaultRow ELSE @]
       \/ UNCHANGED db
    /\ \E next \in {"select", "finish"} : run' = [run EXCEPT ![c].at = next]
    /\ UNCHANGED <<link, tables, ecs, strand, io_queue, sink, cache, history>>

\* find_or_create, SELECT
LoginSelect(c) ==
    /\ At(c, "select")
    /\ \E row \in {db[Head(strand[c]).player], None} :
         run' = [run EXCEPT ![c] = [@ EXCEPT !.at = "finish", !.row = row]]
    /\ UNCHANGED <<link, tables, ecs, strand, io_queue, stores, history>>

\* set_player_cache, then the continuation is posted to the io thread
LoginFinish(c) ==
    /\ At(c, "finish")
    /\ LET p == Head(strand[c]).player IN
       /\ cache' = IF HaveRedis /\ run[c].row # None THEN cache \cup {p} ELSE cache
       /\ io_queue' = Append(io_queue, [channel |-> c, player |-> p,
                                        row |-> run[c].row])
    /\ Pop(c)
    /\ run' = [run EXCEPT ![c] = Idle]
    /\ UNCHANGED <<link, tables, ecs, db, sink, history>>

\* The flush lambda: one save_position, its result is not looked at.
FlushSave(c) ==
    /\ Starts(c, "flush")
    /\ \E ok \in BOOLEAN : SavePosition(Head(strand[c]), ok)
    /\ Pop(c)
    /\ UNCHANGED <<link, tables, ecs, run, io_queue, sink, cache, history>>

\* The logout lambda, save_position
LogoutSavePositionListed(c) ==
    /\ c \in db_strands
    /\ Starts(c, "logout")
    /\ \E ok \in BOOLEAN :
         /\ SavePosition(Head(strand[c]), ok)
         /\ run' = [run EXCEPT ![c] = [@ EXCEPT !.at = "stats", !.posOk = ok]]
    /\ UNCHANGED <<link, tables, ecs, strand, io_queue, sink, cache, history>>
LogoutSavePosition(c) ==
    /\ Starts(c, "logout")
    /\ \E ok \in BOOLEAN :
         /\ SavePosition(Head(strand[c]), ok)
         /\ run' = [run EXCEPT ![c] = [@ EXCEPT !.at = "stats", !.posOk = ok]]
    /\ UNCHANGED <<link, tables, ecs, strand, io_queue, sink, cache, history>>

StatsSaved(c, ok) == ok
BothSaved(c, ok) == run[c].posOk /\ ok

\* The logout lambda, save_stats and, unless both writes succeeded, the record
\* in the failure sink
LogoutSaveStats(c) ==
    /\ At(c, "stats")
    /\ LET t == Head(strand[c]) IN
       \E ok \in BOOLEAN :
         /\ SaveStats(t, ok)
         /\ sink' = IF BothSaved(c, ok) THEN sink
                    ELSE sink \cup {[player |-> t.player, map |-> t.map, hp |-> t.hp]}
         /\ confirmed' = [confirmed EXCEPT ![c] = run[c].posOk /\ ok]
    /\ Pop(c)
    /\ run' = [run EXCEPT ![c] = Idle]
    /\ UNCHANGED <<link, tables, ecs, io_queue, cache, logins, farewell>>

\* Redis drops a key whose TTL ran out.
CacheExpire(p) ==
    /\ p \in cache
    /\ cache' = cache \ {p}
    /\ UNCHANGED <<link, tables, ecs, pool, io_queue, db, sink, history>>

-----------------------------------------------------------------------------
Init ==
    /\ link = [c \in Channels |-> "fresh"]
    /\ channels = {}
    /\ db_strands = {}
    /\ channel_to_entity = [c \in Channels |-> 0]
    /\ channel_to_db_id = [c \in Channels |-> None]
    /\ player_map_mapping = [c \in Channels |-> None]
    /\ active_entities = {}
    /\ components = <<>>
    /\ strand = [c \in Channels |-> <<>>]
    /\ run = [c \in Channels |-> Idle]
    /\ io_queue = <<>>
    /\ db = [p \in Players |-> None]
    /\ sink = {}
    /\ cache = {}
    /\ logins = [c \in Channels |-> <<>>]
    /\ farewell = [c \in Channels |-> None]
    /\ confirmed = [c \in Channels |-> FALSE]

IoStep ==
    \/ LoginContinuation
    \/ FlushPlayers
    \/ \E c \in Channels :
         \/ OnAccept(c)
         \/ OnClose(c)
         \/ SocketClosed(c)
         \/ \E p \in Players : HandleLogin(c, p)
         \/ \E m \in Maps : HandleMapEnter(c, m)
         \/ \E t \in Channels, d \in 0..MaxHp : HandleAttack(c, t, d)

DbStep(c) ==
    \/ LoginInsert(c)
    \/ LoginSelect(c)
    \/ LoginFinish(c)
    \/ FlushSave(c)
    \/ LogoutSavePosition(c)
    \/ LogoutSaveStats(c)

Next ==
    \/ IoStep
    \/ \E c \in Channels : DbStep(c)
    \/ \E e \in 1..Len(components) : MonsterAttack(e)
    \/ \E p \in Players : CacheExpire(p)

Spec == Init /\ [][Next]_vars

-----------------------------------------------------------------------------
\* The types of the tables, queues and stores.
TypeOK ==
    /\ link \in [Channels -> {"fresh", "open", "closing", "gone"}]
    /\ channels \subseteq Channels
    /\ db_strands \subseteq Channels
    /\ channel_to_entity \in [Channels -> Nat]
    /\ channel_to_db_id \in [Channels -> Players \cup {None}]
    /\ player_map_mapping \in [Channels -> Maps \cup {None}]
    /\ active_entities \subseteq 1..Len(components)
    /\ components \in Seq(Component)
    /\ strand \in [Channels -> Seq(Task)]
    /\ run \in [Channels -> Run]
    /\ io_queue \in Seq(Continuation)
    /\ db \in [Players -> Row \cup {None}]
    /\ sink \subseteq Snapshot
    /\ cache \subseteq Players
    /\ logins \in [Channels -> Seq(Players)]
    /\ farewell \in [Channels -> Snapshot \cup {None}]
    /\ confirmed \in [Channels -> BOOLEAN]

\* After on_close the channel has no session again: the tables through which the
\* server acts for a character and saves it (channel_to_entity_,
\* channel_to_db_id_, db_strands_) never name it, although login continuations
\* and late frames of that channel may still run.  player_map_mapping_ is not one
\* of them: a MAP_ENTER handled after on_close does put the channel back there.
SessionOnlyOpen ==
    \A c \in Channels :
        (Online(c) \/ channel_to_db_id[c] # None \/ c \in db_strands)
            => c \in channels

\* channel_to_entity_ never names a destroyed entity, nor one that belongs to
\* another channel: attacks, map changes and saves act on the sender's own
\* character.
EntityOwned ==
    \A c \in Channels : Online(c) =>
        /\ Entity(c) \in active_entities
        /\ components[Entity(c)].channel = c

\* What a flush or on_close would save of a channel belongs in the row it would
\* be saved to: the channel's entity is a character of the player in
\* channel_to_db_id_, also after a second login under another name, and after a
\* death, which erases the one entry and keeps the other.
SavesOwnCharacter ==
    \A c \in Channels : Saves(c) => components[Entity(c)].player = channel_to_db_id[c]

\* The logout save is the last task its strand ever runs: no flush and no login
\* of the connection is queued behind it, and none follows once it is done.
LogoutIsLast ==
    \A c \in Channels : farewell[c] # None =>
        \/ strand[c] = <<>>
        \/ /\ strand[c][Len(strand[c])].kind = "logout"
           /\ \A i \in 1..(Len(strand[c]) - 1) : strand[c][i].kind # "logout"

\* A logout save that has been run reached the table with both statements, or
\* its whole snapshot is in the failure sink.
SavedOrRecorded ==
    \A c \in Channels :
        farewell[c] # None /\ strand[c] = <<>>
            => confirmed[c] \/ farewell[c] \in sink

\* c is the only connection on which p has ever logged in.
Sole(c, p) == \A d \in Channels \ {c} : \A i \in 1..Len(logins[d]) : logins[d][i] # p

\* When a player uses one connection, what its confirmed logout saved is what
\* the table holds from then on: no earlier flush lands after it.
LogoutDurable ==
    \A c \in Channels : \A p \in Players :
        /\ Sole(c, p)
        /\ confirmed[c]
        /\ farewell[c] # None
        /\ farewell[c].player = p
        => db[p] = [map |-> farewell[c].map, hp |-> farewell[c].hp]

\* Every live player entity is some connection's character, unless its connection
\* logged in a second time: login creates none that nobody owns (the comment
\* "orphaned-entity" in handle_login).
NoOrphanEntity ==
    \A e \in active_entities :
        \/ \E c \in Channels : Entity(c) = e
        \/ Len(logins[components[e].channel]) > 1

\* The io thread and the pool threads keep running what was posted to them.  A
\* strand whose task waits for a thread gets one: asio's scheduler serves its
\* queue in order, so a task is not passed over for ever.
FairSpec ==
    /\ Spec
    /\ WF_vars(LoginContinuation)
    /\ \A c \in Channels : SF_vars(DbStep(c))

\* A logout save that on_close posted is eventually confirmed by the table or
\* recorded in the failure sink, with flushes and logins of other connections
\* competing for the pool's threads.
LogoutSettles ==
    \A c \in Channels :
        farewell[c] # None ~> confirmed[c] \/ farewell[c] \in sink

-----------------------------------------------------------------------------
\* What documents and comments say of the server and the code does not do.

\* "a strand per player: the DB work of one player is serialised"
\* (game_server.hpp:123, ARCHITECTURE.md:249): two statements of one player's
\* tasks never interleave.
PlayerDbSerialized ==
    \A c, d \in Channels :
        c # d /\ Busy(c) /\ Busy(d)
            => Head(strand[c]).player # Head(strand[d]).player
===============================================================================
