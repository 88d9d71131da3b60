--------------------------- MODULE GameServerProofs ---------------------------
(***************************************************************************)
(* Type correctness of the session core, EntityOwned and NoOrphanEntity,   *)
(* for every set of channels, players and maps.                            *)
(*                                                                         *)
(* TypeOK is not inductive alone.  An UPDATE keeps the players table       *)
(* well-typed only if its row exists, so every save task must carry a      *)
(* player that was found (TasksOK, ContinuationsOK, TablesOK).  A handler  *)
(* that reads an entity relies on EntityOwned.  TypeInv is all of these;   *)
(* the steps of the pool threads come first, then the handlers of the io   *)
(* thread.  StageInv then follows a connection's only login from its       *)
(* strand to its entity.                                                   *)
(***************************************************************************)
EXTENDS GameServer, SequenceTheorems, TLAPS

\* Time for the provers, also on a busy machine.
USE SMTT(20), ZenonT(20)

\* A table entry or queue element may name a player that has a row.
Found(p) == db[p] # None

\* A save task has a row to update, and a started task is the kind its
\* progress says.
TasksOK(c) ==
    /\ \A i \in 1..Len(strand[c]) :
         strand[c][i].kind # "login" => Found(strand[c][i].player)
    /\ run[c].at # "idle" => strand[c] # <<>>
    /\ run[c].at \in {"select", "finish"} => strand[c][1].kind = "login"
    /\ run[c].at = "stats" => strand[c][1].kind = "logout"
    /\ run[c].row # None => run[c].at = "finish" /\ Found(strand[c][1].player)

TablesOK(c) == channel_to_db_id[c] # None => Found(channel_to_db_id[c])

ContinuationsOK ==
    \A i \in 1..Len(io_queue) : io_queue[i].row # None => Found(io_queue[i].player)

TypeInv ==
    /\ TypeOK
    /\ \A c \in Channels : TasksOK(c) /\ TablesOK(c)
    /\ ContinuationsOK
    /\ EntityOwned

-----------------------------------------------------------------------------
\* None is neither a player, a map, a row nor a snapshot the tables hold.
LEMMA NoneDistinct ==
    None \notin Players /\ None \notin Maps /\ None \notin Row /\ None \notin Snapshot
BY NoneAssumption

\* Writing one component of a sequence of components keeps its type and length.
LEMMA SetComponent ==
    ASSUME NEW s \in Seq(Component), NEW e \in 1..Len(s), NEW x \in Component
    PROVE  /\ [s EXCEPT ![e] = x] \in Seq(Component)
           /\ Len([s EXCEPT ![e] = x]) = Len(s)
           /\ \A i \in 1..Len(s) : [s EXCEPT ![e] = x][i] = IF i = e THEN x ELSE s[i]
BY ExceptSeq

\* TakeDamage stays within the range of the hp column.
LEMMA DamageRange ==
    ASSUME NEW h \in 0..MaxHp, NEW d \in Nat
    PROVE  TakeDamage(h, d) \in 0..MaxHp
BY HpAssumption DEF TakeDamage

\* asio::post: the strand keeps its type and its older tasks.
LEMMA Posted ==
    ASSUME NEW s \in Seq(Task), NEW t \in Task
    PROVE  /\ Append(s, t) \in Seq(Task)
           /\ Len(Append(s, t)) = Len(s) + 1
           /\ Append(s, t) # <<>>
           /\ \A i \in 1..Len(s) : Append(s, t)[i] = s[i]
           /\ Append(s, t)[Len(s) + 1] = t
OBVIOUS

\* The head of a non-empty strand is removed: the others move up.
LEMMA Popped ==
    ASSUME NEW s \in Seq(Task), s # <<>>
    PROVE  /\ Head(s) = s[1] /\ Head(s) \in Task
           /\ Tail(s) \in Seq(Task)
           /\ Len(s) \in Nat \ {0}
           /\ Len(Tail(s)) = Len(s) - 1
           /\ \A i \in 1..Len(Tail(s)) : Tail(s)[i] = s[i + 1]
           /\ Tail(s) = <<>> <=> Len(s) = 1
<1>1. /\ Head(s) \in Task /\ Tail(s) \in Seq(Task)
      /\ Len(Tail(s)) = Len(s) - 1
      /\ \A i \in 1..Len(Tail(s)) : Tail(s)[i] = s[i + 1]
  BY HeadTailProperties
<1>2. Len(s) \in Nat \ {0}
  BY EmptySeq
<1>3. Head(s) = s[1]
  OBVIOUS
<1>4. Tail(s) = <<>> <=> Len(Tail(s)) = 0
  BY <1>1, EmptySeq, Zenon
<1> QED BY <1>1, <1>2, <1>3, <1>4

\* The initial state is well-typed.
LEMMA InitTypeInv == Init => TypeInv
<1> SUFFICES ASSUME Init PROVE TypeInv
  OBVIOUS
<1>1. Idle \in Run
  BY DEF Idle, Run, Phase
<1>2. TypeOK
  BY <1>1 DEF Init, TypeOK
<1>3. \A c \in Channels : TasksOK(c) /\ TablesOK(c)
  BY DEF Init, TasksOK, TablesOK, Idle
<1>4. ContinuationsOK /\ EntityOwned
  BY DEF Init, ContinuationsOK, EntityOwned, Online, Entity
<1> QED BY <1>2, <1>3, <1>4 DEF TypeInv

\* When the tasks, their progress, the table of players, the continuations and
\* the players' ids are untouched, so is what is said of them.
LEMMA QueuesUnchanged ==
    ASSUME TypeInv, UNCHANGED <<strand, run, db, channel_to_db_id, io_queue>>
    PROVE  /\ \A c \in Channels : TasksOK(c)' /\ TablesOK(c)'
           /\ ContinuationsOK'
BY DEF TypeInv, TasksOK, TablesOK, ContinuationsOK, Found

\* When the entities and the channels' entries are untouched, so is ownership.
LEMMA EntitiesUnchanged ==
    ASSUME TypeInv, UNCHANGED <<channel_to_entity, ecs>>
    PROVE  EntityOwned'
BY DEF TypeInv, EntityOwned, Online, Entity, ecs

\* A channel's character is an active entity with a component.
LEMMA OwnEntity ==
    ASSUME TypeInv, NEW c \in Channels, Online(c)
    PROVE  /\ Entity(c) \in 1..Len(components)
           /\ Entity(c) \in active_entities
           /\ components[Entity(c)] \in Component
           /\ components[Entity(c)].channel = c
<1>1. Entity(c) \in active_entities /\ components[Entity(c)].channel = c
  BY DEF TypeInv, EntityOwned
<1>2. Entity(c) \in 1..Len(components)
  BY <1>1, Zenon DEF TypeInv, TypeOK
<1>3. components \in Seq(Component)
  BY DEF TypeInv, TypeOK
<1>4. components[Entity(c)] \in Component
  BY <1>2, <1>3
<1> QED BY <1>1, <1>2, <1>4

\* Spawning: create_entity's new id belongs to nobody else.
LEMMA SpawnInv ==
    ASSUME TypeInv, NEW c \in Channels, NEW p \in Players, NEW row \in Row,
           Spawn(c, p, row)
    PROVE  /\ channel_to_entity' \in [Channels -> Nat]
           /\ active_entities' \subseteq 1..Len(components')
           /\ components' \in Seq(Component)
           /\ EntityOwned'
<1> DEFINE x == [player |-> p, channel |-> c, map |-> row.map, hp |-> row.hp]
<1>1. x \in Component
  BY DEF Component, Row
<1>2. components \in Seq(Component) /\ Len(components) \in Nat
  BY DEF TypeInv, TypeOK
<1>3. components' = Append(components, x)
  BY DEF Spawn
<1> HIDE DEF x
<1>4. /\ components' \in Seq(Component)
      /\ Len(components') = Len(components) + 1
      /\ \A i \in 1..Len(components) : components'[i] = components[i]
      /\ components'[Len(components) + 1] = x
  BY <1>1, <1>2, <1>3
<1>5. channel_to_entity' \in [Channels -> Nat]
  BY <1>2 DEF TypeInv, TypeOK, Spawn, NewEntity
<1>5a. active_entities' = active_entities \cup {Len(components) + 1}
  BY DEF Spawn, NewEntity
<1>6. active_entities' \subseteq 1..Len(components')
  <2>1. active_entities \subseteq 1..Len(components)
    BY DEF TypeInv, TypeOK
  <2>2. Len(components) \in Nat /\ Len(components') = Len(components) + 1
    BY <1>2, <1>4
  <2>3. ASSUME NEW n \in Nat
        PROVE  1..n \subseteq 1..(n + 1) /\ n + 1 \in 1..(n + 1)
    OBVIOUS
  <2> QED BY <2>1, <2>2, <2>3, <1>5a, Zenon
<1>7. ASSUME NEW d \in Channels, channel_to_entity'[d] # 0
      PROVE  /\ channel_to_entity'[d] \in active_entities'
             /\ components'[channel_to_entity'[d]].channel = d
  <2>1. CASE d = c
    <3>1. channel_to_entity'[d] = Len(components) + 1
      BY <2>1 DEF TypeInv, TypeOK, Spawn, NewEntity
    <3>2. x.channel = d
      BY <2>1 DEF x
    <3> QED BY <3>1, <3>2, <1>4, <1>5a
  <2>2. CASE d # c
    <3>1. channel_to_entity'[d] = Entity(d)
      BY <2>2 DEF TypeInv, TypeOK, Spawn, Entity
    <3>2. Online(d)
      BY <3>1, <1>7 DEF Online
    <3> QED BY <3>1, <3>2, <1>4, <1>5a, OwnEntity
  <2> QED BY <2>1, <2>2
<1>8. EntityOwned'
  BY <1>7 DEF EntityOwned, Online, Entity
<1> QED BY <1>4, <1>5, <1>6, <1>8

-----------------------------------------------------------------------------
\* A player that has a row keeps one.
FoundKept == \A p \in Players : Found(p) => db'[p] # None

\* Every task names a player.
LEMMA TaskPlayer ==
    ASSUME NEW s \in Seq(Task), NEW i \in 1..Len(s)
    PROVE  s[i] \in Task /\ s[i].player \in Players
<1>1. s[i] \in Task
  OBVIOUS
<1> QED BY <1>1 DEF Task

\* Every continuation names a player.
LEMMA ContinuationPlayer ==
    ASSUME NEW s \in Seq(Continuation), NEW i \in 1..Len(s)
    PROVE  s[i] \in Continuation /\ s[i].player \in Players
<1>1. s[i] \in Continuation
  OBVIOUS
<1> QED BY <1>1 DEF Continuation

\* A strand that got at most one new task, with a row to save to, is in order.
LEMMA GrowInv ==
    ASSUME TypeInv, NEW c \in Channels, UNCHANGED <<run, db>>,
           \/ strand'[c] = strand[c]
           \/ \E t \in Task : /\ t.kind # "login" => Found(t.player)
                              /\ strand'[c] = Append(strand[c], t)
    PROVE  strand'[c] \in Seq(Task) /\ TasksOK(c)'
<1>1. strand[c] \in Seq(Task) /\ TasksOK(c)
  BY DEF TypeInv, TypeOK
<1>2. CASE strand'[c] = strand[c]
  BY <1>1, <1>2 DEF TasksOK, Found
<1>3. CASE \E t \in Task : /\ t.kind # "login" => Found(t.player)
                           /\ strand'[c] = Append(strand[c], t)
  <2>1. PICK t \in Task : /\ t.kind # "login" => Found(t.player)
                          /\ strand'[c] = Append(strand[c], t)
    BY <1>3
  <2> DEFINE s == strand[c]
             u == strand'[c]
  <2>2. s \in Seq(Task) /\ Len(s) \in Nat
    BY <1>1
  <2>3. /\ u \in Seq(Task) /\ Len(u) = Len(s) + 1 /\ u # <<>>
        /\ \A i \in 1..Len(s) : u[i] = s[i]
        /\ u[Len(s) + 1] = t
    BY <2>1, <2>2, Posted
  <2>4. s # <<>> => u[1] = s[1]
    BY <2>2, <2>3, EmptySeq
  <2>5. \A i \in 1..Len(u) : i \in 1..Len(s) \/ i = Len(s) + 1
    BY <2>2, <2>3
  <2>6. TasksOK(c)'
    BY <1>1, <2>1, <2>3, <2>4, <2>5 DEF TasksOK, Found
  <2> QED BY <2>3, <2>6
<1> QED BY <1>2, <1>3

\* A strand whose finished head is removed is in order.
LEMMA PopInv ==
    ASSUME TypeInv, NEW c \in Channels, strand[c] # <<>>, FoundKept,
           strand'[c] = Tail(strand[c]), run'[c].at = "idle", run'[c].row = None
    PROVE  strand'[c] \in Seq(Task) /\ TasksOK(c)'
<1>1. strand[c] \in Seq(Task) /\ TasksOK(c)
  BY DEF TypeInv, TypeOK
<1>2. /\ strand'[c] \in Seq(Task)
      /\ Len(strand'[c]) = Len(strand[c]) - 1
      /\ \A i \in 1..Len(strand'[c]) : strand'[c][i] = strand[c][i + 1]
      /\ Len(strand[c]) \in Nat
  BY <1>1, Popped
<1>3. \A i \in 1..Len(strand'[c]) : i + 1 \in 1..Len(strand[c])
  BY <1>2
<1>4. \A i \in 1..Len(strand[c]) : strand[c][i].player \in Players
  BY <1>1, TaskPlayer
<1>5. \A i \in 1..Len(strand'[c]) :
        strand'[c][i].kind # "login" => db'[strand'[c][i].player] # None
  BY <1>1, <1>2, <1>3, <1>4 DEF TasksOK, FoundKept
<1>6. TasksOK(c)'
  BY <1>5 DEF TasksOK, Found
<1> QED BY <1>2, <1>6

\* Strands nobody touched, ids and continuations survive a growing table.
LEMMA RestKept ==
    ASSUME TypeInv, FoundKept
    PROVE  /\ \A c \in Channels :
                strand'[c] = strand[c] /\ run'[c] = run[c] => TasksOK(c)'
           /\ channel_to_db_id' = channel_to_db_id => \A c \in Channels : TablesOK(c)'
           /\ io_queue' = io_queue => ContinuationsOK'
<1>1. ASSUME NEW c \in Channels, strand'[c] = strand[c], run'[c] = run[c]
      PROVE  TasksOK(c)'
  <2>1. strand[c] \in Seq(Task) /\ TasksOK(c)
    BY DEF TypeInv, TypeOK
  <2>2. \A i \in 1..Len(strand[c]) : strand[c][i].player \in Players
    BY <2>1, TaskPlayer
  <2>3. strand[c] # <<>> => strand[c][1].player \in Players
    BY <2>1, <2>2, EmptySeq
  <2> QED BY <1>1, <2>1, <2>2, <2>3 DEF TasksOK, Found, FoundKept
<1>2. ASSUME channel_to_db_id' = channel_to_db_id, NEW c \in Channels
      PROVE  TablesOK(c)'
  BY <1>2 DEF TypeInv, TypeOK, TablesOK, Found, FoundKept
<1>3. ASSUME io_queue' = io_queue
      PROVE  ContinuationsOK'
  <2>1. \A i \in 1..Len(io_queue) : io_queue[i].player \in Players
    BY ContinuationPlayer DEF TypeInv, TypeOK
  <2> QED BY <1>3, <2>1 DEF TypeInv, ContinuationsOK, Found, FoundKept
<1> QED BY <1>1, <1>2, <1>3

\* save_position and save_stats on a player that has a row
LEMMA SaveInv ==
    ASSUME TypeInv, NEW t \in Task, Found(t.player), NEW ok \in BOOLEAN,
           SavePosition(t, ok) \/ SaveStats(t, ok)
    PROVE  db' \in [Players -> Row \cup {None}] /\ FoundKept
<1>1. db \in [Players -> Row \cup {None}] /\ t.player \in Players
  BY DEF TypeInv, TypeOK, Task
<1>2. db[t.player] \in Row
  BY <1>1 DEF Found
<1>3. /\ [db[t.player] EXCEPT !.map = t.map] \in Row
      /\ [db[t.player] EXCEPT !.hp = t.hp] \in Row
  BY <1>2 DEF Row, Task
<1>4. PICK r \in Row : db' = [db EXCEPT ![t.player] = r] \/ db' = db
  BY <1>2, <1>3 DEF SavePosition, SaveStats
<1>5. r # None
  BY NoneDistinct
<1> QED BY <1>1, <1>4, <1>5 DEF FoundKept, Found

-----------------------------------------------------------------------------
\* ---- TypeInv, steps of the pool threads ------------------------------------

\* A task that is running, or can start, is at the head of its strand.
LEMMA HeadTask ==
    ASSUME TypeInv, NEW c \in Channels, strand[c] # <<>>
    PROVE  /\ Head(strand[c]) \in Task /\ Head(strand[c]) = strand[c][1]
           /\ Head(strand[c]).player \in Players
           /\ Head(strand[c]).kind # "login" => Found(Head(strand[c]).player)
<1>1. strand[c] \in Seq(Task) /\ TasksOK(c)
  BY DEF TypeInv, TypeOK
<1>2. Head(strand[c]) = strand[c][1] /\ 1 \in 1..Len(strand[c])
  BY <1>1, Popped
<1>3. Head(strand[c]) \in Task /\ Head(strand[c]).player \in Players
  BY <1>1, <1>2, TaskPlayer
<1> QED BY <1>1, <1>2, <1>3 DEF TasksOK

\* A task made progress: TypeInv holds if the new progress fits the task.
LEMMA ProgressInv ==
    ASSUME TypeInv, NEW c \in Channels, NEW r \in Run,
           strand[c] # <<>>, r.at # "idle",
           r.at \in {"select", "finish"} => strand[c][1].kind = "login",
           r.at = "stats" => strand[c][1].kind = "logout",
           r.row # None => r.at = "finish" /\ db'[strand[c][1].player] # None,
           run' = [run EXCEPT ![c] = r],
           db' \in [Players -> Row \cup {None}], FoundKept,
           UNCHANGED <<link, tables, ecs, strand, io_queue, sink, cache, history>>
    PROVE  TypeInv'
<1>1. strand \in [Channels -> Seq(Task)] /\ run \in [Channels -> Run]
  BY DEF TypeInv, TypeOK
<1>2. run' \in [Channels -> Run] /\ run'[c] = r
  BY <1>1
<1>3. TypeOK'
  BY <1>2, Zenon DEF TypeInv, TypeOK, tables, ecs, history
<1>4. TasksOK(c)'
  <2>1. \A i \in 1..Len(strand[c]) : strand[c][i].player \in Players
    BY <1>1, TaskPlayer
  <2>2. \A i \in 1..Len(strand[c]) :
          strand[c][i].kind # "login" => db'[strand[c][i].player] # None
    BY <2>1, Zenon DEF TypeInv, TasksOK, FoundKept
  <2> QED BY <1>2, <2>2 DEF TasksOK, Found
<1>5. \A d \in Channels : d # c => TasksOK(d)'
  BY <1>1, RestKept
<1>6. (\A d \in Channels : TablesOK(d)') /\ ContinuationsOK'
  BY RestKept DEF tables
<1>7. EntityOwned'
  BY EntitiesUnchanged DEF tables
<1> QED BY <1>3, <1>4, <1>5, <1>6, <1>7 DEF TypeInv

\* find_or_create, INSERT IGNORE
LEMMA LoginInsertType ==
    ASSUME TypeInv, NEW c \in Channels, LoginInsert(c)
    PROVE  TypeInv'
<1>1. strand[c] # <<>> /\ run[c].at = "idle" /\ Head(strand[c]).kind = "login"
  BY DEF LoginInsert, Starts, Busy
<1>2. PICK p \in Players : p = Head(strand[c]).player
  BY <1>1, HeadTask
<1>3. db' \in [Players -> Row \cup {None}] /\ FoundKept
  <2>1. DefaultRow \in Row /\ DefaultRow # None
    BY MapAssumption, HpAssumption, NoneDistinct DEF DefaultRow, Row
  <2>2. db \in [Players -> Row \cup {None}]
    BY DEF TypeInv, TypeOK
  <2>3. \/ db' = [db EXCEPT ![p] = IF db[p] = None THEN DefaultRow ELSE db[p]]
        \/ db' = db
    BY <1>2 DEF LoginInsert
  <2> QED BY <2>1, <2>2, <2>3 DEF FoundKept, Found
<1>4. run[c] \in Run /\ run[c].row = None
  BY <1>1 DEF TypeInv, TypeOK, TasksOK
<1>5. PICK next \in {"select", "finish"} : run' = [run EXCEPT ![c].at = next]
  BY Zenon DEF LoginInsert
<1>6. PICK r \in Run : /\ r.at = next /\ r.row = None
                       /\ run' = [run EXCEPT ![c] = r]
  <2>1. next \in Phase
    BY DEF Phase
  <2>2. /\ [run[c] EXCEPT !.at = next] \in Run
        /\ [run[c] EXCEPT !.at = next].at = next
        /\ [run[c] EXCEPT !.at = next].row = None
    BY <1>4, <2>1 DEF Run
  <2> QED BY <1>5, <2>2, Zenon
<1>7. UNCHANGED <<link, tables, ecs, strand, io_queue, sink, cache, history>>
  BY DEF LoginInsert
<1>8. strand[c][1].kind = "login"
  BY <1>1, HeadTask
<1> QED BY <1>1, <1>3, <1>6, <1>7, <1>8, ProgressInv, Zenon

\* find_or_create, SELECT
LEMMA LoginSelectType ==
    ASSUME TypeInv, NEW c \in Channels, LoginSelect(c)
    PROVE  TypeInv'
<1>1. strand[c] # <<>> /\ strand[c][1].kind = "login"
  BY DEF LoginSelect, At, TypeInv, TasksOK
<1>2. PICK p \in Players : p = Head(strand[c]).player /\ p = strand[c][1].player
  BY <1>1, HeadTask
<1>3. PICK row \in {db[p], None} :
        run' = [run EXCEPT ![c] = [run[c] EXCEPT !.at = "finish", !.row = row]]
  BY <1>2, Zenon DEF LoginSelect
<1>4. run[c] \in Run /\ db[p] \in Row \cup {None}
  BY DEF TypeInv, TypeOK
<1>5. PICK r \in Run : /\ r.at = "finish" /\ r.row = row
                       /\ run' = [run EXCEPT ![c] = r]
  <2>1. "finish" \in Phase /\ row \in Row \cup {None}
    BY <1>3, <1>4 DEF Phase
  <2>2. /\ [run[c] EXCEPT !.at = "finish", !.row = row] \in Run
        /\ [run[c] EXCEPT !.at = "finish", !.row = row].at = "finish"
        /\ [run[c] EXCEPT !.at = "finish", !.row = row].row = row
    BY <1>4, <2>1, Zenon DEF Run
  <2> QED BY <1>3, <2>2, Zenon
<1>6. UNCHANGED <<link, tables, ecs, strand, io_queue, stores, history>>
  BY DEF LoginSelect
<1>7. db' \in [Players -> Row \cup {None}] /\ FoundKept
  BY <1>6 DEF TypeInv, TypeOK, FoundKept, Found, stores
<1>8. r.row # None => r.at = "finish" /\ db'[strand[c][1].player] # None
  BY <1>2, <1>3, <1>5, <1>6 DEF stores
<1> QED BY <1>1, <1>5, <1>6, <1>7, <1>8, ProgressInv, Zenon DEF stores

\* The logout lambda, save_position
LEMMA LogoutSavePositionType ==
    ASSUME TypeInv, NEW c \in Channels, LogoutSavePosition(c)
    PROVE  TypeInv'
<1>1. strand[c] # <<>> /\ run[c].at = "idle" /\ Head(strand[c]).kind = "logout"
  BY DEF LogoutSavePosition, Starts, Busy
<1>2. PICK t \in Task : t = Head(strand[c]) /\ t = strand[c][1] /\ Found(t.player)
  BY <1>1, HeadTask
<1>3. PICK ok \in BOOLEAN :
        /\ SavePosition(t, ok)
        /\ run' = [run EXCEPT ![c] = [run[c] EXCEPT !.at = "stats", !.posOk = ok]]
  BY <1>2, Zenon DEF LogoutSavePosition
<1>4. db' \in [Players -> Row \cup {None}] /\ FoundKept
  BY <1>2, <1>3, SaveInv
<1>5. run[c] \in Run /\ run[c].row = None
  BY <1>1 DEF TypeInv, TypeOK, TasksOK
<1>6. PICK r \in Run : /\ r.at = "stats" /\ r.row = None
                       /\ run' = [run EXCEPT ![c] = r]
  <2>1. "stats" \in Phase
    BY DEF Phase
  <2>2. /\ [run[c] EXCEPT !.at = "stats", !.posOk = ok] \in Run
        /\ [run[c] EXCEPT !.at = "stats", !.posOk = ok].at = "stats"
        /\ [run[c] EXCEPT !.at = "stats", !.posOk = ok].row = None
    BY <1>5, <2>1, Zenon DEF Run
  <2> QED BY <1>3, <2>2, Zenon
<1>7. UNCHANGED <<link, tables, ecs, strand, io_queue, sink, cache, history>>
  BY DEF LogoutSavePosition
<1> QED BY <1>1, <1>2, <1>4, <1>6, <1>7, ProgressInv, Zenon

\* A task ended: TypeInv holds with its strand popped.
LEMMA EndInv ==
    ASSUME TypeInv, NEW c \in Channels, strand[c] # <<>>,
           strand' = [strand EXCEPT ![c] = Tail(strand[c])],
           run' = [run EXCEPT ![c] = Idle] \/ (run' = run /\ run[c].at = "idle"),
           db' \in [Players -> Row \cup {None}], FoundKept,
           io_queue' \in Seq(Continuation), ContinuationsOK',
           sink' \subseteq Snapshot, cache' \subseteq Players,
           confirmed' \in [Channels -> BOOLEAN],
           UNCHANGED <<link, tables, ecs, logins, farewell>>
    PROVE  TypeInv'
<1>1. strand \in [Channels -> Seq(Task)] /\ run \in [Channels -> Run]
  BY DEF TypeInv, TypeOK
<1>2. Idle \in Run /\ Idle.at = "idle" /\ Idle.row = None
  BY DEF Idle, Run, Phase
<1>3. run' \in [Channels -> Run] /\ run'[c].at = "idle" /\ run'[c].row = None
  <2>1. run[c].at = "idle" => run[c].row = None
    BY DEF TypeInv, TasksOK
  <2> QED BY <1>1, <1>2, <2>1, Zenon
<1>4. strand'[c] \in Seq(Task) /\ TasksOK(c)'
  BY <1>1, <1>3, PopInv, Zenon
<1>5. strand' \in [Channels -> Seq(Task)]
  BY <1>1, <1>4
<1>6. \A d \in Channels : d # c => TasksOK(d)'
  BY <1>1, RestKept
<1>7. TypeOK'
  BY <1>3, <1>5 DEF TypeInv, TypeOK, tables, ecs
<1>8. \A d \in Channels : TablesOK(d)'
  BY RestKept DEF tables
<1>9. EntityOwned'
  BY EntitiesUnchanged DEF tables
<1> QED BY <1>4, <1>6, <1>7, <1>8, <1>9 DEF TypeInv

\* The end of a login task
LEMMA LoginFinishType ==
    ASSUME TypeInv, NEW c \in Channels, LoginFinish(c)
    PROVE  TypeInv'
<1>1. strand[c] # <<>> /\ (run[c].row # None => Found(strand[c][1].player))
  BY DEF LoginFinish, At, TypeInv, TasksOK
<1>2. PICK p \in Players : p = Head(strand[c]).player /\ p = strand[c][1].player
  BY <1>1, HeadTask
<1>3. run[c] \in Run
  BY DEF TypeInv, TypeOK
<1>4. PICK k \in Continuation : k = [channel |-> c, player |-> p, row |-> run[c].row]
  BY <1>3, Zenon DEF Run, Continuation
<1>5. /\ io_queue' = Append(io_queue, k)
      /\ cache' = IF HaveRedis /\ run[c].row # None THEN cache \cup {p} ELSE cache
      /\ strand' = [strand EXCEPT ![c] = Tail(strand[c])]
      /\ run' = [run EXCEPT ![c] = Idle]
      /\ UNCHANGED <<link, tables, ecs, db, sink, history>>
  BY <1>2, <1>4 DEF LoginFinish, Pop
<1>6. io_queue \in Seq(Continuation)
  BY Zenon DEF TypeInv, TypeOK
<1>7. /\ io_queue' \in Seq(Continuation) /\ Len(io_queue) \in Nat
      /\ Len(io_queue') = Len(io_queue) + 1
      /\ \A i \in 1..Len(io_queue) : io_queue'[i] = io_queue[i]
      /\ io_queue'[Len(io_queue) + 1] = k
  BY <1>5, <1>6
<1>8. \A i \in 1..Len(io_queue') : i \in 1..Len(io_queue) \/ i = Len(io_queue) + 1
  BY <1>7
<1>9. k.row # None => db[k.player] # None
  BY <1>1, <1>2, <1>4 DEF Found
<1>10. ContinuationsOK'
  BY <1>5, <1>7, <1>8, <1>9 DEF TypeInv, ContinuationsOK, Found
<1>11. /\ db' \in [Players -> Row \cup {None}] /\ FoundKept
       /\ sink' \subseteq Snapshot /\ cache' \subseteq Players
       /\ confirmed' \in [Channels -> BOOLEAN]
  BY <1>5 DEF TypeInv, TypeOK, FoundKept, Found, history
<1> QED BY <1>1, <1>5, <1>7, <1>10, <1>11, EndInv, ZenonT(40) DEF history

\* The flush lambda
LEMMA FlushSaveType ==
    ASSUME TypeInv, NEW c \in Channels, FlushSave(c)
    PROVE  TypeInv'
<1>1. strand[c] # <<>> /\ run[c].at = "idle" /\ Head(strand[c]).kind = "flush"
  BY DEF FlushSave, Starts, Busy
<1>2. PICK t \in Task : t = Head(strand[c]) /\ Found(t.player)
  BY <1>1, HeadTask
<1>3. PICK ok \in BOOLEAN : SavePosition(t, ok)
  BY <1>2 DEF FlushSave
<1>4. db' \in [Players -> Row \cup {None}] /\ FoundKept
  BY <1>2, <1>3, SaveInv
<1>5. /\ strand' = [strand EXCEPT ![c] = Tail(strand[c])]
      /\ UNCHANGED <<link, tables, ecs, run, io_queue, sink, cache, history>>
  BY DEF FlushSave, Pop
<1>6. ContinuationsOK'
  BY <1>4, <1>5, RestKept
<1>7. /\ io_queue' \in Seq(Continuation)
      /\ sink' \subseteq Snapshot /\ cache' \subseteq Players
      /\ confirmed' \in [Channels -> BOOLEAN]
  BY <1>5 DEF TypeInv, TypeOK, history
<1> QED BY <1>1, <1>4, <1>5, <1>6, <1>7, EndInv, Zenon DEF history

\* The logout lambda, save_stats and the record
LEMMA LogoutSaveStatsType ==
    ASSUME TypeInv, NEW c \in Channels, LogoutSaveStats(c)
    PROVE  TypeInv'
<1>1. strand[c] # <<>> /\ strand[c][1].kind = "logout"
  BY DEF LogoutSaveStats, At, TypeInv, TasksOK
<1>2. PICK t \in Task : t = Head(strand[c]) /\ Found(t.player)
  BY <1>1, HeadTask
<1>3. PICK r \in Snapshot : r = [player |-> t.player, map |-> t.map, hp |-> t.hp]
  BY Zenon DEF Task, Snapshot
<1>4. PICK ok \in BOOLEAN :
        /\ SaveStats(t, ok)
        /\ sink' = sink \/ sink' = sink \cup {r}
        /\ confirmed' = [confirmed EXCEPT ![c] = run[c].posOk /\ ok]
  BY <1>2, <1>3, Zenon DEF LogoutSaveStats
<1>5. db' \in [Players -> Row \cup {None}] /\ FoundKept
  BY <1>2, <1>4, SaveInv
<1>6. /\ strand' = [strand EXCEPT ![c] = Tail(strand[c])]
      /\ run' = [run EXCEPT ![c] = Idle]
      /\ UNCHANGED <<link, tables, ecs, io_queue, cache, logins, farewell>>
  BY DEF LogoutSaveStats, Pop
<1>7. ContinuationsOK'
  BY <1>5, <1>6, RestKept
<1>8. /\ io_queue' \in Seq(Continuation)
      /\ sink' \subseteq Snapshot /\ cache' \subseteq Players
  BY <1>4, <1>6 DEF TypeInv, TypeOK
<1>9. confirmed' \in [Channels -> BOOLEAN]
  BY <1>4 DEF TypeInv, TypeOK
<1> QED BY <1>1, <1>5, <1>6, <1>7, <1>8, <1>9, EndInv, Zenon

\* Redis drops a key.
LEMMA CacheExpireType ==
    ASSUME TypeInv, NEW p \in Players, CacheExpire(p)
    PROVE  TypeInv'
<1>1. TypeOK'
  BY DEF TypeInv, TypeOK, CacheExpire, tables, ecs, pool, history
<1>2. /\ \A d \in Channels : TasksOK(d)' /\ TablesOK(d)'
      /\ ContinuationsOK'
  BY QueuesUnchanged DEF CacheExpire, tables, pool
<1>3. EntityOwned'
  BY EntitiesUnchanged DEF CacheExpire, tables
<1> QED BY <1>1, <1>2, <1>3 DEF TypeInv

-----------------------------------------------------------------------------
\* ---- TypeInv, handlers of the io thread ------------------------------------

\* on_accept
LEMMA OnAcceptType ==
    ASSUME TypeInv, NEW c \in Channels, OnAccept(c)
    PROVE  TypeInv'
<1>1. TypeOK'
  BY MapAssumption, Zenon
     DEF TypeInv, TypeOK, OnAccept, ecs, pool, stores, history
<1>2. /\ \A d \in Channels : TasksOK(d)' /\ TablesOK(d)'
      /\ ContinuationsOK'
  BY QueuesUnchanged DEF OnAccept, pool, stores
<1>3. EntityOwned'
  BY EntitiesUnchanged DEF OnAccept
<1> QED BY <1>1, <1>2, <1>3 DEF TypeInv

\* the posted close of the socket
LEMMA SocketClosedType ==
    ASSUME TypeInv, NEW c \in Channels, SocketClosed(c)
    PROVE  TypeInv'
<1>1. TypeOK'
  BY DEF TypeInv, TypeOK, SocketClosed, tables, ecs, pool, stores, history
<1>2. /\ \A d \in Channels : TasksOK(d)' /\ TablesOK(d)'
      /\ ContinuationsOK'
  BY QueuesUnchanged DEF SocketClosed, tables, pool, stores
<1>3. EntityOwned'
  BY EntitiesUnchanged DEF SocketClosed, tables
<1> QED BY <1>1, <1>2, <1>3 DEF TypeInv

\* handle_login, with and without a DAO
LEMMA HandleLoginType ==
    ASSUME TypeInv, NEW c \in Channels, NEW p \in Players, HandleLogin(c, p)
    PROVE  TypeInv'
<1>1. logins' \in [Channels -> Seq(Players)]
  <2>1. logins \in [Channels -> Seq(Players)]
    BY DEF TypeInv, TypeOK
  <2>2. Append(logins[c], p) \in Seq(Players)
    BY <2>1
  <2> QED BY <2>1, <2>2 DEF HandleLogin
<1>2. CASE HaveDao
  <2>1. /\ strand' = [strand EXCEPT ![c] = Append(strand[c], LoginTask(p))]
        /\ UNCHANGED <<tables, ecs, link, run, io_queue, stores, farewell, confirmed>>
    BY <1>2 DEF HandleLogin, Post
  <2>2. LoginTask(p) \in Task /\ LoginTask(p).kind = "login"
    BY MapAssumption, HpAssumption DEF LoginTask, Task
  <2>3. strand \in [Channels -> Seq(Task)]
    BY DEF TypeInv, TypeOK
  <2>4. \A d \in Channels : strand'[d] \in Seq(Task) /\ TasksOK(d)'
    BY <2>1, <2>2, <2>3, GrowInv DEF stores
  <2>5. strand' \in [Channels -> Seq(Task)]
    BY <2>1, <2>3, <2>4
  <2>6. TypeOK'
    BY <1>1, <2>1, <2>5 DEF TypeInv, TypeOK, tables, ecs, stores
  <2>7. (\A d \in Channels : TablesOK(d)') /\ ContinuationsOK'
    BY <2>1, RestKept DEF FoundKept, Found, tables, stores
  <2>8. EntityOwned'
    BY <2>1, EntitiesUnchanged DEF tables
  <2> QED BY <2>4, <2>6, <2>7, <2>8 DEF TypeInv
<1>3. CASE ~HaveDao
  <2>1. /\ Spawn(c, p, DefaultRow)
        /\ UNCHANGED <<channels, db_strands, channel_to_db_id, player_map_mapping,
                       strand, link, run, io_queue, stores, farewell, confirmed>>
    BY <1>3 DEF HandleLogin
  <2>2. DefaultRow \in Row
    BY MapAssumption, HpAssumption DEF DefaultRow, Row
  <2>3. /\ channel_to_entity' \in [Channels -> Nat]
        /\ active_entities' \subseteq 1..Len(components')
        /\ components' \in Seq(Component)
        /\ EntityOwned'
    BY <2>1, <2>2, SpawnInv
  <2>4. TypeOK'
    BY <1>1, <2>1, <2>3 DEF TypeInv, TypeOK, stores
  <2>5. /\ \A d \in Channels : TasksOK(d)' /\ TablesOK(d)'
        /\ ContinuationsOK'
    BY <2>1, QueuesUnchanged DEF stores
  <2> QED BY <2>3, <2>4, <2>5 DEF TypeInv
<1> QED BY <1>2, <1>3

\* the login continuation
LEMMA LoginContinuationType ==
    ASSUME TypeInv, LoginContinuation
    PROVE  TypeInv'
<1>1. io_queue \in Seq(Continuation) /\ io_queue # <<>>
  BY DEF TypeInv, TypeOK, LoginContinuation
<1>2. PICK k \in Continuation : k = Head(io_queue)
  BY <1>1, HeadTailProperties
<1>3. /\ io_queue' \in Seq(Continuation)
      /\ Len(io_queue') = Len(io_queue) - 1 /\ Len(io_queue) \in Nat \ {0}
      /\ \A i \in 1..Len(io_queue') : io_queue'[i] = io_queue[i + 1]
  BY <1>1, HeadTailProperties, EmptySeq DEF LoginContinuation
<1>4. UNCHANGED <<link, pool, stores, history>>
  BY DEF LoginContinuation
<1>5. \A i \in 1..Len(io_queue') : i + 1 \in 1..Len(io_queue)
  BY <1>3
<1>6. ContinuationsOK'
  BY <1>3, <1>4, <1>5 DEF TypeInv, ContinuationsOK, Found, stores
<1>7. \A d \in Channels : TasksOK(d)'
  BY <1>4, RestKept DEF FoundKept, Found, stores, pool
<1>8. CASE Admitted(k)
  <2>1. /\ Spawn(k.channel, k.player, k.row)
        /\ channel_to_db_id' = [channel_to_db_id EXCEPT ![k.channel] = k.player]
        /\ UNCHANGED <<channels, db_strands, player_map_mapping>>
    BY <1>2, <1>8 DEF LoginContinuation
  <2>2. k.channel \in Channels /\ k.player \in Players /\ k.row \in Row
    BY <1>8 DEF Continuation, Admitted
  <2>3. /\ channel_to_entity' \in [Channels -> Nat]
        /\ active_entities' \subseteq 1..Len(components')
        /\ components' \in Seq(Component)
        /\ EntityOwned'
    BY <2>1, <2>2, SpawnInv
  <2>4. channel_to_db_id' \in [Channels -> Players \cup {None}]
    BY <2>1, <2>2 DEF TypeInv, TypeOK
  <2>5. TypeOK'
    BY <1>3, <1>4, <2>1, <2>3, <2>4, Zenon DEF TypeInv, TypeOK, pool, stores, history
  <2>6. k = io_queue[1] /\ 1 \in 1..Len(io_queue)
    BY <1>1, <1>2, <1>3
  <2>7. Found(k.player)
    BY <1>8, <2>6 DEF TypeInv, ContinuationsOK, Admitted
  <2>8. \A d \in Channels : TablesOK(d)'
    BY <1>4, <2>1, <2>2, <2>7 DEF TypeInv, TypeOK, TablesOK, Found, stores
  <2> QED BY <1>6, <1>7, <2>3, <2>5, <2>8 DEF TypeInv
<1>9. CASE ~Admitted(k)
  <2>1. UNCHANGED <<tables, ecs>>
    BY <1>2, <1>9, Zenon DEF LoginContinuation
  <2>2. TypeOK'
    BY <1>3, <1>4, <2>1, Zenon DEF TypeInv, TypeOK, tables, ecs, pool, stores, history
  <2>3. \A d \in Channels : TablesOK(d)'
    BY <1>4, <2>1, RestKept DEF FoundKept, Found, stores, tables
  <2>4. EntityOwned'
    BY <2>1, EntitiesUnchanged DEF tables
  <2> QED BY <1>6, <1>7, <2>2, <2>3, <2>4 DEF TypeInv
<1> QED BY <1>8, <1>9

\* A component write that leaves the owner alone
LEMMA WriteInv ==
    ASSUME TypeInv, NEW e \in 1..Len(components), NEW x \in Component,
           x.channel = components[e].channel,
           components' = [components EXCEPT ![e] = x]
    PROVE  /\ components' \in Seq(Component)
           /\ Len(components') = Len(components)
           /\ \A i \in 1..Len(components) : components'[i].channel = components[i].channel
<1>1. components \in Seq(Component)
  BY DEF TypeInv, TypeOK
<1> QED BY <1>1, SetComponent

\* The hp and the map of a component may take any value of their columns.
LEMMA ComponentOf ==
    ASSUME NEW x \in Component, NEW h \in 0..MaxHp, NEW m \in Maps
    PROVE  /\ x.hp \in 0..MaxHp
           /\ [x EXCEPT !.hp = h] \in Component
           /\ [x EXCEPT !.hp = h].channel = x.channel
           /\ [x EXCEPT !.map = m] \in Component
           /\ [x EXCEPT !.map = m].channel = x.channel
BY DEF Component

\* handle_attack: a kill destroys exactly the target's entity and entry.
LEMMA HandleAttackType ==
    ASSUME TypeInv, NEW c \in Channels, NEW t \in Channels, NEW d \in 0..MaxHp,
           HandleAttack(c, t, d)
    PROVE  TypeInv'
<1>1. PICK e \in 1..Len(components) :
        /\ e = Entity(t) /\ components[e] \in Component /\ components[e].channel = t
  BY OwnEntity DEF HandleAttack, EntryErased
<1>2. PICK left \in 0..MaxHp : left = TakeDamage(components[e].hp, d)
  <2>1. components[e].hp \in 0..MaxHp
    BY <1>1 DEF Component
  <2>2. d \in Nat
    BY HpAssumption
  <2> QED BY <2>1, <2>2, DamageRange, Zenon
<1>3. PICK x \in Component : /\ x.channel = components[e].channel
                             /\ components' = [components EXCEPT ![e] = x]
  <2>1. components' = [components EXCEPT ![e] = [components[e] EXCEPT !.hp = left]]
    BY <1>1, <1>2 DEF HandleAttack, EntryErased
  <2>2. /\ [components[e] EXCEPT !.hp = left] \in Component
        /\ [components[e] EXCEPT !.hp = left].channel = components[e].channel
    BY <1>1, <1>2, ComponentOf, MapAssumption, Zenon
  <2> QED BY <2>1, <2>2, Zenon
<1>4. /\ components' \in Seq(Component)
      /\ Len(components') = Len(components)
      /\ \A i \in 1..Len(components) : components'[i].channel = components[i].channel
  BY <1>3, WriteInv, Zenon
<1>5. \/ /\ active_entities' = active_entities \ {e}
         /\ channel_to_entity' = [channel_to_entity EXCEPT ![t] = 0]
      \/ UNCHANGED <<active_entities, channel_to_entity>>
  BY <1>1, <1>2 DEF HandleAttack, EntryErased
<1>6. UNCHANGED <<link, channels, db_strands, channel_to_db_id,
                  player_map_mapping, pool, io_queue, stores, history>>
  BY DEF HandleAttack, EntryErased
<1>7. TypeOK'
  <2>1. channel_to_entity' \in [Channels -> Nat]
    <3>1. channel_to_entity \in [Channels -> Nat] /\ 0 \in Nat
      BY DEF TypeInv, TypeOK
    <3> QED BY <1>5, <3>1
  <2>2. active_entities' \subseteq 1..Len(components')
    BY <1>4, <1>5, Zenon DEF TypeInv, TypeOK
  <2> QED BY <1>4, <1>6, <2>1, <2>2, Zenon DEF TypeInv, TypeOK, pool, stores, history
<1>8. /\ \A b \in Channels : TasksOK(b)' /\ TablesOK(b)'
      /\ ContinuationsOK'
  BY <1>6, QueuesUnchanged DEF pool, stores
<1>9. ASSUME NEW b \in Channels, channel_to_entity'[b] # 0
      PROVE  /\ channel_to_entity'[b] \in active_entities'
             /\ components'[channel_to_entity'[b]].channel = b
  <2>1. /\ channel_to_entity'[b] = Entity(b)
        /\ b = t => UNCHANGED <<active_entities, channel_to_entity>>
    BY <1>5, <1>9, Zenon DEF TypeInv, TypeOK, Entity
  <2>2. /\ Entity(b) \in 1..Len(components) /\ Entity(b) \in active_entities
        /\ components[Entity(b)].channel = b
    BY <1>9, <2>1, OwnEntity DEF Online
  <2>3. b # t => Entity(b) # e
    BY <1>1, <2>2
  <2> QED BY <1>4, <1>5, <2>1, <2>2, <2>3
<1>10. EntityOwned'
  BY <1>9 DEF EntityOwned, Online, Entity
<1> QED BY <1>7, <1>8, <1>10 DEF TypeInv

\* Ownership survives a component write that leaves owners and tables alone.
LEMMA OwnedAfterWrite ==
    ASSUME TypeInv, UNCHANGED <<channel_to_entity, active_entities>>,
           \A i \in 1..Len(components) : components'[i].channel = components[i].channel
    PROVE  EntityOwned'
<1>1. ASSUME NEW b \in Channels, channel_to_entity'[b] # 0
      PROVE  /\ channel_to_entity'[b] \in active_entities'
             /\ components'[channel_to_entity'[b]].channel = b
  BY <1>1, OwnEntity DEF Online, Entity
<1> QED BY <1>1 DEF EntityOwned, Online, Entity

\* handle_map_enter
LEMMA HandleMapEnterType ==
    ASSUME TypeInv, NEW c \in Channels, NEW m \in Maps, HandleMapEnter(c, m)
    PROVE  TypeInv'
<1>1. UNCHANGED <<link, channels, db_strands, channel_to_entity, channel_to_db_id,
                  active_entities, pool, io_queue, stores, history>>
  BY DEF HandleMapEnter
<1>2. player_map_mapping' \in [Channels -> Maps \cup {None}]
  BY DEF TypeInv, TypeOK, HandleMapEnter
<1>3. /\ components' \in Seq(Component)
      /\ Len(components') = Len(components)
      /\ \A i \in 1..Len(components) : components'[i].channel = components[i].channel
  <2>1. CASE ~Online(c)
    BY <2>1 DEF HandleMapEnter, TypeInv, TypeOK
  <2>2. CASE Online(c)
    <3>1. PICK e \in 1..Len(components) : e = Entity(c) /\ components[e] \in Component
      BY <2>2, OwnEntity
    <3>2. components' = [components EXCEPT ![e] = [components[e] EXCEPT !.map = m]]
      BY <2>2, <3>1 DEF HandleMapEnter
    <3>3. 0 \in 0..MaxHp
      BY HpAssumption
    <3>4. /\ [components[e] EXCEPT !.map = m] \in Component
          /\ [components[e] EXCEPT !.map = m].channel = components[e].channel
      BY <3>1, <3>3, ComponentOf, Zenon
    <3> QED BY <3>2, <3>4, WriteInv, Zenon
  <2> QED BY <2>1, <2>2
<1>4. TypeOK'
  BY <1>1, <1>2, <1>3, Zenon DEF TypeInv, TypeOK, pool, stores, history
<1>5. /\ \A d \in Channels : TasksOK(d)' /\ TablesOK(d)'
      /\ ContinuationsOK'
  BY <1>1, QueuesUnchanged DEF pool, stores
<1>6. EntityOwned'
  BY <1>1, <1>3, OwnedAfterWrite
<1> QED BY <1>4, <1>5, <1>6 DEF TypeInv

\* AISystem::attack_target
LEMMA MonsterAttackType ==
    ASSUME TypeInv, NEW e \in 1..Len(components), MonsterAttack(e)
    PROVE  TypeInv'
<1>1. components \in Seq(Component)
  BY DEF TypeInv, TypeOK
<1>2. components[e] \in Component
  BY <1>1
<1>3. PICK left \in 0..MaxHp : left = TakeDamage(components[e].hp, 1)
  BY <1>2, DamageRange DEF Component
<1>4. components' = [components EXCEPT ![e] = [components[e] EXCEPT !.hp = left]]
  BY <1>3 DEF MonsterAttack
<1>5. /\ [components[e] EXCEPT !.hp = left] \in Component
      /\ [components[e] EXCEPT !.hp = left].channel = components[e].channel
  BY <1>2, ComponentOf, MapAssumption, Zenon
<1>6. /\ components' \in Seq(Component)
      /\ Len(components') = Len(components)
      /\ \A i \in 1..Len(components) : components'[i].channel = components[i].channel
  BY <1>4, <1>5, WriteInv, Zenon
<1>7. UNCHANGED <<link, tables, active_entities, pool, io_queue, stores, history>>
  BY Zenon DEF MonsterAttack
<1>8. TypeOK'
  BY <1>6, <1>7 DEF TypeInv, TypeOK, tables, pool, stores, history
<1>9. /\ \A d \in Channels : TasksOK(d)' /\ TablesOK(d)'
      /\ ContinuationsOK'
  BY <1>7, QueuesUnchanged DEF tables, pool, stores
<1>10. EntityOwned'
  BY <1>6, <1>7, OwnedAfterWrite, Zenon DEF tables
<1> QED BY <1>8, <1>9, <1>10 DEF TypeInv

\* A save task built from a channel's character carries a player with a row.
LEMMA SaveTaskOf ==
    ASSUME TypeInv, NEW c \in Channels, Online(c), channel_to_db_id[c] # None,
           NEW kind \in {"flush", "logout"}
    PROVE  LET t == SaveTask(kind, channel_to_db_id[c], Entity(c)) IN
           t \in Task /\ Found(t.player) /\ t.kind = kind
<1>1. components[Entity(c)] \in Component
  BY OwnEntity
<1>2. channel_to_db_id[c] \in Players /\ Found(channel_to_db_id[c])
  BY DEF TypeInv, TypeOK, TablesOK
<1> QED BY <1>1, <1>2 DEF SaveTask, Task, Component

\* flush_players
LEMMA FlushPlayersType ==
    ASSUME TypeInv, FlushPlayers
    PROVE  TypeInv'
<1>1. UNCHANGED <<link, tables, ecs, run, io_queue, stores, history>>
  BY DEF FlushPlayers
<1>2. ASSUME NEW c \in Channels
      PROVE  strand'[c] \in Seq(Task) /\ TasksOK(c)'
  <2>1. CASE Flushable(c)
    <3>1. PICK t \in Task : /\ t = SaveTask("flush", channel_to_db_id[c], Entity(c))
                            /\ Found(t.player)
      BY <2>1, SaveTaskOf DEF Flushable
    <3>2. strand'[c] = Append(strand[c], t)
      BY <2>1, <3>1 DEF FlushPlayers, Post
    <3> QED BY <1>1, <3>1, <3>2, GrowInv, Zenon DEF stores
  <2>2. CASE ~Flushable(c)
    <3>1. strand'[c] = strand[c]
      BY <2>2 DEF FlushPlayers
    <3> QED BY <1>1, <3>1, GrowInv DEF stores
  <2> QED BY <2>1, <2>2
<1>3. strand' \in [Channels -> Seq(Task)]
  <2>1. strand' = [c \in Channels |-> strand'[c]]
    BY DEF FlushPlayers
  <2> QED BY <1>2, <2>1
<1>4. TypeOK'
  BY <1>1, <1>3, Zenon DEF TypeInv, TypeOK, tables, ecs, stores, history
<1>5. (\A c \in Channels : TablesOK(c)') /\ ContinuationsOK'
  BY <1>1, RestKept DEF FoundKept, Found, tables, stores
<1>6. EntityOwned'
  BY <1>1, EntitiesUnchanged DEF tables
<1> QED BY <1>2, <1>4, <1>5, <1>6, Zenon DEF TypeInv

\* What on_close posts, if anything: the save of c's character, and farewell
\* describes it.
LEMMA OnClosePosts ==
    ASSUME TypeInv, NEW c \in Channels, OnClose(c)
    PROVE  \/ UNCHANGED <<strand, farewell>>
           \/ \E t \in Task :
                /\ t.kind = "logout" /\ Found(t.player)
                /\ strand' = [strand EXCEPT ![c] = Append(strand[c], t)]
                /\ farewell' = [farewell EXCEPT ![c] =
                                  [player |-> t.player, map |-> t.map, hp |-> t.hp]]
<1>1. CASE ~Saves(c)
  BY <1>1 DEF OnClose
<1>2. CASE Saves(c)
  <2>1. PICK t \in Task : /\ t = SaveTask("logout", channel_to_db_id[c], Entity(c))
                          /\ Found(t.player) /\ t.kind = "logout"
    BY <1>2, SaveTaskOf DEF Saves
  <2> QED BY <1>2, <2>1 DEF OnClose, Post
<1> QED BY <1>1, <1>2, Zenon

\* on_close: the entity it destroys is no other channel's.
LEMMA OnCloseType ==
    ASSUME TypeInv, NEW c \in Channels, OnClose(c)
    PROVE  TypeInv'
<1>1. UNCHANGED <<components, run, io_queue, db, sink, logins, confirmed>>
  BY DEF OnClose
<1>2. strand \in [Channels -> Seq(Task)]
  BY DEF TypeInv, TypeOK
<1>3. \A d \in Channels : strand'[d] \in Seq(Task) /\ TasksOK(d)'
  <2>1. \A d \in Channels :
          \/ strand'[d] = strand[d]
          \/ \E t \in Task : /\ t.kind # "login" => Found(t.player)
                             /\ strand'[d] = Append(strand[d], t)
    BY <1>2, OnClosePosts
  <2> QED BY <1>1, <2>1, GrowInv
<1>4. strand' \in [Channels -> Seq(Task)]
  BY <1>2, <1>3, OnClosePosts
<1>5. farewell' \in [Channels -> Snapshot \cup {None}]
  <2>1. \A t \in Task : [player |-> t.player, map |-> t.map, hp |-> t.hp] \in Snapshot
    BY DEF Task, Snapshot
  <2>2. farewell \in [Channels -> Snapshot \cup {None}]
    BY DEF TypeInv, TypeOK
  <2>3. CASE UNCHANGED <<strand, farewell>>
    BY <2>2, <2>3
  <2>4. ASSUME NEW t \in Task,
               farewell' = [farewell EXCEPT ![c] =
                              [player |-> t.player, map |-> t.map, hp |-> t.hp]]
        PROVE  farewell' \in [Channels -> Snapshot \cup {None}]
    <3>1. PICK r \in Snapshot : r = [player |-> t.player, map |-> t.map, hp |-> t.hp]
      BY <2>1, Zenon
    <3>2. farewell' = [farewell EXCEPT ![c] = r]
      BY <2>4, <3>1
    <3> QED BY <2>2, <3>2
  <2> QED BY <2>3, <2>4, OnClosePosts
<1>6. /\ link' \in [Channels -> {"fresh", "open", "closing", "gone"}]
      /\ channels' \subseteq Channels /\ db_strands' \subseteq Channels
      /\ cache' \subseteq Players
  BY Zenon DEF TypeInv, TypeOK, OnClose, StrandsAfterClose
<1>7. /\ channel_to_entity' \in [Channels -> Nat]
      /\ channel_to_db_id' \in [Channels -> Players \cup {None}]
      /\ player_map_mapping' \in [Channels -> Maps \cup {None}]
  BY Zenon DEF TypeInv, TypeOK, OnClose
<1>8. active_entities' \subseteq 1..Len(components')
  BY <1>1, Zenon DEF TypeInv, TypeOK, OnClose, EntitiesAfterClose
<1>9. TypeOK'
  BY <1>1, <1>4, <1>5, <1>6, <1>7, <1>8 DEF TypeInv, TypeOK
<1>10. \A d \in Channels : TablesOK(d)'
  BY <1>1, Zenon DEF TypeInv, TypeOK, TablesOK, Found, OnClose
<1>11. ContinuationsOK'
  BY <1>1 DEF TypeInv, ContinuationsOK, Found
<1>12. ASSUME NEW b \in Channels, channel_to_entity'[b] # 0
       PROVE  /\ channel_to_entity'[b] \in active_entities'
              /\ components'[channel_to_entity'[b]].channel = b
  <2>1. b # c /\ channel_to_entity'[b] = Entity(b)
    BY <1>12, Zenon DEF TypeInv, TypeOK, OnClose, Entity
  <2>2. Entity(b) \in active_entities /\ components[Entity(b)].channel = b
    BY <1>12, <2>1, OwnEntity DEF Online
  <2>3. Entity(c) # Entity(b)
    <3>1. CASE Online(c)
      BY <3>1, <2>1, <2>2, OwnEntity
    <3>2. CASE ~Online(c)
      BY <3>2, <1>12, <2>1, Zenon DEF Online
    <3> QED BY <3>1, <3>2, Zenon
  <2> QED BY <1>1, <2>1, <2>2, <2>3 DEF OnClose, EntitiesAfterClose
<1>13. EntityOwned'
  BY <1>12 DEF EntityOwned, Online, Entity
<1> QED BY <1>3, <1>9, <1>10, <1>11, <1>13 DEF TypeInv

-----------------------------------------------------------------------------
\* ---- TypeInv, all steps ------------------------------------------------------

\* Every step preserves the types, the tasks' rows and the entities' owners.
LEMMA NextTypeInv == TypeInv /\ [Next]_vars => TypeInv'
<1> SUFFICES ASSUME TypeInv, [Next]_vars PROVE TypeInv'
  OBVIOUS
<1>1. CASE IoStep
  BY <1>1, LoginContinuationType, FlushPlayersType, OnAcceptType, OnCloseType,
     SocketClosedType, HandleLoginType, HandleMapEnterType, HandleAttackType
     DEF IoStep
<1>2. CASE \E c \in Channels : DbStep(c)
  BY <1>2, LoginInsertType, LoginSelectType, LoginFinishType, FlushSaveType,
     LogoutSavePositionType, LogoutSaveStatsType DEF DbStep
<1>3. CASE \E e \in 1..Len(components) : MonsterAttack(e)
  BY <1>3, MonsterAttackType
<1>4. CASE \E p \in Players : CacheExpire(p)
  BY <1>4, CacheExpireType
<1>5. CASE UNCHANGED vars
  <2>1. TypeOK'
    BY <1>5 DEF TypeInv, TypeOK, vars, tables, ecs, pool, stores, history
  <2>2. /\ \A d \in Channels : TasksOK(d)' /\ TablesOK(d)'
        /\ ContinuationsOK'
    BY <1>5, QueuesUnchanged DEF vars, tables, pool, stores
  <2>3. EntityOwned'
    BY <1>5, EntitiesUnchanged DEF vars, tables
  <2> QED BY <2>1, <2>2, <2>3, Zenon DEF TypeInv
<1> QED BY <1>1, <1>2, <1>3, <1>4, <1>5 DEF Next

\* The invariant behind type correctness and entity ownership holds throughout.
THEOREM TypeInvariance == Spec => []TypeInv
BY InitTypeInv, NextTypeInv, PTL DEF Spec

\* The tables, queues and stores of the session core keep their types.
THEOREM TypeCorrect == Spec => []TypeOK
<1>1. TypeInv => TypeOK  BY DEF TypeInv
<1> QED BY TypeInvariance, <1>1, PTL

\* A channel's entry in channel_to_entity_ names a live entity of its own,
\* whatever logins, kills and closes interleave.
THEOREM OwnCharacter == Spec => []EntityOwned
<1>1. TypeInv => EntityOwned  BY DEF TypeInv
<1> QED BY TypeInvariance, <1>1, PTL

-----------------------------------------------------------------------------
\* ---- NoOrphanEntity --------------------------------------------------------

(***************************************************************************)
(* A connection's only login is in one place at a time: a task on the      *)
(* strand, then a continuation for the io thread, then an entity.  Until   *)
(* the first request it is in none.                                        *)
(***************************************************************************)
NoTask(c) == \A i \in 1..Len(strand[c]) : strand[c][i].kind # "login"
NoContinuation(c) == \A i \in 1..Len(io_queue) : io_queue[i].channel # c
NoEntity(c) == \A e \in 1..Len(components) : components[e].channel # c
OneTask(c) ==
    \A i, j \in 1..Len(strand[c]) :
        strand[c][i].kind = "login" /\ strand[c][j].kind = "login" => i = j
OneContinuation(c) ==
    \A i, j \in 1..Len(io_queue) :
        io_queue[i].channel = c /\ io_queue[j].channel = c => i = j
OneEntity(c) == \A e \in active_entities : components[e].channel = c => Entity(c) = e

StageOK(c) ==
    /\ logins[c] = <<>> => NoTask(c) /\ NoContinuation(c) /\ NoEntity(c)
    /\ Len(logins[c]) <= 1 =>
         /\ OneTask(c) /\ OneContinuation(c) /\ OneEntity(c)
         /\ NoTask(c) \/ (NoContinuation(c) /\ NoEntity(c))
         /\ NoContinuation(c) \/ NoEntity(c)

StageInv == \A c \in Channels : StageOK(c)

\* Posting and running tasks other than logins leaves the login tasks alone; a
\* posted login is the only one if there was none, and none is left when the only
\* one has run.
LEMMA TaskStage ==
    ASSUME TypeInv, NEW c \in Channels
    PROVE  /\ strand'[c] = strand[c] =>
                (NoTask(c) => NoTask(c)') /\ (OneTask(c) => OneTask(c)')
           /\ strand[c] # <<>> /\ strand'[c] = Tail(strand[c]) =>
                /\ NoTask(c) => NoTask(c)'
                /\ OneTask(c) => OneTask(c)'
                /\ OneTask(c) /\ strand[c][1].kind = "login" => NoTask(c)'
           /\ \A t \in Task : strand'[c] = Append(strand[c], t) =>
                /\ t.kind # "login" => (NoTask(c) => NoTask(c)') /\ (OneTask(c) => OneTask(c)')
                /\ NoTask(c) => OneTask(c)'
<1>0. strand[c] \in Seq(Task) /\ Len(strand[c]) \in Nat
  BY DEF TypeInv, TypeOK
<1>1. ASSUME strand'[c] = strand[c]
      PROVE  (NoTask(c) => NoTask(c)') /\ (OneTask(c) => OneTask(c)')
  BY <1>1, Zenon DEF NoTask, OneTask
<1>2. ASSUME strand[c] # <<>>, strand'[c] = Tail(strand[c])
      PROVE  /\ NoTask(c) => NoTask(c)'
             /\ OneTask(c) => OneTask(c)'
             /\ OneTask(c) /\ strand[c][1].kind = "login" => NoTask(c)'
  <2>1. /\ Len(strand'[c]) = Len(strand[c]) - 1 /\ Len(strand[c]) \in Nat \ {0}
        /\ \A i \in 1..Len(strand'[c]) : strand'[c][i] = strand[c][i + 1]
    BY <1>0, <1>2, Popped
  <2>2. \A i \in 1..Len(strand'[c]) : i \in Nat /\ i + 1 \in 1..Len(strand[c]) /\ i + 1 # 1
    BY <2>1
  <2>3. 1 \in 1..Len(strand[c])
    BY <2>1
  <2>4. ASSUME NoTask(c) PROVE NoTask(c)'
    BY <2>1, <2>2, <2>4 DEF NoTask
  <2>5. ASSUME OneTask(c) PROVE OneTask(c)'
    <3>1. ASSUME NEW i \in 1..Len(strand'[c]), NEW j \in 1..Len(strand'[c]),
                 strand'[c][i].kind = "login", strand'[c][j].kind = "login"
          PROVE  i = j
      <4>1. strand[c][i + 1].kind = "login" /\ strand[c][j + 1].kind = "login"
        BY <2>1, <3>1
      <4>2. i + 1 = j + 1
        BY <2>2, <2>5, <4>1 DEF OneTask
      <4> QED BY <2>2, <4>2
    <3> QED BY <3>1 DEF OneTask
  <2>6. ASSUME OneTask(c), strand[c][1].kind = "login" PROVE NoTask(c)'
    BY <2>1, <2>2, <2>3, <2>6 DEF OneTask, NoTask
  <2> QED BY <2>4, <2>5, <2>6
<1>3. ASSUME NEW t \in Task, strand'[c] = Append(strand[c], t)
      PROVE  /\ t.kind # "login" => (NoTask(c) => NoTask(c)') /\ (OneTask(c) => OneTask(c)')
             /\ NoTask(c) => OneTask(c)'
  <2>1. /\ Len(strand'[c]) = Len(strand[c]) + 1
        /\ \A i \in 1..Len(strand[c]) : strand'[c][i] = strand[c][i]
        /\ strand'[c][Len(strand[c]) + 1] = t
    BY <1>0, <1>3, Posted
  <2>2. \A i \in 1..Len(strand'[c]) : i \in 1..Len(strand[c]) \/ i = Len(strand[c]) + 1
    BY <1>0, <2>1
  <2> QED BY <2>1, <2>2, Zenon DEF NoTask, OneTask
<1> QED BY <1>1, <1>2, <1>3

\* The same for the continuations of one channel.
LEMMA ContinuationStage ==
    ASSUME TypeInv, NEW c \in Channels
    PROVE  /\ io_queue' = io_queue =>
                /\ NoContinuation(c) => NoContinuation(c)'
                /\ OneContinuation(c) => OneContinuation(c)'
           /\ io_queue # <<>> /\ io_queue' = Tail(io_queue) =>
                /\ NoContinuation(c) => NoContinuation(c)'
                /\ OneContinuation(c) => OneContinuation(c)'
                /\ OneContinuation(c) /\ io_queue[1].channel = c => NoContinuation(c)'
           /\ \A k \in Continuation : io_queue' = Append(io_queue, k) =>
                /\ k.channel # c => /\ NoContinuation(c) => NoContinuation(c)'
                                    /\ OneContinuation(c) => OneContinuation(c)'
                /\ NoContinuation(c) => OneContinuation(c)'
<1>0. io_queue \in Seq(Continuation) /\ Len(io_queue) \in Nat
  BY DEF TypeInv, TypeOK
<1>1. ASSUME io_queue' = io_queue
      PROVE  /\ NoContinuation(c) => NoContinuation(c)'
             /\ OneContinuation(c) => OneContinuation(c)'
  BY <1>1 DEF NoContinuation, OneContinuation
<1>2. ASSUME io_queue # <<>>, io_queue' = Tail(io_queue)
      PROVE  /\ NoContinuation(c) => NoContinuation(c)'
             /\ OneContinuation(c) => OneContinuation(c)'
             /\ OneContinuation(c) /\ io_queue[1].channel = c => NoContinuation(c)'
  <2>1. /\ Len(io_queue') = Len(io_queue) - 1 /\ Len(io_queue) \in Nat \ {0}
        /\ \A i \in 1..Len(io_queue') : io_queue'[i] = io_queue[i + 1]
    BY <1>0, <1>2, HeadTailProperties, EmptySeq
  <2>2. \A i \in 1..Len(io_queue') : i \in Nat /\ i + 1 \in 1..Len(io_queue) /\ i + 1 # 1
    BY <2>1
  <2>3. 1 \in 1..Len(io_queue)
    BY <2>1
  <2>4. ASSUME NoContinuation(c) PROVE NoContinuation(c)'
    BY <2>1, <2>2, <2>4 DEF NoContinuation
  <2>5. ASSUME OneContinuation(c) PROVE OneContinuation(c)'
    <3>1. ASSUME NEW i \in 1..Len(io_queue'), NEW j \in 1..Len(io_queue'),
                 io_queue'[i].channel = c, io_queue'[j].channel = c
          PROVE  i = j
      <4>1. io_queue[i + 1].channel = c /\ io_queue[j + 1].channel = c
        BY <2>1, <3>1
      <4>2. i + 1 = j + 1
        BY <2>2, <2>5, <4>1, Zenon DEF OneContinuation
      <4> QED BY <2>2, <4>2
    <3> QED BY <3>1 DEF OneContinuation
  <2>6. ASSUME OneContinuation(c), io_queue[1].channel = c PROVE NoContinuation(c)'
    BY <2>1, <2>2, <2>3, <2>6 DEF OneContinuation, NoContinuation
  <2> QED BY <2>4, <2>5, <2>6
<1>3. ASSUME NEW k \in Continuation, io_queue' = Append(io_queue, k)
      PROVE  /\ k.channel # c => /\ NoContinuation(c) => NoContinuation(c)'
                                 /\ OneContinuation(c) => OneContinuation(c)'
             /\ NoContinuation(c) => OneContinuation(c)'
  <2>1. /\ Len(io_queue') = Len(io_queue) + 1
        /\ \A i \in 1..Len(io_queue) : io_queue'[i] = io_queue[i]
        /\ io_queue'[Len(io_queue) + 1] = k
    BY <1>0, <1>3
  <2>2. \A i \in 1..Len(io_queue') : i \in 1..Len(io_queue) \/ i = Len(io_queue) + 1
    BY <1>0, <2>1
  <2> QED BY <2>1, <2>2 DEF NoContinuation, OneContinuation
<1> QED BY <1>1, <1>2, <1>3

\* A write to a component's hp or map leaves every entity with its owner.
LEMMA OwnersKept ==
    ASSUME TypeInv,
           \/ \E c, t \in Channels, d \in 0..MaxHp : HandleAttack(c, t, d)
           \/ \E c \in Channels, m \in Maps : HandleMapEnter(c, m)
           \/ \E e \in 1..Len(components) : MonsterAttack(e)
    PROVE  /\ Len(components') = Len(components)
           /\ \A i \in 1..Len(components) : components'[i].channel = components[i].channel
<1>0. components \in Seq(Component)
  BY DEF TypeInv, TypeOK
<1>1. ASSUME NEW e \in 1..Len(components), NEW d \in 0..MaxHp \cup {1},
             components' = [components EXCEPT ![e].hp = TakeDamage(components[e].hp, d)]
      PROVE  /\ Len(components') = Len(components)
             /\ \A i \in 1..Len(components) : components'[i].channel = components[i].channel
  <2>1. components[e] \in Component
    BY <1>0
  <2>2. PICK left \in 0..MaxHp : left = TakeDamage(components[e].hp, d)
    <3>1. components[e].hp \in 0..MaxHp /\ d \in Nat
      BY <2>1, HpAssumption DEF Component
    <3> QED BY <3>1, DamageRange, Zenon
  <2>3. components' = [components EXCEPT ![e] = [components[e] EXCEPT !.hp = left]]
    BY <1>1, <2>2
  <2>4. /\ [components[e] EXCEPT !.hp = left] \in Component
        /\ [components[e] EXCEPT !.hp = left].channel = components[e].channel
    BY <2>1, ComponentOf, MapAssumption, Zenon
  <2> QED BY <2>3, <2>4, WriteInv, Zenon
<1>2. ASSUME NEW c \in Channels, NEW t \in Channels, NEW d \in 0..MaxHp, HandleAttack(c, t, d)
      PROVE  /\ Len(components') = Len(components)
             /\ \A i \in 1..Len(components) : components'[i].channel = components[i].channel
  <2>1. PICK e \in 1..Len(components) : e = Entity(t)
    BY <1>2, OwnEntity DEF HandleAttack
  <2>2. components' = [components EXCEPT ![e].hp = TakeDamage(components[e].hp, d)]
    BY <1>2, <2>1, Zenon DEF HandleAttack
  <2> QED BY <1>1, <2>2
<1>3. ASSUME NEW c \in Channels, NEW m \in Maps, HandleMapEnter(c, m)
      PROVE  /\ Len(components') = Len(components)
             /\ \A i \in 1..Len(components) : components'[i].channel = components[i].channel
  <2>1. CASE ~Online(c)
    BY <1>3, <2>1 DEF HandleMapEnter
  <2>2. CASE Online(c)
    <3>1. PICK e \in 1..Len(components) : e = Entity(c) /\ components[e] \in Component
      BY <2>2, OwnEntity
    <3>2. components' = [components EXCEPT ![e] = [components[e] EXCEPT !.map = m]]
      BY <1>3, <2>2, <3>1 DEF HandleMapEnter
    <3>3. 0 \in 0..MaxHp
      BY HpAssumption
    <3>4. /\ [components[e] EXCEPT !.map = m] \in Component
          /\ [components[e] EXCEPT !.map = m].channel = components[e].channel
      BY <3>1, <3>3, ComponentOf, Zenon
    <3> QED BY <3>2, <3>4, WriteInv, Zenon
  <2> QED BY <2>1, <2>2
<1>4. ASSUME NEW e \in 1..Len(components), MonsterAttack(e)
      PROVE  /\ Len(components') = Len(components)
             /\ \A i \in 1..Len(components) : components'[i].channel = components[i].channel
  <2>1. components' = [components EXCEPT ![e].hp = TakeDamage(components[e].hp, 1)]
    BY <1>4 DEF MonsterAttack
  <2> QED BY <1>1, <2>1
<1> QED BY <1>2, <1>3, <1>4

\* Entities keep their owners; an entity disappears together with its channel's
\* entry.
LEMMA EntityStage ==
    ASSUME TypeInv, NEW c \in Channels,
           Len(components') = Len(components),
           \A i \in 1..Len(components) : components'[i].channel = components[i].channel,
           active_entities' \subseteq active_entities,
           Entity(c)' = Entity(c) \/ Entity(c) \notin active_entities'
    PROVE  /\ NoEntity(c) => NoEntity(c)'
           /\ OneEntity(c) => OneEntity(c)'
<1>1. active_entities \subseteq 1..Len(components)
  BY DEF TypeInv, TypeOK
<1>2. NoEntity(c) => NoEntity(c)'
  BY DEF NoEntity
<1>3. ASSUME OneEntity(c), NEW e \in active_entities', components'[e].channel = c
      PROVE  Entity(c)' = e
  <2>1. e \in active_entities /\ components[e].channel = c
    BY <1>1, <1>3
  <2> QED BY <1>3, <2>1 DEF OneEntity
<1> QED BY <1>2, <1>3, Zenon DEF OneEntity

\* A channel that had no entity owns the one a login spawns; the other channels'
\* entities are left alone.
LEMMA SpawnStage ==
    ASSUME TypeInv, NEW c \in Channels, NEW p \in Players, NEW row \in Row, Spawn(c, p, row)
    PROVE  /\ NoEntity(c) => OneEntity(c)'
           /\ \A d \in Channels : d # c => /\ NoEntity(d) => NoEntity(d)'
                                           /\ OneEntity(d) => OneEntity(d)'
<1>0. /\ components \in Seq(Component) /\ Len(components) \in Nat
      /\ active_entities \subseteq 1..Len(components)
      /\ channel_to_entity \in [Channels -> Nat]
  BY DEF TypeInv, TypeOK
<1> DEFINE n == Len(components) + 1
<1>1. PICK x \in Component : x.channel = c /\ components' = Append(components, x)
  <2>1. [player |-> p, channel |-> c, map |-> row.map, hp |-> row.hp] \in Component
    BY DEF Component, Row
  <2> QED BY <2>1 DEF Spawn
<1>2. /\ Len(components') = n
      /\ \A i \in 1..Len(components) : components'[i] = components[i]
      /\ components'[n] = x
  BY <1>0, <1>1
<1>3. active_entities' = active_entities \cup {n} /\ channel_to_entity' = [channel_to_entity EXCEPT ![c] = n]
  BY DEF Spawn, NewEntity
<1>4. \A i \in 1..Len(components') : i \in 1..Len(components) \/ i = n
  BY <1>0, <1>2
<1>5. Entity(c)' = n /\ \A d \in Channels : d # c => Entity(d)' = Entity(d)
  BY <1>0, <1>3 DEF Entity
<1>6. NoEntity(c) => OneEntity(c)'
  BY <1>0, <1>1, <1>2, <1>3, <1>5, Zenon DEF NoEntity, OneEntity
<1>7. ASSUME NEW d \in Channels, d # c PROVE NoEntity(d) => NoEntity(d)'
  BY <1>1, <1>2, <1>4, <1>7, Zenon DEF NoEntity
<1>8. ASSUME NEW d \in Channels, d # c PROVE OneEntity(d) => OneEntity(d)'
  BY <1>0, <1>1, <1>2, <1>3, <1>5, <1>8, ZenonT(40) DEF OneEntity
<1> QED BY <1>6, <1>7, <1>8

\* A channel whose login stays where it is.
LEMMA StageKept ==
    ASSUME NEW c \in Channels, StageOK(c), logins'[c] = logins[c],
           NoTask(c) => NoTask(c)', OneTask(c) => OneTask(c)',
           NoContinuation(c) => NoContinuation(c)',
           OneContinuation(c) => OneContinuation(c)',
           NoEntity(c) => NoEntity(c)', OneEntity(c) => OneEntity(c)'
    PROVE  StageOK(c)'
BY DEF StageOK

\* Nothing of a login is anywhere twice where it is nowhere.
LEMMA NoneOne ==
    ASSUME NEW c \in Channels
    PROVE  /\ NoTask(c) => OneTask(c)
           /\ NoContinuation(c) => OneContinuation(c)
BY DEF NoTask, OneTask, NoContinuation, OneContinuation

\* handle_login: the first request puts the login on the strand, or spawns at
\* once; a second one is exempt.
LEMMA HandleLoginStage ==
    ASSUME TypeInv, StageInv, NEW c \in Channels, NEW p \in Players, HandleLogin(c, p)
    PROVE  StageInv'
<1>0. /\ logins \in [Channels -> Seq(Players)] /\ strand \in [Channels -> Seq(Task)]
      /\ io_queue' = io_queue /\ logins' = [logins EXCEPT ![c] = Append(logins[c], p)]
  BY DEF TypeInv, TypeOK, HandleLogin
<1>1. LoginTask(p) \in Task
  BY MapAssumption, HpAssumption DEF LoginTask, Task
<1>2. DefaultRow \in Row
  BY MapAssumption, HpAssumption DEF DefaultRow, Row
<1>3. \/ /\ strand' = [strand EXCEPT ![c] = Append(strand[c], LoginTask(p))]
         /\ UNCHANGED <<channel_to_entity, active_entities, components>>
      \/ strand' = strand /\ Spawn(c, p, DefaultRow)
  BY Zenon DEF HandleLogin, Post, tables, ecs
<1>4. ASSUME NEW d \in Channels, d # c PROVE StageOK(d)'
  <2>1. logins'[d] = logins[d] /\ strand'[d] = strand[d] /\ StageOK(d)
    BY <1>0, <1>3, <1>4 DEF StageInv
  <2>2. (NoEntity(d) => NoEntity(d)') /\ (OneEntity(d) => OneEntity(d)')
    <3>1. CASE UNCHANGED <<channel_to_entity, active_entities, components>>
      BY <3>1 DEF NoEntity, OneEntity, Entity
    <3>2. CASE Spawn(c, p, DefaultRow)
      BY <1>2, <1>4, <3>2, SpawnStage
    <3> QED BY <1>3, <3>1, <3>2
  <2>3. /\ NoTask(d) => NoTask(d)'
        /\ OneTask(d) => OneTask(d)'
        /\ NoContinuation(d) => NoContinuation(d)'
        /\ OneContinuation(d) => OneContinuation(d)'
    BY <1>0, <2>1, TaskStage, ContinuationStage, Zenon
  <2> QED BY <2>1, <2>2, <2>3, StageKept
<1>5. StageOK(c)'
  <2>1. logins[c] \in Seq(Players) /\ logins'[c] = Append(logins[c], p)
    BY <1>0
  <2>2. logins'[c] # <<>> /\ (Len(logins'[c]) <= 1 => logins[c] = <<>>)
    BY <2>1, EmptySeq
  <2>3. CASE logins[c] # <<>>
    BY <2>2, <2>3, Zenon DEF StageOK
  <2>4. CASE logins[c] = <<>>
    <3>1. NoTask(c) /\ NoContinuation(c) /\ NoEntity(c)
      BY <2>4 DEF StageInv, StageOK
    <3>2. NoContinuation(c)' /\ OneContinuation(c)'
      BY <1>0, <3>1, ContinuationStage, NoneOne, Zenon
    <3>3. CASE /\ strand' = [strand EXCEPT ![c] = Append(strand[c], LoginTask(p))]
               /\ UNCHANGED <<channel_to_entity, active_entities, components>>
      <4>1. strand'[c] = Append(strand[c], LoginTask(p))
        BY <1>0, <3>3
      <4>2. OneTask(c)'
        BY <1>1, <3>1, <4>1, TaskStage, Zenon
      <4>3. NoEntity(c)'
        BY <3>1, <3>3, Zenon DEF NoEntity
      <4>4. OneEntity(c)'
        BY <3>1, <3>3 DEF NoEntity, OneEntity, TypeInv, TypeOK
      <4> QED BY <2>2, <3>2, <4>2, <4>3, <4>4 DEF StageOK
    <3>4. CASE strand' = strand /\ Spawn(c, p, DefaultRow)
      <4>1. NoTask(c)' /\ OneTask(c)'
        BY <3>1, <3>4, TaskStage, NoneOne
      <4>2. OneEntity(c)'
        BY <1>2, <3>1, <3>4, SpawnStage
      <4> QED BY <2>2, <3>2, <4>1, <4>2, ZenonT(40) DEF StageOK
    <3> QED BY <1>3, <3>3, <3>4, Zenon
  <2> QED BY <2>3, <2>4
<1> QED BY <1>4, <1>5, Zenon DEF StageInv

\* The io thread's half of a login: the continuation becomes the entity, or
\* nothing when the connection is gone.
LEMMA LoginContinuationStage ==
    ASSUME TypeInv, StageInv, LoginContinuation
    PROVE  StageInv'
<1>0. io_queue \in Seq(Continuation) /\ io_queue # <<>> /\ io_queue' = Tail(io_queue)
      /\ UNCHANGED <<strand, logins>>
  BY DEF TypeInv, TypeOK, LoginContinuation, pool, history
<1>1. PICK k \in Continuation : k = Head(io_queue) /\ k = io_queue[1] /\ 1 \in 1..Len(io_queue)
  <2>1. Head(io_queue) \in Continuation /\ Head(io_queue) = io_queue[1] /\ Len(io_queue) \in Nat \ {0}
    BY <1>0, HeadTailProperties, EmptySeq
  <2> QED BY <2>1
<1>2. k.channel \in Channels /\ k.player \in Players /\ (k.row # None => k.row \in Row)
  BY DEF Continuation
<1>3. \/ UNCHANGED <<channel_to_entity, active_entities, components>>
      \/ k.row \in Row /\ Spawn(k.channel, k.player, k.row)
  BY <1>1, <1>2 DEF LoginContinuation, Admitted, tables, ecs
<1>4. ASSUME NEW d \in Channels, d # k.channel PROVE StageOK(d)'
  <2>1. (NoEntity(d) => NoEntity(d)') /\ (OneEntity(d) => OneEntity(d)')
    <3>1. CASE UNCHANGED <<channel_to_entity, active_entities, components>>
      BY <3>1 DEF NoEntity, OneEntity, Entity
    <3>2. CASE k.row \in Row /\ Spawn(k.channel, k.player, k.row)
      BY <1>2, <1>4, <3>2, SpawnStage, ZenonT(40)
    <3> QED BY <1>3, <3>1, <3>2, Zenon
  <2>2. /\ NoTask(d) => NoTask(d)'
        /\ OneTask(d) => OneTask(d)'
        /\ NoContinuation(d) => NoContinuation(d)'
        /\ OneContinuation(d) => OneContinuation(d)'
    BY <1>0, TaskStage, ContinuationStage
  <2> QED BY <1>0, <2>1, <2>2, StageKept DEF StageInv
<1>5. ASSUME NEW c \in Channels, c = k.channel PROVE StageOK(c)'
  <2>1. ~NoContinuation(c) /\ logins[c] # <<>>
    BY <1>1, <1>5 DEF NoContinuation, StageInv, StageOK
  <2>2. CASE ~(Len(logins[c]) <= 1)
    BY <1>0, <2>1, <2>2, Zenon DEF StageOK
  <2>3. CASE Len(logins[c]) <= 1
    <3>1. NoTask(c) /\ OneTask(c) /\ NoEntity(c) /\ OneEntity(c) /\ OneContinuation(c)
      BY <2>1, <2>3 DEF StageInv, StageOK
    <3>2. NoContinuation(c)' /\ OneContinuation(c)'
      BY <1>0, <1>1, <1>5, <3>1, ContinuationStage, ZenonT(40)
    <3>3. NoTask(c)' /\ OneTask(c)'
      BY <1>0, <3>1, TaskStage
    <3>4. OneEntity(c)'
      <4>1. CASE UNCHANGED <<channel_to_entity, active_entities, components>>
        BY <3>1, <4>1 DEF OneEntity, Entity
      <4>2. CASE k.row \in Row /\ Spawn(k.channel, k.player, k.row)
        BY <1>2, <1>5, <3>1, <4>2, SpawnStage
      <4> QED BY <1>3, <4>1, <4>2, Zenon
    <3> QED BY <1>0, <2>1, <3>2, <3>3, <3>4 DEF StageOK
  <2> QED BY <2>2, <2>3, Zenon
<1> QED BY <1>2, <1>4, <1>5, Zenon DEF StageInv

\* The strand's half of a login ends: the task becomes a continuation.
LEMMA LoginFinishStage ==
    ASSUME TypeInv, StageInv, NEW c \in Channels, LoginFinish(c)
    PROVE  StageInv'
<1>0. /\ strand \in [Channels -> Seq(Task)] /\ strand[c] \in Seq(Task)
      /\ UNCHANGED <<channel_to_entity, active_entities, components, logins>>
      /\ strand' = [strand EXCEPT ![c] = Tail(strand[c])]
  BY ZenonT(40) DEF TypeInv, TypeOK, LoginFinish, Pop, tables, ecs, history
<1>1. strand[c] # <<>> /\ strand[c][1].kind = "login"
  BY Zenon DEF LoginFinish, At, TypeInv, TasksOK
<1>2. PICK p \in Players : p = Head(strand[c]).player
  BY <1>1, HeadTask
<1>3. PICK k \in Continuation : k.channel = c /\ io_queue' = Append(io_queue, k)
  <2>1. run[c] \in Run
    BY DEF TypeInv, TypeOK
  <2>2. PICK k \in Continuation : k = [channel |-> c, player |-> p, row |-> run[c].row]
    BY <2>1, Zenon DEF Run, Continuation
  <2>3. io_queue' = Append(io_queue, k) /\ k.channel = c
    BY <1>2, <2>2, Zenon DEF LoginFinish
  <2> QED BY <2>3
<1>4. \A d \in Channels : (NoEntity(d) => NoEntity(d)') /\ (OneEntity(d) => OneEntity(d)')
  BY <1>0 DEF NoEntity, OneEntity, Entity
<1>5. ASSUME NEW d \in Channels, d # c PROVE StageOK(d)'
  <2>1. strand'[d] = strand[d] /\ logins'[d] = logins[d] /\ StageOK(d)
    BY <1>0, <1>5 DEF StageInv
  <2>2. /\ NoTask(d) => NoTask(d)'
        /\ OneTask(d) => OneTask(d)'
        /\ NoContinuation(d) => NoContinuation(d)'
        /\ OneContinuation(d) => OneContinuation(d)'
    BY <1>3, <1>5, <2>1, TaskStage, ContinuationStage, Zenon
  <2> QED BY <1>4, <2>1, <2>2, StageKept, Zenon
<1>6. StageOK(c)'
  <2>0. 1 \in 1..Len(strand[c]) /\ strand'[c] = Tail(strand[c])
    BY <1>0, <1>1, Popped
  <2>1. ~NoTask(c) /\ logins[c] # <<>>
    BY <1>1, <2>0, Zenon DEF NoTask, StageInv, StageOK
  <2>2. CASE ~(Len(logins[c]) <= 1)
    BY <1>0, <2>1, <2>2, Zenon DEF StageOK
  <2>3. CASE Len(logins[c]) <= 1
    <3>1. NoContinuation(c) /\ NoEntity(c) /\ OneTask(c) /\ OneEntity(c)
      BY <2>1, <2>3, Zenon DEF StageInv, StageOK
    <3>2. NoTask(c)' /\ OneTask(c)'
      BY <1>1, <2>0, <3>1, TaskStage, Zenon
    <3>3. OneContinuation(c)'
      BY <1>3, <3>1, ContinuationStage, Zenon
    <3>4. NoEntity(c)' /\ OneEntity(c)'
      BY <1>4, <3>1
    <3> QED BY <1>0, <2>1, <3>2, <3>3, <3>4, Zenon DEF StageOK
  <2> QED BY <2>2, <2>3, Zenon
<1> QED BY <1>5, <1>6 DEF StageInv

\* Every other step leaves each login where it is.
LEMMA RestStage ==
    ASSUME TypeInv, StageInv, UNCHANGED <<logins, io_queue>>,
           \A c \in Channels :
              \/ strand'[c] = strand[c]
              \/ strand[c] # <<>> /\ strand'[c] = Tail(strand[c])
              \/ \E t \in Task : t.kind # "login" /\ strand'[c] = Append(strand[c], t),
           Len(components') = Len(components),
           \A i \in 1..Len(components) : components'[i].channel = components[i].channel,
           active_entities' \subseteq active_entities,
           \A c \in Channels : Entity(c)' = Entity(c) \/ Entity(c) \notin active_entities'
    PROVE  StageInv'
<1> SUFFICES ASSUME NEW c \in Channels PROVE StageOK(c)'
  BY Zenon DEF StageInv
<1>1. (NoTask(c) => NoTask(c)') /\ (OneTask(c) => OneTask(c)')
  BY TaskStage, Zenon
<1>2. /\ NoContinuation(c) => NoContinuation(c)'
      /\ OneContinuation(c) => OneContinuation(c)'
  BY ContinuationStage, Zenon
<1>3. (NoEntity(c) => NoEntity(c)') /\ (OneEntity(c) => OneEntity(c)')
  BY EntityStage, Zenon
<1> QED BY <1>1, <1>2, <1>3, StageKept, ZenonT(40) DEF StageInv

\* Every step keeps each connection's only login in one place.
LEMMA NextStage == TypeInv /\ StageInv /\ [Next]_vars => StageInv'
<1> SUFFICES ASSUME TypeInv, StageInv, [Next]_vars PROVE StageInv'
  OBVIOUS
<1>0. /\ strand \in [Channels -> Seq(Task)] /\ channel_to_entity \in [Channels -> Nat]
      /\ components \in Seq(Component)
  BY Zenon DEF TypeInv, TypeOK
<1>1. ASSUME UNCHANGED <<logins, io_queue, strand, channel_to_entity, active_entities, components>>
      PROVE  StageInv'
  BY <1>1, RestStage, Zenon DEF Entity
<1>2. CASE FlushPlayers
  <2>1. UNCHANGED <<logins, io_queue, channel_to_entity, active_entities, components>>
    BY <1>2, Zenon DEF FlushPlayers, tables, ecs, history
  <2>2. ASSUME NEW c \in Channels
        PROVE  \/ strand'[c] = strand[c]
               \/ \E t \in Task : t.kind # "login" /\ strand'[c] = Append(strand[c], t)
    <3>1. CASE Flushable(c)
      <4>1. PICK t \in Task : t = SaveTask("flush", channel_to_db_id[c], Entity(c)) /\ t.kind = "flush"
        BY <3>1, SaveTaskOf, Zenon DEF Flushable
      <4>2. strand'[c] = Append(strand[c], t)
        BY <1>2, <3>1, <4>1, Zenon DEF FlushPlayers, Post
      <4> QED BY <4>1, <4>2, Zenon
    <3>2. CASE ~Flushable(c)
      BY <1>2, <3>2, Zenon DEF FlushPlayers
    <3> QED BY <3>1, <3>2, Zenon
  <2> QED BY <2>1, <2>2, RestStage, Zenon DEF Entity
<1>3. ASSUME NEW c \in Channels, OnClose(c) PROVE StageInv'
  <2>1. /\ UNCHANGED <<logins, io_queue, components>>
        /\ channel_to_entity' = [channel_to_entity EXCEPT ![c] = 0]
        /\ active_entities' = active_entities \ {Entity(c)}
    BY <1>3 DEF OnClose, EntitiesAfterClose
  <2>2. \A d \in Channels :
          \/ strand'[d] = strand[d]
          \/ \E t \in Task : t.kind # "login" /\ strand'[d] = Append(strand[d], t)
    BY <1>0, <1>3, OnClosePosts, Zenon
  <2>3. \A d \in Channels : Entity(d)' = Entity(d) \/ Entity(d) \notin active_entities'
    BY <1>0, <2>1 DEF Entity
  <2> QED BY <2>1, <2>2, <2>3, RestStage, Zenon
<1>4. ASSUME NEW c \in Channels, NEW t \in Channels, NEW d \in 0..MaxHp, HandleAttack(c, t, d)
      PROVE  StageInv'
  <2>1. UNCHANGED <<logins, io_queue, strand>>
    BY <1>4 DEF HandleAttack, pool, history
  <2>2. /\ Len(components') = Len(components)
        /\ \A i \in 1..Len(components) : components'[i].channel = components[i].channel
    BY <1>4, OwnersKept
  <2>3. \/ /\ active_entities' = active_entities \ {Entity(t)}
           /\ channel_to_entity' = [channel_to_entity EXCEPT ![t] = 0]
        \/ UNCHANGED <<active_entities, channel_to_entity>>
    BY <1>4, Zenon DEF HandleAttack, EntryErased
  <2>4. \A b \in Channels : Entity(b)' = Entity(b) \/ Entity(b) \notin active_entities'
    BY <1>0, <2>3 DEF Entity
  <2>5. active_entities' \subseteq active_entities
    BY <2>3
  <2> QED BY <2>1, <2>2, <2>4, <2>5, RestStage
<1>5. CASE \/ \E c \in Channels, m \in Maps : HandleMapEnter(c, m)
           \/ \E e \in 1..Len(components) : MonsterAttack(e)
  <2>1. UNCHANGED <<logins, io_queue, strand, channel_to_entity, active_entities>>
    BY <1>5 DEF HandleMapEnter, MonsterAttack, tables, pool, history
  <2>2. /\ Len(components') = Len(components)
        /\ \A i \in 1..Len(components) : components'[i].channel = components[i].channel
    BY <1>5, OwnersKept, Zenon
  <2> QED BY <2>1, <2>2, RestStage DEF Entity
<1>6. ASSUME NEW c \in Channels, FlushSave(c) \/ LogoutSaveStats(c) PROVE StageInv'
  <2>1. /\ UNCHANGED <<logins, io_queue, channel_to_entity, active_entities, components>>
        /\ strand' = [strand EXCEPT ![c] = Tail(strand[c])]
    BY <1>6 DEF FlushSave, LogoutSaveStats, Pop, tables, ecs, history
  <2>2. strand[c] # <<>>
    BY <1>6, Zenon DEF FlushSave, LogoutSaveStats, Starts, At, TypeInv, TasksOK
  <2>3. \A d \in Channels : strand'[d] = strand[d] \/ (strand[d] # <<>> /\ strand'[d] = Tail(strand[d]))
    BY <1>0, <2>1, <2>2
  <2> QED BY <2>1, <2>3, RestStage, Zenon DEF Entity
<1>7. CASE \E c \in Channels : LoginInsert(c) \/ LoginSelect(c) \/ LogoutSavePosition(c)
  <2>1. UNCHANGED <<logins, io_queue, strand, channel_to_entity, active_entities, components>>
    BY <1>7, Zenon DEF LoginInsert, LoginSelect, LogoutSavePosition, tables, ecs, history
  <2> QED BY <1>1, <2>1
<1>8. CASE \/ \E c \in Channels : OnAccept(c) \/ SocketClosed(c)
           \/ \E p \in Players : CacheExpire(p)
           \/ UNCHANGED vars
  BY <1>1, <1>8 DEF OnAccept, SocketClosed, CacheExpire, vars, tables, ecs, pool, history
<1> QED BY <1>2, <1>3, <1>4, <1>5, <1>6, <1>7, <1>8, HandleLoginStage, LoginContinuationStage,
           LoginFinishStage DEF Next, IoStep, DbStep

\* Every live player entity is some connection's character unless its connection
\* logged in twice, whatever closes, kills, saves and logins of other connections
\* run between a request and its continuation.
THEOREM NoOrphan == Spec => []NoOrphanEntity
<1>1. ASSUME Init PROVE StageInv
  <2>1. /\ \A c \in Channels : strand[c] = <<>>
        /\ io_queue = <<>> /\ components = <<>> /\ active_entities = {}
    BY <1>1 DEF Init
  <2>2. \A i : ~(i \in 1..Len(<<>>))
    OBVIOUS
  <2>3. ASSUME NEW c \in Channels
        PROVE  NoTask(c) /\ NoContinuation(c) /\ NoEntity(c)
    BY <2>1, <2>2, <2>3, Zenon DEF NoTask, NoContinuation, NoEntity
  <2>4. ASSUME NEW c \in Channels
        PROVE  OneTask(c) /\ OneContinuation(c) /\ OneEntity(c)
    BY <2>1, <2>2, <2>4, ZenonT(40) DEF OneTask, OneContinuation, OneEntity
  <2> QED BY <2>3, <2>4, Zenon DEF StageInv, StageOK
<1>2. ASSUME TypeInv, StageInv PROVE NoOrphanEntity
  <2> SUFFICES ASSUME NEW e \in active_entities,
                      ~(Len(logins[components[e].channel]) > 1)
               PROVE  \E c \in Channels : Entity(c) = e
    BY DEF NoOrphanEntity
  <2>1. components \in Seq(Component) /\ e \in 1..Len(components) /\ logins \in [Channels -> Seq(Players)]
    BY <1>2 DEF TypeInv, TypeOK
  <2>2. components[e] \in Component
    BY <2>1
  <2>3. PICK c \in Channels : c = components[e].channel
    BY <2>2 DEF Component
  <2>4. Len(logins[c]) \in Nat /\ ~(Len(logins[c]) > 1)
    BY <2>1, <2>3
  <2>5. Len(logins[c]) <= 1
    BY <2>4
  <2>6. OneEntity(c)
    BY <1>2, <2>5, Zenon DEF StageInv, StageOK
  <2> QED BY <2>3, <2>6, Zenon DEF OneEntity
<1> QED BY TypeInvariance, NextStage, <1>1, <1>2, PTL DEF Spec
===============================================================================
