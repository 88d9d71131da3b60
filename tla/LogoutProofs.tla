----------------------------- MODULE LogoutProofs -----------------------------
(***************************************************************************)
(* The safety invariants of GameServer that make a logout final, for every *)
(* set of channels, players and maps.                                      *)
(*                                                                         *)
(* They need a strengthening.  The logout save stays last on its strand    *)
(* because on_close has taken the strand out of db_strands_ (LinkOK), and  *)
(* it is the one farewell describes until it has run (LogoutOK).  That a   *)
(* confirmed save stays in the table also needs whose names the tasks and  *)
(* continuations carry (NamesInv) and what the save has written so far     *)
(* (DurableOK).  That a save goes to the row of the character's own player *)
(* is OwnRow, beside TypeInv.                                              *)
(***************************************************************************)
EXTENDS GameServerProofs

\* The tables and the connection's state agree.
LinkOK(c) ==
    /\ c \in channels <=> link[c] = "open"
    /\ c \in db_strands => link[c] = "open"
    /\ farewell[c] # None => link[c] \in {"closing", "gone"}

LogoutOK(c) ==
    /\ farewell[c] = None =>
         \A i \in 1..Len(strand[c]) : strand[c][i].kind # "logout"
    /\ farewell[c] # None /\ strand[c] # <<>> =>
         LET t == strand[c][Len(strand[c])] IN
         /\ t.kind = "logout"
         /\ farewell[c] = [player |-> t.player, map |-> t.map, hp |-> t.hp]
         /\ \A i \in 1..(Len(strand[c]) - 1) : strand[c][i].kind # "logout"
    /\ farewell[c] # None /\ strand[c] = <<>> => confirmed[c] \/ farewell[c] \in sink

LogoutInv == \A c \in Channels : LinkOK(c) /\ LogoutOK(c)

\* Time for the provers, also on a busy machine.
USE SMTT(20), ZenonT(20)

-----------------------------------------------------------------------------
\* ---- LogoutInv: what may happen to one strand --------------------------------

\* Nothing happened to it.
LEMMA StrandKept ==
    ASSUME NEW c \in Channels, LogoutOK(c), strand'[c] = strand[c],
           farewell'[c] = farewell[c], confirmed'[c] = confirmed[c],
           sink \subseteq sink'
    PROVE  LogoutOK(c)'
BY DEF LogoutOK

\* A task other than the logout save was posted before the close.
LEMMA StrandGrew ==
    ASSUME TypeInv, NEW c \in Channels, LogoutOK(c), farewell[c] = None,
           NEW t \in Task, t.kind # "logout",
           strand'[c] = Append(strand[c], t), farewell'[c] = None
    PROVE  LogoutOK(c)'
<1>1. strand[c] \in Seq(Task) /\ Len(strand[c]) \in Nat
  BY DEF TypeInv, TypeOK
<1>2. /\ Len(strand'[c]) = Len(strand[c]) + 1
      /\ \A i \in 1..Len(strand[c]) : strand'[c][i] = strand[c][i]
      /\ strand'[c][Len(strand[c]) + 1] = t
  BY <1>1, Posted
<1>3. \A i \in 1..Len(strand'[c]) : i \in 1..Len(strand[c]) \/ i = Len(strand[c]) + 1
  BY <1>1, <1>2
<1>4. \A i \in 1..Len(strand'[c]) : strand'[c][i].kind # "logout"
  BY <1>2, <1>3 DEF LogoutOK
<1> QED BY <1>4 DEF LogoutOK

\* on_close posted the logout save.
LEMMA StrandClosed ==
    ASSUME TypeInv, NEW c \in Channels, LogoutOK(c), farewell[c] = None,
           NEW t \in Task, t.kind = "logout",
           strand'[c] = Append(strand[c], t),
           farewell'[c] = [player |-> t.player, map |-> t.map, hp |-> t.hp],
           farewell'[c] # None
    PROVE  LogoutOK(c)'
<1>1. strand[c] \in Seq(Task) /\ Len(strand[c]) \in Nat
  BY DEF TypeInv, TypeOK
<1>2. /\ Len(strand'[c]) = Len(strand[c]) + 1
      /\ strand'[c] # <<>>
      /\ \A i \in 1..Len(strand[c]) : strand'[c][i] = strand[c][i]
      /\ strand'[c][Len(strand[c]) + 1] = t
  BY <1>1, Posted
<1>3. /\ strand'[c][Len(strand'[c])] = t
      /\ Len(strand'[c]) - 1 = Len(strand[c])
  BY <1>1, <1>2
<1>4. \A i \in 1..(Len(strand'[c]) - 1) : strand'[c][i].kind # "logout"
  BY <1>2, <1>3 DEF LogoutOK
<1> QED BY <1>2, <1>3, <1>4 DEF LogoutOK

\* A task other than the logout save ended.
LEMMA StrandPopped ==
    ASSUME TypeInv, NEW c \in Channels, LogoutOK(c), strand[c] # <<>>,
           strand[c][1].kind # "logout", strand'[c] = Tail(strand[c]),
           farewell'[c] = farewell[c], confirmed'[c] = confirmed[c]
    PROVE  LogoutOK(c)'
<1> DEFINE s == strand[c]
           u == strand'[c]
<1>1. s \in Seq(Task)
  BY DEF TypeInv, TypeOK
<1>2. /\ u \in Seq(Task) /\ Len(s) \in Nat \ {0} /\ Len(u) = Len(s) - 1
      /\ \A i \in 1..Len(u) : u[i] = s[i + 1]
      /\ u = <<>> <=> Len(s) = 1
  BY <1>1, Popped, Zenon
<1>3. CASE farewell[c] = None
  <2>1. \A i \in 1..Len(u) : i + 1 \in 1..Len(s)
    BY <1>2
  <2>2. \A i \in 1..Len(u) : u[i].kind # "logout"
    BY <1>2, <1>3, <2>1 DEF LogoutOK
  <2> QED BY <1>3, <2>2 DEF LogoutOK
<1>4. CASE farewell[c] # None
  <2>1. /\ s[Len(s)].kind = "logout"
        /\ farewell[c] = [player |-> s[Len(s)].player, map |-> s[Len(s)].map,
                          hp |-> s[Len(s)].hp]
        /\ \A i \in 1..(Len(s) - 1) : s[i].kind # "logout"
    BY <1>4, Zenon DEF LogoutOK
  <2>2. Len(s) # 1
    BY <2>1
  <2>3. Len(u) \in 1..Len(u) /\ Len(u) + 1 = Len(s) /\ u # <<>>
    BY <1>2, <2>2
  <2>4. u[Len(u)] = s[Len(s)]
    BY <1>2, <2>3
  <2>5. \A i \in 1..(Len(u) - 1) : i \in 1..Len(u) /\ i + 1 \in 1..(Len(s) - 1)
    BY <1>2, <2>3
  <2>6. \A i \in 1..(Len(u) - 1) : u[i].kind # "logout"
    BY <1>2, <2>1, <2>5
  <2> HIDE DEF s, u
  <2>7. farewell'[c] # None /\ u # <<>>
    BY <1>4, <2>3, Zenon
  <2> QED BY <2>1, <2>4, <2>6, <2>7 DEF LogoutOK, s, u
<1> QED BY <1>3, <1>4

\* The logout save ended: it was the last task, and it was confirmed or recorded.
LEMMA StrandDone ==
    ASSUME TypeInv, NEW c \in Channels, LogoutOK(c), strand[c] # <<>>,
           strand[c][1].kind = "logout", strand'[c] = Tail(strand[c]),
           farewell'[c] = farewell[c],
           LET t == strand[c][1] IN
           confirmed'[c] \/ [player |-> t.player, map |-> t.map, hp |-> t.hp] \in sink'
    PROVE  LogoutOK(c)'
<1>1. strand[c] \in Seq(Task)
  BY DEF TypeInv, TypeOK
<1>2. Len(strand[c]) \in Nat \ {0} /\ (strand'[c] = <<>> <=> Len(strand[c]) = 1)
  BY <1>1, Popped, Zenon
<1>3. 1 \in 1..Len(strand[c])
  BY <1>2
<1>4. farewell[c] # None
  BY <1>3 DEF LogoutOK
<1>5. Len(strand[c]) = 1
  BY <1>2, <1>4 DEF LogoutOK
<1>6. strand'[c] = <<>> /\ (confirmed'[c] \/ farewell[c] \in sink')
  BY <1>2, <1>4, <1>5 DEF LogoutOK
<1> QED BY <1>4, <1>6 DEF LogoutOK

-----------------------------------------------------------------------------
\* ---- LogoutInv, all steps ----------------------------------------------------

\* The connections' states and the tables are untouched.
LEMMA LinkKept ==
    ASSUME NEW c \in Channels, LinkOK(c),
           UNCHANGED <<link, channels, db_strands, farewell>>
    PROVE  LinkOK(c)'
BY DEF LinkOK

\* A strand that is in db_strands_ has had no logout save posted.
LEMMA NoFarewellYet ==
    ASSUME NEW c \in Channels, LinkOK(c), c \in db_strands
    PROVE  farewell[c] = None
BY DEF LinkOK

\* Handlers and steps that touch neither strands nor connections
LEMMA QuietLogout ==
    ASSUME LogoutInv,
           UNCHANGED <<link, channels, db_strands, strand, sink, farewell, confirmed>>
    PROVE  LogoutInv'
BY StrandKept, LinkKept DEF LogoutInv

\* on_accept
LEMMA OnAcceptLogout ==
    ASSUME TypeInv, LogoutInv, NEW c \in Channels, OnAccept(c)
    PROVE  LogoutInv'
<1>1. \A d \in Channels : LogoutOK(d)'
  BY StrandKept DEF LogoutInv, OnAccept, pool, stores, history
<1>2. \A d \in Channels : LinkOK(d)'
  BY DEF LogoutInv, LinkOK, OnAccept, history, TypeInv, TypeOK
<1> QED BY <1>1, <1>2 DEF LogoutInv

\* the posted close of the socket
LEMMA SocketClosedLogout ==
    ASSUME TypeInv, LogoutInv, NEW c \in Channels, SocketClosed(c)
    PROVE  LogoutInv'
<1>1. \A d \in Channels : LogoutOK(d)'
  BY StrandKept, Zenon DEF LogoutInv, SocketClosed, pool, stores, history
<1>2. \A d \in Channels : LinkOK(d)'
  BY DEF LogoutInv, LinkOK, SocketClosed, tables, history, TypeInv, TypeOK
<1> QED BY <1>1, <1>2 DEF LogoutInv

\* handle_login posts on a strand that is still in db_strands_.
LEMMA HandleLoginLogout ==
    ASSUME TypeInv, LogoutInv, NEW c \in Channels, NEW p \in Players,
           HandleLogin(c, p)
    PROVE  LogoutInv'
<1>1. UNCHANGED <<link, channels, db_strands, sink, farewell, confirmed>>
  BY DEF HandleLogin, tables, stores
<1>2. CASE ~HaveDao
  <2>1. UNCHANGED strand
    BY <1>2 DEF HandleLogin
  <2> QED BY <1>1, <2>1, QuietLogout
<1>3. CASE HaveDao
  <2>1. PICK t \in Task : t = LoginTask(p) /\ t.kind # "logout"
    <3>1. LoginTask(p) \in Task /\ LoginTask(p).kind = "login"
      BY MapAssumption, HpAssumption DEF LoginTask, Task
    <3> QED BY <3>1
  <2>2. strand' = [strand EXCEPT ![c] = Append(strand[c], t)] /\ c \in db_strands
    BY <1>3, <2>1 DEF HandleLogin, Post
  <2>3. strand \in [Channels -> Seq(Task)]
    BY DEF TypeInv, TypeOK
  <2>4. LogoutOK(c)'
    BY <1>1, <2>1, <2>2, <2>3, StrandGrew, NoFarewellYet, Zenon DEF LogoutInv
  <2>5. \A d \in Channels : d # c => LogoutOK(d)'
    BY <1>1, <2>2, <2>3, StrandKept DEF LogoutInv
  <2>6. \A d \in Channels : LinkOK(d)'
    BY <1>1, LinkKept DEF LogoutInv
  <2> QED BY <2>4, <2>5, <2>6 DEF LogoutInv
<1> QED BY <1>2, <1>3, Zenon

\* flush_players posts on strands that are still in db_strands_.
LEMMA FlushPlayersLogout ==
    ASSUME TypeInv, LogoutInv, FlushPlayers
    PROVE  LogoutInv'
<1>1. UNCHANGED <<link, channels, db_strands, sink, farewell, confirmed>>
  BY DEF FlushPlayers, tables, stores, history
<1>2. ASSUME NEW c \in Channels
      PROVE  LogoutOK(c)'
  <2>1. CASE Flushable(c)
    <3>1. PICK t \in Task : /\ t = SaveTask("flush", channel_to_db_id[c], Entity(c))
                            /\ t.kind # "logout"
      BY <2>1, SaveTaskOf DEF Flushable
    <3>2. strand'[c] = Append(strand[c], t) /\ c \in db_strands
      BY <2>1, <3>1 DEF FlushPlayers, Post, Flushable
    <3> QED BY <1>1, <3>1, <3>2, StrandGrew, NoFarewellYet DEF LogoutInv
  <2>2. CASE ~Flushable(c)
    <3>1. strand'[c] = strand[c]
      BY <2>2 DEF FlushPlayers
    <3> QED BY <1>1, <3>1, StrandKept DEF LogoutInv
  <2> QED BY <2>1, <2>2
<1>3. \A c \in Channels : LinkOK(c)'
  BY <1>1, LinkKept DEF LogoutInv
<1> QED BY <1>2, <1>3, Zenon DEF LogoutInv

\* on_close posts the logout save and takes the strand out of db_strands_.
LEMMA OnCloseLogout ==
    ASSUME TypeInv, LogoutInv, NEW c \in Channels, OnClose(c)
    PROVE  LogoutInv'
<1>1. /\ link[c] = "open" /\ link' = [link EXCEPT ![c] = "closing"]
      /\ channels' = channels \ {c} /\ db_strands' = db_strands \ {c}
      /\ UNCHANGED <<sink, confirmed>>
  BY DEF OnClose, StrandsAfterClose
<1>2. farewell[c] = None
  BY <1>1 DEF LogoutInv, LinkOK
<1>3. /\ strand \in [Channels -> Seq(Task)]
      /\ farewell \in [Channels -> Snapshot \cup {None}]
      /\ link \in [Channels -> {"fresh", "open", "closing", "gone"}]
  BY DEF TypeInv, TypeOK
<1>4. \A d \in Channels : d # c => strand'[d] = strand[d] /\ farewell'[d] = farewell[d]
  BY <1>3, OnClosePosts
<1>5. \A d \in Channels : d # c => LogoutOK(d)'
  BY <1>1, <1>4, StrandKept, Zenon DEF LogoutInv
<1>6. LogoutOK(c)'
  <2>1. CASE UNCHANGED <<strand, farewell>>
    BY <1>1, <2>1, StrandKept, Zenon DEF LogoutInv
  <2>2. ASSUME NEW t \in Task, t.kind = "logout",
               strand' = [strand EXCEPT ![c] = Append(strand[c], t)],
               farewell' = [farewell EXCEPT ![c] =
                              [player |-> t.player, map |-> t.map, hp |-> t.hp]]
        PROVE  LogoutOK(c)'
    <3>1. /\ strand'[c] = Append(strand[c], t)
          /\ farewell'[c] = [player |-> t.player, map |-> t.map, hp |-> t.hp]
      BY <1>3, <2>2
    <3>2. farewell'[c] \in Snapshot
      BY <3>1 DEF Task, Snapshot
    <3>3. farewell'[c] # None
      BY <3>2, NoneDistinct
    <3> QED BY <1>2, <2>2, <3>1, <3>3, StrandClosed, Zenon DEF LogoutInv
  <2> QED BY <2>1, <2>2, OnClosePosts
<1>7. \A d \in Channels : LinkOK(d)'
  BY <1>1, <1>3, <1>4 DEF LogoutInv, LinkOK
<1> QED BY <1>5, <1>6, <1>7 DEF LogoutInv

\* A login or flush task ends.
LEMMA TaskEndLogout ==
    ASSUME TypeInv, LogoutInv, NEW c \in Channels, strand[c] # <<>>,
           strand[c][1].kind # "logout",
           strand' = [strand EXCEPT ![c] = Tail(strand[c])],
           UNCHANGED <<link, channels, db_strands, sink, farewell, confirmed>>
    PROVE  LogoutInv'
<1>1. strand \in [Channels -> Seq(Task)]
  BY DEF TypeInv, TypeOK
<1>2. LogoutOK(c)'
  BY <1>1, StrandPopped DEF LogoutInv
<1>3. \A d \in Channels : d # c => LogoutOK(d)'
  BY <1>1, StrandKept DEF LogoutInv
<1>4. \A d \in Channels : LinkOK(d)'
  BY LinkKept DEF LogoutInv
<1> QED BY <1>2, <1>3, <1>4, Zenon DEF LogoutInv

\* The end of a login task leaves the logout save where it is.
LEMMA LoginFinishLogout ==
    ASSUME TypeInv, LogoutInv, NEW c \in Channels, LoginFinish(c)
    PROVE  LogoutInv'
<1>1. strand[c] # <<>> /\ strand[c][1].kind = "login"
  BY DEF LoginFinish, At, TypeInv, TasksOK
<1>2. /\ strand' = [strand EXCEPT ![c] = Tail(strand[c])]
      /\ UNCHANGED <<link, channels, db_strands, sink, farewell, confirmed>>
  BY DEF LoginFinish, Pop, tables, history
<1> QED BY <1>1, <1>2, TaskEndLogout, Zenon

\* So does the end of a flush.
LEMMA FlushSaveLogout ==
    ASSUME TypeInv, LogoutInv, NEW c \in Channels, FlushSave(c)
    PROVE  LogoutInv'
<1>1. strand[c] # <<>> /\ Head(strand[c]).kind = "flush"
  BY DEF FlushSave, Starts
<1>2. strand[c][1].kind = "flush"
  BY <1>1, HeadTask
<1>3. /\ strand' = [strand EXCEPT ![c] = Tail(strand[c])]
      /\ UNCHANGED <<link, channels, db_strands, sink, farewell, confirmed>>
  BY DEF FlushSave, Pop, tables, history
<1> QED BY <1>1, <1>2, <1>3, TaskEndLogout, Zenon

\* The logout save ends, confirmed or recorded.
LEMMA LogoutSaveStatsLogout ==
    ASSUME TypeInv, LogoutInv, NEW c \in Channels, LogoutSaveStats(c)
    PROVE  LogoutInv'
<1>1. strand[c] # <<>> /\ strand[c][1].kind = "logout"
  BY Zenon DEF LogoutSaveStats, At, TypeInv, TasksOK
<1>2. PICK t \in Task : t = Head(strand[c]) /\ t = strand[c][1]
  BY <1>1, HeadTask
<1> DEFINE snap == [player |-> t.player, map |-> t.map, hp |-> t.hp]
<1>3. /\ strand \in [Channels -> Seq(Task)]
      /\ confirmed \in [Channels -> BOOLEAN]
  BY DEF TypeInv, TypeOK
<1>4. PICK ok \in BOOLEAN :
        /\ sink' = IF run[c].posOk /\ ok THEN sink ELSE sink \cup {snap}
        /\ confirmed' = [confirmed EXCEPT ![c] = run[c].posOk /\ ok]
  BY <1>2, Zenon DEF LogoutSaveStats, BothSaved
<1>5. /\ strand' = [strand EXCEPT ![c] = Tail(strand[c])]
      /\ UNCHANGED <<link, channels, db_strands, farewell>>
  BY DEF LogoutSaveStats, Pop, tables
<1> HIDE DEF snap
<1>6. sink \subseteq sink' /\ (confirmed'[c] \/ snap \in sink')
  BY <1>3, <1>4, Zenon
<1>7. LogoutOK(c)'
  BY <1>1, <1>2, <1>3, <1>5, <1>6, StrandDone, ZenonT(40) DEF LogoutInv, snap
<1>8. \A d \in Channels : d # c => LogoutOK(d)'
  BY <1>3, <1>4, <1>5, <1>6, StrandKept DEF LogoutInv
<1>9. \A d \in Channels : LinkOK(d)'
  BY <1>5, LinkKept DEF LogoutInv
<1> QED BY <1>7, <1>8, <1>9 DEF LogoutInv

\* The initial state satisfies LogoutInv.
LEMMA InitLogoutInv == Init => LogoutInv
BY DEF Init, LogoutInv, LinkOK, LogoutOK

\* Every step preserves LogoutInv.
LEMMA NextLogoutInv == TypeInv /\ LogoutInv /\ [Next]_vars => LogoutInv'
<1> SUFFICES ASSUME TypeInv, LogoutInv, [Next]_vars PROVE LogoutInv'
  OBVIOUS
<1>1. CASE LoginContinuation
  BY <1>1, QuietLogout DEF LoginContinuation, tables, pool, stores, history
<1>2. CASE FlushPlayers
  BY <1>2, FlushPlayersLogout
<1>3. ASSUME NEW c \in Channels,
             \/ OnAccept(c) \/ OnClose(c) \/ SocketClosed(c)
             \/ \E p \in Players : HandleLogin(c, p)
      PROVE  LogoutInv'
  BY <1>3, OnAcceptLogout, OnCloseLogout, SocketClosedLogout, HandleLoginLogout
<1>4. ASSUME NEW c \in Channels,
             \/ \E m \in Maps : HandleMapEnter(c, m)
             \/ \E t \in Channels, d \in 0..MaxHp : HandleAttack(c, t, d)
      PROVE  LogoutInv'
  BY <1>4, QuietLogout DEF HandleMapEnter, HandleAttack, pool, stores, history
<1>5. ASSUME NEW c \in Channels,
             LoginInsert(c) \/ LoginSelect(c) \/ LogoutSavePosition(c)
      PROVE  LogoutInv'
  BY <1>5, QuietLogout, Zenon
     DEF LoginInsert, LoginSelect, LogoutSavePosition, tables, stores, history
<1>6. ASSUME NEW c \in Channels,
             LoginFinish(c) \/ FlushSave(c) \/ LogoutSaveStats(c)
      PROVE  LogoutInv'
  BY <1>6, LoginFinishLogout, FlushSaveLogout, LogoutSaveStatsLogout, Zenon
<1>7. CASE \E e \in 1..Len(components) : MonsterAttack(e)
  BY <1>7, QuietLogout, Zenon DEF MonsterAttack, tables, pool, stores, history
<1>8. CASE \E p \in Players : CacheExpire(p)
  BY <1>8, QuietLogout, Zenon DEF CacheExpire, tables, pool, history
<1>9. CASE UNCHANGED vars
  BY <1>9, QuietLogout DEF vars, tables, pool, stores, history
<1> QED BY <1>1, <1>2, <1>3, <1>4, <1>5, <1>6, <1>7, <1>8, <1>9
        DEF Next, IoStep, DbStep

\* The invariant behind the logout properties holds throughout.
THEOREM LogoutInvariance == Spec => [](TypeInv /\ LogoutInv)
BY InitTypeInv, NextTypeInv, InitLogoutInv, NextLogoutInv, PTL DEF Spec

\* The logout save on_close posts is the last task of its strand.
THEOREM LogoutLast == Spec => []LogoutIsLast
<1>1. TypeInv /\ LogoutInv => LogoutIsLast
  BY Zenon DEF LogoutInv, LogoutOK, LogoutIsLast
<1> QED BY LogoutInvariance, <1>1, PTL

\* A logout save that has run is in the table, or its snapshot is in the
\* failure sink.
THEOREM NothingForgotten == Spec => []SavedOrRecorded
<1>1. TypeInv /\ LogoutInv => SavedOrRecorded
  BY Zenon DEF LogoutInv, LogoutOK, SavedOrRecorded
<1> QED BY LogoutInvariance, <1>1, PTL

-----------------------------------------------------------------------------
\* ---- SessionOnlyOpen ----------------------------------------------------------

\* With a DAO, entries are made only by the login continuation, which looks the
\* channel up in channels_ first.
LEMMA NextTables ==
    ASSUME HaveDao, TypeInv, LogoutInv, SessionOnlyOpen, [Next]_vars
    PROVE  SessionOnlyOpen'
<1>1. /\ channel_to_entity \in [Channels -> Nat]
      /\ channel_to_db_id \in [Channels -> Players \cup {None}]
  BY DEF TypeInv, TypeOK
<1>2. ASSUME UNCHANGED <<channels, db_strands, channel_to_entity, channel_to_db_id>>
      PROVE  SessionOnlyOpen'
  BY <1>2 DEF SessionOnlyOpen, Online, Entity
<1>3. CASE LoginContinuation
  <2>1. CASE Admitted(Head(io_queue))
    <3>1. PICK c \in channels :
            /\ \E n : channel_to_entity' = [channel_to_entity EXCEPT ![c] = n]
            /\ \E p : channel_to_db_id' = [channel_to_db_id EXCEPT ![c] = p]
            /\ UNCHANGED <<channels, db_strands>>
      BY <1>3, <2>1, Zenon DEF LoginContinuation, Admitted, Spawn
    <3>2. \A d \in Channels : d # c => /\ channel_to_entity'[d] = channel_to_entity[d]
                                      /\ channel_to_db_id'[d] = channel_to_db_id[d]
      BY <1>1, <3>1
    <3> QED BY <3>1, <3>2 DEF SessionOnlyOpen, Online, Entity
  <2>2. CASE ~Admitted(Head(io_queue))
    BY <1>2, <1>3, <2>2 DEF LoginContinuation, tables
  <2> QED BY <2>1, <2>2, Zenon
<1>4. CASE FlushPlayers
  BY <1>2, <1>4, Zenon DEF FlushPlayers, tables
<1>5. ASSUME NEW c \in Channels, OnAccept(c)
      PROVE  SessionOnlyOpen'
  BY <1>5, Zenon DEF OnAccept, SessionOnlyOpen, Online, Entity
<1>6. ASSUME NEW c \in Channels, OnClose(c)
      PROVE  SessionOnlyOpen'
  BY <1>1, <1>6 DEF OnClose, StrandsAfterClose, SessionOnlyOpen, Online, Entity
<1>7. ASSUME NEW c \in Channels,
             \/ SocketClosed(c)
             \/ \E p \in Players : HandleLogin(c, p)
             \/ \E m \in Maps : HandleMapEnter(c, m)
      PROVE  SessionOnlyOpen'
  BY <1>2, <1>7 DEF SocketClosed, HandleLogin, HandleMapEnter, tables
<1>8. ASSUME NEW c \in Channels, NEW t \in Channels, NEW d \in 0..MaxHp,
             HandleAttack(c, t, d)
      PROVE  SessionOnlyOpen'
  <2>1. \A b \in Channels : channel_to_entity'[b] \in {channel_to_entity[b], 0}
    BY <1>1, <1>8 DEF HandleAttack, EntryErased
  <2>2. UNCHANGED <<channels, db_strands, channel_to_db_id>>
    BY <1>8 DEF HandleAttack, EntryErased
  <2> QED BY <2>1, <2>2 DEF SessionOnlyOpen, Online, Entity
<1>9. ASSUME NEW c \in Channels, DbStep(c)
      PROVE  SessionOnlyOpen'
  BY <1>2, <1>9, Zenon DEF DbStep, LoginInsert, LoginSelect, LoginFinish, FlushSave,
     LogoutSavePosition, LogoutSaveStats, tables
<1>10. CASE \E e \in 1..Len(components) : MonsterAttack(e)
  BY <1>2, <1>10 DEF MonsterAttack, tables
<1>11. CASE \E p \in Players : CacheExpire(p)
  BY <1>2, <1>11 DEF CacheExpire, tables
<1>12. CASE UNCHANGED vars
  BY <1>2, <1>12 DEF vars, tables
<1> QED BY <1>3, <1>4, <1>5, <1>6, <1>7, <1>8, <1>9, <1>10, <1>11, <1>12
        DEF Next, IoStep

\* With a DAO, a channel has no entity, no player id and no strand after its
\* on_close, although login continuations and late frames of the channel may
\* still run.
THEOREM ClosedHasNoSession ==
    ASSUME HaveDao
    PROVE  Spec => []SessionOnlyOpen
<1>1. Init => SessionOnlyOpen
  BY DEF Init, SessionOnlyOpen, Online, Entity
<1>2. TypeInv /\ LogoutInv /\ SessionOnlyOpen /\ [Next]_vars => SessionOnlyOpen'
  BY NextTables
<1> QED BY LogoutInvariance, <1>1, <1>2, PTL DEF Spec

-----------------------------------------------------------------------------
\* ---- SavesOwnCharacter -------------------------------------------------------

\* A channel's entity and its player id are of the same login.
OwnRow ==
    \A c \in Channels :
        Online(c) /\ channel_to_db_id[c] # None
            => components[Entity(c)].player = channel_to_db_id[c]

\* Damage and map changes leave a component's player alone.
LEMMA PlayerKept ==
    ASSUME NEW s \in Seq(Component), NEW e \in 1..Len(s), NEW v, NEW i \in 1..Len(s)
    PROVE  /\ [s EXCEPT ![e].hp = v][i].player = s[i].player
           /\ [s EXCEPT ![e].map = v][i].player = s[i].player
BY DEF Component

\* Erasing entries and writing components of existing entities keeps OwnRow.
LEMMA OwnRowKept ==
    ASSUME TypeInv, OwnRow,
           \A c \in Channels : channel_to_entity'[c] \in {channel_to_entity[c], 0},
           \A c \in Channels : channel_to_db_id'[c] \in {channel_to_db_id[c], None},
           \A i \in 1..Len(components) : components'[i].player = components[i].player
    PROVE  OwnRow'
<1> SUFFICES ASSUME NEW c \in Channels, channel_to_entity'[c] # 0, channel_to_db_id'[c] # None
             PROVE  components'[channel_to_entity'[c]].player = channel_to_db_id'[c]
  BY DEF OwnRow, Online, Entity
<1>1. /\ channel_to_entity'[c] = Entity(c) /\ Online(c)
      /\ channel_to_db_id'[c] = channel_to_db_id[c]
  BY DEF Online, Entity
<1>2. Entity(c) \in 1..Len(components)
  BY <1>1, OwnEntity
<1> QED BY <1>1, <1>2 DEF OwnRow

\* With a DAO only the login continuation makes entries, both in one step.
LEMMA NextOwnRow ==
    ASSUME HaveDao, TypeInv, OwnRow, [Next]_vars
    PROVE  OwnRow'
<1>1. /\ channel_to_entity \in [Channels -> Nat]
      /\ channel_to_db_id \in [Channels -> Players \cup {None}]
      /\ components \in Seq(Component)
  BY DEF TypeInv, TypeOK
<1>2. ASSUME UNCHANGED <<channel_to_entity, channel_to_db_id, components>>
      PROVE  OwnRow'
  BY <1>2, Zenon DEF OwnRow, Online, Entity
<1>3. CASE LoginContinuation
  <2>1. CASE Admitted(Head(io_queue))
    <3> DEFINE k == Head(io_queue)
               n == Len(components) + 1
               x == [player |-> k.player, channel |-> k.channel, map |-> k.row.map,
                     hp |-> k.row.hp]
    <3>1. /\ io_queue \in Seq(Continuation) /\ io_queue # <<>>
      BY <1>3 DEF TypeInv, TypeOK, LoginContinuation
    <3>2. k \in Continuation /\ k.row # None
      BY <2>1, <3>1 DEF Admitted
    <3>3. k.channel \in Channels /\ k.player \in Players /\ k.row \in Row
      BY <3>2 DEF Continuation
    <3>4. /\ components' = Append(components, x)
          /\ channel_to_entity' = [channel_to_entity EXCEPT ![k.channel] = n]
          /\ channel_to_db_id' = [channel_to_db_id EXCEPT ![k.channel] = k.player]
      BY <1>3, <2>1, Zenon DEF LoginContinuation, Spawn, NewEntity
    <3>5. x \in Component /\ x.player = k.player
      BY <3>3 DEF Component, Row
    <3> HIDE DEF x, k
    <3>6. /\ components'[n] = x
          /\ \A i \in 1..Len(components) : components'[i] = components[i]
      BY <1>1, <3>4, <3>5
    <3>7. ASSUME NEW c \in Channels, channel_to_entity'[c] # 0, channel_to_db_id'[c] # None
          PROVE  components'[channel_to_entity'[c]].player = channel_to_db_id'[c]
      <4>1. CASE c = k.channel
        BY <1>1, <3>3, <3>4, <3>5, <3>6, <4>1
      <4>2. CASE c # k.channel
        <5>1. channel_to_entity'[c] = Entity(c) /\ channel_to_db_id'[c] = channel_to_db_id[c]
          BY <1>1, <3>4, <4>2 DEF Entity
        <5>2. Online(c) /\ Entity(c) \in 1..Len(components)
          BY <3>7, <5>1, OwnEntity DEF Online
        <5> QED BY <3>6, <3>7, <5>1, <5>2 DEF OwnRow
      <4> QED BY <4>1, <4>2
    <3> QED BY <3>7 DEF OwnRow, Online, Entity
  <2>2. CASE ~Admitted(Head(io_queue))
    BY <1>2, <1>3, <2>2 DEF LoginContinuation, tables, ecs
  <2> QED BY <2>1, <2>2, Zenon
<1>4. ASSUME NEW c \in Channels, OnClose(c)
      PROVE  OwnRow'
  <2>1. /\ \A d \in Channels : channel_to_entity'[d] \in {channel_to_entity[d], 0}
        /\ \A d \in Channels : channel_to_db_id'[d] \in {channel_to_db_id[d], None}
    BY <1>1, <1>4 DEF OnClose
  <2>2. components' = components
    BY <1>4 DEF OnClose
  <2> QED BY <2>1, <2>2, OwnRowKept
<1>5. ASSUME NEW c \in Channels, NEW m \in Maps, HandleMapEnter(c, m)
      PROVE  OwnRow'
  <2>1. UNCHANGED <<channel_to_entity, channel_to_db_id>>
    BY <1>5 DEF HandleMapEnter
  <2>2. CASE ~Online(c)
    BY <1>2, <1>5, <2>1, <2>2 DEF HandleMapEnter
  <2>3. CASE Online(c)
    <3>1. \A i \in 1..Len(components) : components'[i].player = components[i].player
      BY <1>1, <1>5, <2>3, OwnEntity, PlayerKept DEF HandleMapEnter
    <3> QED BY <2>1, <3>1, OwnRowKept
  <2> QED BY <2>2, <2>3
<1>6. ASSUME NEW c \in Channels, NEW t \in Channels, NEW d \in 0..MaxHp,
             HandleAttack(c, t, d)
      PROVE  OwnRow'
  <2>1. \A b \in Channels : channel_to_entity'[b] \in {channel_to_entity[b], 0}
    BY <1>1, <1>6 DEF HandleAttack, EntryErased
  <2>2. channel_to_db_id' = channel_to_db_id
    BY <1>6 DEF HandleAttack
  <2>3. \A i \in 1..Len(components) : components'[i].player = components[i].player
    BY <1>1, <1>6, OwnEntity, PlayerKept DEF HandleAttack
  <2> QED BY <2>1, <2>2, <2>3, OwnRowKept
<1>7. ASSUME NEW e \in 1..Len(components), MonsterAttack(e)
      PROVE  OwnRow'
  <2>1. UNCHANGED <<channel_to_entity, channel_to_db_id>>
    BY <1>7 DEF MonsterAttack, tables
  <2>2. \A i \in 1..Len(components) : components'[i].player = components[i].player
    BY <1>1, <1>7, PlayerKept DEF MonsterAttack
  <2> QED BY <2>1, <2>2, OwnRowKept
<1>8. ASSUME NEW c \in Channels,
             \/ OnAccept(c)
             \/ SocketClosed(c)
             \/ \E p \in Players : HandleLogin(c, p)
      PROVE  OwnRow'
  BY <1>2, <1>8 DEF OnAccept, SocketClosed, HandleLogin, tables, ecs
<1>9. ASSUME NEW c \in Channels, DbStep(c)
      PROVE  OwnRow'
  BY <1>2, <1>9, Zenon DEF DbStep, LoginInsert, LoginSelect, LoginFinish, FlushSave,
     LogoutSavePosition, LogoutSaveStats, tables, ecs
<1>10. CASE \/ FlushPlayers
            \/ \E p \in Players : CacheExpire(p)
            \/ UNCHANGED vars
  BY <1>2, <1>10 DEF FlushPlayers, CacheExpire, vars, tables, ecs
<1> QED BY <1>3, <1>4, <1>5, <1>6, <1>7, <1>8, <1>9, <1>10 DEF Next, IoStep

\* Flushes and logout saves write a character into the row of its own player.
THEOREM OwnCharacterSaved == Spec => []SavesOwnCharacter
<1>1. CASE HaveDao
  <2>1. Init => OwnRow
    BY DEF Init, OwnRow, Online, Entity
  <2>2. TypeInv /\ OwnRow /\ [Next]_vars => OwnRow'
    BY <1>1, NextOwnRow
  <2>3. OwnRow => SavesOwnCharacter
    BY Zenon DEF OwnRow, SavesOwnCharacter, Saves
  <2> QED BY TypeInvariance, <2>1, <2>2, <2>3, PTL DEF Spec
<1>2. CASE ~HaveDao
  <2>1. SavesOwnCharacter
    BY <1>2 DEF SavesOwnCharacter, Saves
  <2> QED BY <1>2, <2>1, PTL
<1> QED BY <1>1, <1>2

-----------------------------------------------------------------------------
\* ---- LogoutDurable -----------------------------------------------------------

\* p is a name c has sent in a login request.
Named(c, p) == \E i \in 1..Len(logins[c]) : logins[c][i] = p

\* Tasks, continuations and table entries of a channel carry only such names.
NamesInv ==
    /\ \A c \in Channels : \A i \in 1..Len(strand[c]) : Named(c, strand[c][i].player)
    /\ \A c \in Channels : channel_to_db_id[c] # None => Named(c, channel_to_db_id[c])
    /\ \A i \in 1..Len(io_queue) : Named(io_queue[i].channel, io_queue[i].player)

\* A logout that reported its first write has it in the table, and a confirmed
\* one, whose strand is empty, has both, while nobody else uses the name.
DurableOK(c) ==
    /\ confirmed[c] => farewell[c] # None /\ strand[c] = <<>>
    /\ \A p \in Players : farewell[c] # None /\ farewell[c].player = p /\ Sole(c, p) =>
         /\ run[c].at = "stats" /\ run[c].posOk => db[p].map = farewell[c].map
         /\ confirmed[c] => db[p] = [map |-> farewell[c].map, hp |-> farewell[c].hp]

DurableInv == NamesInv /\ \A c \in Channels : DurableOK(c)

\* A request adds a name and takes none back.
NamesGrow ==
    \/ logins' = logins
    \/ \E c \in Channels, p \in Players : logins' = [logins EXCEPT ![c] = Append(logins[c], p)]

\* A name once sent stays sent: its sole user has been that all along.
LEMMA NamedKept ==
    ASSUME TypeInv, NamesGrow
    PROVE  /\ \A c \in Channels : \A p : Named(c, p) => Named(c, p)'
           /\ \A c \in Channels, p \in Players : Sole(c, p)' => Sole(c, p)
<1>1. logins \in [Channels -> Seq(Players)]
  BY DEF TypeInv, TypeOK
<1>2. ASSUME NEW c \in Channels
      PROVE  /\ logins[c] \in Seq(Players) /\ Len(logins[c]) \in Nat /\ Len(logins'[c]) \in Nat
             /\ Len(logins[c]) <= Len(logins'[c])
             /\ \A i \in 1..Len(logins[c]) : logins'[c][i] = logins[c][i]
  <2>1. logins[c] \in Seq(Players)
    BY <1>1
  <2>2. logins'[c] = logins[c] \/ \E p \in Players : logins'[c] = Append(logins[c], p)
    BY <1>1 DEF NamesGrow
  <2> QED BY <2>1, <2>2
<1>3. \A c \in Channels : \A i \in 1..Len(logins[c]) : i \in 1..Len(logins'[c])
  BY <1>2
<1> QED BY <1>2, <1>3 DEF Named, Sole

\* What the other connections never sent, they never work on.
LEMMA SoleNames ==
    ASSUME NEW c \in Channels, NEW d \in Channels, c # d, NEW p \in Players, Sole(c, p)
    PROVE  ~Named(d, p)
BY Zenon DEF Sole, Named

\* The shapes a step may give to strands, entries and continuations
LEMMA NamesStep ==
    ASSUME TypeInv, NamesInv, NamesGrow,
           \A c \in Channels :
              \/ strand'[c] = strand[c]
              \/ strand[c] # <<>> /\ strand'[c] = Tail(strand[c])
              \/ \E t \in Task : strand'[c] = Append(strand[c], t) /\ Named(c, t.player)',
           \A c \in Channels : \/ channel_to_db_id'[c] \in {channel_to_db_id[c], None}
                               \/ \E p \in Players : channel_to_db_id'[c] = p /\ Named(c, p),
           \/ io_queue' = io_queue
           \/ io_queue # <<>> /\ io_queue' = Tail(io_queue)
           \/ \E k \in Continuation : io_queue' = Append(io_queue, k) /\ Named(k.channel, k.player)
    PROVE  NamesInv'
<1>1. \A c \in Channels : \A p : Named(c, p) => Named(c, p)'
  BY NamedKept, Zenon
<1>2. ASSUME NEW c \in Channels, NEW i \in 1..Len(strand'[c])
      PROVE  Named(c, strand[c][i].player)'
  <2>1. strand[c] \in Seq(Task) /\ \A j \in 1..Len(strand[c]) : Named(c, strand[c][j].player)
    BY Zenon DEF TypeInv, TypeOK, NamesInv
  <2>2. CASE strand'[c] = strand[c]
    BY <1>1, <1>2, <2>1, <2>2, ZenonT(40)
  <2>3. CASE strand[c] # <<>> /\ strand'[c] = Tail(strand[c])
    <3>1. strand'[c][i] = strand[c][i + 1] /\ i + 1 \in 1..Len(strand[c])
      BY <1>2, <2>1, <2>3, Popped
    <3> QED BY <1>1, <2>1, <3>1
  <2>4. ASSUME NEW t \in Task, strand'[c] = Append(strand[c], t), Named(c, t.player)'
        PROVE  Named(c, strand[c][i].player)'
    <3>1. \/ strand'[c][i] = t
          \/ i \in 1..Len(strand[c]) /\ strand'[c][i] = strand[c][i]
      BY <1>2, <2>1, <2>4, Posted
    <3> QED BY <1>1, <2>1, <2>4, <3>1, Zenon
  <2> QED BY <2>2, <2>3, <2>4, Zenon
<1>3. \A c \in Channels : channel_to_db_id'[c] # None => Named(c, channel_to_db_id[c])'
  BY <1>1, Zenon DEF NamesInv
<1>4. ASSUME NEW i \in 1..Len(io_queue')
      PROVE  Named(io_queue[i].channel, io_queue[i].player)'
  <2>1. /\ io_queue \in Seq(Continuation)
        /\ \A j \in 1..Len(io_queue) : /\ Named(io_queue[j].channel, io_queue[j].player)
                                       /\ io_queue[j].channel \in Channels
    <3>1. io_queue \in Seq(Continuation)
      BY DEF TypeInv, TypeOK
    <3>2. \A j \in 1..Len(io_queue) : io_queue[j] \in Continuation
      BY <3>1
    <3> QED BY <3>1, <3>2, Zenon DEF NamesInv, Continuation
  <2>2. CASE io_queue' = io_queue
    BY <1>1, <1>4, <2>1, <2>2, Zenon
  <2>3. CASE io_queue # <<>> /\ io_queue' = Tail(io_queue)
    <3>1. /\ Len(io_queue') = Len(io_queue) - 1 /\ Len(io_queue) \in Nat
          /\ \A j \in 1..Len(io_queue') : io_queue'[j] = io_queue[j + 1]
      BY <2>1, <2>3, HeadTailProperties
    <3>2. io_queue'[i] = io_queue[i + 1] /\ i + 1 \in 1..Len(io_queue)
      BY <1>4, <3>1
    <3> QED BY <1>1, <2>1, <3>2, Zenon
  <2>4. ASSUME NEW k \in Continuation, io_queue' = Append(io_queue, k), Named(k.channel, k.player)
        PROVE  Named(io_queue[i].channel, io_queue[i].player)'
    <3>1. \/ io_queue'[i] = k
          \/ i \in 1..Len(io_queue) /\ io_queue'[i] = io_queue[i]
      BY <1>4, <2>1, <2>4
    <3>2. k.channel \in Channels
      BY Zenon DEF Continuation
    <3> QED BY <1>1, <2>1, <2>4, <3>1, <3>2, Zenon
  <2> QED BY <2>2, <2>3, <2>4, Zenon
<1> QED BY <1>2, <1>3, <1>4, Zenon DEF NamesInv

\* What a step of a pool thread may touch of what DurableInv speaks of
LEMMA PoolStepTouches ==
    ASSUME TypeInv, NEW d \in Channels, DbStep(d)
    PROVE  /\ strand[d] # <<>>
           /\ \A p \in Players : p # strand[d][1].player => db'[p] = db[p]
           /\ \A c \in Channels : c # d => /\ strand'[c] = strand[c] /\ run'[c] = run[c]
                                           /\ confirmed'[c] = confirmed[c]
           /\ UNCHANGED <<logins, farewell, channel_to_db_id>>
<1>1. strand[d] # <<>>
  BY Zenon DEF DbStep, LoginInsert, LoginSelect, LoginFinish, FlushSave, LogoutSavePosition,
         LogoutSaveStats, Starts, At, TypeInv, TasksOK
<1>2. PICK t \in Task : t = Head(strand[d]) /\ t = strand[d][1] /\ t.player \in Players
  BY <1>1, HeadTask, Zenon
<1>3. /\ strand \in [Channels -> Seq(Task)] /\ run \in [Channels -> Run]
      /\ confirmed \in [Channels -> BOOLEAN] /\ db \in [Players -> Row \cup {None}]
  BY DEF TypeInv, TypeOK
<1>4. UNCHANGED <<logins, farewell, channel_to_db_id>>
  BY Zenon DEF DbStep, LoginInsert, LoginSelect, LoginFinish, FlushSave, LogoutSavePosition,
         LogoutSaveStats, tables, history
<1>5. \A p \in Players : p # t.player => db'[p] = db[p]
  <2>1. \/ db' = db
        \/ \E r : db' = [db EXCEPT ![t.player] = r]
    <3>1. CASE LoginInsert(d)
      BY <1>2, <3>1, Zenon DEF LoginInsert
    <3>2. CASE LoginSelect(d) \/ LoginFinish(d)
      BY <3>2, Zenon DEF LoginSelect, LoginFinish, stores
    <3>3. CASE FlushSave(d) \/ LogoutSavePosition(d) \/ LogoutSaveStats(d)
      <4>1. \E ok \in BOOLEAN : SavePosition(t, ok) \/ SaveStats(t, ok)
        BY <1>2, <3>3, Zenon DEF FlushSave, LogoutSavePosition, LogoutSaveStats
      <4> QED BY <4>1 DEF SavePosition, SaveStats
    <3> QED BY <3>1, <3>2, <3>3, Zenon DEF DbStep
  <2> QED BY <1>3, <2>1
<1>6. strand' = strand \/ strand' = [strand EXCEPT ![d] = Tail(@)]
  BY Zenon DEF DbStep, LoginInsert, LoginSelect, LoginFinish, FlushSave, LogoutSavePosition,
         LogoutSaveStats, Pop
<1>7. \E r : run' = [run EXCEPT ![d] = r]
  <2>1. CASE FlushSave(d)
    <3>1. run' = [run EXCEPT ![d] = run[d]]
      BY <1>3, <2>1 DEF FlushSave
    <3> QED BY <3>1, Zenon
  <2>2. CASE LoginInsert(d)
    BY <2>2, Zenon DEF LoginInsert
  <2>3. CASE LoginSelect(d) \/ LogoutSavePosition(d)
    BY <2>3, Zenon DEF LoginSelect, LogoutSavePosition
  <2>4. CASE LoginFinish(d) \/ LogoutSaveStats(d)
    BY <2>4, Zenon DEF LoginFinish, LogoutSaveStats
  <2> QED BY <2>1, <2>2, <2>3, <2>4 DEF DbStep
<1>8. confirmed' = confirmed \/ \E b : confirmed' = [confirmed EXCEPT ![d] = b]
  BY Zenon DEF DbStep, LoginInsert, LoginSelect, LoginFinish, FlushSave, LogoutSavePosition,
         LogoutSaveStats, history
<1>9. ASSUME NEW c \in Channels, c # d
      PROVE  strand'[c] = strand[c] /\ run'[c] = run[c] /\ confirmed'[c] = confirmed[c]
  BY <1>3, <1>6, <1>7, <1>8, <1>9
<1> QED BY <1>1, <1>2, <1>4, <1>5, <1>9, Zenon

\* A connection is untouched, and so is its player's row.
LEMMA DurableKept ==
    ASSUME NEW c \in Channels, DurableOK(c),
           strand'[c] = strand[c] \/ ~confirmed[c], run'[c] = run[c],
           farewell'[c] = farewell[c], confirmed'[c] = confirmed[c],
           \A p \in Players : Sole(c, p)' => Sole(c, p) /\ (farewell[c].player = p => db'[p] = db[p])
    PROVE  DurableOK(c)'
BY Zenon DEF DurableOK

\* A connection whose logout save has neither run nor started
LEMMA DurableBefore ==
    ASSUME NEW c \in Channels, ~confirmed'[c], run'[c].at # "stats"
    PROVE  DurableOK(c)'
BY Zenon DEF DurableOK

\* The step of a pool thread leaves the other connections' rows alone.
LEMMA OthersDurable ==
    ASSUME TypeInv, DurableInv, NEW d \in Channels, DbStep(d), NEW c \in Channels, c # d
    PROVE  DurableOK(c)'
<1>1. /\ strand[d] # <<>> /\ UNCHANGED <<logins, farewell>>
      /\ \A p \in Players : p # strand[d][1].player => db'[p] = db[p]
      /\ strand'[c] = strand[c] /\ run'[c] = run[c] /\ confirmed'[c] = confirmed[c]
  BY PoolStepTouches
<1>2. strand[d] \in Seq(Task)
  BY Zenon DEF TypeInv, TypeOK
<1>3. 1 \in 1..Len(strand[d])
  BY <1>1, <1>2, Popped
<1>4. Named(d, strand[d][1].player)
  BY <1>3, Zenon DEF DurableInv, NamesInv
<1>5. \A p \in Players : Sole(c, p)' => Sole(c, p) /\ db'[p] = db[p]
  <2>1. \A p \in Players : Sole(c, p)' => Sole(c, p)
    BY <1>1 DEF Sole
  <2>2. \A p \in Players : Sole(c, p) => ~Named(d, p)
    BY SoleNames, Zenon
  <2> QED BY <1>1, <1>4, <2>1, <2>2, Zenon
<1> QED BY <1>1, <1>5, DurableKept, Zenon DEF DurableInv

\* A logout save that has come to the head is alone on its strand and is the one
\* farewell describes.
LEMMA LogoutHead ==
    ASSUME TypeInv, LogoutInv, NEW c \in Channels, strand[c] # <<>>, strand[c][1].kind = "logout"
    PROVE  /\ farewell[c] # None /\ Tail(strand[c]) = <<>>
           /\ LET t == strand[c][1] IN
              farewell[c] = [player |-> t.player, map |-> t.map, hp |-> t.hp]
<1>1. strand[c] \in Seq(Task) /\ LogoutOK(c)
  BY DEF TypeInv, TypeOK, LogoutInv
<1>2. Len(strand[c]) \in Nat \ {0} /\ (Tail(strand[c]) = <<>> <=> Len(strand[c]) = 1)
  BY <1>1, Popped, Zenon
<1>3. 1 \in 1..Len(strand[c])
  BY <1>2
<1>4. farewell[c] # None
  BY <1>1, <1>3, ZenonT(40) DEF LogoutOK
<1>5. Len(strand[c]) = 1
  BY <1>1, <1>2, <1>4 DEF LogoutOK
<1> QED BY <1>1, <1>2, <1>4, <1>5, Zenon DEF LogoutOK

\* A connection's own tasks: a login or a flush runs before its logout is
\* confirmed, and the logout save writes what farewell says.
LEMMA OwnDurable ==
    ASSUME TypeInv, LogoutInv, DurableInv, NEW c \in Channels, DbStep(c)
    PROVE  DurableOK(c)'
<1>1. strand[c] # <<>> /\ UNCHANGED <<logins, farewell>>
  BY PoolStepTouches, Zenon
<1>2. ~confirmed[c] /\ confirmed \in [Channels -> BOOLEAN] /\ run \in [Channels -> Run]
  BY <1>1 DEF DurableInv, DurableOK, TypeInv, TypeOK
<1>3. PICK t \in Task : t = Head(strand[c]) /\ t = strand[c][1] /\ t.player \in Players
                        /\ (t.kind # "login" => Found(t.player))
  BY <1>1, HeadTask, Zenon
<1>4. db \in [Players -> Row \cup {None}]
  BY Zenon DEF TypeInv, TypeOK
<1>5. CASE LoginInsert(c) \/ LoginSelect(c) \/ LoginFinish(c) \/ FlushSave(c)
  <2>1. confirmed' = confirmed
    BY <1>5, Zenon DEF LoginInsert, LoginSelect, LoginFinish, FlushSave, history
  <2>2. run'[c].at # "stats"
    <3>1. CASE LoginInsert(c)
      <4>1. PICK next \in {"select", "finish"} : run' = [run EXCEPT ![c].at = next]
        BY <3>1, Zenon DEF LoginInsert
      <4>2. run[c] \in Run
        BY <1>2
      <4>3. run'[c] = [run[c] EXCEPT !.at = next]
        BY <1>2, <4>1
      <4> QED BY <4>1, <4>2, <4>3 DEF Run
    <3>2. CASE LoginSelect(c)
      <4>1. PICK row : run' = [run EXCEPT ![c] = [run[c] EXCEPT !.at = "finish", !.row = row]]
        BY <3>2, Zenon DEF LoginSelect
      <4>2. run[c] \in Run
        BY <1>2
      <4>3. run'[c] = [run[c] EXCEPT !.at = "finish", !.row = row]
        BY <1>2, <4>1, Zenon
      <4> QED BY <4>2, <4>3 DEF Run
    <3>3. CASE LoginFinish(c)
      BY <1>2, <3>3 DEF LoginFinish, Idle
    <3>4. CASE FlushSave(c)
      BY <3>4, Zenon DEF FlushSave, Starts, Busy
    <3> QED BY <1>5, <3>1, <3>2, <3>3, <3>4
  <2> QED BY <1>2, <2>1, <2>2, DurableBefore
<1>6. CASE LogoutSavePosition(c)
  <2>1. t.kind = "logout"
    BY <1>3, <1>6, Zenon DEF LogoutSavePosition, Starts
  <2>2. farewell[c] = [player |-> t.player, map |-> t.map, hp |-> t.hp]
    BY <1>1, <1>3, <2>1, LogoutHead
  <2>3. PICK ok \in BOOLEAN :
          /\ SavePosition(t, ok)
          /\ run' = [run EXCEPT ![c] = [run[c] EXCEPT !.at = "stats", !.posOk = ok]]
    BY <1>3, <1>6, Zenon DEF LogoutSavePosition
  <2>4. run[c] \in Run /\ run'[c] = [run[c] EXCEPT !.at = "stats", !.posOk = ok]
    BY <1>2, <2>3
  <2>5. run'[c].posOk = ok
    BY <2>4, Zenon DEF Run
  <2>6. db[t.player] \in Row
    BY <1>3, <1>4, <2>1, Zenon DEF Found
  <2>7. ok => db'[t.player].map = t.map
    <3>1. ok => db'[t.player] = [db[t.player] EXCEPT !.map = t.map]
      BY <1>3, <1>4, <2>3 DEF SavePosition
    <3> QED BY <2>6, <3>1, Zenon DEF Row
  <2>8. farewell'[c] = farewell[c] /\ ~confirmed'[c]
    BY <1>1, <1>2, <1>6 DEF LogoutSavePosition, history
  <2>9. farewell[c].player = t.player /\ farewell[c].map = t.map
    BY <2>2
  <2> QED BY <2>5, <2>7, <2>8, <2>9 DEF DurableOK
<1>7. CASE LogoutSaveStats(c)
  <2>1. t.kind = "logout" /\ run[c].at = "stats"
    BY <1>3, <1>7, ZenonT(40) DEF LogoutSaveStats, At, TypeInv, TasksOK
  <2>2. /\ farewell[c] = [player |-> t.player, map |-> t.map, hp |-> t.hp]
        /\ farewell[c] # None /\ Tail(strand[c]) = <<>>
    BY <1>1, <1>3, <2>1, LogoutHead
  <2>3. PICK ok \in BOOLEAN :
          /\ SaveStats(t, ok)
          /\ confirmed' = [confirmed EXCEPT ![c] = run[c].posOk /\ ok]
    BY <1>3, <1>7, Zenon DEF LogoutSaveStats
  <2>4. /\ strand' = [strand EXCEPT ![c] = Tail(@)] /\ run' = [run EXCEPT ![c] = Idle]
        /\ strand \in [Channels -> Seq(Task)]
    BY <1>7, Zenon DEF LogoutSaveStats, Pop, TypeInv, TypeOK
  <2>5. strand'[c] = <<>> /\ run'[c].at = "idle"
    BY <1>2, <2>2, <2>4 DEF Idle
  <2>6. confirmed'[c] <=> run[c].posOk /\ ok
    BY <1>2, <2>3, Zenon
  <2>7. db[t.player] \in Row
    BY <1>3, <1>4, <2>1, Zenon DEF Found
  <2>8. farewell[c].player = t.player /\ farewell[c].map = t.map /\ farewell[c].hp = t.hp
    BY <2>2
  <2>9. ASSUME confirmed'[c], Sole(c, t.player)
        PROVE  db'[t.player] = [map |-> t.map, hp |-> t.hp]
    <3>1. db[t.player].map = t.map
      BY <1>3, <2>1, <2>2, <2>6, <2>8, <2>9, Zenon DEF DurableInv, DurableOK
    <3>2. db'[t.player] = [db[t.player] EXCEPT !.hp = t.hp]
      BY <1>3, <1>4, <2>3, <2>6, <2>9 DEF SaveStats
    <3> QED BY <2>7, <3>1, <3>2 DEF Row
  <2>10. \A p \in Players : Sole(c, p)' => Sole(c, p)
    BY <1>1 DEF Sole
  <2>11. farewell'[c] = farewell[c]
    BY <1>1, Zenon
  <2>12. ASSUME NEW p \in Players, farewell'[c].player = p, Sole(c, p)', confirmed'[c]
         PROVE  db'[p] = [map |-> farewell'[c].map, hp |-> farewell'[c].hp]
    <3>1. p = t.player /\ Sole(c, t.player)
      BY <2>8, <2>10, <2>11, <2>12, ZenonT(40)
    <3> QED BY <2>8, <2>9, <2>11, <2>12, <3>1
  <2> QED BY <2>2, <2>5, <2>11, <2>12, ZenonT(40) DEF DurableOK
<1> QED BY <1>5, <1>6, <1>7, Zenon DEF DbStep

\* Every step keeps tasks, entries and continuations to the names requested.
LEMMA NextNames == TypeInv /\ NamesInv /\ [Next]_vars => NamesInv'
<1> SUFFICES ASSUME TypeInv, NamesInv, [Next]_vars PROVE NamesInv'
  OBVIOUS
<1>0. /\ strand \in [Channels -> Seq(Task)] /\ logins \in [Channels -> Seq(Players)]
      /\ channel_to_db_id \in [Channels -> Players \cup {None}]
      /\ io_queue \in Seq(Continuation)
  BY DEF TypeInv, TypeOK
<1>1. ASSUME UNCHANGED <<strand, channel_to_db_id, io_queue, logins>> PROVE NamesInv'
  BY <1>1, ZenonT(40) DEF NamesInv, Named
<1>2. CASE LoginContinuation
  <2>1. io_queue # <<>> /\ io_queue' = Tail(io_queue) /\ UNCHANGED <<strand, logins>>
    BY <1>2 DEF LoginContinuation, pool, history
  <2>2. PICK k \in Continuation : k = Head(io_queue) /\ k = io_queue[1] /\ 1 \in 1..Len(io_queue)
    <3>1. Head(io_queue) \in Continuation /\ Head(io_queue) = io_queue[1] /\ Len(io_queue) \in Nat \ {0}
      BY <1>0, <2>1, HeadTailProperties, EmptySeq
    <3> QED BY <3>1
  <2>3. k.channel \in Channels /\ k.player \in Players /\ Named(k.channel, k.player)
    BY <2>2 DEF Continuation, NamesInv
  <2>4. \/ channel_to_db_id' = channel_to_db_id
        \/ channel_to_db_id' = [channel_to_db_id EXCEPT ![k.channel] = k.player]
    BY <1>2, <2>2, Zenon DEF LoginContinuation, tables
  <2>5. \A c \in Channels : \/ channel_to_db_id'[c] \in {channel_to_db_id[c], None}
                            \/ \E p \in Players : channel_to_db_id'[c] = p /\ Named(c, p)
    BY <1>0, <2>3, <2>4, Zenon
  <2> QED BY <2>1, <2>5, NamesStep DEF NamesGrow
<1>3. CASE FlushPlayers
  <2>1. UNCHANGED <<channel_to_db_id, io_queue, logins>>
    BY <1>3 DEF FlushPlayers, tables, history
  <2>2. ASSUME NEW c \in Channels, Flushable(c)
        PROVE  \E t \in Task : strand'[c] = Append(strand[c], t) /\ Named(c, t.player)'
    <3>1. PICK t \in Task : t = SaveTask("flush", channel_to_db_id[c], Entity(c))
      BY <2>2, SaveTaskOf, Zenon DEF Flushable
    <3>2. strand'[c] = Append(strand[c], t) /\ t.player = channel_to_db_id[c]
      BY <1>3, <2>2, <3>1, Zenon DEF FlushPlayers, Post, SaveTask
    <3>3. Named(c, t.player)'
      BY <2>1, <2>2, <3>2, Zenon DEF NamesInv, Named, Flushable
    <3> QED BY <3>2, <3>3, Zenon
  <2>3. \A c \in Channels : ~Flushable(c) => strand'[c] = strand[c]
    BY <1>3, Zenon DEF FlushPlayers
  <2> QED BY <2>1, <2>2, <2>3, NamesStep, Zenon DEF NamesGrow
<1>4. ASSUME NEW c \in Channels, OnClose(c) PROVE NamesInv'
  <2>1. /\ UNCHANGED <<io_queue, logins>>
        /\ channel_to_db_id' = [channel_to_db_id EXCEPT ![c] = None]
    BY <1>4 DEF OnClose
  <2>2. \/ strand' = strand
        \/ \E t \in Task : strand' = [strand EXCEPT ![c] = Append(strand[c], t)] /\ Named(c, t.player)'
    <3>1. CASE Saves(c)
      <4>1. PICK t \in Task : t = SaveTask("logout", channel_to_db_id[c], Entity(c))
        BY <3>1, SaveTaskOf, ZenonT(40) DEF Saves
      <4>2. t.player = channel_to_db_id[c] /\ strand' = [strand EXCEPT ![c] = Append(strand[c], t)]
        BY <1>4, <3>1, <4>1 DEF OnClose, Post, SaveTask
      <4>3. Named(c, t.player)'
        BY <2>1, <3>1, <4>2, Zenon DEF NamesInv, Named, Saves
      <4> QED BY <4>2, <4>3, Zenon
    <3>2. CASE ~Saves(c)
      BY <1>4, <3>2 DEF OnClose
    <3> QED BY <3>1, <3>2
  <2>3. \A d \in Channels :
          \/ strand'[d] = strand[d]
          \/ \E t \in Task : strand'[d] = Append(strand[d], t) /\ Named(d, t.player)'
    BY <1>0, <2>2, Zenon
  <2>4. \A d \in Channels : channel_to_db_id'[d] \in {channel_to_db_id[d], None}
    BY <1>0, <2>1
  <2> QED BY <2>1, <2>3, <2>4, NamesStep, Zenon DEF NamesGrow
<1>5. ASSUME NEW c \in Channels, NEW p \in Players, HandleLogin(c, p) PROVE NamesInv'
  <2>1. UNCHANGED <<channel_to_db_id, io_queue>> /\ logins' = [logins EXCEPT ![c] = Append(logins[c], p)]
    BY <1>5, ZenonT(40) DEF HandleLogin, tables
  <2>2. Named(c, p)'
    <3>1. logins[c] \in Seq(Players) /\ logins'[c] = Append(logins[c], p)
      BY <1>0, <2>1
    <3>2. /\ logins'[c][Len(logins[c]) + 1] = p
          /\ Len(logins'[c]) = Len(logins[c]) + 1 /\ Len(logins[c]) \in Nat
      BY <3>1
    <3>3. Len(logins[c]) + 1 \in 1..Len(logins'[c])
      BY <3>2
    <3> QED BY <3>2, <3>3 DEF Named
  <2>3. \/ strand' = strand
        \/ \E t \in Task : strand' = [strand EXCEPT ![c] = Append(strand[c], t)] /\ t.player = p
    <3>1. LoginTask(p) \in Task /\ LoginTask(p).player = p
      BY MapAssumption, HpAssumption DEF LoginTask, Task
    <3> QED BY <1>5, <3>1, Zenon DEF HandleLogin, Post
  <2>4. \A d \in Channels :
          \/ strand'[d] = strand[d]
          \/ \E t \in Task : strand'[d] = Append(strand[d], t) /\ Named(d, t.player)'
    BY <1>0, <2>2, <2>3, Zenon
  <2> QED BY <2>1, <2>4, NamesStep, ZenonT(40) DEF NamesGrow
<1>6. ASSUME NEW c \in Channels, LoginFinish(c) \/ FlushSave(c) \/ LogoutSaveStats(c) PROVE NamesInv'
  <2>1. strand[c] # <<>> /\ UNCHANGED <<logins, channel_to_db_id>>
    BY <1>6, PoolStepTouches, Zenon DEF DbStep
  <2>2. strand' = [strand EXCEPT ![c] = Tail(strand[c])]
    BY <1>6 DEF LoginFinish, FlushSave, LogoutSaveStats, Pop
  <2>3. \A d \in Channels : strand'[d] = strand[d] \/ (strand[d] # <<>> /\ strand'[d] = Tail(strand[d]))
    BY <1>0, <2>1, <2>2, Zenon
  <2>4. \/ io_queue' = io_queue
        \/ \E k \in Continuation : io_queue' = Append(io_queue, k) /\ Named(k.channel, k.player)
    <3>1. CASE FlushSave(c) \/ LogoutSaveStats(c)
      BY <3>1, Zenon DEF FlushSave, LogoutSaveStats
    <3>2. CASE LoginFinish(c)
      <4>1. PICK p \in Players : p = Head(strand[c]).player /\ p = strand[c][1].player
        BY <2>1, HeadTask, Zenon
      <4>2. run[c] \in Run
        BY DEF TypeInv, TypeOK
      <4>3. PICK k \in Continuation : k = [channel |-> c, player |-> p, row |-> run[c].row]
        BY <4>2, Zenon DEF Run, Continuation
      <4>4. io_queue' = Append(io_queue, k) /\ k.channel = c /\ k.player = p
        BY <3>2, <4>1, <4>3, Zenon DEF LoginFinish
      <4>5. strand[c] \in Seq(Task)
        BY <1>0
      <4>6. 1 \in 1..Len(strand[c])
        BY <2>1, <4>5, Popped
      <4> QED BY <4>1, <4>4, <4>6 DEF NamesInv
    <3> QED BY <1>6, <3>1, <3>2
  <2> QED BY <2>1, <2>3, <2>4, NamesStep, Zenon DEF NamesGrow
<1>7. ASSUME NEW c \in Channels, LoginInsert(c) \/ LoginSelect(c) \/ LogoutSavePosition(c) PROVE NamesInv'
  BY <1>1, <1>7, Zenon DEF LoginInsert, LoginSelect, LogoutSavePosition, tables, history
<1>8. ASSUME NEW c \in Channels,
             \/ OnAccept(c) \/ SocketClosed(c)
             \/ \E m \in Maps : HandleMapEnter(c, m)
             \/ \E t \in Channels, d \in 0..MaxHp : HandleAttack(c, t, d)
      PROVE  NamesInv'
  BY <1>1, <1>8, Zenon DEF OnAccept, SocketClosed, HandleMapEnter, HandleAttack, tables, pool, history
<1>9. CASE \/ \E e \in 1..Len(components) : MonsterAttack(e)
           \/ \E p \in Players : CacheExpire(p)
           \/ UNCHANGED vars
  BY <1>1, <1>9, Zenon DEF MonsterAttack, CacheExpire, vars, tables, pool, history
<1> QED BY <1>2, <1>3, <1>4, <1>5, <1>6, <1>7, <1>8, <1>9 DEF Next, IoStep, DbStep

\* Every step keeps what confirmed logouts have written.
LEMMA NextDurable ==
    ASSUME TypeInv, LogoutInv, DurableInv, [Next]_vars
    PROVE  DurableInv'
<1>1. NamesInv'
  BY NextNames DEF DurableInv
<1>2. ASSUME NEW d \in Channels, DbStep(d) PROVE \A c \in Channels : DurableOK(c)'
  BY <1>2, OwnDurable, OthersDurable, Zenon
<1>3. ASSUME UNCHANGED <<run, db, confirmed>>, NamesGrow, NEW c \in Channels,
             farewell'[c] = farewell[c], strand'[c] = strand[c] \/ ~confirmed[c]
      PROVE  DurableOK(c)'
  <2>1. \A p \in Players : Sole(c, p)' => Sole(c, p)
    BY <1>3, NamedKept
  <2> QED BY <1>3, <2>1, DurableKept, ZenonT(40) DEF DurableInv
<1>4. ASSUME NEW c \in Channels, c \in db_strands \/ link[c] = "open" PROVE ~confirmed[c] /\ farewell[c] = None
  BY <1>4, Zenon DEF LogoutInv, LinkOK, DurableInv, DurableOK
<1>5. CASE FlushPlayers
  <2>1. UNCHANGED <<run, db, confirmed, farewell>> /\ NamesGrow
    BY <1>5, Zenon DEF FlushPlayers, stores, history, NamesGrow
  <2>2. \A c \in Channels : strand'[c] = strand[c] \/ ~confirmed[c]
    BY <1>4, <1>5 DEF FlushPlayers, Flushable
  <2> QED BY <1>1, <1>3, <2>1, <2>2, Zenon DEF DurableInv
<1>6. ASSUME NEW c \in Channels, OnClose(c) PROVE \A d \in Channels : DurableOK(d)'
  <2>1. /\ UNCHANGED <<run, db, confirmed>> /\ NamesGrow /\ link[c] = "open"
        /\ strand \in [Channels -> Seq(Task)] /\ farewell \in [Channels -> Snapshot \cup {None}]
    BY <1>6, Zenon DEF OnClose, NamesGrow, TypeInv, TypeOK
  <2>2. \A d \in Channels : d # c => strand'[d] = strand[d] /\ farewell'[d] = farewell[d]
    BY <1>6, <2>1, OnClosePosts, Zenon
  <2>3. \A d \in Channels : d # c => DurableOK(d)'
    BY <1>3, <2>1, <2>2, Zenon
  <2>4. ~confirmed[c] /\ run[c].at # "stats"
    <3>1. ~confirmed[c] /\ farewell[c] = None
      BY <1>4, <2>1
    <3>2. strand[c] # <<>> => strand[c][1].kind # "logout"
      BY <3>1, LogoutHead, Zenon
    <3> QED BY <3>1, <3>2, Zenon DEF TypeInv, TasksOK
  <2>5. DurableOK(c)'
    BY <2>1, <2>4, DurableBefore, Zenon
  <2> QED BY <2>3, <2>5
<1>7. ASSUME NEW c \in Channels, NEW p \in Players, HandleLogin(c, p) PROVE \A d \in Channels : DurableOK(d)'
  <2>1. /\ UNCHANGED <<run, db, confirmed, farewell>>
        /\ logins' = [logins EXCEPT ![c] = Append(logins[c], p)]
        /\ strand \in [Channels -> Seq(Task)]
    BY <1>7, Zenon DEF HandleLogin, stores, TypeInv, TypeOK
  <2>2. NamesGrow
    BY <2>1, ZenonT(40) DEF NamesGrow
  <2>3. \A d \in Channels : strand'[d] = strand[d] \/ ~confirmed[d]
    <3>1. CASE HaveDao
      BY <1>4, <1>7, <2>1, <3>1, Zenon DEF HandleLogin
    <3>2. CASE ~HaveDao
      BY <1>7, <3>2, Zenon DEF HandleLogin
    <3> QED BY <3>1, <3>2
  <2> QED BY <1>3, <2>1, <2>2, <2>3, Zenon
<1>8. CASE \/ LoginContinuation
           \/ \E c \in Channels :
                \/ OnAccept(c) \/ SocketClosed(c)
                \/ \E m \in Maps : HandleMapEnter(c, m)
                \/ \E t \in Channels, d \in 0..MaxHp : HandleAttack(c, t, d)
           \/ \E e \in 1..Len(components) : MonsterAttack(e)
           \/ \E p \in Players : CacheExpire(p)
           \/ UNCHANGED vars
  <2>1. UNCHANGED <<strand, run, db, logins, farewell, confirmed>>
    BY <1>8 DEF LoginContinuation, OnAccept, SocketClosed, HandleMapEnter, HandleAttack,
                MonsterAttack, CacheExpire, vars, pool, stores, history
  <2> QED BY <1>1, <1>3, <2>1, Zenon DEF DurableInv, NamesGrow
<1> QED BY <1>1, <1>2, <1>5, <1>6, <1>7, <1>8 DEF DurableInv, Next, IoStep

\* What the confirmed logout of a player's only connection saved is what the
\* table holds from then on, for any number of connections, names and flushes.
THEOREM DurableLogout == Spec => []LogoutDurable
<1>1. Init => DurableInv
  BY DEF Init, DurableInv, NamesInv, DurableOK
<1>2. DurableInv => LogoutDurable
  BY DEF DurableInv, DurableOK, LogoutDurable
<1>3. TypeInv /\ LogoutInv /\ DurableInv /\ [Next]_vars => DurableInv'
  BY NextDurable
<1> QED BY LogoutInvariance, <1>1, <1>2, <1>3, PTL DEF Spec
===============================================================================
