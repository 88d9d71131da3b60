------------------------------ MODULE TableProofs ------------------------------
(***************************************************************************)
(* The tables of game_server: its guilds (module Guild) and its channels   *)
(* (module Connections, as C), for every set of channels, any queue length *)
(* and any number of guilds and messages.                                  *)
(*                                                                         *)
(* Guild: NoEmptyGuild and Agreement need each other: leaving disbands a   *)
(* guild by looking at its member list only, joining and leaving find a    *)
(* channel's guild by looking at channel_to_guild_ only.  Both rest on     *)
(* FreshIds: no guild, existing or disbanded, has an id that is still to   *)
(* be given out.                                                           *)
(***************************************************************************)
EXTENDS Guild, Sequences, TLAPS

FreshIds == guilds \subseteq used /\ \A g \in used : g < next_guild_id

IInv == TypeOK /\ Agreement /\ NoEmptyGuild /\ FreshIds

\* Time for the provers, also on a busy machine.
USE SMTT(20), ZenonT(20)

\* The empty tables agree.
LEMMA InitInv == Init => IInv
BY GuildBoundAssumption
   DEF Init, IInv, TypeOK, Agreement, NoEmptyGuild, FreshIds, Ids, NoGuild, FirstId

\* handle_guild_create keeps the tables in agreement.
LEMMA CreateInv ==
    ASSUME IInv, NEW c \in Channels, HandleGuildCreate(c)
    PROVE  IInv'
<1> USE GuildBoundAssumption
<1> DEFINE g == next_guild_id
<1>1. g \in Ids /\ g \notin guilds /\ channel_to_guild[c] = NoGuild
  BY DEF IInv, TypeOK, FreshIds, HandleGuildCreate, Unaffiliated, Ids
<1>2. TypeOK'
  BY <1>1 DEF IInv, TypeOK, HandleGuildCreate, NewId, Ids
<1>3. \A d \in Channels :
        channel_to_guild'[d] = IF d = c THEN g ELSE channel_to_guild[d]
  BY DEF IInv, TypeOK, HandleGuildCreate, NewId
<1>4. \A h \in guilds, d \in Channels : members'[h][d] = members[h][d]
  BY <1>1 DEF IInv, TypeOK, HandleGuildCreate, NewId
<1>5. \A d \in Channels : members'[g][d] = IF d = c THEN 1 ELSE 0
  BY <1>1 DEF IInv, TypeOK, HandleGuildCreate, NewId
<1>6. guilds' = guilds \cup {g}
  BY DEF HandleGuildCreate, NewId
<1>7. g # NoGuild /\ NoGuild \notin guilds
  BY <1>1 DEF IInv, TypeOK, Ids, NoGuild
<1>8. Agreement'
  BY <1>1, <1>3, <1>4, <1>5, <1>6, <1>7 DEF IInv, TypeOK, Agreement
<1>9. NoEmptyGuild'
  BY <1>1, <1>3, <1>6, <1>7 DEF IInv, NoEmptyGuild
<1>10. FreshIds'
  BY <1>1, <1>6 DEF IInv, TypeOK, FreshIds, HandleGuildCreate, NewId, Ids
<1> QED BY <1>2, <1>8, <1>9, <1>10 DEF IInv

\* handle_guild_join keeps the tables in agreement.
LEMMA JoinInv ==
    ASSUME IInv, NEW c \in Channels, NEW g \in Ids, HandleGuildJoin(c, g)
    PROVE  IInv'
<1>1. g \in guilds /\ channel_to_guild[c] = NoGuild /\ guilds' = guilds
  BY DEF HandleGuildJoin, Unaffiliated
<1>2. TypeOK'
  BY DEF IInv, TypeOK, HandleGuildJoin
<1>3. \A d \in Channels :
        channel_to_guild'[d] = IF d = c THEN g ELSE channel_to_guild[d]
  BY DEF IInv, TypeOK, HandleGuildJoin
<1>4. \A h \in guilds, d \in Channels :
        members'[h][d] = IF h = g /\ d = c THEN members[h][d] + 1 ELSE members[h][d]
  BY DEF IInv, TypeOK, HandleGuildJoin
<1>5. NoGuild \notin guilds
  BY DEF IInv, TypeOK, Ids, NoGuild
<1>6. Agreement'
  BY <1>1, <1>3, <1>4, <1>5 DEF IInv, Agreement
<1>7. NoEmptyGuild'
  BY <1>1, <1>3, <1>5 DEF IInv, NoEmptyGuild
<1>8. FreshIds'
  BY <1>1 DEF IInv, FreshIds, HandleGuildJoin
<1> QED BY <1>2, <1>6, <1>7, <1>8 DEF IInv

\* handle_guild_leave keeps the tables in agreement, disbanding included.
LEMMA LeaveInv ==
    ASSUME IInv, NEW c \in Channels, HandleGuildLeave(c)
    PROVE  IInv'
<1>1. PICK g \in guilds : g = channel_to_guild[c]
  BY DEF IInv, Agreement, HandleGuildLeave, Unaffiliated
<1> DEFINE left == [members[g] EXCEPT ![c] = 0]
<1>2. /\ members' = [members EXCEPT ![g] = left]
      /\ guilds' = GuildsLeft(g, left)
      /\ channel_to_guild' = [channel_to_guild EXCEPT ![c] = NoGuild]
      /\ UNCHANGED <<next_guild_id, used>>
  BY <1>1 DEF HandleGuildLeave
<1>3. g \in Ids /\ guilds' \subseteq guilds /\ \A h \in guilds : h # g => h \in guilds'
  BY <1>1, <1>2 DEF IInv, TypeOK, GuildsLeft
<1>4. left \in [Channels -> Nat]
  BY <1>3 DEF IInv, TypeOK
<1>5. TypeOK'
  BY <1>2, <1>3, <1>4, Zenon DEF IInv, TypeOK
<1>6. \A d \in Channels :
        channel_to_guild'[d] = IF d = c THEN NoGuild ELSE channel_to_guild[d]
  BY <1>2 DEF IInv, TypeOK
<1>7. \A h \in guilds, d \in Channels :
        members'[h][d] = IF h = g /\ d = c THEN 0 ELSE members[h][d]
  BY <1>2, <1>3 DEF IInv, TypeOK
<1>8. NoGuild \notin guilds
  BY DEF IInv, TypeOK, Ids, NoGuild
<1>9. g \in guilds' <=> \E d \in Channels : d # c /\ channel_to_guild[d] = g
  <2>1. \A d \in Channels : left[d] = IF d = c THEN 0 ELSE members[g][d]
    BY <1>3 DEF IInv, TypeOK
  <2>2. \A d \in Channels : members[g][d] = IF channel_to_guild[d] = g THEN 1 ELSE 0
    BY <1>1 DEF IInv, Agreement
  <2>3. g \in guilds' <=> \E d \in Channels : left[d] # 0
    BY <1>1, <1>2 DEF GuildsLeft
  <2> QED BY <2>1, <2>2, <2>3
<1>10. Agreement'
  BY <1>1, <1>3, <1>6, <1>7, <1>8, <1>9 DEF IInv, Agreement
<1>11. NoEmptyGuild'
  BY <1>1, <1>3, <1>6, <1>8, <1>9 DEF IInv, NoEmptyGuild
<1>12. FreshIds'
  BY <1>2, <1>3 DEF IInv, FreshIds
<1> QED BY <1>5, <1>10, <1>11, <1>12 DEF IInv

\* Every step of a guild handler preserves the invariant.
LEMMA NextInv == IInv /\ [Next]_vars => IInv'
<1> SUFFICES ASSUME IInv, [Next]_vars PROVE IInv'
  OBVIOUS
<1>1. CASE Next
  BY <1>1, CreateInv, JoinInv, LeaveInv DEF Next
<1>2. CASE UNCHANGED vars
  BY <1>2 DEF vars, IInv, TypeOK, Agreement, NoEmptyGuild, FreshIds
<1> QED BY <1>1, <1>2

\* The invariant holds throughout.
THEOREM Invariance == Spec => []IInv
BY InitInv, NextInv, PTL DEF Spec

\* The guild tables keep their types.
THEOREM TypeCorrect == Spec => []TypeOK
<1>1. IInv => TypeOK  BY DEF IInv
<1> QED BY Invariance, <1>1, PTL

\* channel_to_guild_ and the member lists agree.
THEOREM TablesAgree == Spec => []Agreement
<1>1. IInv => Agreement  BY DEF IInv
<1> QED BY Invariance, <1>1, PTL

\* A guild that exists has a member.
THEOREM Disbanded == Spec => []NoEmptyGuild
<1>1. IInv => NoEmptyGuild  BY DEF IInv
<1> QED BY Invariance, <1>1, PTL

\* handle_guild_create never gives out the id of an earlier guild, a disbanded
\* one included.
THEOREM NoReuse == Spec => IdsNotReused
<1>1. IInv /\ [Next]_vars => [\A g \in Ids : g \in guilds' \ guilds => g \notin used]_vars
  <2> SUFFICES ASSUME IInv, Next, NEW h \in Ids, h \in guilds' \ guilds
               PROVE  h \notin used
    OBVIOUS
  <2>1. next_guild_id \notin used
    BY DEF IInv, TypeOK, FreshIds, Ids
  <2>2. PICK c \in Channels : \/ HandleGuildCreate(c)
                              \/ \E g \in Ids : HandleGuildJoin(c, g)
                              \/ HandleGuildLeave(c)
    BY DEF Next
  <2>3. CASE HandleGuildCreate(c)
    BY <2>1, <2>3 DEF HandleGuildCreate, NewId
  <2>4. CASE \E g \in Ids : HandleGuildJoin(c, g)
    BY <2>4 DEF HandleGuildJoin
  <2>5. CASE HandleGuildLeave(c)
    BY <2>5 DEF HandleGuildLeave, GuildsLeft
  <2> QED BY <2>2, <2>3, <2>4, <2>5
<1> QED BY Invariance, <1>1, PTL DEF Spec, IdsNotReused

-----------------------------------------------------------------------------
\* The state of Connections
CONSTANTS MaxChannels, QueueFrames, MaxHandled, Threading
VARIABLES next_channel_id, server_channels, channels, closed, queued, writing,
          mtx, at, from, calls, todo, handled

C == INSTANCE Connections

CallNames == {"broadcast", "broadcast_except", "send_test_frame", "send_frame"}

ConnTypeInv ==
    /\ next_channel_id \in Nat
    /\ from \in Nat /\ calls \in Seq(CallNames)

\* The lock is held, and targets are left, only while a call sends.
LockInv == at \in {"loop", "call"} => todo = {} /\ ~mtx

\* Ids are handed out in order, so a new channel's id was never closed.
FreshInv == \A c \in server_channels \cup closed : c \in Nat /\ c < next_channel_id

ConnInv == ConnTypeInv /\ FreshInv /\ LockInv /\ C!NoDangling /\ C!StaysOnlyBlocked

\* Every handler's calls are among the four, and each sends to entries of
\* game_server's table only.
LEMMA CallFacts ==
    /\ \A h \in C!Handlers : C!Calls[h] \in Seq(CallNames)
    /\ \A call \in CallNames, c \in Nat : C!Targets(call, c) \subseteq channels
<1>1. \A h \in DOMAIN C!Calls : C!Calls[h] \in Seq(CallNames)
    <2>1. DOMAIN C!Calls = {"attack", "move", "chat", "reply", "login"}
        BY DEF C!Calls
    <2>2. \A a, b \in CallNames : <<a>> \in Seq(CallNames) /\ <<a, b>> \in Seq(CallNames)
        OBVIOUS
    <2>3. /\ C!Calls["attack"] = <<"send_test_frame", "broadcast_except">>
          /\ C!Calls["move"] = <<"broadcast_except", "send_test_frame">>
          /\ C!Calls["chat"] = <<"broadcast", "send_test_frame">>
          /\ C!Calls["reply"] = <<"send_test_frame">>
          /\ C!Calls["login"] = <<"send_frame">>
        BY DEF C!Calls, C!handle_attack, C!handle_move, C!handle_chat, C!handle_map_enter, C!handle_login
    <2> QED BY <2>1, <2>2, <2>3, Zenon DEF CallNames
<1>2. C!Handlers \subseteq DOMAIN C!Calls
    BY DEF C!Handlers, C!Calls
<1>3. \A call \in CallNames, c \in Nat : C!Targets(call, c) \subseteq channels
    BY DEF CallNames, C!Targets
<1> QED BY <1>1, <1>2, <1>3

\* Nothing is connected at the start.
LEMMA ConnInitInv == C!Init => ConnInv
<1>1. <<>> \in Seq(CallNames)
    OBVIOUS
<1> SUFFICES ASSUME C!Init PROVE ConnInv
    OBVIOUS
<1> USE DEF C!Init
<1>2. ConnTypeInv
    BY <1>1 DEF ConnTypeInv
<1>3. FreshInv /\ LockInv /\ C!NoDangling /\ C!StaysOnlyBlocked
    BY DEF FreshInv, LockInv, C!NoDangling, C!StaysOnlyBlocked
<1> QED BY <1>2, <1>3 DEF ConnInv

\* Each callback and each step of a handler preserves the invariant.
LEMMA ConnStepInv == ConnInv /\ [C!Next]_(C!vars) => ConnInv'
<1> SUFFICES ASSUME ConnInv, [C!Next]_(C!vars) PROVE ConnInv'
    OBVIOUS
<1> USE DEF ConnInv, ConnTypeInv, FreshInv, LockInv, C!NoDangling, C!StaysOnlyBlocked
<1>1. CASE C!Accept
    BY <1>1 DEF C!Accept, C!tables, C!queues, C!handler
<1>2. ASSUME NEW c \in C!Ids, C!Close(c) PROVE ConnInv'
    BY <1>2 DEF C!Close, C!OnClose, C!queues, C!handler
<1>3. ASSUME NEW c \in C!Ids, C!Written(c) PROVE ConnInv'
    BY <1>3 DEF C!Written, C!tables, C!handler
<1>4. ASSUME NEW c \in C!Ids, NEW h \in C!Handlers, C!Handle(c, h) PROVE ConnInv'
    <2>1. c \in Nat
        BY DEF C!Ids
    <2> QED BY <1>4, <2>1, CallFacts DEF C!Handle, C!tables, C!queues
<1>5. CASE C!Call
    <2>1. Head(calls) \in CallNames /\ Tail(calls) \in Seq(CallNames)
        BY <1>5 DEF C!Call
    <2>2. C!Targets(Head(calls), from) \subseteq channels
        BY <2>1, CallFacts
    <2> QED BY <1>5, <2>1, <2>2 DEF C!Call, C!tables, C!queues, C!handler
<1>6. CASE C!SendOne
    <2>1. PICK c \in todo : C!Enqueue(c) \/ C!Overflow(c) \/ C!SendClosed(c)
        BY <1>6 DEF C!SendOne
    <2>2. at = "sending" /\ UNCHANGED <<mtx, from, calls>>
        BY <1>6 DEF C!SendOne
    <2>3. CASE C!Enqueue(c)
        <3>1. ConnTypeInv' /\ at' = "sending" /\ todo' = todo \ {c}
            BY <2>1, <2>2, <2>3 DEF C!Enqueue, C!tables
        <3>2. UNCHANGED <<next_channel_id, channels, server_channels, closed>>
            BY <2>3 DEF C!Enqueue, C!tables
        <3> QED BY <2>2, <3>1, <3>2
    <2>4. CASE C!Overflow(c) /\ mtx
        BY <2>1, <2>2, <2>4 DEF C!Overflow, C!tables, C!queues, C!handler
    <2>5. CASE C!Overflow(c) /\ ~mtx
        <3>1. ConnTypeInv' /\ at' = "sending" /\ todo' = todo \ {c}
            BY <2>1, <2>2, <2>5 DEF C!Overflow, C!OnClose, C!queues
        <3>2. /\ channels' = channels \ {c} /\ server_channels' = server_channels \ {c}
              /\ closed' = closed \cup {c} /\ UNCHANGED next_channel_id
            BY <2>5 DEF C!Overflow, C!OnClose
        <3> QED BY <2>2, <3>1, <3>2
    <2>6. CASE C!SendClosed(c)
        BY <2>1, <2>2, <2>6 DEF C!SendClosed, C!tables, C!queues, C!handler
    <2> QED BY <2>1, <2>3, <2>4, <2>5, <2>6
<1>7. CASE C!CallReturns
    BY <1>7 DEF C!CallReturns, C!tables, C!queues, C!handler
<1>8. CASE UNCHANGED C!vars
    BY <1>8 DEF C!vars, C!tables, C!queues, C!handler
<1> QED
    BY <1>1, <1>2, <1>3, <1>4, <1>5, <1>6, <1>7, <1>8 DEF C!Next, C!HandlerStep

\* No handler, broadcasts included, reaches a channel object asio_server has
\* let go of.
THEOREM PointersLive == C!Spec => []C!NoDangling
<1>1. ConnInv => C!NoDangling
    BY DEF ConnInv
<1> QED BY <1>1, ConnInitInv, ConnStepInv, PTL DEF C!Spec

\* Closing leaves both tables clean, except where send() overflows a queue with
\* mtx_ held: the one way the io thread can stop.
THEOREM OnlyOverflowBlocks == C!Spec => []C!StaysOnlyBlocked
<1>1. ConnInv => C!StaysOnlyBlocked
    BY DEF ConnInv
<1> QED BY <1>1, ConnInitInv, ConnStepInv, PTL DEF C!Spec
=============================================================================
