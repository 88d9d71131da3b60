--------------------------------- MODULE Guild ---------------------------------
(***************************************************************************)
(* The guild tables of game_server: guilds_, channel_to_guild_ and         *)
(* next_guild_id_, changed by three message handlers, each under           *)
(* guild_mutex_.  on_close does not touch them, so a frame of any channel, *)
(* open or closing, may be handled at any time.  Names, descriptions and   *)
(* the master, which no handler reads, are left out.  A member list is     *)
(* modelled by how often each channel occurs in it.                        *)
(***************************************************************************)
EXTENDS Naturals, FiniteSetsExt

CONSTANTS
    Channels,   \* channel ids
    MaxGuilds   \* bound: guilds created (the code has 2^32 ids)

ASSUME GuildBoundAssumption == MaxGuilds \in Nat

Ids == 1..MaxGuilds
NoGuild == 0    \* the channel has no entry in channel_to_guild_

VARIABLES
    guilds,             \* keys of guilds_
    members,            \* members[g][c]: occurrences of c in g's member list
    channel_to_guild,
    next_guild_id,
    used                \* history: ids that have ever named a guild

vars == <<guilds, members, channel_to_guild, next_guild_id, used>>

-----------------------------------------------------------------------------
FirstIdZero == 0
FirstId == 1

Init ==
    /\ guilds = {}
    /\ members = [g \in Ids |-> [c \in Channels |-> 0]]
    /\ channel_to_guild = [c \in Channels |-> NoGuild]
    /\ next_guild_id = FirstId
    /\ used = {}

\* channel_to_guild_.count(channel_id) is 0
UnaffiliatedUnchecked(c) == TRUE
Unaffiliated(c) == channel_to_guild[c] = NoGuild

\* The id of a new guild
LowestFree == IF Ids \subseteq guilds THEN next_guild_id ELSE Min(Ids \ guilds)
NewId == next_guild_id

\* 2001; a channel in a guild is refused
HandleGuildCreate(c) ==
    /\ next_guild_id <= MaxGuilds
    /\ Unaffiliated(c)
    /\ guilds' = guilds \cup {NewId}
    /\ members' = [members EXCEPT ![NewId] = [d \in Channels |-> IF d = c THEN 1 ELSE 0]]
    /\ channel_to_guild' = [channel_to_guild EXCEPT ![c] = NewId]
    /\ next_guild_id' = next_guild_id + 1
    /\ used' = used \cup {NewId}

\* 2002; an unknown guild and a channel in a guild are refused
HandleGuildJoin(c, g) ==
    /\ g \in guilds
    /\ Unaffiliated(c)
    /\ members' = [members EXCEPT ![g][c] = @ + 1]
    /\ channel_to_guild' = [channel_to_guild EXCEPT ![c] = g]
    /\ UNCHANGED <<guilds, next_guild_id, used>>

\* guilds_ after g's member list has become m: an empty guild is disbanded
GuildsKept(g, m) == guilds
GuildsLeft(g, m) == IF \A d \in Channels : m[d] = 0 THEN guilds \ {g} ELSE guilds

\* 2003; a channel without a guild is refused.  std::remove takes out every
\* occurrence of the channel.
HandleGuildLeave(c) ==
    LET g == channel_to_guild[c]
        left == [members[g] EXCEPT ![c] = 0] IN
    /\ ~Unaffiliated(c)
    /\ channel_to_guild' = [channel_to_guild EXCEPT ![c] = NoGuild]
    /\ IF g \in guilds
       THEN /\ members' = [members EXCEPT ![g] = left]
            /\ guilds' = GuildsLeft(g, left)
       ELSE UNCHANGED <<members, guilds>>
    /\ UNCHANGED <<next_guild_id, used>>

Next == \E c \in Channels :
    \/ HandleGuildCreate(c)
    \/ \E g \in Ids : HandleGuildJoin(c, g)
    \/ HandleGuildLeave(c)

Spec == Init /\ [][Next]_vars

-----------------------------------------------------------------------------
\* The types of the tables; 0 is never the id of a guild.
TypeOK ==
    /\ guilds \subseteq Ids
    /\ members \in [Ids -> [Channels -> Nat]]
    /\ channel_to_guild \in [Channels -> Ids \cup {NoGuild}]
    /\ next_guild_id \in 1..(MaxGuilds + 1)
    /\ used \subseteq Ids

\* The two tables the handlers keep by hand agree: a channel's entry names an
\* existing guild that lists the channel once, and no other guild lists it.
Agreement == \A c \in Channels :
    /\ channel_to_guild[c] # NoGuild => channel_to_guild[c] \in guilds
    /\ \A g \in guilds : members[g][c] = IF channel_to_guild[c] = g THEN 1 ELSE 0

\* handle_guild_leave disbands a guild with its last member.
NoEmptyGuild == \A g \in guilds : \E c \in Channels : channel_to_guild[c] = g

\* The id of a disbanded guild, which clients may still hold and send in
\* GUILD_JOIN, never comes to name another guild: an id that enters guilds_ has
\* never named a guild before, whatever was created, joined and left meanwhile.
IdsNotReused == [][\A g \in Ids : g \in guilds' \ guilds => g \notin used]_vars
===============================================================================
