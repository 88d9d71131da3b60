----------------------------- MODULE MCGameServer -----------------------------
\* Model values and symmetry for the runs of GameServer.
EXTENDS GameServer, TLC

CONSTANTS c1, c2, p1, p2, m1, m2

MCChannels == {c1, c2}
MCPlayers == {p1, p2}
MCMaps == {m1, m2}
OnePlayer == {p1}
OneMap == {m1}

\* One login on each connection, or a second one on c1 under either name
Once == [c \in Channels |-> {<<p>> : p \in Players}]
AgainOnFirst == [c \in Channels |-> IF c = c1 THEN {<<p1>>, <<p1, p1>>, <<p1, p2>>}
                                              ELSE {<<p1>>}]

\* The safety properties treat connections alike, and players alike.
Symmetry == Permutations(MCChannels) \cup Permutations(MCPlayers)
===============================================================================
