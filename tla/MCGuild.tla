-------------------------------- MODULE MCGuild --------------------------------
EXTENDS Guild

CONSTANTS c1, c2, c3

MCChannels == {c1, c2, c3}
===============================================================================
