------------------------------- MODULE MCChannel -------------------------------
\* Sizes for the runs of Channel: a batch (2 bytes) takes two small messages or
\* one medium one, and no large one.
EXTENDS Channel

SmallSizes == {1, 2, 3}
===============================================================================
