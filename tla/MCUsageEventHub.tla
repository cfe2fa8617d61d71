--------------------------- MODULE MCUsageEventHub ---------------------------
EXTENDS UsageEventHub
CONSTANTS c1, c2
MCHidden == {<<c1, 2>>}
=============================================================================
