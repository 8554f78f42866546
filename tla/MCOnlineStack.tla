--------------------------- MODULE MCOnlineStack ---------------------------
EXTENDS OnlineStack

CONSTANTS p1, p2
=============================================================================
