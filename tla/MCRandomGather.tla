--------------------------- MODULE MCRandomGather ---------------------------
EXTENDS RandomGather

Positions == {1, 2}
=============================================================================
