----------------------- MODULE MCMessageQueueNoThread -----------------------
EXTENDS MessageQueueNoThread

CONSTANTS p1, p2

MCProducers == {p1, p2}
=============================================================================
