--------------------------- MODULE MCEpollSession ---------------------------
EXTENDS EpollSession

MCAllEvents == {"burst", "reset", "close", "oversize"}
MCReset == {"reset"}
MCShutdown == {"shutdown"}
MCBurst == {"burst"}
MCLateConnect == {"shutdown", "late"}
MCOrderlyShutdown == {"close", "shutdown", "oversize"}
=============================================================================
