--------------------------- MODULE MCDatabasePool ---------------------------
EXTENDS DatabasePool
=============================================================================
