--------------------------- MODULE MCDatabaseInit ---------------------------
EXTENDS DatabaseInit
=============================================================================
