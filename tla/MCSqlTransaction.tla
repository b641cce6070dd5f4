-------------------------- MODULE MCSqlTransaction --------------------------
EXTENDS SqlTransaction
=============================================================================
