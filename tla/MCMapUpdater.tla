---------------------------- MODULE MCMapUpdater ----------------------------
EXTENDS MapUpdater
=============================================================================
