---------------------------- MODULE MCRemoteAccess ----------------------------
EXTENDS RemoteAccess
=============================================================================
