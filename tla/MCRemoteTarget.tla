--------------------------- MODULE MCRemoteTarget ---------------------------
EXTENDS RemoteTarget, TLC

AllKinds == {"sync", "async", "http", "claude"}
=============================================================================
