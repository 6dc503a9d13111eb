---------------------------- MODULE MCSessionPool ----------------------------
EXTENDS SessionPool
=============================================================================
