---------------------------- MODULE MCTermSession ----------------------------
EXTENDS TermSession
=============================================================================
