----------------------------- MODULE MCUpnpMapper -----------------------------
EXTENDS UpnpMapper
=============================================================================
