----------------------------- MODULE MCPtyWriter -----------------------------
EXTENDS PtyWriter
=============================================================================
