--------------------------- MODULE MCMediaRuntime ---------------------------
\* A small instance of MediaRuntime for TLC: its constants are in the cfg.
EXTENDS MediaRuntime
=============================================================================
