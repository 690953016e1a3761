--------------------------- MODULE MCMediaCreate ---------------------------
\* A small instance of MediaCreate for TLC: its constants are in the cfg.
EXTENDS MediaCreate
=============================================================================
