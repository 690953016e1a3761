--------------------------- MODULE MCMediaHandles ---------------------------
\* A small instance of MediaHandles for TLC.
EXTENDS MediaHandles, TLC

Interchangeable == Permutations(Refs \ Large)
=============================================================================
