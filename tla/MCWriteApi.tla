----------------------------- MODULE MCWriteApi -----------------------------
\* Small instances of WriteApi for TLC.
EXTENDS WriteApi, TLC

\* Keys, handler threads and server instances are interchangeable.
Interchangeable ==
    Permutations(Keys) \union Permutations(Handlers) \union Permutations(Servers)
=============================================================================
