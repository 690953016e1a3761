---------------------------- MODULE MCSafeWrite ----------------------------
\* A small instance of SafeWrite for TLC.
EXTENDS SafeWrite, TLC

Interchangeable ==
    Permutations(Ids) \union Permutations(Titles) \union Permutations(Texts)
=============================================================================
