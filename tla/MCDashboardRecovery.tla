------------------------ MODULE MCDashboardRecovery ------------------------
\* A small instance of DashboardRecovery for TLC.
EXTENDS DashboardRecovery, TLC

Interchangeable ==
    Permutations(Tabs) \union Permutations(Tasks) \union Permutations(Threads)
    \union Permutations(Keys)
=============================================================================
