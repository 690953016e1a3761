------------------------- MODULE MCProductLauncher -------------------------
\* A small instance of ProductLauncher for TLC.
EXTENDS ProductLauncher, TLC

CONSTANTS p1, p2, a1, a2, m1, m2

\* A launcher, and beside it another process.
AnyBeside == p1 :> {"launch"} @@ p2 :> {"launch", "refresh", "offline"}

\* The two batches disagree about one message.
Batches ==
    p1 :> {[id |-> m1, body |-> "hello"]} @@
    p2 :> {[id |-> m1, body |-> "other"], [id |-> m2, body |-> "hello"]}
=============================================================================
