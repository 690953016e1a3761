----------------------------- MODULE MCWebPage -----------------------------
\* A small instance of WebPage for TLC.
EXTENDS WebPage, TLC

CONSTANTS a1, a2, a3

\* One ad on each page of the list, and one that no page shows.
Placement == a1 :> 1 @@ a2 :> 2 @@ a3 :> 0
=============================================================================
