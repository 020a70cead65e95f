----------------------- MODULE MC_SubscriptionManager -----------------------
EXTENDS SubscriptionManager, TLC
CONSTANTS a, b, c
Private == (a :> 1) @@ (b :> 2) @@ (c :> 3)
Shared  == (a :> 1) @@ (b :> 1) @@ (c :> 2)
=============================================================================
