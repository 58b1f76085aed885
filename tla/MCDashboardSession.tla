------------------------- MODULE MCDashboardSession -------------------------
(* DashboardSession on a small instance: tabs are interchangeable.         *)
EXTENDS DashboardSession, TLC

Interchangeable == Permutations(Tabs)
=============================================================================
