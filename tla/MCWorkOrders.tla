---------------------------- MODULE MCWorkOrders ----------------------------
\* Instance of WorkOrders for TLC: two requests at a time, on one plan and one order.
EXTENDS WorkOrders, TLC

Symmetric == Permutations(Callers) \cup Permutations(Users)

=============================================================================
