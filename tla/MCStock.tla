------------------------------- MODULE MCStock -------------------------------
(***************************************************************************)
(* Two callers that return material at the same time, two work orders,     *)
(* quantities of one and two.                                              *)
(***************************************************************************)
EXTENDS Stock, TLC

Symmetry == Permutations(Returners) \union Permutations(Orders)

\* Bookings can grow as long as new stock comes in; and once a return was
\* stale, stock, ledger and charges drift apart without limit.
Bounded ==
  /\ Quantity(stock) <= MaxStock
  /\ \A o \in Orders : BookedOn(o) <= MaxStock
  /\ staleReturn => /\ ledger \in -1 .. MaxStock
                    /\ \A o \in Orders : charged[o] \in -1 .. 1
=============================================================================
