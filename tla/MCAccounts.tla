----------------------------- MODULE MCAccounts -----------------------------
\* Instance of Accounts for TLC: callers and tenants are interchangeable.
EXTENDS Accounts, TLC

Symmetry == Permutations(Callers) \cup Permutations(Tenants)

=============================================================================
