----------------------------- MODULE MCEOffice -----------------------------
\* Instance of EOffice for TLC: two requests at a time, two reviewers.
EXTENDS EOffice, TLC

Symmetric == Permutations(Callers) \cup Permutations(Reviewers)

=============================================================================
