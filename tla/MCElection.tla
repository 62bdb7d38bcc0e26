----------------------------- MODULE MCElection -----------------------------
EXTENDS Election

\* Representative r has weight r.
Weights == [r \in Rep |-> r]
=============================================================================
