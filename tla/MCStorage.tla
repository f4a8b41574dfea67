------------------------------ MODULE MCStorage ------------------------------
EXTENDS KpStorage, TLC

CONSTANTS w1, w2, w3

\* Old is the longest, so that a file that is not cut keeps some of it
MCSize == w1 :> 1 @@ w2 :> 2 @@ w3 :> 1 @@ Old :> 3

Interchangeable == Permutations(Reads) \cup Permutations({w1, w3})
=============================================================================
