------------------------------- MODULE MCAgent -------------------------------
EXTENDS KpAgent, TLC

MCLifetimes == {NoTimeout, 1, 2}
MCLongLifetimes == {NoTimeout, 2}

Interchangeable == Permutations(Names) \cup Permutations(Values)
                     \cup Permutations(Conns) \cup Permutations(Addrs)
=============================================================================
