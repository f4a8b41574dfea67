------------------------------- MODULE MCSafe -------------------------------
EXTENDS KpSafe, TLC

CONSTANTS cfg, a, b, d, va0, va1, vb0, vcfg

\* d is in a directory that cannot be made
MCNames  == {cfg, a, b, d}
MCValues == {va0, va1, vb0, vcfg}
MCOf     == va0 :> a @@ va1 :> a @@ vb0 :> b @@ vcfg :> cfg
MCFirst  == [n \in FirstFiles |-> CASE n = a -> va0 [] n = b -> vb0 [] n = cfg -> vcfg]
MCLifetimes == {1}

On(c, n) == Job(c, n, n, FALSE)

JobsReading == {On("open", a), On("open", b), On("cat", a), On("cat", b), On("delete", a)}
JobsSerial  == {On("open", a), On("cat", a), Job("create", a, a, TRUE), On("edit", a),
                On("delete", a), Job("rename", a, b, FALSE), On("open", b), On("cat", b),
                On("edit", b)}
JobsAll     == JobsSerial \cup {Job("rename", b, a, FALSE), Job("rename", a, d, FALSE),
                              On("create", d)}
JobsEdit    == {On("open", a), On("edit", a)}

Interchangeable == Permutations(Conns) \cup Permutations(Addrs)
=============================================================================
