-------------------------------- MODULE MCImsg --------------------------------
EXTENDS Imsg, TLC

\* Two STOREs, or a STORE and a SEARCH, fit into a read buffer at once; the kernel
\* holds two STOREs, or a part of more.  FOUND is as long as a message may be.
MCDataLen == "STORE" :> 0 @@ "SEARCH" :> 1 @@ "FOUND" :> 2 @@ "ERROR" :> 1
=============================================================================
