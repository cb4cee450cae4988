-------------------------------- MODULE MCPki --------------------------------
(* Small instances of Pki: names and requests are interchangeable.         *)
EXTENDS Pki, TLC

PkiSymmetry == Permutations(Names) \cup Permutations(Reqs)
==============================================================================
