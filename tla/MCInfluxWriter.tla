--------------------------- MODULE MCInfluxWriter ----------------------------
(* Small instances of InfluxWriter: the writers are interchangeable.       *)
EXTENDS InfluxWriter, TLC

WriterSymmetry == Permutations(Writers)
==============================================================================
