----------------------------- MODULE MCRetention -----------------------------
(* Two sessions of one client: a long one that has become silent, and one  *)
(* that transfers.                                                         *)
EXTENDS Retention

CONSTANTS s1, s2, alice

MCOwner == [s \in {s1, s2} |-> alice]
MCBytes == [s \in {s1, s2} |-> [t \in 0 .. MaxTime |-> IF s = s1 THEN 9 ELSE t]]
==============================================================================
