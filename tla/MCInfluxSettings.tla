--------------------------- MODULE MCInfluxSettings ---------------------------
(* Two addresses and two tokens for the form, and an environment that has an  *)
(* address, as app.conf has by default, or none.                              *)
EXTENDS InfluxSettings, TLC

CONSTANTS a1, a2, u0, u1, u2, t0, t1, t2

MCAppConfs ==
  {[enabled |-> FALSE, url |-> u0, token |-> Blank],
   [enabled |-> TRUE, url |-> u0, token |-> t0],
   [enabled |-> FALSE, url |-> Blank, token |-> t0]}

Symmetry == Permutations({a1, a2}) \cup Permutations({u1, u2}) \cup Permutations({t1, t2})
===============================================================================
