---------------------------- MODULE MCVpnSessions ----------------------------
(* Small instances of VpnSessions.                                         *)
EXTENDS VpnSessions, TLC

CONSTANTS c1, c2, alice, home, office

\* Two connections that share a certificate, from two addresses or from one.
SharedName == [c \in Conns |-> alice]
TwoAddrs   == c1 :> home @@ c2 :> office
OneAddr    == [c \in Conns |-> home]
==============================================================================
