---------------------------- MODULE MCConnections ----------------------------
(* Two connections of one client and one of another, two slots.             *)
EXTENDS Connections

CONSTANTS c1, c2, c3, s1, k1, k2

MCConnections == {c1, c2, c3}
MCStreams == {s1}
MCClients == {k1, k2}
MCClientOf == [c \in MCConnections |-> IF c = c3 THEN k2 ELSE k1]
===============================================================================
