---------------------------- MODULE MCRateLimit ----------------------------
(* Two addresses of one IPv6 /64 and two IPv4 addresses; a client may send a  *)
(* forwarding header that names an IPv4 address, or an unparseable one.      *)
EXTENDS RateLimit

MCV4 == {[family |-> 4, net |-> 1, host |-> h] : h \in {1, 2}}
MCV6 == {[family |-> 6, net |-> 1, host |-> h] : h \in {1, 2}}
MCSpoofs == {<<>>, <<[family |-> 4, net |-> 1, host |-> 1]>>, <<[family |-> 0, net |-> 0, host |-> 0]>>}
=============================================================================
