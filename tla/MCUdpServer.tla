---------------------------- MODULE MCUdpServer ----------------------------
EXTENDS UdpServer

CONSTANTS m1, i1, i2, p1, p2

\* Upstream and downstream sockets of its own.
MCHome == [m \in Macs |-> [type \in Types |->
             [ip |-> i1, port |-> IF type = PushData THEN p1 ELSE p2]]]
MCTrafficSets == {{"push", "pull"}, {"ack", "move"}, {"pull", "downlink", "move"},
                  {"pull", "move", "stall"}}
=============================================================================
