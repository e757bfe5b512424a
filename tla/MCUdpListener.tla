--------------------------- MODULE MCUdpListener ---------------------------
(* A small instance of UdpListener: all clients in one bucket of two.       *)
EXTENDS UdpListener

MCBuckets == {0, 1}
OneBucket == [c \in Clients |-> 0]
=============================================================================
