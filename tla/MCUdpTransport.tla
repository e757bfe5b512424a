--------------------------- MODULE MCUdpTransport ----------------------------
(* Small instances of UdpTransport: the client's and the server's last      *)
(* packet number, and the memory new connectors find in their slots.        *)
EXTENDS UdpTransport

\* The client sends its SYN and data past the wrap of the byte counter.
OneWay == [e \in Ends |-> IF e = Client THEN 4 ELSE 1]

\* Both sides send.
TwoWay == [e \in Ends |-> 2]

\* Memory fresh from the operating system: zeroes, which read as buffer 0.
Zeroed == {Stale}

\* Memory of a connector that was closed with all its slots empty.
Recycled == {Empty}

\* Memory that was used for something else: a slot reads either way.
Mixed == {Empty, Stale}
=============================================================================
