---------------------------- MODULE MCTcpStream -----------------------------
(* A small instance of TcpStream: two messages one way, one the other. A    *)
(* message may have more units than the kernel takes at once, and fills a   *)
(* fresh buffer.                                                            *)
EXTENDS TcpStream, TLC

MCBodies == "client" :> <<0>> @@ "server" :> <<1, 0>>
=============================================================================
