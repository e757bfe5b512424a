--------------------------- MODULE MCWsHandshake -----------------------------
(* A small instance of WsHandshake: two frames, one with a payload shorter  *)
(* than what CheckPackage waits for at first and one that is longer.        *)
EXTENDS WsHandshake

MCPayloads == <<1, 2>>
=============================================================================
