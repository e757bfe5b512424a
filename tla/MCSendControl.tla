--------------------------- MODULE MCSendControl ---------------------------
(* Small instances of SendControl. A tick stands for one Update.            *)
EXTENDS SendControl

\* The RTT estimate gives one retry time.
OneRetryTime == {1}
=============================================================================
