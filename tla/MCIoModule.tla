----------------------------- MODULE MCIoModule -----------------------------
(***************************************************************************)
(* IoModule for TLC: the main thread and another module's thread post, and *)
(* so does the module's own thread.                                        *)
(***************************************************************************)
EXTENDS IoModule

MCPosters == {"main", "other"}
MCIo == "io"

\* Two threads post twice, so that a push meets events of a former one.
MCMaxPosts == [t \in {"main", "other", "io"} |-> IF t = "other" THEN 1 ELSE 2]
=============================================================================
