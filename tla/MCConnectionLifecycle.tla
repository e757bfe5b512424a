----------------------- MODULE MCConnectionLifecycle ------------------------
(***************************************************************************)
(* Small instances of ConnectionLifecycle for TLC. The connections are     *)
(* interchangeable.                                                        *)
(***************************************************************************)
EXTENDS ConnectionLifecycle, TLC

Symmetry == Permutations(Connections)
=============================================================================
