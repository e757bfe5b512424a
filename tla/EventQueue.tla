----------------------------- MODULE EventQueue -----------------------------
(***************************************************************************)
(* What posting an event to an I/O module promises: every event is run     *)
(* once, in the order in which the events entered the queue, which keeps   *)
(* the order of each thread that posts.                                    *)
(***************************************************************************)
EXTENDS Naturals, Sequences

CONSTANT Threads        \* the threads that post

VARIABLES posted,       \* [Threads -> how many events the thread has posted]
          queue,        \* events that wait, the oldest first
          ran           \* events that have run, in the order in which they ran

vars == <<posted, queue, ran>>

Init ==
    /\ posted = [t \in Threads |-> 0]
    /\ queue = <<>>
    /\ ran = <<>>

Post(t) ==
    /\ posted' = [posted EXCEPT ![t] = @ + 1]
    /\ queue' = Append(queue, <<t, posted[t] + 1>>)
    /\ UNCHANGED ran

Run ==
    /\ queue # <<>>
    /\ ran' = Append(ran, Head(queue))
    /\ queue' = Tail(queue)
    /\ UNCHANGED posted

Next == Run \/ \E t \in Threads : Post(t)

Spec == Init /\ [][Next]_vars
=============================================================================
