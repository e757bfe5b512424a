--------------------------- MODULE ReliableStream ----------------------------
(***************************************************************************)
(* What a fxnet connection promises its two sessions, over UDP or TCP:     *)
(* each direction is a stream of chunks, every chunk put in at one end     *)
(* comes out at the other end once, in order, and only after that end was  *)
(* told it is connected.                                                   *)
(***************************************************************************)
EXTENDS Integers, Sequences

CONSTANTS Ends, Peer(_)

VARIABLES
    open,      \* the ends whose session got its connected event
    accepted,  \* how many chunks each end has put into its stream
    output     \* the chunks that came out at each end

streamVars == <<open, accepted, output>>

Init ==
    /\ open = [e \in Ends |-> FALSE]
    /\ accepted = [e \in Ends |-> 0]
    /\ output = [e \in Ends |-> <<>>]

Open(e) ==
    /\ ~open[e]
    /\ open' = [open EXCEPT ![e] = TRUE]
    /\ UNCHANGED <<accepted, output>>

Put(e) ==
    /\ accepted' = [accepted EXCEPT ![e] = @ + 1]
    /\ UNCHANGED <<open, output>>

Get(e) ==
    /\ open[e]
    /\ Len(output[e]) < accepted[Peer(e)]
    /\ output' = [output EXCEPT ![e] = Append(@, Len(@) + 1)]
    /\ UNCHANGED <<open, accepted>>

Next == \E e \in Ends : Open(e) \/ Put(e) \/ Get(e)

Spec == Init /\ [][Next]_streamVars
=============================================================================
