---------------------------- MODULE WsHandshake ------------------------------
(***************************************************************************)
(* A web socket session of the server, CWSSession, and its two streams.    *)
(*                                                                         *)
(* A connection starts with a request and a raw response; only then does   *)
(* it carry frames. Whether it does is one variable of the session: the    *)
(* main thread writes it as it handles the session's messages, and the I/O *)
(* thread reads it whenever it checks, cuts or fills a stream. Between the *)
(* two there is nothing but the queues of messages and posted events.      *)
(*                                                                         *)
(* The client is external and well-behaved: it sends a request, waits for  *)
(* the response and sends frames, in whatever segments. The transport      *)
(* below the streams is that of TcpStream, with its loops as single steps. *)
(***************************************************************************)
EXTENDS Naturals, Sequences, SequencesExt

CONSTANTS
    RequestSize,  \* units of the request; the last one ends it
    KeyUnit,      \* the one of them that is the line with the client's key
    MinRead,      \* the units that CheckPackage waits for before there are frames
    ResponseSize, \* units of the response
    Payloads      \* bound: the frames the client sends, by their payloads' units

ASSUME WsAssumption ==
    /\ {RequestSize, MinRead, ResponseSize} \subseteq Nat \ {0}
    /\ KeyUnit \in 1 .. RequestSize
    /\ Payloads \in Seq(Nat)
    \* A client's frame is six bytes or more with its mask, and CheckPackage waits for four.
    /\ \A n \in DOMAIN Payloads : MinRead <= Payloads[n] + 1

VARIABLES
    sent,         \* client: how much it has sent of the request and the frames
    left,         \* client: it has closed the connection
    unread,       \* kernel: units that arrived at the server, not read yet
    received      \* client: units of the server it has received
netVars == <<sent, left, unread, received>>

VARIABLES
    pc,           \* the I/O thread: "deal", or in the read loop, "check" or "pop"
    failed,       \* m_oError is set and m_pSession no more
    overrun,      \* PopData has cut more than there was: anything may follow
    recvBuff,     \* m_oRecvBuff
    sendBuff,     \* m_oSendBuff
    posted        \* events posted to the I/O thread
ioVars == <<pc, failed, overrun, recvBuff, sendBuff, posted>>

VARIABLES
    messages,     \* the session's messages to the main thread
    state,        \* m_eSocketHandShakeState, or "deleted" with its session
    refused,      \* OnRecv has closed the session for its request
    output        \* the packages that OnRecv was given after the request
sessionVars == <<messages, state, refused, output>>

\* CheckPackage has accepted units of frames as a package before the main thread
\* had seen that the response is out.
VARIABLE early

vars == <<netVars, ioVars, sessionVars, early>>

-----------------------------------------------------------------------------
(* What the two sides send, as units *)

Request == [i \in 1 .. RequestSize |-> <<"request", 0, i>>]

\* The response to a request that has the key, or to one where there is none.
Response(key) == [i \in 1 .. ResponseSize |-> <<"response", key, i>>]

Payload(n) == [i \in 1 .. Payloads[n] |-> <<"frame", n, i>>]
FrameHead(n) == <<"frame", n, 0>>

\* All that the client has to send: the request and the frames.
Script == Request \o FlattenSeq([n \in DOMAIN Payloads |-> <<FrameHead(n)>> \o Payload(n)])

\* OnRecv sends back what it got, and the zero that ends its string.
Echo(package) == package \o <<<<"zero", 0, 0>>>>

Framed(package) == <<<<"head", 0, Len(package)>>>> \o package

\* All that the client is to receive: the response, then each frame's echo.
Answers == Response(KeyUnit) \o FlattenSeq([n \in DOMAIN Payloads |-> Framed(Echo(Payload(n)))])

Message(kind, package) == [kind |-> kind, package |-> package]

Init ==
    /\ sent = 0 /\ left = FALSE
    /\ unread = <<>> /\ received = <<>>
    /\ pc = "deal" /\ failed = FALSE /\ overrun = FALSE
    /\ recvBuff = <<>> /\ sendBuff = <<>> /\ posted = <<>>
    /\ messages = <<Message("connected", <<>>)>>
    /\ state = "none" /\ refused = FALSE /\ output = <<>>
    /\ early = FALSE

-----------------------------------------------------------------------------
(* WSWorkStream *)

Header == state = "connected"

\* GetWSMsgLength: the header and what it says of the payload. A unit that is no
\* header may say anything; here it is a frame by itself.
FrameLength(buff) ==
    LET first == Head(buff)
    IN  IF first[1] = "frame" /\ first[3] = 0 THEN 1 + Payloads[first[2]] ELSE 1

\* A mistake: the buffer has to hold more than the frame.
WholeAndMore(buff) == FrameLength(buff) < Len(buff)

Whole(buff) == FrameLength(buff) <= Len(buff)

CheckPackage(buff) ==
    IF Header THEN buff # <<>> /\ Whole(buff) ELSE MinRead <= Len(buff)

\* A mistake: as many units as the payload has are cut.
CutPayload(buff) == IF Header THEN FrameLength(buff) - 1 ELSE Len(buff)

\* What PopData cuts: a frame, or all there is.
Cut(buff) == IF Header THEN FrameLength(buff) ELSE Len(buff)

\* The package it makes of them.
Content(buff) == IF Header THEN SubSeq(buff, 2, FrameLength(buff)) ELSE buff

\* A mistake: the response is framed too.
PushedFramed(package) == Framed(package)

Pushed(package) == IF Header THEN Framed(package) ELSE package

-----------------------------------------------------------------------------
(* The I/O thread *)

\* The first error: the session gets its last message and is let go of.
Fail ==
    /\ failed' = TRUE
    /\ messages' = Append(messages, Message("close", <<>>))

Recv ==
    /\ pc = "deal" /\ ~failed /\ unread # <<>>
    /\ recvBuff' = recvBuff \o unread
    /\ unread' = <<>>
    /\ pc' = "check"
    /\ UNCHANGED <<sent, left, received, failed, overrun, sendBuff, posted, sessionVars, early>>

\* The end of the stream; or an error, which a client that has left may cause too.
RecvEnds ==
    /\ pc = "deal" /\ ~failed /\ left
    /\ Fail
    /\ UNCHANGED <<netVars, pc, overrun, recvBuff, sendBuff, posted, state, refused, output, early>>

Check ==
    /\ pc = "check"
    /\ pc' = IF CheckPackage(recvBuff) THEN "pop" ELSE "deal"
    /\ early' = (early \/ /\ ~Header /\ CheckPackage(recvBuff)
                          /\ \E i \in DOMAIN recvBuff : recvBuff[i][1] = "frame")
    /\ UNCHANGED <<netVars, failed, overrun, recvBuff, sendBuff, posted, sessionVars>>

\* PopData looks at the session's state again, and asserts that it takes no more
\* than there is.
Pop ==
    /\ pc = "pop"
    /\ IF Cut(recvBuff) > Len(recvBuff)
       THEN overrun' = TRUE /\ UNCHANGED <<pc, recvBuff, messages>>
       ELSE /\ messages' = Append(messages, Message("recv", Content(recvBuff)))
            /\ recvBuff' = SubSeq(recvBuff, Cut(recvBuff) + 1, Len(recvBuff))
            /\ pc' = "check"
            /\ UNCHANGED overrun
    /\ UNCHANGED <<netVars, failed, sendBuff, posted, state, refused, output, early>>

\* A mistake: each error is reported.
ClosesAgain == TRUE

Closes == ~failed

\* SendOperator, which does nothing after an error, and CloseOperator.
RunEvent ==
    /\ pc = "deal" /\ posted # <<>>
    /\ posted' = Tail(posted)
    /\ \/ /\ Head(posted).kind = "send"
          /\ sendBuff' = IF failed THEN sendBuff ELSE sendBuff \o Pushed(Head(posted).package)
          /\ UNCHANGED <<failed, messages>>
       \/ /\ Head(posted).kind = "close"
          /\ IF Closes THEN Fail ELSE UNCHANGED <<failed, messages>>
          /\ UNCHANGED sendBuff
    /\ UNCHANGED <<netVars, pc, overrun, recvBuff, state, refused, output, early>>

\* SendMessage, from SendOperator or the write operation: the kernel takes some
\* of the buffer, and each time the session gets a message.
SendMessage ==
    /\ pc = "deal" /\ ~failed /\ sendBuff # <<>>
    /\ \E n \in 1 .. Len(sendBuff) :
          /\ received' = received \o SubSeq(sendBuff, 1, n)
          /\ sendBuff' = SubSeq(sendBuff, n + 1, Len(sendBuff))
    /\ messages' = Append(messages, Message("onsend", <<>>))
    /\ UNCHANGED <<sent, left, unread, pc, failed, overrun, recvBuff, posted, state, refused,
                   output, early>>

-----------------------------------------------------------------------------
(* The main thread *)

OnConnected ==
    /\ state' = "request"
    /\ UNCHANGED <<posted, refused, output>>

\* What is at least MinRead long and ends as the request does has all of its end.
EndsRequest(package) == Last(package) = Last(Request)

\* The key in the lines of a package, 0 if no line has it; the response holds its
\* digest.
ResponseKey(package) ==
    IF Request[KeyUnit] \in Range(package) THEN KeyUnit ELSE 0

PostedClose == Append(posted, Message("close", <<>>))

OnRecv(package) ==
    IF state = "request"
    THEN /\ IF EndsRequest(package)
            THEN /\ state' = "response"
                 /\ posted' = Append(posted, Message("send", Response(ResponseKey(package))))
                 /\ UNCHANGED refused
            ELSE /\ refused' = TRUE
                 /\ posted' = PostedClose
                 /\ UNCHANGED state
         /\ UNCHANGED output
    ELSE /\ output' = Append(output, package)
         /\ posted' = Append(posted, Message("send", Echo(package)))
         /\ UNCHANGED <<state, refused>>

\* SessionOnSendEvent.
OnSend ==
    /\ state' = "connected"
    /\ UNCHANGED <<posted, refused, output>>

\* The session deletes itself.
OnClose ==
    /\ state' = "deleted"
    /\ UNCHANGED <<posted, refused, output>>

HandleMessage ==
    /\ messages # <<>>
    /\ messages' = Tail(messages)
    /\ LET m == Head(messages) IN
       \/ m.kind = "connected" /\ OnConnected
       \/ m.kind = "recv" /\ OnRecv(m.package)
       \/ m.kind = "onsend" /\ OnSend
       \/ m.kind = "close" /\ OnClose
    /\ UNCHANGED <<netVars, pc, failed, overrun, recvBuff, sendBuff, early>>

-----------------------------------------------------------------------------
(* The client *)

Segment ==
    /\ ~left
    /\ \E n \in sent + 1 .. Len(Script) :
          /\ sent < RequestSize => n <= RequestSize
          /\ n > RequestSize => IsPrefix(Response(KeyUnit), received)
          /\ sent' = n
          /\ unread' = IF failed THEN unread ELSE unread \o SubSeq(Script, sent + 1, n)
    /\ UNCHANGED <<left, received, ioVars, sessionVars, early>>

Leave ==
    /\ ~left /\ left' = TRUE
    /\ UNCHANGED <<sent, unread, received, ioVars, sessionVars, early>>

\* What goes on by itself: the loops of the two threads, and the network.
Progress ==
    /\ ~overrun
    /\ \/ Recv
       \/ RecvEnds
       \/ Check
       \/ Pop
       \/ RunEvent
       \/ SendMessage
       \/ HandleMessage

Next == Progress \/ (~overrun /\ (Segment \/ Leave))

Spec == Init /\ [][Next]_vars

\* Both threads' loops go on and the network delivers; nothing goes on forever
\* by itself, so one condition is enough.
FairSpec == Spec /\ WF_vars(Progress)

-----------------------------------------------------------------------------
(* Properties *)

\* Types, that the session is told of its end once, and that nothing is asked of it
\* once it is deleted.
TypeOK ==
    /\ sent \in 0 .. Len(Script)
    /\ pc \in {"deal", "check", "pop"}
    /\ {left, failed, overrun, refused, early} \subseteq BOOLEAN
    /\ state \in {"none", "request", "response", "connected", "deleted"}
    /\ state = "deleted" => messages = <<>> /\ pc = "deal"
    /\ \A i \in DOMAIN messages : messages[i].kind \in {"connected", "recv", "onsend", "close"}
    /\ \A i \in DOMAIN posted : posted[i].kind \in {"send", "close"}
    /\ Len(unread) + Len(recvBuff) <= sent
    /\ \A i, j \in DOMAIN messages :
          messages[i].kind = "close" /\ messages[j].kind = "close" => i = j

\* The n-th package that OnRecv gets after the request is the payload of the n-th
\* frame, whatever segments the frames came in, and PopData cuts no more than there
\* is, with one exception: CheckPackage has accepted units of frames before the main
\* thread had seen that the response is out. Nothing else can spoil a frame.
FramesWhole ==
    overrun \/ (\E i \in DOMAIN output : output[i] # Payload(i)) => early

\* What the assertion at net_work_stream.cpp:25 says of PopData: it cuts no more than
\* the buffer holds.
CutsWithin == ~overrun

\* The client receives the response to its own key as it is and once, before anything
\* else; and then each echo in a frame, unless CheckPackage has accepted units of
\* frames too early (as in FramesWhole), which does not spoil the response. A session
\* that is closed for its request answers nothing, though the rest of the request may
\* reach OnRecv before the connection is closed.
AnswersInOrder ==
    /\ early => IsPrefix(Response(KeyUnit), received)
    /\ ~early => IsPrefix(received, Answers)
    /\ refused => received = <<>>

\* The frames that the client has sent whole.
SentWhole == {n \in DOMAIN Payloads :
    sent >= Len(Request \o FlattenSeq([m \in 1 .. n |-> <<FrameHead(m)>> \o Payload(m)]))}

\* The request is answered and each frame echoed, while the connection lasts.
Answered == []<>( \/ sent < RequestSize \/ failed \/ left \/ early
                  \/ /\ IsPrefix(Response(KeyUnit), received)
                     /\ \A n \in SentWhole :
                           \E i \in DOMAIN received : received[i] = <<"head", 0, Payloads[n] + 1>>)
=============================================================================
