----------------------------- MODULE TcpStream -------------------------------
(***************************************************************************)
(* One TCP connection, from connect and accept to close: the client's and  *)
(* the server's connector, which run the same code once connected, the     *)
(* I/O module of each, the sessions' buffers, and the listener.            *)
(*                                                                         *)
(* epoll reports a connector's socket edge-triggered: once when something  *)
(* changes, and then the operation has to read and write until the kernel  *)
(* says EAGAIN, or nobody tells it to go on. One call of recv or send is a *)
(* step; segments arrive, and sessions send and close, in between.         *)
(*                                                                         *)
(* A message is HeaderLength units that hold its length, and a body. The   *)
(* kernel is external.                                                     *)
(***************************************************************************)
EXTENDS Naturals, Sequences, FiniteSets

CONSTANTS
    HeaderLength, \* units of a header
    Bodies,       \* bound: the messages each session sends, by the units of their bodies
    BufferSize,   \* units of a fresh receive buffer
    BlockSize,    \* a larger one has a multiple of this
    OutSize,      \* units the kernel takes from a sender
    InSize        \* units the kernel keeps for a receiver

Ends == {"client", "server"}
Peer(e) == IF e = "client" THEN "server" ELSE "client"

ASSUME TcpAssumption ==
    /\ Bodies \in [Ends -> Seq(Nat)]
    /\ {HeaderLength, BufferSize, BlockSize, OutSize, InSize} \subseteq Nat \ {0}
    /\ BlockSize <= BufferSize

VARIABLES
    link,       \* kernel: "none", "syn", "up", or "down": it never came up
    listener,   \* "none" yet, "open", or "closed" for good
    backlog,    \* kernel: a connection waits to be accepted
    side,       \* kernel: "none", "open", "fin" (closed), "rst" (closed with data unread)
    unsent,     \* kernel: units taken from each end, not arrived yet
    unread,     \* kernel: units that arrived at each end, not read yet
    fin,        \* kernel: the other side's end of stream has arrived
    reset,      \* kernel: the other side's reset has arrived, or connecting failed
    registered, \* epoll has the end's socket
    edge,       \* epoll has something to report about it
    nospace     \* kernel: the end was told EAGAIN by send
kernelVars == <<link, listener, backlog, side, unsent, unread, fin, reset,
                registered, edge, nospace>>

VARIABLES
    made,       \* the connector exists, and its session knows it
    connected,  \* m_bConnecting
    writable,   \* m_bWritable
    failed,     \* m_oError is set and m_pSession no more
    handle,     \* m_hNativeHandle is not InvalidNativeHandle
    closes,     \* how often its descriptor was closed
    refused     \* connect() failed at once
socketVars == <<made, connected, writable, failed, handle, closes, refused>>

VARIABLES
    pc,         \* where the module's DealData is
    posted,     \* m_vecIOEvent
    running,    \* vecTmp
    reported    \* what epoll_wait returned: the eventfd, and a socket's events
moduleVars == <<pc, posted, running, reported>>

VARIABLES
    session,    \* "none", "alive" or "deleted"
    sent,       \* messages the application has sent
    closing,    \* the application has closed the session
    sendBuff,   \* m_oSendBuff
    recvBuff,   \* m_oRecvBuff
    dataLen,    \* its m_dwDataLen
    messages    \* the session's messages in the MessageEventQueue
sessionVars == <<session, sent, closing>>
buffVars == <<sendBuff, recvBuff, dataLen>>

VARIABLES
    opened,     \* the session's OnConnected has run
    accepted,   \* messages that got into the send buffer
    output      \* messages that OnRecv was given
streamVars == <<opened, accepted, output>>

vars == <<kernelVars, socketVars, moduleVars, sessionVars, buffVars, messages, streamVars>>

Stream == INSTANCE ReliableStream WITH open <- opened

Message(kind, n) == [kind |-> kind, number |-> n]

\* The queue with one more message, of e's session.
PushMessageEvent(e, kind, n) == [messages EXCEPT ![e] = Append(@, Message(kind, n))]
Idle == [posted |-> FALSE, mask |-> {}]

Init ==
    /\ link = "none" /\ listener = "none" /\ backlog = FALSE
    /\ side = [e \in Ends |-> "none"]
    /\ unsent = [e \in Ends |-> <<>>]
    /\ unread = [e \in Ends |-> <<>>]
    /\ fin = [e \in Ends |-> FALSE]
    /\ reset = [e \in Ends |-> FALSE]
    /\ registered = [e \in Ends |-> FALSE]
    /\ edge = [e \in Ends |-> FALSE]
    /\ nospace = [e \in Ends |-> FALSE]
    /\ made = [e \in Ends |-> FALSE]
    /\ connected = [e \in Ends |-> FALSE]
    /\ writable = [e \in Ends |-> FALSE]
    /\ failed = [e \in Ends |-> FALSE]
    /\ handle = [e \in Ends |-> FALSE]
    /\ closes = [e \in Ends |-> 0]
    /\ refused = [e \in Ends |-> FALSE]
    /\ pc = [e \in Ends |-> "deal"]
    /\ posted = [e \in Ends |-> IF e = "client" THEN <<"connect">> ELSE <<>>]
    /\ running = [e \in Ends |-> <<>>]
    /\ reported = [e \in Ends |-> Idle]
    /\ session = [e \in Ends |-> IF e = "client" THEN "alive" ELSE "none"]
    /\ sent = [e \in Ends |-> 0]
    /\ closing = [e \in Ends |-> FALSE]
    /\ sendBuff = [e \in Ends |-> <<>>]
    /\ recvBuff = [e \in Ends |-> <<>>]
    /\ dataLen = [e \in Ends |-> BufferSize]
    /\ messages = [e \in Ends |-> <<>>]
    /\ Stream!Init

-----------------------------------------------------------------------------
(* TextWorkStream *)

\* The units of an end's nth message: the first HeaderLength hold its length.
Units(e, n) == [i \in 1 .. HeaderLength + Bodies[e][n] |-> <<n, i>>]

Realloc(len, need) ==
    IF need >= len THEN (2 * need) - ((2 * need) % BlockSize) ELSE len

\* The length that the first units of what e received say. A body says anything.
PackageLength(e) ==
    LET first == Head(recvBuff[e])
    IN  IF first[2] = 1 THEN Len(Units(Peer(e), first[1])) ELSE HeaderLength

CheckPackage(e) ==
    /\ Len(recvBuff[e]) >= HeaderLength
    /\ PackageLength(e) <= Len(recvBuff[e])

\* The message that PopData cuts from the front: 0 if it is none.
Package(e) ==
    LET n == Head(recvBuff[e])[1]
        units == SubSeq(recvBuff[e], 1, PackageLength(e))
    IN  IF units = Units(Peer(e), n) THEN n ELSE 0

Drop(s, n) == SubSeq(s, n + 1, Len(s))
Least(a, b) == IF a < b THEN a ELSE b

-----------------------------------------------------------------------------
(* Errors *)

\* The kernel closes an end: what it has taken is still sent, unless units were
\* not read. epoll forgets the end.
CloseSocket(e) ==
    /\ link' = IF e = "client" /\ link = "syn" THEN "down" ELSE link
    /\ side' = [side EXCEPT ![e] =
          IF @ # "open" THEN @ ELSE IF unread[e] = <<>> THEN "fin" ELSE "rst"]
    /\ unsent' = IF unread[e] = <<>> THEN unsent ELSE [unsent EXCEPT ![e] = <<>>]
    /\ unread' = [unread EXCEPT ![e] = <<>>]
    /\ registered' = [registered EXCEPT ![e] = FALSE]
    /\ edge' = [edge EXCEPT ![e] = FALSE]
    /\ UNCHANGED <<listener, backlog, fin, reset, nospace>>

\* The first error: the handle, if there is one, is closed, after as many times
\* as before, the session is told of the error, which it logs, and of the end, and
\* let go of.
FirstError(e, open, before) ==
    /\ failed' = [failed EXCEPT ![e] = TRUE]
    /\ handle' = [handle EXCEPT ![e] = open]
    /\ closes' = [closes EXCEPT ![e] = before + (IF open THEN 1 ELSE 0)]
    /\ messages' = PushMessageEvent(e, "close", 0)
    /\ CloseSocket(e)

\* A mistake: every error is reported.
ErrorAgain(e) == FirstError(e, handle[e], closes[e])

\* DeregisterIO, NewErrorOperation and the operation.
ErrorOperation(e) ==
    IF failed[e]
    THEN UNCHANGED <<failed, handle, closes, messages, kernelVars>>
    ELSE FirstError(e, handle[e], closes[e])

-----------------------------------------------------------------------------
(* The module waits *)

\* What epoll says of a socket; both after an error.
Mask(e) ==
    IF reset[e] THEN {"in", "out"}
    ELSE (IF unread[e] # <<>> \/ fin[e] THEN {"in"} ELSE {})
         \cup (IF link = "up" /\ Len(unsent[e]) < OutSize THEN {"out"} ELSE {})

Deals(e) == pc[e] = "deal" /\ running[e] = <<>>

WaitEvents(e) ==
    /\ Deals(e) /\ reported[e] = Idle
    /\ posted[e] # <<>> \/ edge[e]
    /\ reported' = [reported EXCEPT ![e] =
          [posted |-> posted[e] # <<>>, mask |-> IF edge[e] THEN Mask(e) ELSE {}]]
    /\ edge' = [edge EXCEPT ![e] = FALSE]
    /\ UNCHANGED <<link, listener, backlog, side, unsent, unread, fin, reset,
                   registered, nospace, socketVars, pc, posted, running,
                   sessionVars, buffVars, messages, streamVars>>

\* The eventfd: all posted events are taken.
TakePosted(e) ==
    /\ Deals(e) /\ reported[e].posted
    /\ reported' = [reported EXCEPT ![e].posted = FALSE]
    /\ running' = [running EXCEPT ![e] = posted[e]]
    /\ posted' = [posted EXCEPT ![e] = <<>>]
    /\ UNCHANGED <<kernelVars, socketVars, pc, sessionVars, buffVars, messages, streamVars>>

-----------------------------------------------------------------------------
(* Posted events *)

Runs(e, kind) ==
    /\ pc[e] = "deal" /\ running[e] # <<>>
    /\ Head(running[e]) = kind
    /\ running' = [running EXCEPT ![e] = Tail(@)]

\* Registered with epoll, which looks at once whether there is something.
Register(e, up) ==
    /\ registered' = [registered EXCEPT ![e] = TRUE]
    /\ edge' = [edge EXCEPT ![e] = up]

\* A mistake: the handle is not reset when a socket's options cannot be set.
ConnectFailuresKeepHandle == {[open |-> FALSE, closed |-> 0, refused |-> FALSE],
                              [open |-> TRUE, closed |-> 1, refused |-> FALSE],
                              [open |-> TRUE, closed |-> 1, refused |-> TRUE]}

\* How Connect(address) fails: no socket; its options or its registration, where
\* it is closed and the handle reset; connect(), where it is closed only.
ConnectFailures == {[open |-> FALSE, closed |-> 0, refused |-> FALSE],
                    [open |-> FALSE, closed |-> 1, refused |-> FALSE],
                    [open |-> TRUE, closed |-> 1, refused |-> TRUE]}

\* The socket is opened, registered, and told to connect.
Connect(e) ==
    /\ handle' = [handle EXCEPT ![e] = TRUE]
    /\ link' = "syn"
    /\ Register(e, FALSE)
    /\ UNCHANGED <<listener, backlog, side, unsent, unread, fin, reset, nospace,
                   failed, closes, refused, messages>>

\* The posted event of a session that has no socket yet: it gets a connector,
\* which connects or fails.
TcpConnect(e) ==
    /\ Runs(e, "connect")
    /\ made' = [made EXCEPT ![e] = TRUE]
    /\ \/ Connect(e)
       \/ \E f \in ConnectFailures :
             /\ refused' = [refused EXCEPT ![e] = f.refused]
             /\ FirstError(e, f.open, f.closed)
    /\ UNCHANGED <<connected, writable, pc, posted, reported, sessionVars, buffVars, streamVars>>

\* How an accepted socket's connector fails: its options; its registration.
AcceptedFailures == {[open |-> FALSE, closed |-> 1], [open |-> TRUE, closed |-> 0]}

\* The event of OnClientConnected. A connection that is accepted is connected.
Accepted(e) ==
    /\ Runs(e, "accepted")
    /\ \/ /\ handle' = [handle EXCEPT ![e] = TRUE]
          /\ Register(e, TRUE)
          /\ connected' = [connected EXCEPT ![e] = TRUE]
          /\ messages' = PushMessageEvent(e, "connected", 0)
          /\ UNCHANGED <<link, listener, backlog, side, unsent, unread, fin, reset, nospace,
                         failed, closes>>
       \/ \E f \in AcceptedFailures :
             /\ FirstError(e, f.open, f.closed)
             /\ UNCHANGED connected
    /\ UNCHANGED <<made, writable, refused, pc, posted, reported, sessionVars, buffVars,
                   streamVars>>

\* SendOperator: a failed connector takes no message; else SendMessage follows.
SendOperator(e) ==
    /\ Runs(e, "send")
    /\ IF failed[e]
       THEN UNCHANGED <<pc, sendBuff, accepted>>
       ELSE /\ accepted' = [accepted EXCEPT ![e] = @ + 1]
            /\ sendBuff' = [sendBuff EXCEPT ![e] = @ \o Units(e, accepted[e] + 1)]
            /\ pc' = IF writable[e] THEN [pc EXCEPT ![e] = "send"] ELSE pc
    /\ UNCHANGED <<kernelVars, socketVars, posted, reported, sessionVars, recvBuff, dataLen,
                   messages, opened, output>>

\* CloseOperator: Close.
CloseOperator(e) ==
    /\ Runs(e, "close")
    /\ ErrorOperation(e)
    /\ UNCHANGED <<made, connected, writable, refused, pc, posted, reported, sessionVars,
                   buffVars, streamVars>>

RunEvent(e) == TcpConnect(e) \/ Accepted(e) \/ SendOperator(e) \/ CloseOperator(e)

-----------------------------------------------------------------------------
(* The write operation and SendMessage *)

Served(e, kind) == reported' = [reported EXCEPT ![e].mask = @ \ {kind}]
ServedAll(e) == reported' = [reported EXCEPT ![e].mask = {}]

\* getsockopt(SO_ERROR) of a socket that was connecting.
ConnectError(e) == reset[e]

\* After an error DealData leaves the socket's other events alone.
WriteOperation(e) ==
    /\ Deals(e) /\ "out" \in reported[e].mask
    /\ IF failed[e] \/ (~connected[e] /\ ConnectError(e))
       THEN /\ ErrorOperation(e)
            /\ ServedAll(e)
            /\ UNCHANGED <<connected, writable, pc>>
       ELSE /\ connected' = [connected EXCEPT ![e] = TRUE]
            /\ messages' = IF connected[e] THEN messages
                           ELSE PushMessageEvent(e, "connected", 0)
            /\ writable' = [writable EXCEPT ![e] = TRUE]
            /\ Served(e, "out")
            /\ pc' = IF sendBuff[e] # <<>> THEN [pc EXCEPT ![e] = "write"] ELSE pc
            /\ UNCHANGED <<kernelVars, failed, handle, closes>>
    /\ UNCHANGED <<made, refused, posted, running, sessionVars, buffVars, streamVars>>

SendRoom(e) == OutSize - Len(unsent[e])

\* In the loop of SendMessage, while m_bWritable and something is left to send.
Sending(e) == pc[e] \in {"send", "write"}

\* A mistake: one call of send for all that is there.
SendsOnce(e, n) == FALSE

\* The loop goes on while something is left.
SendLoops(e, n) == n < Len(sendBuff[e])

\* A mistake: all is dropped from the buffer, however much the kernel took.
SentAll(e, n) == Len(sendBuff[e])

SentUnits(e, n) == n

\* send takes what there is room for.
SendSome(e) ==
    /\ Sending(e) /\ ~reset[e] /\ SendRoom(e) > 0
    /\ LET n == Least(SendRoom(e), Len(sendBuff[e])) IN
       /\ unsent' = [unsent EXCEPT ![e] = @ \o SubSeq(sendBuff[e], 1, n)]
       /\ sendBuff' = [sendBuff EXCEPT ![e] = Drop(@, SentUnits(e, n))]
       /\ pc' = [pc EXCEPT ![e] = IF SendLoops(e, n) THEN @ ELSE "deal"]
    /\ UNCHANGED <<link, listener, backlog, side, unread, fin, reset, registered, edge, nospace,
                   socketVars, posted, running, reported, sessionVars, recvBuff, dataLen,
                   messages, streamVars>>

\* EAGAIN: the kernel will tell when there is room again.
SendAgain(e) ==
    /\ Sending(e) /\ ~reset[e] /\ SendRoom(e) = 0
    /\ writable' = [writable EXCEPT ![e] = FALSE]
    /\ nospace' = [nospace EXCEPT ![e] = TRUE]
    /\ pc' = [pc EXCEPT ![e] = "deal"]
    /\ UNCHANGED <<link, listener, backlog, side, unsent, unread, fin, reset, registered, edge,
                   made, connected, failed, handle, closes, refused, posted, running, reported,
                   sessionVars, buffVars, messages, streamVars>>

\* An error of send, which SendOperator ignores.
SendError(e) ==
    /\ Sending(e) /\ reset[e]
    /\ writable' = [writable EXCEPT ![e] = FALSE]
    /\ pc' = [pc EXCEPT ![e] = "deal"]
    /\ IF pc[e] = "write"
       THEN ErrorOperation(e) /\ ServedAll(e)
       ELSE UNCHANGED <<failed, handle, closes, messages, kernelVars, reported>>
    /\ UNCHANGED <<made, connected, refused, posted, running, sessionVars, buffVars, streamVars>>

SendMessage(e) == SendSome(e) \/ SendAgain(e) \/ SendError(e)

-----------------------------------------------------------------------------
(* The read operation; pc = "read" while m_bReadable *)

ReadTurn(e) == "in" \in reported[e].mask /\ "out" \notin reported[e].mask

\* A mistake: an event of a connector that failed meanwhile is served.
FailedIsServed(e) == FALSE

\* An event may be served after an event of the application closed the session.
FailedBefore(e) == failed[e]

ReadOperation(e) ==
    /\ Deals(e) /\ ReadTurn(e)
    /\ Served(e, "in")
    /\ pc' = IF FailedBefore(e) THEN pc ELSE [pc EXCEPT ![e] = "read"]
    /\ UNCHANGED <<kernelVars, socketVars, posted, running, sessionVars, buffVars, messages,
                   streamVars>>

\* A package is cut from the buffer and pushed for the session.
PopPackage(e) ==
    /\ pc[e] = "read" /\ CheckPackage(e)
    /\ messages' = PushMessageEvent(e, "recv", Package(e))
    /\ recvBuff' = [recvBuff EXCEPT ![e] = Drop(@, PackageLength(e))]
    /\ UNCHANGED <<kernelVars, socketVars, moduleVars, sessionVars, sendBuff, dataLen, streamVars>>

Reading(e) == pc[e] = "read" /\ ~CheckPackage(e)
FreeSize(e) == dataLen[e] - Len(recvBuff[e])

\* A mistake: one call of recv for an event.
ReadsNoMore(e) == IF CheckPackage(e)' THEN "read" ELSE "deal"

AfterRecv(e) == "read"

\* recv fills the free space, or gives what there is.
Recv(e) ==
    /\ Reading(e) /\ FreeSize(e) > 0 /\ unread[e] # <<>>
    /\ LET n == Least(FreeSize(e), Len(unread[e])) IN
       /\ recvBuff' = [recvBuff EXCEPT ![e] = @ \o SubSeq(unread[e], 1, n)]
       /\ dataLen' = [dataLen EXCEPT ![e] = Realloc(@, Len(recvBuff[e]) + n)]
       /\ unread' = [unread EXCEPT ![e] = Drop(@, n)]
    /\ pc' = [pc EXCEPT ![e] = AfterRecv(e)]
    /\ UNCHANGED <<link, listener, backlog, side, unsent, fin, reset, registered, edge, nospace,
                   socketVars, posted, running, reported, sessionVars, sendBuff, messages,
                   streamVars>>

\* EAGAIN, or no free space; the end of the stream; an error.
RecvEnds(e) ==
    /\ Reading(e) /\ (FreeSize(e) > 0 => unread[e] = <<>>)
    /\ pc' = [pc EXCEPT ![e] = "deal"]
    /\ IF FreeSize(e) > 0 /\ (fin[e] \/ reset[e])
       THEN ErrorOperation(e)
       ELSE UNCHANGED <<failed, handle, closes, messages, kernelVars>>
    /\ UNCHANGED <<made, connected, writable, refused, posted, running, reported, sessionVars,
                   buffVars, streamVars>>

ReadLoop(e) == PopPackage(e) \/ Recv(e) \/ RecvEnds(e)

\* A step of an end's I/O module.
DealData(e) ==
    \/ WaitEvents(e)
    \/ TakePosted(e)
    \/ RunEvent(e)
    \/ WriteOperation(e)
    \/ SendMessage(e)
    \/ ReadOperation(e)
    \/ ReadLoop(e)

-----------------------------------------------------------------------------
(* The listener, whose socket is reported while a connection waits *)

\* Listen: the socket is opened, bound and registered for level-triggered input,
\* or closed again.
Listen ==
    /\ listener = "none"
    /\ listener' \in {"open", "closed"}
    /\ UNCHANGED <<link, backlog, side, unsent, unread, fin, reset, registered, edge, nospace,
                   socketVars, moduleVars, sessionVars, buffVars, messages, streamVars>>

\* One accept for an event: session, connector, and the event that connects it.
Accept ==
    /\ listener = "open" /\ backlog
    /\ backlog' = FALSE
    /\ session' = [session EXCEPT !["server"] = "alive"]
    /\ made' = [made EXCEPT !["server"] = TRUE]
    /\ posted' = [posted EXCEPT !["server"] = Append(@, "accepted")]
    /\ UNCHANGED <<link, listener, side, unsent, unread, fin, reset, registered, edge, nospace,
                   connected, writable, failed, handle, closes, refused, pc, running, reported,
                   sent, closing, buffVars, messages, streamVars>>

\* The listener is closed, with the connection that waits.
ListenerError ==
    /\ listener' = "closed"
    /\ backlog' = FALSE
    /\ side' = [side EXCEPT !["server"] = "rst"]
    /\ unread' = [unread EXCEPT !["server"] = <<>>]

\* accept fails, for whatever reason, and that is the listener's error.
AcceptFails ==
    /\ listener = "open" /\ backlog
    /\ ListenerError
    /\ UNCHANGED <<link, unsent, fin, reset, registered, edge, nospace, socketVars, moduleVars,
                   sessionVars, buffVars, messages, streamVars>>

-----------------------------------------------------------------------------
(* Main threads *)

\* The session's Send and Close, once it has a socket.
Send(e) ==
    /\ session[e] = "alive" /\ made[e]
    /\ sent[e] < Len(Bodies[e]) /\ ~closing[e]
    /\ sent' = [sent EXCEPT ![e] = @ + 1]
    /\ posted' = [posted EXCEPT ![e] = Append(@, "send")]
    /\ UNCHANGED <<kernelVars, socketVars, pc, running, reported, session, closing, buffVars,
                   messages, streamVars>>

Close(e) ==
    /\ session[e] = "alive" /\ made[e]
    /\ ~closing[e]
    /\ closing' = [closing EXCEPT ![e] = TRUE]
    /\ posted' = [posted EXCEPT ![e] = Append(@, "close")]
    /\ UNCHANGED <<kernelVars, socketVars, pc, running, reported, session, sent, buffVars,
                   messages, streamVars>>

\* OnConnected, OnRecv and OnClose, which deletes the session.
HandleMessage(e) ==
    /\ messages[e] # <<>>
    /\ messages' = [messages EXCEPT ![e] = Tail(@)]
    /\ LET m == Head(messages[e]) IN
       /\ opened' = IF m.kind = "connected" THEN [opened EXCEPT ![e] = TRUE] ELSE opened
       /\ output' = IF m.kind = "recv" THEN [output EXCEPT ![e] = Append(@, m.number)]
                    ELSE output
       /\ session' = IF m.kind = "close" THEN [session EXCEPT ![e] = "deleted"] ELSE session
    /\ UNCHANGED <<kernelVars, socketVars, moduleVars, sent, closing, buffVars, accepted>>

-----------------------------------------------------------------------------
(* The kernels and the network *)

Wake(ends) == edge' = [e \in Ends |-> edge[e] \/ (e \in ends /\ registered[e])]

Establish ==
    /\ link = "syn" /\ listener = "open"
    /\ link' = "up"
    /\ side' = [e \in Ends |-> "open"]
    /\ backlog' = TRUE
    /\ Wake({"client"})
    /\ UNCHANGED <<listener, unsent, unread, fin, reset, registered, nospace, socketVars,
                   moduleVars, sessionVars, buffVars, messages, streamVars>>

\* Nobody listens, or nobody answers.
Refuse ==
    /\ link = "syn"
    /\ link' = "down"
    /\ reset' = [reset EXCEPT !["client"] = TRUE]
    /\ Wake({"client"})
    /\ UNCHANGED <<listener, backlog, side, unsent, unread, fin, registered, nospace, socketVars,
                   moduleVars, sessionVars, buffVars, messages, streamVars>>

\* A segment arrives and is acknowledged.
Arrive(e) ==
    LET p == Peer(e) IN
    /\ side[e] = "open"
    /\ \E n \in 1 .. Least(Len(unsent[p]), InSize - Len(unread[e])) :
          /\ unread' = [unread EXCEPT ![e] = @ \o SubSeq(unsent[p], 1, n)]
          /\ unsent' = [unsent EXCEPT ![p] = Drop(@, n)]
    /\ nospace' = [nospace EXCEPT ![p] = FALSE]
    /\ Wake({e} \cup {x \in {p} : nospace[x]})
    /\ UNCHANGED <<link, listener, backlog, side, fin, reset, registered, socketVars, moduleVars,
                   sessionVars, buffVars, messages, streamVars>>

\* What the other side's closing does: its end of stream after all it sent, or a
\* reset, at once or for the next segment that is sent to it.
ArriveFin(e) ==
    /\ side[Peer(e)] = "fin" /\ side[e] = "open"
    /\ unsent[Peer(e)] = <<>>
    /\ ~fin[e] /\ ~reset[e]
    /\ fin' = [fin EXCEPT ![e] = TRUE]
    /\ Wake({e})
    /\ UNCHANGED <<link, listener, backlog, side, unsent, unread, reset, registered, nospace,
                   socketVars, moduleVars, sessionVars, buffVars, messages, streamVars>>

ArriveReset(e) ==
    /\ side[e] = "open" /\ ~reset[e]
    /\ \/ side[Peer(e)] = "rst"
       \/ side[Peer(e)] = "fin" /\ unsent[e] # <<>>
    /\ reset' = [reset EXCEPT ![e] = TRUE]
    /\ unsent' = [x \in Ends |-> <<>>]
    /\ Wake({e})
    /\ UNCHANGED <<link, listener, backlog, side, unread, fin, registered, nospace,
                   socketVars, moduleVars, sessionVars, buffVars, messages, streamVars>>

Network == \/ Establish
           \/ Refuse
           \/ \E e \in Ends : Arrive(e) \/ ArriveFin(e) \/ ArriveReset(e)

\* What goes on by itself.
Progress ==
    \/ \E e \in Ends : DealData(e) \/ HandleMessage(e)
    \/ Listen
    \/ Accept
    \/ AcceptFails
    \/ Network

Next == Progress \/ \E e \in Ends : Send(e) \/ Close(e)

Spec == Init /\ [][Next]_vars

\* The threads' loops go on, the network delivers or resets. One condition is
\* enough for all: none of them goes on forever by itself.
FairSpec == Spec /\ WF_vars(Progress)

-----------------------------------------------------------------------------
(* Properties *)

\* Types, and what fits where.
TypeOK ==
    /\ link \in {"none", "syn", "up", "down"}
    /\ listener \in {"none", "open", "closed"}
    /\ backlog \in BOOLEAN
    /\ side \in [Ends -> {"none", "open", "fin", "rst"}]
    /\ {fin, reset, registered, edge, nospace, made, connected, writable, failed, handle,
        refused, closing, opened} \subseteq [Ends -> BOOLEAN]
    /\ \A e \in Ends : Len(unsent[e]) <= OutSize /\ Len(unread[e]) <= InSize
    /\ closes \in [Ends -> 0 .. 2]
    /\ pc \in [Ends -> {"deal", "send", "write", "read"}]
    /\ reported \in [Ends -> [posted : BOOLEAN, mask : SUBSET {"in", "out"}]]
    /\ session \in [Ends -> {"none", "alive", "deleted"}]
    /\ \A e \in Ends : sent[e] \in 0 .. Len(Bodies[e]) /\ accepted[e] \in 0 .. sent[e]

\* Read and write loops use the session through the connector, which has it until
\* its first error: none of them runs after that, though epoll has reported the
\* socket before the session was closed.
SessionWhileServed == \A e \in Ends : pc[e] # "deal" => ~failed[e]

\* A session is told of its end once, and of nothing after that: it deletes itself.
CloseIsLast == \A e \in Ends :
    /\ session[e] = "deleted" => messages[e] = <<>>
    /\ \A i \in DOMAIN messages[e] :
          messages[e][i].kind = "close" => i = Len(messages[e])

\* Whatever arrived, the read loop has space to read into: it ends for lack of
\* units, not of space, and so nothing is left that epoll will not report again.
RoomToRead == \A e \in Ends : FreeSize(e) > 0

\* A descriptor is closed once. The exception is a connection that connect() itself
\* refuses: it is closed there, and again by the error operation.
ClosedOnce == \A e \in Ends : closes[e] > 1 => refused[e]

\* A session is told that it is connected when it is: connecting that fails is
\* reported as an error instead.
ConnectedIsUp == \A e \in Ends : connected[e] => link = "up"

\* What the read and write operations rely on.
OperationsInv == SessionWhileServed /\ RoomToRead /\ ConnectedIsUp

\* A connection ends once, for the session and for the kernel.
EndsOnce == CloseIsLast /\ ClosedOnce

\* Two sessions see a stream of messages each way: none is lost, repeated, torn or
\* reordered before one that is delivered, and OnConnected comes before all.
ImplementsStream == Stream!Spec

\* A message in the send buffer is delivered, however small the kernel's buffers
\* are and however segments arrive, unless an end fails or closes.
Delivered == []<>(\A e \in Ends :
    Len(output[Peer(e)]) = accepted[e] \/ failed[e] \/ failed[Peer(e)])

\* When one end is closed or fails, the other's session ends too.
EndNoticed == []<>(\A e \in Ends : failed[e] => session[Peer(e)] # "alive")

=============================================================================
