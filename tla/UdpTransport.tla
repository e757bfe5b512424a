---------------------------- MODULE UdpTransport -----------------------------
(***************************************************************************)
(* One UDP connection of fxnet: the BufferContral of the connecting        *)
(* process and the one the listener's process creates for it, over a       *)
(* network that loses, duplicates, delays and reorders datagrams.          *)
(*                                                                         *)
(* A BufferContral is driven by one I/O thread.  ReceiveMessages reads     *)
(* datagrams until the socket is empty and then delivers what has become   *)
(* contiguous; SendMessages moves application data into the send window    *)
(* and transmits what is due.  Both are split into the steps between       *)
(* which another datagram can arrive, pc says how far one has come.        *)
(*                                                                         *)
(* Time is left out: which packets are due, how far the congestion window  *)
(* reaches and when a keep-alive packet is made are choices, and the       *)
(* connection may fail whenever the code can report an error.              *)
(* Packets carry unbounded numbers; what the program sees is their byte.   *)
(***************************************************************************)
EXTENDS SlidingWindow, Sequences, FiniteSets

CONSTANTS
    SlotGarbage,  \* what memory new CUdpConnector gets for the receive slots
    MaxSeq,       \* bound: the last packet number of each side
    NetCapacity   \* bound: datagrams in flight at once

Client == "client"
Server == "server"
Ends == {Client, Server}
Peer(e) == IF e = Client THEN Server ELSE Client

\* ConnectionStatus; an end that has no BufferContral yet is ABSENT.
ABSENT == "ABSENT"
ST_SYN_SEND == "ST_SYN_SEND"
ST_SYN_RECV == "ST_SYN_RECV"
ST_ESTABLISHED == "ST_ESTABLISHED"
Status == {ABSENT, ST_SYN_SEND, ST_SYN_RECV, ST_ESTABLISHED}

\* m_oError of the socket, as far as it matters here.
NoError == "OK"
AllocBuff == "CODE_ERROR_NET_UDP_ALLOC_BUFF"
Closed == "CLOSED"
Errors == {NoError, AllocBuff, Closed}

\* A receive slot holds the id of a buffer, which stands for its payload, or
\* an id >= WindowSize (Empty), or an id nobody ever stored there (Stale).
Empty == -1
Stale == -2

\* A payload is the position of the chunk in its sender's stream, a packet
\* without data has payload 0.
NoData == 0

ASSUME BoundAssumption ==
    /\ SlotGarbage \in SUBSET {Empty, Stale}
    /\ SlotGarbage # {}
    /\ MaxSeq \in [Ends -> Nat]
    /\ NetCapacity \in Nat

VARIABLES
    status,      \* m_dwStatus
    connected,   \* m_bConnected
    error,       \* m_oError of the connector
    pc,          \* how far SendMessages or ReceiveMessages has come
    sendBegin,   \* m_oSendWindow.m_btBegin
    sendEnd,     \* m_oSendWindow.m_btEnd
    sendSlot,    \* the buffers m_oSendWindow's slots refer to
    recvBegin,   \* m_oRecvWindow.m_btBegin; m_btEnd is WindowSize further
    recvSlot,    \* m_oRecvWindow.m_btarrSeqBufferId
    recvFree,    \* length of m_oRecvWindow's list of free buffers
    received,    \* bPacketReceived, FALSE once ReceiveMessages has ended
    sendAck,     \* m_bSendAck
    net,         \* datagrams in flight
    chunks,      \* history: chunks among the first n packets of each side
    delivered    \* history: payloads pushed to the session by m_pOnRecvOperator

endVars == <<status, connected, error, pc>>
sendVars == <<sendBegin, sendEnd, sendSlot, chunks>>
recvVars == <<recvBegin, recvSlot, recvFree, received, delivered>>
vars == <<endVars, sendVars, recvVars, sendAck, net>>

------------------------------------------------------------------------------
RecvEnd(e) == recvBegin[e] + WindowSize

\* Mutant: one buffer too many in the send window's free list.
SendFreeOneMore(e) == WindowSize + 1 - (sendEnd[e] - sendBegin[e])

\* Every buffer of the send window that holds no packet of it is free.
SendFree(e) == WindowSize - (sendEnd[e] - sendBegin[e])

\* The receive slots that refer to a buffer with a packet.
HeldSlots(e) == {i \in Slots : recvSlot[e][i] \in Nat}

\* How many chunks end e has put into its first n packets.
ChunkCount(e, n) == IF n = 0 THEN 0 ELSE chunks[e][n]

\* The payload that packet n of end e was created with.
PayloadAt(e, n) ==
    IF ChunkCount(e, n) = ChunkCount(e, n - 1) THEN NoData ELSE ChunkCount(e, n)

\* A datagram: the bytes of its header, its payload, and the numbers its
\* bytes stand for.
Packet(e, seq, payload) ==
    [src |-> e, status |-> status[e], syn |-> Byte(seq),
     ack |-> Byte(recvBegin[e] - 1), payload |-> payload,
     seq |-> seq, ackSeq |-> recvBegin[e] - 1]

\* No datagram lives so long that its bytes are in use again: the network
\* property that 8-bit numbers rely on.
Lifetime == SeqMod - WindowSize
Fresh(e, p) ==
    /\ recvBegin[e] - p.seq <= Lifetime
    /\ sendBegin[e] - p.ackSeq <= Lifetime

Active(e) == status[e] # ABSENT /\ error[e] = NoError

------------------------------------------------------------------------------
(***************************************************************************)
(* The client has run Connect, which runs Init(ST_SYN_SEND); the server's  *)
(* BufferContral gets the same values when it is created.                  *)
(***************************************************************************)
Init ==
    /\ status = [e \in Ends |-> IF e = Client THEN ST_SYN_SEND ELSE ABSENT]
    /\ connected = [e \in Ends |-> FALSE]
    /\ error = [e \in Ends |-> NoError]
    /\ pc = [e \in Ends |-> "idle"]
    /\ sendBegin = [e \in Ends |-> 1]
    /\ sendEnd = [e \in Ends |-> 1]
    /\ sendSlot = [e \in Ends |-> [i \in Slots |-> NoData]]
    /\ recvBegin = [e \in Ends |-> 1]
    /\ recvSlot \in [Ends -> [Slots -> SlotGarbage]]
    /\ recvFree = [e \in Ends |-> WindowSize]
    /\ received = [e \in Ends |-> FALSE]
    /\ sendAck = [e \in Ends |-> FALSE]
    /\ net = {}
    /\ chunks = [e \in Ends |-> <<>>]
    /\ delivered = [e \in Ends |-> <<>>]

(***************************************************************************)
(* The listener's read operation finds a first SYN and has a connector     *)
(* made, whose Init runs with ST_SYN_RECV.  The SYN itself is dropped.     *)
(***************************************************************************)
Accept ==
    /\ status[Server] = ABSENT
    /\ \E p \in net :
          /\ p.src = Client
          /\ p.status = ST_SYN_SEND
          /\ p.ack = Byte(0)
          /\ p.syn = Byte(1)
    /\ status' = [status EXCEPT ![Server] = ST_SYN_RECV]
    /\ UNCHANGED <<connected, error, pc, sendVars, recvVars, sendAck, net>>

------------------------------------------------------------------------------
\* Mutant: the slot is computed from the window's start instead of its end.
Add2SendWindowAtBegin(e, payload) ==
    /\ sendSlot' = [sendSlot EXCEPT ![e][SlotOf(sendBegin[e])] = payload]
    /\ sendEnd' = [sendEnd EXCEPT ![e] = @ + 1]

\* Appending one packet to the send window of e, Add2SendWindow.
Add2SendWindow(e, payload) ==
    /\ sendSlot' = [sendSlot EXCEPT ![e][SlotOf(sendEnd[e])] = payload]
    /\ sendEnd' = [sendEnd EXCEPT ![e] = @ + 1]

(***************************************************************************)
(* SendMessages, ReadStream: Send copies one more chunk of the session's   *)
(* stream into a free buffer.                                              *)
(***************************************************************************)
Send(e) ==
    LET next == ChunkCount(e, sendEnd[e] - 1) + 1
    IN  /\ Active(e)
        /\ pc[e] \in {"idle", "stream"}
        /\ status[e] = ST_ESTABLISHED
        /\ SendFree(e) > 0
        /\ sendEnd[e] <= MaxSeq[e]
        /\ Add2SendWindow(e, next)
        /\ chunks' = [chunks EXCEPT ![e] = Append(@, next)]
        /\ pc' = [pc EXCEPT ![e] = "stream"]
        /\ UNCHANGED <<status, connected, error, sendBegin, recvVars, sendAck, net>>

(***************************************************************************)
(* SendMessages: an empty window gets a packet without data, which is the  *)
(* SYN before the connection is established and a keep-alive after it.     *)
(***************************************************************************)
SendEmpty(e) ==
    /\ Active(e)
    /\ pc[e] = "idle"
    /\ sendBegin[e] = sendEnd[e]
    /\ SendFree(e) > 0
    /\ sendEnd[e] <= MaxSeq[e]
    /\ Add2SendWindow(e, NoData)
    /\ chunks' = [chunks EXCEPT ![e] = Append(@, ChunkCount(e, sendEnd[e] - 1))]
    /\ pc' = [pc EXCEPT ![e] = "transmit"]
    /\ UNCHANGED <<status, connected, error, sendBegin, recvVars, sendAck, net>>

\* What SendMessages sends: the packets that are due, under the current status
\* and ack, or, if none is and an ack is owed, a header alone.
Sent(e, due) ==
    IF due = {} /\ sendAck[e]
    THEN {Packet(e, sendBegin[e] - 1, NoData)}
    ELSE {Packet(e, n, sendSlot[e][SlotOf(n)]) : n \in due}

(***************************************************************************)
(* SendMessages: packets of the window that are due, inside the congestion *)
(* window, go out.  On their way they may push out others, or get lost.    *)
(***************************************************************************)
Transmit(e) ==
    /\ Active(e)
    /\ pc[e] \in {"idle", "stream", "transmit"}
    /\ \E due \in SUBSET (sendBegin[e] .. sendEnd[e] - 1) :
          net' \in {kept \in SUBSET (net \cup Sent(e, due)) :
                       Cardinality(kept) <= NetCapacity}
    /\ sendAck' = [sendAck EXCEPT ![e] = FALSE]
    /\ pc' = [pc EXCEPT ![e] = "idle"]
    /\ UNCHANGED <<status, connected, error, sendVars, recvVars>>

------------------------------------------------------------------------------
\* Mutant: the session is told only by the packet that establishes its side.
OpensFirstOnly(e, p) == status[e] # ST_ESTABLISHED /\ p.status = ST_ESTABLISHED

\* The first packet whose sender is established: the session is told, and the
\* receive slots are emptied.
Opens(e, p) == ~connected[e] /\ p.status = ST_ESTABLISHED

\* A packet of the receive window whose slot has no buffer keeps the one it
\* was read into.
Stores(e, slots, p) ==
    /\ IsValidIndex(p.syn, recvBegin[e], RecvEnd(e))
    /\ slots[SlotOf(p.syn)] = Empty

\* Mutant: the loop reads on without a free buffer.
AfterReadOn(stored, free) == "read"

\* Having stored a packet in the last free buffer, the loop stops to deliver.
AfterRead(stored, free) == IF stored /\ free = 0 THEN "deliver" ELSE "read"

(***************************************************************************)
(* ReceiveMessages, one turn of its reading loop: take a free buffer, read *)
(* a datagram into it, establish the connection, advance the send window   *)
(* to the ack, and keep the buffer if the packet fills an empty slot.      *)
(***************************************************************************)
RecvPacket(e, p) ==
    LET slots   == IF Opens(e, p) THEN [i \in Slots |-> Empty] ELSE recvSlot[e]
        acked   == IsValidIndex(p.ack, sendBegin[e], sendEnd[e])
        stored  == Stores(e, slots, p)
        free    == IF stored THEN recvFree[e] - 1 ELSE recvFree[e]
    IN  /\ Active(e)
        /\ pc[e] \in {"idle", "read"}
        /\ p.src = Peer(e)
        /\ Fresh(e, p)
        /\ recvFree[e] > 0
        /\ status' = [status EXCEPT ![e] = ST_ESTABLISHED]
        /\ connected' = [connected EXCEPT ![e] = @ \/ Opens(e, p)]
        /\ sendBegin' = [sendBegin EXCEPT ![e] =
                            IF acked THEN @ + Offset(p.ack, @) + 1 ELSE @]
        /\ recvSlot' = [recvSlot EXCEPT ![e] =
                            IF stored THEN [slots EXCEPT ![SlotOf(p.syn)] = p.payload]
                                      ELSE slots]
        /\ recvFree' = [recvFree EXCEPT ![e] = free]
        /\ received' = [received EXCEPT ![e] = (pc[e] = "read" /\ @) \/ stored]
        /\ pc' = [pc EXCEPT ![e] = AfterRead(stored, free)]
        /\ UNCHANGED <<error, sendEnd, sendSlot, chunks, recvBegin, delivered,
                       sendAck, net>>

(***************************************************************************)
(* ReceiveMessages finds no free buffer for the next datagram and closes   *)
(* the connection.                                                         *)
(***************************************************************************)
RecvNoBuffer(e) ==
    /\ Active(e)
    /\ pc[e] \in {"idle", "read"}
    /\ recvFree[e] = 0
    /\ \E p \in net : p.src = Peer(e)
    /\ error' = [error EXCEPT ![e] = AllocBuff]
    /\ pc' = [pc EXCEPT ![e] = "idle"]
    /\ UNCHANGED <<status, connected, sendVars, recvVars, sendAck, net>>

\* ReceiveMessages: the socket is empty (EAGAIN); deliver if a packet came in.
RecvAgain(e) ==
    /\ Active(e)
    /\ pc[e] = "read"
    /\ pc' = [pc EXCEPT ![e] = IF received[e] THEN "deliver" ELSE "idle"]
    /\ UNCHANGED <<status, connected, error, sendVars, recvVars, sendAck, net>>

(***************************************************************************)
(* ReceiveMessages: the contiguous packets at the window's start are       *)
(* handed to the session one by one, their buffers freed; the loop ends at *)
(* the first slot without a buffer.                                        *)
(***************************************************************************)
Deliver(e) ==
    LET slot == SlotOf(recvBegin[e])
        data == recvSlot[e][slot]
    IN  /\ Active(e)
        /\ pc[e] = "deliver"
        /\ data # Empty
        /\ delivered' = [delivered EXCEPT ![e] =
                            IF data = NoData THEN @ ELSE Append(@, data)]
        /\ recvFree' = [recvFree EXCEPT ![e] = @ + 1]
        /\ recvSlot' = [recvSlot EXCEPT ![e][slot] = Empty]
        /\ recvBegin' = [recvBegin EXCEPT ![e] = @ + 1]
        /\ sendAck' = [sendAck EXCEPT ![e] = TRUE]
        /\ UNCHANGED <<endVars, sendVars, received, net>>

DeliverDone(e) ==
    /\ Active(e)
    /\ pc[e] = "deliver"
    /\ recvSlot[e][SlotOf(recvBegin[e])] = Empty
    /\ pc' = [pc EXCEPT ![e] = "idle"]
    /\ received' = [received EXCEPT ![e] = FALSE]
    /\ UNCHANGED <<status, connected, error, sendVars, recvBegin, recvSlot,
                   recvFree, delivered, sendAck, net>>

------------------------------------------------------------------------------
(***************************************************************************)
(* An ack time-out, an error of send or recv, or Close by the application: *)
(* the connector keeps its error and does nothing any more.                *)
(***************************************************************************)
Fail(e) ==
    /\ Active(e)
    /\ pc[e] # "deliver"
    /\ error' = [error EXCEPT ![e] = Closed]
    /\ pc' = [pc EXCEPT ![e] = "idle"]
    /\ UNCHANGED <<status, connected, sendVars, recvVars, sendAck, net>>

\* The network loses a datagram, or the last copy of one.
Lose(p) ==
    /\ net' = net \ {p}
    /\ UNCHANGED <<endVars, sendVars, recvVars, sendAck>>

Next ==
    \/ Accept
    \/ \E e \in Ends :
          \/ Send(e)
          \/ SendEmpty(e)
          \/ Transmit(e)
          \/ \E p \in net : RecvPacket(e, p)
          \/ RecvNoBuffer(e)
          \/ RecvAgain(e)
          \/ Deliver(e)
          \/ DeliverDone(e)
          \/ Fail(e)
    \/ \E p \in net : Lose(p)

Spec == Init /\ [][Next]_vars

(***************************************************************************)
(* Init leaves the receive slots as memory has them until the connected    *)
(* packet empties them.  Before it only packet 1 can arrive: if slot 1     *)
(* takes it and slot 2 reads as a buffer, that buffer is delivered after   *)
(* it.  SoundMemory excludes exactly this, all else may read as it likes.  *)
(***************************************************************************)
SoundMemory ==
    \A e \in Ends :
        \/ recvSlot[e][SlotOf(1)] = Stale
        \/ recvSlot[e][SlotOf(2)] # Stale

SoundInit == Init /\ SoundMemory

SoundSpec == SoundInit /\ [][Next]_vars

(***************************************************************************)
(* Fairness.  The I/O thread calls SendMessages every UDP_SEND_FREQUENCY,  *)
(* where time makes each packet due again (the congestion window never     *)
(* falls below two packets) and an empty window get its keep-alive; what   *)
(* ReceiveMessages has begun it ends.  Of datagrams that tell their        *)
(* receiver something, and are sent again and again, the network delivers  *)
(* some.                                                                   *)
(***************************************************************************)
IsNews(e, p) ==
    \/ status[e] # ST_ESTABLISHED
    \/ Opens(e, p)
    \/ IsValidIndex(p.ack, sendBegin[e], sendEnd[e])
    \/ Stores(e, recvSlot[e], p)

TransmitNews(e) ==
    /\ Transmit(e)
    /\ \E n \in sendBegin[e] .. sendEnd[e] - 1 :
          LET p == Packet(e, n, sendSlot[e][SlotOf(n)])
          IN  n < sendBegin[e] + 2 /\ p \in net' /\ IsNews(Peer(e), p)

RecvNews(e) == \E p \in net : IsNews(e, p) /\ RecvPacket(e, p)

Fairness ==
    /\ SF_vars(Accept)
    /\ \A e \in Ends :
          /\ SF_vars(SendEmpty(e))
          /\ SF_vars(TransmitNews(e))
          /\ SF_vars(RecvNews(e))
          /\ WF_vars(RecvAgain(e) \/ Deliver(e) \/ DeliverDone(e))

FairSpec == Spec /\ Fairness

------------------------------------------------------------------------------
(* Properties *)

\* Every variable has the values the code can give it; a header's syn and ack
\* are bytes.
Datagram ==
    [src : Ends, status : Status \ {ABSENT}, syn : 0 .. SeqMod - 1,
     ack : 0 .. SeqMod - 1, payload : Nat, seq : Nat, ackSeq : Nat]

TypeOK ==
    /\ status \in [Ends -> Status]
    /\ connected \in [Ends -> BOOLEAN]
    /\ error \in [Ends -> Errors]
    /\ pc \in [Ends -> {"idle", "stream", "transmit", "read", "deliver"}]
    /\ sendBegin \in [Ends -> Nat \ {0}]
    /\ sendEnd \in [Ends -> Nat \ {0}]
    /\ sendSlot \in [Ends -> [Slots -> Nat]]
    /\ recvBegin \in [Ends -> Nat \ {0}]
    /\ recvSlot \in [Ends -> [Slots -> Nat \cup {Empty, Stale}]]
    /\ recvFree \in [Ends -> Nat]
    /\ received \in [Ends -> BOOLEAN]
    /\ sendAck \in [Ends -> BOOLEAN]
    /\ net \in SUBSET Datagram
    /\ chunks \in [Ends -> Seq(Nat)]
    /\ \A e \in Ends : Len(chunks[e]) = sendEnd[e] - 1
    /\ delivered \in [Ends -> Seq(Nat \cup {Stale})]

\* The session of each end gets the chunks of its peer's stream from the first
\* on, each once and in order, whatever the network does to the datagrams
\* (ReceiveMessages' delivery loop against Send's numbering).
InOrderDelivery ==
    \A e \in Ends :
        /\ \A i \in DOMAIN delivered[e] : delivered[e][i] = i
        /\ Len(delivered[e]) <= ChunkCount(Peer(e), sendEnd[Peer(e)] - 1)

\* What a sender has freed from its window after an ack, the receiver has
\* handed to its session: no acked chunk can still get lost.
AckedIsDelivered ==
    \A e \in Ends :
        ChunkCount(e, sendBegin[e] - 1) <= Len(delivered[Peer(e)])

\* The two windows of a direction stay within one window of each other, the
\* condition under which a byte names one packet only.
WindowAgreement ==
    \A e \in Ends :
        /\ sendBegin[e] <= recvBegin[Peer(e)]
        /\ recvBegin[Peer(e)] <= sendEnd[e]
        /\ sendEnd[e] - sendBegin[e] <= WindowSize

\* No receive buffer leaks: each is on the free list or holds the packet of
\* one slot (allocation, the duplicate path and delivery in ReceiveMessages).
BuffersConserved ==
    \A e \in Ends :
        recvFree[e] + Cardinality(HeldSlots(e)) = WindowSize

\* ReceiveMessages never has to close the connection for lack of a buffer: it
\* delivers first when its last buffer is taken.
NoAllocFailure == \A e \in Ends : error[e] # AllocBuff

\* A session gets no data before it was told it is connected.
ConnectedBeforeData ==
    \A e \in Ends : delivered[e] # <<>> => connected[e]

\* A packet keeps its buffer, for retransmission, until it is acked: no step
\* overwrites the slot of a packet that stays in the send window.
UnackedKept ==
    [][\A e \in Ends : \A n \in sendBegin'[e] .. sendEnd[e] - 1 :
          sendSlot'[e][SlotOf(n)] = sendSlot[e][SlotOf(n)]]_vars

\* The connection implements the pair of reliable streams: connected events,
\* chunks taken from the session by Send and chunks pushed by m_pOnRecvOperator.
Stream == INSTANCE ReliableStream WITH
    open <- connected,
    accepted <- [e \in Ends |-> ChunkCount(e, sendEnd[e] - 1)],
    output <- delivered

ImplementsStream == Stream!Spec

Failed == \E e \in Ends : error[e] # NoError

\* Both sessions are told that they are connected, unless the connection
\* fails: Connect and the listener never leave a half-open connection.
HandshakeCompletes == <>(Failed \/ \A e \in Ends : connected[e])

\* A chunk that Send has taken from the session reaches the other session,
\* unless the connection fails.
ChunksArrive ==
    \A e \in Ends : \A n \in 1 .. MaxSeq[e] :
        ChunkCount(e, sendEnd[e] - 1) >= n
            ~> (Failed \/ Len(delivered[Peer(e)]) >= n)

------------------------------------------------------------------------------
(***************************************************************************)
(* Why delivery is in order: the inductive invariant behind the properties *)
(* above, of every connection that starts in SoundMemory.                  *)
(***************************************************************************)

\* The history counts the chunks of each side's packets, packet by packet.
HistoryInv ==
    \A e \in Ends :
        /\ \A n \in 1 .. sendEnd[e] - 1 :
              \/ chunks[e][n] = ChunkCount(e, n - 1)
              \/ chunks[e][n] = ChunkCount(e, n - 1) + 1
        /\ \A m, n \in 0 .. sendEnd[e] - 1 :
              m <= n => ChunkCount(e, m) <= ChunkCount(e, n)

\* The slots of the send window hold what its packets were created with, and
\* an end that is not established has made no packet but the first, no data.
SendInv ==
    \A e \in Ends :
        /\ \A n \in sendBegin[e] .. sendEnd[e] - 1 :
              sendSlot[e][SlotOf(n)] = PayloadAt(e, n)
        /\ ChunkCount(e, sendEnd[e] - 1) > 0 => status[e] = ST_ESTABLISHED
        /\ status[e] # ST_ESTABLISHED => sendBegin[e] = 1 /\ sendEnd[e] <= 2

\* A datagram in flight is a packet of its sender's window, past or present,
\* under an ack its sender has sent: what is new in it is true.
NetInv ==
    \A p \in net :
        /\ p.syn = Byte(p.seq)
        /\ p.ack = Byte(p.ackSeq)
        /\ p.seq < sendEnd[p.src]
        /\ p.ackSeq < recvBegin[p.src]
        /\ \/ p.seq < recvBegin[Peer(p.src)]
           \/ p.payload = PayloadAt(p.src, p.seq)
        /\ p.payload # NoData => p.status = ST_ESTABLISHED
        /\ p.status # ST_ESTABLISHED => p.seq <= 1

\* A receive slot with a buffer holds the packet of the receive window that
\* belongs there.  While slots are left that were never written, no packet has
\* connected the end, and the slot that is delivered next is not among them.
FirstSlots(e) ==
    \/ /\ recvBegin[e] = 1
       /\ recvSlot[e][SlotOf(1)] = Stale
       /\ pc[e] # "deliver"
       /\ pc[e] = "read" => ~received[e]
    \/ /\ recvBegin[e] \in {1, 2}
       /\ recvSlot[e][SlotOf(1)] # Stale
       /\ recvSlot[e][SlotOf(2)] = Empty

RecvInv ==
    \A e \in Ends :
        /\ \A n \in recvBegin[e] .. RecvEnd(e) - 1 :
              LET data == recvSlot[e][SlotOf(n)]
              IN  data \in Nat =>
                      /\ n < sendEnd[Peer(e)]
                      /\ data = PayloadAt(Peer(e), n)
                      /\ data # NoData => connected[e]
        /\ \/ \A i \in Slots : recvSlot[e][i] # Stale
           \/ ~connected[e] /\ FirstSlots(e)

\* What was delivered is the data of all packets before the receive window.
DeliveryInv ==
    \A e \in Ends :
        /\ \A i \in DOMAIN delivered[e] : delivered[e][i] = i
        /\ Len(delivered[e]) = ChunkCount(Peer(e), recvBegin[e] - 1)
        /\ delivered[e] # <<>> => connected[e]
        /\ connected[e] => status[e] = ST_ESTABLISHED

SafetyInv ==
    /\ WindowAgreement
    /\ HistoryInv
    /\ SendInv
    /\ NetInv
    /\ RecvInv
    /\ DeliveryInv

\* Why the receive buffers never run out: before the connected packet nothing
\* is stored, unless a packet has come in the first slot of the window is
\* vacant, and the reading loop goes on only with a buffer left (memory is zeroed).
BufferInv ==
    \A e \in Ends :
        /\ recvFree[e] + Cardinality(HeldSlots(e)) = WindowSize
        /\ ~connected[e] => \A i \in Slots : recvSlot[e][i] = Stale
        /\ /\ error[e] = NoError
           /\ pc[e] # "deliver"
           /\ pc[e] = "read" => ~received[e]
           => recvSlot[e][SlotOf(recvBegin[e])] \notin Nat
        /\ pc[e] = "read" => recvFree[e] > 0
        /\ error[e] # AllocBuff
=============================================================================
