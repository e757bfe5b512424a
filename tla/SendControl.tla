---------------------------- MODULE SendControl ----------------------------
(***************************************************************************)
(* When the sender of a BufferContral transmits: the congestion window and *)
(* quick retry, the retry timer of each packet, the pace, keep-alive       *)
(* packets and the ack time-out. The peer and the network are choices:     *)
(* which acks arrive, and when the socket accepts a datagram. What the     *)
(* packets carry is UdpTransport's.                                        *)
(*                                                                         *)
(* Points in time are kept as the number of ticks until they come, 0 when  *)
(* they have come. A tick is the period of Update.                         *)
(***************************************************************************)
EXTENDS Integers, Sequences

CONSTANTS
    SeqMod,          \* number of values of an unsigned char, 256
    WindowSize,      \* packets in the window, 32
    Scale,           \* fractions of the congestion window are counted in 1/Scale
    SendFrequency,   \* UDP_SEND_FREQUENCY: least time between two bursts
    EmptyFrequency,  \* m_dSendEmptyDataFrequency
    MaxEmpty,        \* the second that bounds its back-off
    RetryTimes,      \* retry times the RTT estimate may lead to
    FirstRetryTime,  \* the one Init sets
    MaxRetryTime,    \* the 0.2 s that bound a retry interval
    AckOutTime,      \* m_dAckOutTime
    ClockSkew,       \* how far I/O module 0's clock may be ahead of this one's
    Lag,             \* ticks until Update comes at the latest
    PeerLag          \* ticks a responsive peer takes to acknowledge

ASSUME SizeAssumption ==
    /\ WindowSize \in Nat /\ WindowSize >= 2
    /\ SeqMod \in Nat /\ SeqMod > WindowSize
    /\ Scale \in Nat \ {0}

ASSUME TimeAssumption ==
    /\ SendFrequency \in Nat /\ EmptyFrequency \in Nat /\ MaxEmpty \in Nat
    /\ RetryTimes \subseteq Nat \ {0} /\ RetryTimes # {}
    /\ FirstRetryTime \in Nat \ {0} /\ MaxRetryTime \in Nat \ {0}
    /\ AckOutTime \in Nat /\ ClockSkew \in Nat /\ PeerLag \in Nat
    /\ Lag \in Nat \ {0}

VARIABLES
    established,  \* m_dwStatus is ST_ESTABLISHED
    begin,        \* m_btBegin of the send window
    packets,      \* its packets from m_btBegin to m_btEnd
    free,         \* its list of free buffers, which is a stack
    cong,         \* congestion control: window, threshold, equal acks, quick retry
    ackLast,      \* m_btAckLast
    retryTime,    \* m_dRetryTime
    sendWait,     \* until m_dSendTime
    sendAck,      \* m_bSendAck
    emptyWait,    \* until m_dSendEmptyDataTime
    factor,       \* m_dwSendEmptyDataFactor
    silence,      \* since m_dAckRecvTime
    ackRetry,     \* m_dwAckTimeoutRetry
    reading,      \* whether ReceiveMessages is in its loop
    responsive,   \* whether the peer and the socket always are
    failed        \* why m_oError was set, "no" if it was not

\* Observers; nothing the code does depends on them.
VARIABLES
    late,         \* since the last SendMessages
    owed,         \* since the first packet of the window was transmitted
    quiet,        \* since the last valid ack, or Init
    granted       \* what m_dwAckTimeoutRetry was set to then

windowVars == <<begin, packets, free, cong, retryTime>>
timeoutVars == <<silence, ackRetry, granted, quiet>>
paceVars == <<sendWait, emptyWait, factor>>
vars == <<established, windowVars, ackLast, paceVars, sendAck, timeoutVars,
          reading, responsive, failed, late, owed>>

-----------------------------------------------------------------------------
(* Bytes and fractions *)

\* A mistake: not truncated to an unsigned char.
ByteInt(n) == n

Byte(n) == n % SeqMod
Least(a, b) == IF a <= b THEN a ELSE b
Greatest(a, b) == IF a >= b THEN a ELSE b
Top == Scale * WindowSize

\* i - m_btBegin for the packet n places behind the first: both are promoted to
\* int, so that the difference is negative once i has wrapped.
Distance(n) == Byte(begin + n) - begin

\* The same acks are counted up to here; beyond, the congestion window is full.
SameLimit == Greatest(4, WindowSize)

Packet(kind, buffer, due) == [kind |-> kind, buffer |-> buffer, sends |-> 0, due |-> due]

Init ==
    /\ established \in BOOLEAN
    /\ begin = 1
    /\ packets = <<>>
    /\ free = [i \in 1 .. WindowSize |-> i - 1]
    /\ cong = [window |-> Top, threshold |-> Top, same |-> 0, quick |-> FALSE]
    /\ ackLast = 0
    /\ retryTime = FirstRetryTime
    /\ sendWait = 0 /\ emptyWait = 0 /\ factor = 0
    /\ sendAck = FALSE
    /\ silence = 0 /\ ackRetry = 1 /\ granted = 1 /\ quiet = 0
    /\ responsive \in BOOLEAN
    /\ reading = FALSE /\ failed = "no"
    /\ late = 0 /\ owed = 0

-----------------------------------------------------------------------------
(* SendMessages: congestion control *)

\* A mistake: no lower bound.
HalvedFreely(w) == w \div 2

\* Half the window, at least two packets.
Halved(w) == Greatest(w \div 2, 2 * Scale)

\* More than three equal acks start quick retry, or widen the window while it
\* lasts; fewer end it.
QuickRetry(c) ==
    IF c.same > 3 /\ c.quick THEN [c EXCEPT !.window = Least(@ + Scale, Top)]
    ELSE IF c.same > 3
    THEN [c EXCEPT !.quick = TRUE,
                   !.threshold = Halved(c.window),
                   !.window = Least(Halved(c.window) + Scale * (c.same - 1), Top)]
    ELSE IF c.quick THEN [c EXCEPT !.quick = FALSE, !.window = c.threshold]
    ELSE c

\* A packet was not acknowledged in its retry time.
SlowDown(c) ==
    [c EXCEPT !.threshold = Halved(c.window), !.window = Halved(c.window),
              !.quick = FALSE, !.same = 0]

Overdue == \E i \in DOMAIN packets : packets[i].sends > 0 /\ packets[i].due = 0

\* What congestion control makes of the window before anything is sent.
Controlled ==
    IF ~established THEN cong
    ELSE IF Overdue THEN SlowDown(QuickRetry(cong)) ELSE QuickRetry(cong)

ForceRetry == established /\ cong.same > 3 /\ ~cong.quick

-----------------------------------------------------------------------------
(* SendMessages: filling the window *)

\* ReadStream: Send makes packets of what the session has written, as long as
\* there are buffers and the window takes them.
MaySend(n, c) == n < WindowSize /\ Scale * Distance(n) <= c.window

\* How many packets there may be, of a stream of any length.
SendCounts(c) == {m \in 0 .. WindowSize :
    \A n \in 0 .. m - 1 : Len(packets) <= n => MaySend(n, c)} \cap (Len(packets) .. WindowSize)

Queued(m, skew) ==
    packets \o [i \in 1 .. m - Len(packets) |-> Packet("data", free[i], skew)]

\* 1 << f as an int. A count of 32 or more is undefined: the machine may take it
\* modulo 32, or shift everything out.
Shifted(f) == IF f < 32 THEN {2 ^ f} ELSE {0, 1}

\* A mistake: the back-off has no bound.
EmptyIntervalUnbounded(times) == EmptyFrequency * times

EmptyInterval(times) == Least(EmptyFrequency * times, MaxEmpty)

-----------------------------------------------------------------------------
(* SendMessages: transmitting *)

\* The loop goes on while this holds.
InWindow(n, c) == Scale * Distance(n) < c.window

\* A mistake: a packet is due again only when quick retry says so.
DueOnce(ps, i) == ps[i].sends = 0 \/ (ForceRetry /\ i = 1)

Due(ps, i) == ps[i].due = 0 \/ (ForceRetry /\ i = 1)

\* UDPSendOperator: send takes the packets before the one at full, and says EAGAIN
\* to the others.
Taken(i, full) == i < full

\* The packets the loop sends.
Transmitted(ps, c, full) == {i \in DOMAIN ps :
    /\ \A n \in 0 .. i - 1 : InWindow(n, c)
    /\ Due(ps, i)
    /\ Taken(i, full)}

RetryIn == Least((3 * retryTime) \div 2, MaxRetryTime)

Sent(ps, S) == [i \in DOMAIN ps |->
    IF i \in S THEN [ps[i] EXCEPT !.sends = Least(@ + 1, 2), !.due = RetryIn] ELSE ps[i]]

\* The sending loop, and the pure ack if no packet carried it. A socket that is
\* full while the pure ack is to be sent fails the connection; so does any error.
Transmit(ps, c, full) ==
    LET S == Transmitted(ps, c, full) IN
    /\ packets' = Sent(ps, S)
    /\ \/ /\ S # {} \/ sendAck
          /\ sendWait' = SendFrequency
          /\ sendAck' = FALSE
          /\ UNCHANGED failed
       \/ /\ S = {} /\ ~sendAck
          /\ UNCHANGED <<sendWait, sendAck, failed>>
       \/ /\ ~responsive
          /\ S # {} \/ sendAck
          /\ failed' = "socket"
          /\ UNCHANGED <<sendWait, sendAck>>

\* A mistake: the first packet counts as data, and keep-alives stop.
KeepAliveOnce(c, full) ==
    IF packets = <<>> /\ factor = 0
    THEN /\ Transmit(<<Packet("empty", Head(free), 0)>>, c, full)
         /\ free' = Tail(free)
         /\ factor' = 1
         /\ emptyWait' = EmptyFrequency
    ELSE Transmit(packets, c, full) /\ UNCHANGED <<free, emptyWait, factor>>

\* Nothing to send: an empty packet when its time has come, the next one after
\* an interval that doubles with every one.
KeepAlive(c, full) ==
    IF packets = <<>> /\ emptyWait = 0
    THEN /\ Transmit(<<Packet("empty", Head(free), 0)>>, c, full)
         /\ free' = Tail(free)
         /\ factor' \in Shifted(factor)
         /\ \E times \in Shifted(factor') : emptyWait' = EmptyInterval(times)
    ELSE /\ Transmit(packets, c, full)
         /\ IF packets = <<>> THEN UNCHANGED <<emptyWait, factor>>
            ELSE emptyWait' = EmptyFrequency /\ factor' = 0
         /\ UNCHANGED free

\* New packets from the stream, if the status allows, or what KeepAlive says.
Fill(c, full) ==
    \/ KeepAlive(c, full)
    \/ /\ established
       /\ \E m \in SendCounts(c), skew \in 0 .. ClockSkew :
             /\ m > Len(packets)
             /\ Transmit(Queued(m, skew), c, full)
             /\ free' = SubSeq(free, m - Len(packets) + 1, Len(free))
       /\ emptyWait' = EmptyFrequency
       /\ factor' = 0

-----------------------------------------------------------------------------
(* SendMessages *)

Expired == silence > AckOutTime

\* The ack time-out: an interval without a valid ack uses up one retry.
CheckAckTimeout ==
    /\ silence' = IF Expired THEN 0 ELSE silence
    /\ ackRetry' = IF Expired THEN ackRetry - 1 ELSE ackRetry
    /\ UNCHANGED <<granted, quiet>>

\* A mistake: compares the retries before it takes one off.
TimesOutLate == Expired /\ ackRetry <= 0

\* The interval that used up the last retry fails the connection.
TimesOut == Expired /\ ackRetry - 1 <= 0

Idle == ~reading /\ failed = "no"

SendTimesOut ==
    /\ Idle /\ TimesOut
    /\ CheckAckTimeout
    /\ failed' = "timeout"
    /\ late' = 0
    /\ UNCHANGED <<established, windowVars, ackLast, paceVars, sendAck, reading,
                   responsive, owed>>

\* Called before m_dSendTime.
SendTooSoon ==
    /\ Idle /\ ~TimesOut /\ sendWait > 0
    /\ CheckAckTimeout
    /\ late' = 0
    /\ UNCHANGED <<established, windowVars, ackLast, paceVars, sendAck, reading,
                   responsive, failed, owed>>

\* A socket that takes what it is given when full > WindowSize.
SendNow(full) ==
    /\ Idle /\ ~TimesOut /\ sendWait = 0
    /\ CheckAckTimeout
    /\ cong' = Controlled
    /\ Fill(Controlled, full)
    /\ late' = 0
    /\ UNCHANGED <<established, begin, retryTime, ackLast, reading, responsive, owed>>

SendMessages ==
    \/ SendTimesOut
    \/ SendTooSoon
    \/ \E full \in 1 .. WindowSize + 1 : (responsive => full > WindowSize) /\ SendNow(full)

-----------------------------------------------------------------------------
(* ReceiveMessages *)

\* One packet acknowledged; most is twice what the window was.
Grow(c, most) ==
    LET more == IF c.window <= c.threshold THEN Scale
                ELSE (Scale * Scale + c.window - 1) \div c.window IN
    [c EXCEPT !.window = Least(@ + more, most)]

\* k packets acknowledged at once.
Grown[k \in 0 .. WindowSize] ==
    IF k = 0 THEN cong ELSE Grow(Grown[k - 1], Least(2 * cong.window, Top))

\* Whether the packet's round trip is measured.
Sampled(p) == p.buffer = 1

\* A valid ack sets back the time-out.
ValidAck == silence' = 0 /\ ackRetry' = 3 /\ granted' = 3 /\ quiet' = 0

\* A mistake: only the last packet's buffer is freed.
FreedLast(k) == <<packets[k].buffer>> \o free

\* The buffers of the first k packets, the last one freed on top.
Freed(k) == [i \in 1 .. k |-> packets[k + 1 - i].buffer] \o free

\* The first k packets are acknowledged.
Acknowledge(k) ==
    /\ begin' = Byte(begin + k)
    /\ packets' = SubSeq(packets, k + 1, Len(packets))
    /\ free' = Freed(k)
    /\ retryTime' \in IF retryTime = FirstRetryTime \/ \E i \in 1 .. k : Sampled(packets[i])
                      THEN RetryTimes ELSE {retryTime}

\* Whether an ack counts as one more of the same: m_btBegin - 1 is an int.
SameAck == ackLast = begin' - 1

\* The loop reads a packet whose ack covers the first k packets of the window,
\* all of them transmitted; k = 0 is an old ack. The status becomes established.
RecvPacket(k) ==
    /\ failed = "no"
    /\ k <= Len(packets)
    /\ \A i \in 1 .. k : packets[i].sends > 0
    /\ reading' = TRUE
    /\ established' = TRUE
    /\ IF k = 0 THEN UNCHANGED <<begin, packets, free, retryTime, timeoutVars, owed>>
       ELSE Acknowledge(k) /\ ValidAck /\ owed' = 0
    /\ cong' = [Grown[k] EXCEPT !.same = IF SameAck THEN Least(@ + 1, SameLimit) ELSE 0]
    /\ UNCHANGED <<ackLast, paceVars, sendAck, responsive, failed, late>>

\* The socket is empty, or the receive buffers are used up; packets that were
\* delivered ask for an ack.
RecvEnd ==
    /\ failed = "no" /\ reading
    /\ reading' = FALSE
    /\ cong' = IF packets = <<>> THEN [cong EXCEPT !.same = 0] ELSE cong
    /\ ackLast' = Byte(begin + SeqMod - 1)
    /\ sendAck' \in {sendAck, TRUE}
    /\ UNCHANGED <<established, begin, packets, free, retryTime, paceVars, timeoutVars,
                   responsive, failed, late, owed>>

\* recv fails.
RecvFails ==
    /\ failed = "no" /\ ~responsive
    /\ failed' = "socket"
    /\ UNCHANGED <<established, windowVars, ackLast, paceVars, sendAck, timeoutVars,
                   reading, responsive, late, owed>>

-----------------------------------------------------------------------------
(* Time *)

Sooner(t) == Greatest(t - 1, 0)

Owing == packets # <<>> /\ packets[1].sends > 0

\* Time passes between the operations of the I/O thread, which runs Update
\* within Lag ticks; a responsive peer answers within PeerLag.
Tick ==
    /\ Idle
    /\ late < Lag
    /\ responsive /\ Owing => owed < PeerLag
    /\ late' = late + 1
    /\ owed' = IF Owing /\ responsive THEN owed + 1 ELSE 0
    /\ sendWait' = Sooner(sendWait)
    /\ emptyWait' = Sooner(emptyWait)
    /\ packets' = [i \in DOMAIN packets |-> [packets[i] EXCEPT !.due = Sooner(@)]]
    /\ silence' = silence + 1
    /\ quiet' = quiet + 1
    /\ UNCHANGED <<established, begin, free, cong, retryTime, ackLast, factor, sendAck,
                   ackRetry, granted, reading, responsive, failed>>

Next ==
    \/ SendMessages
    \/ \E k \in 0 .. WindowSize : RecvPacket(k)
    \/ RecvEnd
    \/ RecvFails
    \/ Tick

Spec == Init /\ [][Next]_vars

\* The I/O thread ends what it reads. Time passes and Update is called, however
\* often packets arrive in between, and the socket takes a burst now and then.
FairSpec ==
    /\ Spec
    /\ WF_vars(RecvEnd)
    /\ SF_vars(Tick)
    /\ SF_vars(SendMessages)
    /\ SF_vars(SendNow(WindowSize + 1))

-----------------------------------------------------------------------------
(* Properties *)

Packets == [kind : {"data", "empty"}, buffer : 0 .. WindowSize - 1, sends : 0 .. 2, due : Nat]

\* Types of all variables.
TypeOK ==
    /\ {established, reading, responsive} \subseteq BOOLEAN /\ sendAck \in BOOLEAN
    /\ begin \in 0 .. SeqMod - 1 /\ ackLast \in 0 .. SeqMod - 1
    /\ packets \in Seq(Packets)
    /\ free \in Seq(0 .. WindowSize - 1)
    /\ cong \in [window : Int, threshold : Int, same : 0 .. SameLimit, quick : BOOLEAN]
    /\ retryTime \in RetryTimes \cup {FirstRetryTime}
    /\ sendWait \in Nat /\ emptyWait \in Nat /\ factor \in Nat
    /\ silence \in Nat /\ quiet \in Nat /\ ackRetry \in Int /\ granted \in {1, 3}
    /\ failed \in {"no", "timeout", "socket"}
    /\ late \in 0 .. Lag /\ owed \in Nat

\* However acks, equal acks, time-outs and quick retries follow each other, the
\* congestion window stays between two packets and the whole window.
CongestionInv ==
    /\ cong.window \in 2 * Scale .. Top
    /\ cong.threshold \in 2 * Scale .. Top

Buffers == free \o [i \in DOMAIN packets |-> packets[i].buffer]

\* Every send buffer is on the free list or in one packet of the window.
SendBuffersConserved ==
    /\ Len(Buffers) = WindowSize
    /\ \A b \in 0 .. WindowSize - 1 : \E i \in DOMAIN Buffers : Buffers[i] = b

\* The intervals the time-out has counted make up the time since the last valid
\* ack: each of them is longer than AckOutTime, by at most the delay of Update.
TimeoutInv ==
    LET counted == granted - ackRetry IN
    /\ ackRetry \in 0 .. granted
    /\ (ackRetry = 0) = (failed = "timeout")
    /\ quiet >= counted * (AckOutTime + 1) + silence
    /\ quiet <= counted * (AckOutTime + Lag) + silence
    /\ silence <= AckOutTime + late

\* A peer that is silent is noticed in time: after one interval if it was never
\* heard, else after three.
SilenceNoticed == failed = "no" => quiet <= granted * (AckOutTime + Lag)

\* The time-out never comes early.
NotTimedOutEarly == failed = "timeout" => quiet > granted * AckOutTime

\* The time-out comes neither late nor early, whatever acks reset of its three counters.
TimeoutInTime == SilenceNoticed /\ NotTimedOutEarly

\* A peer that answers is never timed out, however little the session sends:
\* keep-alives come often enough to be acknowledged in time.
ResponsiveKept == responsive => failed # "timeout"

\* The first packet of the window is transmitted again and again until it is
\* acknowledged: its retry time is set anew whenever it has run out.
HeadRetried == []<>(packets = <<>> \/ packets[1].due > 0 \/ failed # "no")

\* A connection to a peer that answers always has a next packet, idle or not: it
\* neither times out nor stops making keep-alives.
KeptAlive == responsive ~> packets # <<>>

=============================================================================
