------------------------- MODULE UdpTransportProofs --------------------------
(***************************************************************************)
(* Proofs about UdpTransport, for every window size, byte range, bound on  *)
(* the packets of a side and capacity of the network: first what the byte  *)
(* arithmetic of SlidingWindow decides, for every window and byte range    *)
(* that satisfy WindowAssumption, then the connection itself.              *)
(***************************************************************************)
EXTENDS UdpTransport, FiniteSetTheorems, TLAPS

------------------------------------------------------------------------------
(* The byte arithmetic of SlidingWindow *)

\* Integer division: every integer is quotient times modulus plus remainder.
LEMMA DivMod ==
    ASSUME NEW a \in Int, NEW m \in Nat \ {0}
    PROVE  /\ a % m \in 0 .. (m - 1)
           /\ a \div m \in Int
           /\ a = m * (a \div m) + (a % m)
  BY SMTT(20)

\* The remainder of a number that is written as multiple plus remainder.
LEMMA ModUnique ==
    ASSUME NEW m \in Nat \ {0}, NEW k \in Int, NEW r \in 0 .. (m - 1)
    PROVE  (m * k + r) % m = r
  BY SMTT(20)

\* The only multiple of m strictly between -m and m is zero.
LEMMA SmallMultiple ==
    ASSUME NEW m \in Nat \ {0}, NEW k \in Int, m * k < m, m * k > -m
    PROVE  k = 0
  BY SMTT(20)

\* Two numbers less than m apart with one remainder are the same number.
LEMMA ModInjective ==
    ASSUME NEW m \in Nat \ {0}, NEW x \in Int, NEW y \in Int,
           x % m = y % m, x - y < m, y - x < m
    PROVE  x = y
  <1> DEFINE p == x \div m
             q == y \div m
  <1>1. /\ p \in Int /\ q \in Int
        /\ x % m \in Int
        /\ x = m * p + (x % m)
        /\ y = m * q + (y % m)
    BY DivMod
  <1> HIDE DEF p, q
  <1>2. x - y = m * (p - q)
    BY <1>1
  <1>3. p - q = 0
    BY <1>1, <1>2, SmallMultiple
  <1>4. QED
    BY <1>1, <1>3

\* Dropping the byte's high part does not change the slot: SeqMod is a
\* multiple of WindowSize.
LEMMA SlotIsMod ==
    ASSUME NEW n \in Int
    PROVE  SlotOf(n) = n % WindowSize
  <1> DEFINE c == SeqMod \div WindowSize
             q == n \div SeqMod
             r == n % SeqMod
             d == r \div WindowSize
             s == r % WindowSize
  <1>1. /\ WindowSize \in Nat \ {0} /\ SeqMod \in Nat \ {0}
        /\ SeqMod % WindowSize = 0
    BY WindowAssumption
  <1>2. c \in Int /\ SeqMod = WindowSize * c
    BY <1>1, DivMod
  <1>3. q \in Int /\ r \in Int /\ n = SeqMod * q + r
    BY <1>1, DivMod
  <1>4. d \in Int /\ s \in 0 .. (WindowSize - 1) /\ r = WindowSize * d + s
    BY <1>1, <1>3, DivMod
  <1>5. SlotOf(n) = s
    BY DEF SlotOf, Byte
  <1> HIDE DEF c, q, r, d, s
  <1>6. SeqMod * q = WindowSize * (c * q)
    BY <1>1, <1>2, <1>3
  <1>7. n = WindowSize * (c * q + d) + s
    BY <1>1, <1>2, <1>3, <1>4, <1>6
  <1>8. c * q + d \in Int
    BY <1>2, <1>3, <1>4
  <1>9. n % WindowSize = s
    BY <1>1, <1>4, <1>7, <1>8, ModUnique
  <1>10. QED
    BY <1>5, <1>9

\* A slot is one of the window's slots.
LEMMA SlotInRange ==
    ASSUME NEW n \in Int
    PROVE  SlotOf(n) \in Slots
  BY SlotIsMod, DivMod, WindowAssumption DEF Slots

\* Inside one window no two packets share a slot.
LEMMA SlotInjective ==
    ASSUME NEW x \in Int, NEW y \in Int,
           SlotOf(x) = SlotOf(y), x - y < WindowSize, y - x < WindowSize
    PROVE  x = y
  BY SlotIsMod, ModInjective, WindowAssumption

\* Numbers one window apart share a slot.
LEMMA SlotPeriodic ==
    ASSUME NEW n \in Int
    PROVE  SlotOf(n + WindowSize) = SlotOf(n)
  <1> DEFINE q == n \div WindowSize
             r == n % WindowSize
  <1>1. WindowSize \in Nat \ {0}
    BY WindowAssumption
  <1>2. q \in Int /\ r \in 0 .. (WindowSize - 1) /\ n = WindowSize * q + r
    BY <1>1, DivMod
  <1>3. SlotOf(n) = r /\ SlotOf(n + WindowSize) = (n + WindowSize) % WindowSize
    BY <1>1, SlotIsMod
  <1> HIDE DEF q, r
  <1>4. n + WindowSize = WindowSize * (q + 1) + r
    BY <1>1, <1>2
  <1>5. (n + WindowSize) % WindowSize = r
    BY <1>1, <1>2, <1>4, ModUnique
  <1>6. QED
    BY <1>3, <1>5

\* The byte offset from b to s is s - b modulo SeqMod.
LEMMA OffsetIsMod ==
    ASSUME NEW s \in Int, NEW b \in Int
    PROVE  Offset(Byte(s), b) = (s - b) % SeqMod
  <1> DEFINE p == s \div SeqMod
             x == s % SeqMod
             q == b \div SeqMod
             y == b % SeqMod
             k == (s - b) \div SeqMod
             r == (s - b) % SeqMod
  <1>1. SeqMod \in Nat \ {0}
    BY WindowAssumption
  <1>2. p \in Int /\ x \in Int /\ s = SeqMod * p + x
    BY <1>1, DivMod
  <1>3. q \in Int /\ y \in Int /\ b = SeqMod * q + y
    BY <1>1, DivMod
  <1>4. k \in Int /\ r \in 0 .. (SeqMod - 1) /\ s - b = SeqMod * k + r
    BY <1>1, DivMod
  <1>5. Offset(Byte(s), b) = (x - y) % SeqMod
    BY DEF Offset, Byte
  <1> HIDE DEF p, x, q, y, k, r
  <1>6. x - y = SeqMod * (k - p + q) + r
    BY <1>1, <1>2, <1>3, <1>4
  <1>7. (x - y) % SeqMod = r
    BY <1>1, <1>2, <1>3, <1>4, <1>6, ModUnique
  <1>8. QED
    BY <1>5, <1>7 DEF r

\* Reading a byte back: a number inside the window from b has its offset, and
\* a number that has left the window by no more than SeqMod - WindowSize
\* decodes to an offset outside the window.
THEOREM DecodeExact ==
    ASSUME NEW s \in Int, NEW b \in Int,
           s - b < WindowSize, b - s <= SeqMod - WindowSize
    PROVE  /\ s >= b => Offset(Byte(s), b) = s - b
           /\ s < b => Offset(Byte(s), b) >= WindowSize
  <1>1. SeqMod \in Nat \ {0} /\ WindowSize \in Nat \ {0} /\ WindowSize < SeqMod
    BY WindowAssumption
  <1>2. Offset(Byte(s), b) = (s - b) % SeqMod
    BY OffsetIsMod
  <1>3. ASSUME s >= b
        PROVE  (s - b) % SeqMod = s - b
    <2>1. s - b \in 0 .. (SeqMod - 1) /\ s - b = SeqMod * 0 + (s - b)
      BY <1>1, <1>3
    <2>2. QED
      BY <1>1, <2>1, ModUnique
  <1>4. ASSUME s < b
        PROVE  (s - b) % SeqMod >= WindowSize
    <2> DEFINE r == s - b + SeqMod
    <2>1. r \in 0 .. (SeqMod - 1) /\ r >= WindowSize /\ s - b = SeqMod * (-1) + r
      BY <1>1, <1>4
    <2> HIDE DEF r
    <2>2. (s - b) % SeqMod = r
      BY <1>1, <2>1, ModUnique
    <2>3. QED
      BY <1>1, <2>1, <2>2
  <1>5. QED
    BY <1>2, <1>3, <1>4

\* IsValidIndex on bytes is membership of the number in the window, for every
\* window of at most WindowSize packets and every number that is not too old.
THEOREM ValidIndexExact ==
    ASSUME NEW s \in Int, NEW b \in Int, NEW e \in Int,
           b <= e, e - b <= WindowSize, s < e, b - s <= SeqMod - WindowSize
    PROVE  /\ IsValidIndex(Byte(s), b, e) <=> s >= b
           /\ s >= b => Offset(Byte(s), b) = s - b
  <1>1. SeqMod \in Nat \ {0} /\ WindowSize \in Nat \ {0} /\ WindowSize < SeqMod
    BY WindowAssumption
  <1>2. Offset(Byte(e), b) = e - b
    <2>1. e - b \in 0 .. (SeqMod - 1) /\ e - b = SeqMod * 0 + (e - b)
      BY <1>1
    <2>2. (e - b) % SeqMod = e - b
      BY <1>1, <2>1, ModUnique
    <2>3. QED
      BY <2>2, OffsetIsMod
  <1>3. /\ s >= b => Offset(Byte(s), b) = s - b
        /\ s < b => Offset(Byte(s), b) >= WindowSize
    BY <1>1, DecodeExact
  <1>4. Offset(Byte(s), b) \in Int
    BY <1>1, OffsetIsMod, DivMod
  <1>5. QED
    BY <1>1, <1>2, <1>3, <1>4 DEF IsValidIndex

------------------------------------------------------------------------------
(* Small facts *)

\* The peer of the peer is oneself.
LEMMA EndsFacts ==
    ASSUME NEW e \in Ends
    PROVE  /\ Peer(e) \in Ends
           /\ Peer(Peer(e)) = e
           /\ Peer(e) # e
           /\ \A d \in Ends : d # e => d = Peer(e)
  BY DEF Ends, Peer, Client, Server

\* The sizes are numbers, and the window is smaller than the byte range.
LEMMA WindowSizeFacts ==
    /\ WindowSize \in Nat \ {0}
    /\ SeqMod \in Nat \ {0}
    /\ WindowSize < SeqMod
  BY WindowAssumption

\* A byte is one.
LEMMA ByteInRange ==
    ASSUME NEW n \in Int
    PROVE  Byte(n) \in 0 .. SeqMod - 1
  BY DivMod, WindowSizeFacts DEF Byte

\* The slot computed from a header's byte is the slot of the packet.
LEMMA SlotOfByte ==
    ASSUME NEW n \in Int
    PROVE  SlotOf(Byte(n)) = SlotOf(n)
  <1>1. Byte(n) \in 0 .. SeqMod - 1
    BY ByteInRange
  <1>2. Byte(n) = SeqMod * 0 + Byte(n)
    BY <1>1, WindowSizeFacts
  <1>3. Byte(Byte(n)) = Byte(n)
    BY <1>1, <1>2, ModUnique, WindowSizeFacts DEF Byte
  <1>4. QED
    BY <1>3 DEF SlotOf

\* The types of the counters of one end, and of what follows from them.
LEMMA CounterTypes ==
    ASSUME TypeOK, NEW e \in Ends
    PROVE  /\ sendBegin[e] \in Nat \ {0} /\ sendBegin[e] - 1 \in Nat
           /\ sendEnd[e] \in Nat \ {0} /\ sendEnd[e] - 1 \in 0 .. sendEnd[e] - 1
           /\ recvBegin[e] \in Nat \ {0} /\ recvBegin[e] - 1 \in Nat
           /\ SlotOf(sendEnd[e]) \in Slots
           /\ SlotOf(recvBegin[e]) \in Slots
  <1>1. /\ sendBegin[e] \in Nat \ {0}
        /\ sendEnd[e] \in Nat \ {0}
        /\ recvBegin[e] \in Nat \ {0}
    BY DEF TypeOK
  <1>2. QED
    BY <1>1, SlotInRange

\* The history's counts are defined up to the last packet.
LEMMA ChunkCountType ==
    ASSUME TypeOK, NEW e \in Ends, NEW n \in 0 .. sendEnd[e] - 1
    PROVE  ChunkCount(e, n) \in Nat
  <1>1. chunks[e] \in Seq(Nat) /\ Len(chunks[e]) = sendEnd[e] - 1
    BY DEF TypeOK
  <1>2. n # 0 => n \in 1 .. Len(chunks[e])
    BY <1>1
  <1>3. QED
    BY <1>1, <1>2 DEF ChunkCount

\* Taking a chunk keeps the types of the history.
LEMMA AppendHistory ==
    ASSUME TypeOK, NEW e \in Ends, NEW k \in Nat,
           chunks' = [chunks EXCEPT ![e] = Append(@, k)],
           sendEnd' = [sendEnd EXCEPT ![e] = @ + 1]
    PROVE  /\ chunks' \in [Ends -> Seq(Nat)]
           /\ \A d \in Ends : Len(chunks'[d]) = sendEnd'[d] - 1
  BY SMTT(30) DEF TypeOK

\* The packets an end with a BufferContral makes are datagrams.
LEMMA PacketType ==
    ASSUME TypeOK, NEW e \in Ends, status[e] # ABSENT, NEW n \in Nat, NEW k \in Nat
    PROVE  Packet(e, n, k) \in Datagram
  <1>1. recvBegin[e] - 1 \in Nat /\ status[e] \in Status \ {ABSENT}
    BY DEF TypeOK
  <1>2. Byte(n) \in 0 .. SeqMod - 1 /\ Byte(recvBegin[e] - 1) \in 0 .. SeqMod - 1
    BY <1>1, ByteInRange
  <1>3. QED
    BY <1>1, <1>2 DEF Packet, Datagram

\* A byte difference is a natural number.
LEMMA OffsetType ==
    ASSUME NEW b \in Int, NEW n \in Int
    PROVE  Offset(b, n) \in Nat
  <1>1. Byte(n) \in Int
    BY ByteInRange, WindowSizeFacts
  <1>2. b - Byte(n) \in Int
    BY <1>1
  <1>3. (b - Byte(n)) % SeqMod \in 0 .. SeqMod - 1
    BY <1>2, DivMod, WindowSizeFacts
  <1>4. QED
    BY <1>3, WindowSizeFacts DEF Offset

------------------------------------------------------------------------------
(* Type correctness *)

\* Every variable keeps its type, whatever the memory of new connectors.
THEOREM TypeCorrect == Spec => []TypeOK
  <1>1. Init => TypeOK
    <2> SUFFICES ASSUME Init PROVE TypeOK
      OBVIOUS
    <2>1. SlotGarbage \subseteq {Empty, Stale}
      BY BoundAssumption
    <2>2. recvSlot \in [Ends -> [Slots -> Nat \cup {Empty, Stale}]]
      BY <2>1 DEF Init
    <2>3. QED
      BY <2>2, WindowSizeFacts
      DEF TypeOK, Init, Status, Errors, ABSENT, ST_SYN_SEND, NoError, NoData
  <1>2. TypeOK /\ [Next]_vars => TypeOK'
    <2> SUFFICES ASSUME TypeOK, [Next]_vars PROVE TypeOK'
      OBVIOUS
    <2> USE DEF endVars, sendVars, recvVars
    <2>1. CASE Accept
      BY <2>1 DEF TypeOK, Accept, Status, ST_SYN_RECV
    <2>2. ASSUME NEW e \in Ends, Send(e) PROVE TypeOK'
      <3> DEFINE next == ChunkCount(e, sendEnd[e] - 1) + 1
      <3>1. next \in Nat /\ SlotOf(sendEnd[e]) \in Slots
        BY ChunkCountType, CounterTypes
      <3> HIDE DEF next
      <3>2. sendSlot' \in [Ends -> [Slots -> Nat]] /\ sendEnd' \in [Ends -> Nat \ {0}]
        BY <2>2, <3>1, SMTT(30) DEF TypeOK, Send, Add2SendWindow, next
      <3>3. /\ chunks' = [chunks EXCEPT ![e] = Append(@, next)]
            /\ sendEnd' = [sendEnd EXCEPT ![e] = @ + 1]
        BY <2>2 DEF Send, Add2SendWindow, next
      <3>4. /\ chunks' \in [Ends -> Seq(Nat)]
            /\ \A d \in Ends : Len(chunks'[d]) = sendEnd'[d] - 1
        BY <3>1, <3>3, AppendHistory
      <3>5. QED
        BY <2>2, <3>2, <3>4 DEF TypeOK, Send
    <2>3. ASSUME NEW e \in Ends, SendEmpty(e) PROVE TypeOK'
      <3> DEFINE last == ChunkCount(e, sendEnd[e] - 1)
      <3>1. last \in Nat /\ SlotOf(sendEnd[e]) \in Slots
        BY ChunkCountType, CounterTypes
      <3> HIDE DEF last
      <3>2. sendSlot' \in [Ends -> [Slots -> Nat]] /\ sendEnd' \in [Ends -> Nat \ {0}]
        BY <2>3, <3>1 DEF TypeOK, SendEmpty, Add2SendWindow, NoData
      <3>3. /\ chunks' = [chunks EXCEPT ![e] = Append(@, last)]
            /\ sendEnd' = [sendEnd EXCEPT ![e] = @ + 1]
        BY <2>3 DEF SendEmpty, Add2SendWindow, last
      <3>4. /\ chunks' \in [Ends -> Seq(Nat)]
            /\ \A d \in Ends : Len(chunks'[d]) = sendEnd'[d] - 1
        BY <3>1, <3>3, AppendHistory
      <3>5. QED
        BY <2>3, <3>2, <3>4 DEF TypeOK, SendEmpty
    <2>4. ASSUME NEW e \in Ends, Transmit(e) PROVE TypeOK'
      <3>1. PICK due \in SUBSET (sendBegin[e] .. sendEnd[e] - 1) :
              net' \subseteq net \cup
                  (IF due = {} /\ sendAck[e]
                   THEN {Packet(e, sendBegin[e] - 1, NoData)}
                   ELSE {Packet(e, n, sendSlot[e][SlotOf(n)]) : n \in due})
        BY <2>4 DEF Transmit, Sent
      <3>2. status[e] # ABSENT
        BY <2>4 DEF Transmit, Active
      <3>3. Packet(e, sendBegin[e] - 1, NoData) \in Datagram
        <4>1. NoData \in Nat
          BY DEF NoData
        <4>2. QED
          BY <3>2, <4>1, CounterTypes, PacketType
      <3>4. ASSUME NEW n \in due
            PROVE  Packet(e, n, sendSlot[e][SlotOf(n)]) \in Datagram
        <4>1. n \in Nat
          BY CounterTypes
        <4>2. SlotOf(n) \in Slots
          BY <4>1, SlotInRange
        <4>3. sendSlot[e][SlotOf(n)] \in Nat
          BY <4>2 DEF TypeOK
        <4>4. QED
          BY <3>2, <4>1, <4>3, PacketType
      <3>5. net' \in SUBSET Datagram
        <4>1. net \subseteq Datagram
          BY DEF TypeOK
        <4>2. QED
          BY <3>1, <3>3, <3>4, <4>1
      <3>6. QED
        BY <2>4, <3>5 DEF TypeOK, Transmit
    <2>5. ASSUME NEW e \in Ends, NEW p \in net, RecvPacket(e, p) PROVE TypeOK'
      <3>1. p \in Datagram
        BY DEF TypeOK
      <3>2. p.syn \in Int /\ p.ack \in Int /\ p.payload \in Nat
        BY <3>1, WindowSizeFacts DEF Datagram
      <3>3. sendBegin' \in [Ends -> Nat \ {0}]
        <4>1. sendBegin[e] \in Int
          BY CounterTypes
        <4>2. Offset(p.ack, sendBegin[e]) \in Nat
          BY <3>2, <4>1, OffsetType
        <4>3. QED
          BY <2>5, <4>2 DEF TypeOK, RecvPacket
      <3>4. recvSlot' \in [Ends -> [Slots -> Nat \cup {Empty, Stale}]]
        BY <2>5, <3>2 DEF TypeOK, RecvPacket, Opens, Stores
      <3>5. recvFree' \in [Ends -> Nat]
        BY <2>5 DEF TypeOK, RecvPacket
      <3>6. /\ status' \in [Ends -> Status]
            /\ connected' \in [Ends -> BOOLEAN]
            /\ received' \in [Ends -> BOOLEAN]
        BY <2>5 DEF TypeOK, RecvPacket, Opens, Stores, AfterRead, Status, ST_ESTABLISHED
      <3>7. pc' \in [Ends -> {"idle", "stream", "transmit", "read", "deliver"}]
        BY <2>5 DEF TypeOK, RecvPacket, AfterRead
      <3>8. UNCHANGED <<error, sendEnd, sendSlot, chunks, recvBegin, delivered,
                        sendAck, net>>
        BY <2>5 DEF RecvPacket
      <3>9. QED
        BY <3>3, <3>4, <3>5, <3>6, <3>7, <3>8 DEF TypeOK
    <2>6. ASSUME NEW e \in Ends, RecvNoBuffer(e) PROVE TypeOK'
      BY <2>6 DEF TypeOK, RecvNoBuffer, Errors, AllocBuff
    <2>7. ASSUME NEW e \in Ends, RecvAgain(e) PROVE TypeOK'
      BY <2>7 DEF TypeOK, RecvAgain
    <2>8. ASSUME NEW e \in Ends, Deliver(e) PROVE TypeOK'
      <3> DEFINE data == recvSlot[e][SlotOf(recvBegin[e])]
      <3>1. data \in Nat \cup {Stale}
        BY <2>8, CounterTypes DEF TypeOK, Deliver
      <3>2. delivered' = [delivered EXCEPT ![e] =
                             IF data = NoData THEN @ ELSE Append(@, data)]
        BY <2>8 DEF Deliver
      <3>3. delivered' \in [Ends -> Seq(Nat \cup {Stale})]
        <4> HIDE DEF data
        <4>1. QED
          BY <3>1, <3>2, SMTT(30) DEF TypeOK
      <3>4. recvSlot' \in [Ends -> [Slots -> Nat \cup {Empty, Stale}]]
        BY <2>8 DEF TypeOK, Deliver
      <3>5. /\ recvFree' \in [Ends -> Nat]
            /\ recvBegin' \in [Ends -> Nat \ {0}]
            /\ sendAck' \in [Ends -> BOOLEAN]
        BY <2>8 DEF TypeOK, Deliver
      <3>6. UNCHANGED <<endVars, sendVars, received, net>>
        BY <2>8 DEF Deliver
      <3>7. QED
        BY <3>3, <3>4, <3>5, <3>6 DEF TypeOK
    <2>9. ASSUME NEW e \in Ends, DeliverDone(e) PROVE TypeOK'
      BY <2>9 DEF TypeOK, DeliverDone
    <2>10. ASSUME NEW e \in Ends, Fail(e) PROVE TypeOK'
      BY <2>10 DEF TypeOK, Fail, Errors, Closed
    <2>11. ASSUME NEW p \in net, Lose(p) PROVE TypeOK'
      BY <2>11 DEF TypeOK, Lose
    <2>12. CASE UNCHANGED vars
      BY <2>12 DEF TypeOK, vars
    <2>13. QED
      BY <2>1, <2>2, <2>3, <2>4, <2>5, <2>6, <2>7, <2>8, <2>9, <2>10,
         <2>11, <2>12 DEF Next
  <1>3. QED
    BY <1>1, <1>2, PTL DEF Spec

------------------------------------------------------------------------------
(* In-order delivery: every action preserves SafetyInv *)

\* Appending a packet leaves the history of the earlier ones as it was.
LEMMA HistoryKept ==
    ASSUME TypeOK, NEW e \in Ends, NEW k \in Nat,
           chunks' = [chunks EXCEPT ![e] = Append(@, k)]
    PROVE  /\ \A d \in Ends : \A n \in 0 .. sendEnd[d] - 1 :
                 ChunkCount(d, n)' = ChunkCount(d, n)
           /\ \A d \in Ends : \A n \in 1 .. sendEnd[d] - 1 :
                 PayloadAt(d, n)' = PayloadAt(d, n)
           /\ \A n \in Nat : n = sendEnd[e] => ChunkCount(e, n)' = k
           /\ \A d \in Ends \ {e} : chunks'[d] = chunks[d]
  <1>1. /\ chunks \in [Ends -> Seq(Nat)]
        /\ \A d \in Ends : Len(chunks[d]) = sendEnd[d] - 1
        /\ sendEnd \in [Ends -> Nat \ {0}]
    BY DEF TypeOK
  <1>2. /\ \A n \in 1 .. sendEnd[e] - 1 : chunks'[e][n] = chunks[e][n]
        /\ chunks'[e][sendEnd[e]] = k
        /\ \A d \in Ends \ {e} : chunks'[d] = chunks[d]
    BY <1>1
  <1>3. \A d \in Ends : \A n \in 0 .. sendEnd[d] - 1 :
           ChunkCount(d, n)' = ChunkCount(d, n)
    BY <1>1, <1>2 DEF ChunkCount
  <1>4. \A d \in Ends : \A n \in 1 .. sendEnd[d] - 1 :
           /\ n \in 0 .. sendEnd[d] - 1
           /\ n - 1 \in 0 .. sendEnd[d] - 1
    BY <1>1
  <1>5. \A d \in Ends : \A n \in 1 .. sendEnd[d] - 1 :
           PayloadAt(d, n)' = PayloadAt(d, n)
    BY <1>3, <1>4 DEF PayloadAt
  <1>6. \A n \in Nat : n = sendEnd[e] => ChunkCount(e, n)' = k
    BY <1>1, <1>2 DEF ChunkCount
  <1>7. QED
    BY <1>2, <1>3, <1>5, <1>6

\* A receive window begins inside, or just behind, its sender's history.
LEMMA RecvBeginBound ==
    ASSUME TypeOK, WindowAgreement, NEW e \in Ends
    PROVE  /\ Peer(e) \in Ends
           /\ recvBegin[e] <= sendEnd[Peer(e)]
           /\ recvBegin[e] - 1 \in 0 .. sendEnd[Peer(e)] - 1
           /\ sendBegin[Peer(e)] <= recvBegin[e]
           /\ sendEnd[Peer(e)] <= recvBegin[e] + WindowSize
  <1>1. Peer(e) \in Ends /\ Peer(Peer(e)) = e
    BY EndsFacts
  <1>2. /\ sendBegin[Peer(e)] <= recvBegin[e]
        /\ recvBegin[e] <= sendEnd[Peer(e)]
        /\ sendEnd[Peer(e)] - sendBegin[Peer(e)] <= WindowSize
    BY <1>1 DEF WindowAgreement
  <1>3. /\ sendBegin[Peer(e)] \in Nat /\ sendEnd[Peer(e)] \in Nat
        /\ recvBegin[e] \in Nat \ {0}
    BY <1>1 DEF TypeOK
  <1>4. QED
    BY <1>1, <1>2, <1>3, WindowSizeFacts

\* A packet is added to the send window, with a chunk (Send) or without one
\* (SendEmpty).
LEMMA AddPacketStep ==
    ASSUME TypeOK, SafetyInv, NEW e \in Ends, NEW k \in Nat, NEW payload \in Nat,
           SendFree(e) > 0,
           Add2SendWindow(e, payload),
           chunks' = [chunks EXCEPT ![e] = Append(@, k)],
           \/ k = ChunkCount(e, sendEnd[e] - 1) /\ payload = NoData
           \/ /\ k = ChunkCount(e, sendEnd[e] - 1) + 1 /\ payload = k
              /\ status[e] = ST_ESTABLISHED,
           status[e] = ST_ESTABLISHED \/ sendBegin[e] = sendEnd[e],
           NEW x \in {"stream", "transmit"}, pc' = [pc EXCEPT ![e] = x],
           UNCHANGED <<status, connected, sendBegin, recvBegin, recvSlot,
                       received, delivered, net>>
    PROVE  SafetyInv'
  <1>1. PICK last \in Nat \ {0} : last = sendEnd[e]
    BY DEF TypeOK
  <1>2. /\ sendBegin \in [Ends -> Nat \ {0}] /\ sendEnd \in [Ends -> Nat \ {0}]
        /\ recvBegin \in [Ends -> Nat \ {0}]
        /\ sendSlot \in [Ends -> [Slots -> Nat]]
        /\ net \in SUBSET Datagram
    BY DEF TypeOK
  <1>3. /\ sendSlot' = [sendSlot EXCEPT ![e][SlotOf(last)] = payload]
        /\ sendEnd' = [sendEnd EXCEPT ![e] = last + 1]
        /\ sendBegin' = sendBegin /\ recvBegin' = recvBegin
    BY <1>1 DEF Add2SendWindow
  <1>4. last < sendBegin[e] + WindowSize
    BY <1>1, <1>2, WindowSizeFacts DEF SendFree
  <1>5. /\ \A d \in Ends : \A n \in 0 .. sendEnd[d] - 1 :
              ChunkCount(d, n)' = ChunkCount(d, n)
        /\ \A d \in Ends : \A n \in 1 .. sendEnd[d] - 1 :
              PayloadAt(d, n)' = PayloadAt(d, n)
        /\ ChunkCount(e, last)' = k
        /\ \A d \in Ends \ {e} : chunks'[d] = chunks[d]
    BY <1>1, HistoryKept
  <1>6. ChunkCount(e, last - 1) \in Nat /\ ChunkCount(e, last - 1)' = ChunkCount(e, last - 1)
    <2>1. last - 1 \in 0 .. sendEnd[e] - 1
      BY <1>1
    <2>2. QED
      BY <1>5, <2>1, ChunkCountType
  <1>7. PayloadAt(e, last)' = payload
    BY <1>1, <1>5, <1>6 DEF PayloadAt, NoData
  <1>8. WindowAgreement'
    <2>1. ASSUME NEW d \in Ends
          PROVE  /\ sendBegin'[d] <= recvBegin'[Peer(d)]
                 /\ recvBegin'[Peer(d)] <= sendEnd'[d]
                 /\ sendEnd'[d] - sendBegin'[d] <= WindowSize
      <3>1. /\ sendBegin[d] <= recvBegin[Peer(d)]
            /\ recvBegin[Peer(d)] <= sendEnd[d]
            /\ sendEnd[d] - sendBegin[d] <= WindowSize
        BY DEF SafetyInv, WindowAgreement
      <3>2. /\ sendBegin[d] \in Nat /\ sendEnd[d] \in Nat
            /\ recvBegin[Peer(d)] \in Nat
            /\ sendEnd'[d] = IF d = e THEN last + 1 ELSE sendEnd[d]
        BY <1>2, <1>3, EndsFacts
      <3>3. QED
        BY <1>1, <1>3, <1>4, <3>1, <3>2, WindowSizeFacts
    <2>2. QED
      BY <2>1 DEF WindowAgreement
  <1>9. HistoryInv'
    <2>1. ASSUME NEW d \in Ends, NEW n \in 1 .. sendEnd'[d] - 1
          PROVE  \/ chunks'[d][n] = ChunkCount(d, n - 1)'
                 \/ chunks'[d][n] = ChunkCount(d, n - 1)' + 1
      <3>1. CASE d = e /\ n = last
        <4>1. chunks'[d][n] = k
          BY <1>1, <1>5, <3>1 DEF ChunkCount
        <4>2. QED
          BY <1>1, <1>6, <3>1, <4>1
      <3>2. CASE ~(d = e /\ n = last)
        <4>1. n \in 1 .. sendEnd[d] - 1 /\ n \in 0 .. sendEnd[d] - 1 /\ n - 1 \in 0 .. sendEnd[d] - 1
          BY <1>1, <1>2, <1>3, <3>2
        <4>2. chunks'[d][n] = chunks[d][n]
          <5>1. ChunkCount(d, n)' = ChunkCount(d, n) /\ n # 0
            BY <1>5, <4>1
          <5>2. QED
            BY <5>1 DEF ChunkCount
        <4>3. QED
          BY <1>5, <4>1, <4>2 DEF SafetyInv, HistoryInv
      <3>3. QED
        BY <3>1, <3>2
    <2>2. ASSUME NEW d \in Ends, NEW m \in 0 .. sendEnd'[d] - 1,
                 NEW n \in 0 .. sendEnd'[d] - 1, m <= n
          PROVE  ChunkCount(d, m)' <= ChunkCount(d, n)'
      <3>1. CASE ~(d = e /\ n = last)
        <4>1. m \in 0 .. sendEnd[d] - 1 /\ n \in 0 .. sendEnd[d] - 1
          BY <1>1, <1>2, <1>3, <2>2, <3>1
        <4>2. QED
          BY <1>5, <2>2, <4>1 DEF SafetyInv, HistoryInv
      <3>2. CASE d = e /\ n = last /\ m = last
        BY <1>5, <3>2
      <3>3. CASE d = e /\ n = last /\ m # last
        <4>1. m \in 0 .. sendEnd[e] - 1 /\ last - 1 \in 0 .. sendEnd[e] - 1 /\ m <= last - 1
          BY <1>1, <1>2, <1>3, <2>2, <3>3
        <4>2. ChunkCount(e, m) <= ChunkCount(e, last - 1)
          BY <4>1 DEF SafetyInv, HistoryInv
        <4>3. ChunkCount(e, m) \in Nat /\ ChunkCount(e, m)' = ChunkCount(e, m)
          BY <1>5, <4>1, ChunkCountType
        <4>4. ChunkCount(e, last - 1) <= k
          BY <1>1, <1>6
        <4>5. QED
          BY <1>5, <1>6, <3>3, <4>2, <4>3, <4>4
      <3>4. QED
        BY <3>1, <3>2, <3>3
    <2>3. QED
      BY <2>1, <2>2 DEF HistoryInv
  <1>10. SendInv'
    <2>1. ASSUME NEW d \in Ends, NEW n \in sendBegin'[d] .. sendEnd'[d] - 1
          PROVE  sendSlot'[d][SlotOf(n)] = PayloadAt(d, n)'
      <3>1. CASE d = e /\ n = last
        BY <1>2, <1>3, <1>7, <3>1, SlotInRange
      <3>2. CASE ~(d = e /\ n = last)
        <4>1. n \in sendBegin[d] .. sendEnd[d] - 1 /\ n \in 1 .. sendEnd[d] - 1
          BY <1>1, <1>2, <1>3, <3>2
        <4>2. d = e => SlotOf(n) # SlotOf(last)
          <5>1. d = e => last - n < WindowSize /\ n - last < WindowSize /\ n # last
            BY <1>1, <1>2, <1>4, <4>1, WindowSizeFacts
          <5>2. QED
            BY <5>1, SlotInjective
        <4>3. sendSlot'[d][SlotOf(n)] = sendSlot[d][SlotOf(n)]
          BY <1>2, <1>3, <4>2
        <4>4. QED
          BY <1>5, <4>1, <4>3 DEF SafetyInv, SendInv
      <3>3. QED
        BY <3>1, <3>2
    <2>2. ASSUME NEW d \in Ends, ChunkCount(d, sendEnd[d] - 1)' > 0
          PROVE  status'[d] = ST_ESTABLISHED
      <3>1. CASE d = e
        <4>1. ChunkCount(e, last)' > 0
          <5>1. sendEnd'[d] - 1 = last
            BY <1>1, <1>2, <1>3, <3>1
          <5>2. QED
            BY <2>2, <3>1, <5>1 DEF ChunkCount
        <4>2. QED
          BY <1>1, <1>5, <3>1, <4>1 DEF SafetyInv, SendInv
      <3>2. CASE d # e
        <4>1. ChunkCount(d, sendEnd[d] - 1) > 0
          <5>1. sendEnd'[d] = sendEnd[d] /\ chunks'[d] = chunks[d]
            BY <1>2, <1>3, <1>5, <3>2
          <5>2. QED
            BY <2>2, <5>1 DEF ChunkCount
        <4>2. QED
          BY <4>1 DEF SafetyInv, SendInv
      <3>3. QED
        BY <3>1, <3>2
    <2>3. ASSUME NEW d \in Ends, status'[d] # ST_ESTABLISHED
          PROVE  sendBegin'[d] = 1 /\ sendEnd'[d] <= 2
      <3>1. sendBegin[d] = 1 /\ sendEnd[d] <= 2
        BY <2>3 DEF SafetyInv, SendInv
      <3>2. sendEnd'[d] = IF d = e THEN last + 1 ELSE sendEnd[d]
        BY <1>2, <1>3
      <3>3. d = e => last = 1
        BY <1>1, <2>3, <3>1
      <3>4. QED
        BY <1>3, <3>1, <3>2, <3>3
    <2>4. QED
      BY <2>1, <2>2, <2>3 DEF SendInv
  <1>11. NetInv'
    <2> SUFFICES ASSUME NEW p \in net
                 PROVE  /\ p.syn = Byte(p.seq)
                        /\ p.ack = Byte(p.ackSeq)
                        /\ p.seq < sendEnd'[p.src]
                        /\ p.ackSeq < recvBegin'[p.src]
                        /\ \/ p.seq < recvBegin'[Peer(p.src)]
                           \/ p.payload = PayloadAt(p.src, p.seq)'
                        /\ p.payload # NoData => p.status = ST_ESTABLISHED
                        /\ p.status # ST_ESTABLISHED => p.seq <= 1
      BY DEF NetInv
    <2>1. /\ p.syn = Byte(p.seq)
          /\ p.ack = Byte(p.ackSeq)
          /\ p.seq < sendEnd[p.src]
          /\ p.ackSeq < recvBegin[p.src]
          /\ \/ p.seq < recvBegin[Peer(p.src)]
             \/ p.payload = PayloadAt(p.src, p.seq)
          /\ p.payload # NoData => p.status = ST_ESTABLISHED
          /\ p.status # ST_ESTABLISHED => p.seq <= 1
      BY DEF SafetyInv, NetInv
    <2>2. p.src \in Ends /\ p.seq \in Nat /\ Peer(p.src) \in Ends
      BY <1>2, EndsFacts DEF Datagram
    <2>3. p.seq < sendEnd'[p.src]
      BY <1>1, <1>2, <1>3, <2>1, <2>2, SMTT(30)
    <2>4. p.seq >= recvBegin[Peer(p.src)] => p.seq \in 1 .. sendEnd[p.src] - 1
      <3>1. recvBegin[Peer(p.src)] \in Nat \ {0} /\ sendEnd[p.src] \in Nat
        BY <1>2, <2>2
      <3>2. QED
        BY <2>1, <2>2, <3>1
    <2>5. p.seq >= recvBegin[Peer(p.src)] =>
              PayloadAt(p.src, p.seq)' = PayloadAt(p.src, p.seq)
      BY <1>5, <2>2, <2>4
    <2>6. QED
      BY <1>2, <1>3, <2>1, <2>2, <2>3, <2>5
  <1>12. RecvInv'
    <2>1. ASSUME NEW d \in Ends, NEW n \in recvBegin'[d] .. RecvEnd(d)' - 1,
                 recvSlot'[d][SlotOf(n)] \in Nat
          PROVE  /\ n < sendEnd'[Peer(d)]
                 /\ recvSlot'[d][SlotOf(n)] = PayloadAt(Peer(d), n)'
                 /\ recvSlot'[d][SlotOf(n)] # NoData => connected'[d]
      <3>1. n \in recvBegin[d] .. RecvEnd(d) - 1 /\ Peer(d) \in Ends
        BY <1>3, EndsFacts DEF RecvEnd
      <3>2. /\ n < sendEnd[Peer(d)]
            /\ recvSlot[d][SlotOf(n)] = PayloadAt(Peer(d), n)
            /\ recvSlot[d][SlotOf(n)] # NoData => connected[d]
        BY <2>1, <3>1 DEF SafetyInv, RecvInv
      <3>3. n \in 1 .. sendEnd[Peer(d)] - 1
        BY <1>2, <3>1, <3>2, WindowSizeFacts DEF RecvEnd
      <3>4. n < sendEnd'[Peer(d)]
        BY <1>1, <1>2, <1>3, <3>1, <3>3, SMTT(30)
      <3>5. QED
        BY <1>5, <3>1, <3>2, <3>3, <3>4
    <2>2. ASSUME NEW d \in Ends
          PROVE  \/ \A i \in Slots : recvSlot'[d][i] # Stale
                 \/ ~connected'[d] /\ FirstSlots(d)'
      <3>1. pc \in [Ends -> {"idle", "stream", "transmit", "read", "deliver"}]
        BY DEF TypeOK
      <3>2. pc'[d] = pc[d] \/ pc'[d] \in {"stream", "transmit"}
        BY <3>1
      <3>3. QED
        BY <1>3, <3>2 DEF SafetyInv, RecvInv, FirstSlots
    <2>3. QED
      BY <2>1, <2>2 DEF RecvInv
  <1>13. DeliveryInv'
    <2>1. ASSUME NEW d \in Ends
          PROVE  Len(delivered'[d]) = ChunkCount(Peer(d), recvBegin[d] - 1)'
      <3>1. Peer(d) \in Ends /\ recvBegin[d] - 1 \in 0 .. sendEnd[Peer(d)] - 1
        BY RecvBeginBound DEF SafetyInv
      <3>2. ChunkCount(Peer(d), recvBegin[d] - 1)' = ChunkCount(Peer(d), recvBegin[d] - 1)
        BY <1>3, <1>5, <3>1, ZenonT(40) DEF ChunkCount
      <3>3. QED
        BY <3>2 DEF SafetyInv, DeliveryInv
    <2>2. QED
      BY <2>1 DEF SafetyInv, DeliveryInv
  <1>14. QED
    BY <1>8, <1>9, <1>10, <1>11, <1>12, <1>13 DEF SafetyInv

\* What Transmit puts on the network satisfies NetInv.
LEMMA TransmitStep ==
    ASSUME TypeOK, SafetyInv, NEW e \in Ends, Transmit(e)
    PROVE  SafetyInv'
  <1> USE DEF SafetyInv
  <1>1. /\ sendBegin \in [Ends -> Nat \ {0}] /\ sendEnd \in [Ends -> Nat \ {0}]
        /\ recvBegin \in [Ends -> Nat \ {0}]
    BY DEF TypeOK
  <1>2. UNCHANGED <<status, connected, sendBegin, sendEnd, sendSlot, chunks,
                    recvBegin, recvSlot, received, delivered>>
    BY DEF Transmit, sendVars, recvVars
  <1>3. \A d \in Ends : pc'[d] = pc[d] \/ pc'[d] = "idle"
    BY DEF Transmit, TypeOK
  <1>4. WindowAgreement' /\ HistoryInv' /\ SendInv' /\ DeliveryInv'
    BY <1>2 DEF WindowAgreement, HistoryInv, SendInv, DeliveryInv, ChunkCount, PayloadAt
  <1>5. RecvInv'
    BY <1>2, <1>3 DEF RecvInv, FirstSlots, RecvEnd, ChunkCount, PayloadAt
  <1>6. NetInv'
    <2> DEFINE Good(p) ==
            /\ p.syn = Byte(p.seq)
            /\ p.ack = Byte(p.ackSeq)
            /\ p.seq < sendEnd[p.src]
            /\ p.ackSeq < recvBegin[p.src]
            /\ \/ p.seq < recvBegin[Peer(p.src)]
               \/ p.payload = PayloadAt(p.src, p.seq)
            /\ p.payload # NoData => p.status = ST_ESTABLISHED
            /\ p.status # ST_ESTABLISHED => p.seq <= 1
    <2>1. \A p \in net : Good(p)
      BY DEF NetInv
    <2>2. PICK due \in SUBSET (sendBegin[e] .. sendEnd[e] - 1) :
            net' \subseteq net \cup
                (IF due = {} /\ sendAck[e]
                 THEN {Packet(e, sendBegin[e] - 1, NoData)}
                 ELSE {Packet(e, n, sendSlot[e][SlotOf(n)]) : n \in due})
      BY DEF Transmit, Sent
    <2>3. Good(Packet(e, sendBegin[e] - 1, NoData))
      <3>1. /\ sendBegin[e] <= recvBegin[Peer(e)]
            /\ recvBegin[Peer(e)] <= sendEnd[e]
            /\ recvBegin[Peer(e)] \in Nat
        BY <1>1, EndsFacts DEF WindowAgreement
      <3>2. /\ sendBegin[e] - 1 < sendEnd[e]
            /\ recvBegin[e] - 1 < recvBegin[e]
            /\ sendBegin[e] - 1 < recvBegin[Peer(e)]
        BY <1>1, <3>1
      <3>3. status[e] # ST_ESTABLISHED => sendBegin[e] - 1 <= 1
        BY <1>1 DEF SendInv
      <3>4. QED
        BY <3>2, <3>3 DEF Packet
    <2>4. ASSUME NEW n \in due
          PROVE  Good(Packet(e, n, sendSlot[e][SlotOf(n)]))
      <3>1. n \in 1 .. sendEnd[e] - 1 /\ n \in 0 .. sendEnd[e] - 1 /\ sendEnd[e] - 1 \in 0 .. sendEnd[e] - 1
        BY <1>1
      <3>2. sendSlot[e][SlotOf(n)] = PayloadAt(e, n)
        BY DEF SendInv
      <3>3. /\ ChunkCount(e, n) \in Nat
            /\ ChunkCount(e, n) <= ChunkCount(e, sendEnd[e] - 1)
            /\ ChunkCount(e, sendEnd[e] - 1) \in Nat
        BY <1>1, <3>1, ChunkCountType DEF HistoryInv
      <3>4. PayloadAt(e, n) # NoData => status[e] = ST_ESTABLISHED
        BY <3>3 DEF PayloadAt, NoData, SendInv
      <3>5. n < sendEnd[e] /\ recvBegin[e] - 1 < recvBegin[e]
        BY <1>1
      <3>6. status[e] # ST_ESTABLISHED => n <= 1
        BY <1>1, <3>1 DEF SendInv
      <3>7. QED
        BY <3>2, <3>4, <3>5, <3>6 DEF Packet
    <2>5. \A p \in net' : Good(p)
      <3> HIDE DEF Good
      <3>1. QED
        BY <2>1, <2>2, <2>3, <2>4
    <2>6. QED
      BY <1>2, <2>5 DEF NetInv, PayloadAt, ChunkCount
  <1>7. QED
    BY <1>4, <1>5, <1>6

\* One packet of the receive window is handed to the session.
LEMMA DeliverStep ==
    ASSUME TypeOK, SafetyInv, NEW e \in Ends, Deliver(e)
    PROVE  SafetyInv'
  <1> USE DEF SafetyInv
  <1>1. /\ sendBegin \in [Ends -> Nat \ {0}] /\ sendEnd \in [Ends -> Nat \ {0}]
        /\ recvBegin \in [Ends -> Nat \ {0}]
        /\ recvSlot \in [Ends -> [Slots -> Nat \cup {Empty, Stale}]]
        /\ delivered \in [Ends -> Seq(Nat \cup {Stale})]
    BY DEF TypeOK
  <1>2. PICK first \in Nat \ {0} : first = recvBegin[e]
    BY <1>1
  <1>3. PICK data \in Nat \cup {Empty, Stale} : data = recvSlot[e][SlotOf(first)]
    <2>1. SlotOf(first) \in Slots
      BY SlotInRange
    <2>2. recvSlot[e][SlotOf(first)] \in Nat \cup {Empty, Stale}
      BY <1>1, <2>1
    <2>3. QED
      BY <2>2
  <1>4. /\ data # Empty
        /\ delivered' = [delivered EXCEPT ![e] =
                            IF data = NoData THEN @ ELSE Append(@, data)]
        /\ recvSlot' = [recvSlot EXCEPT ![e][SlotOf(first)] = Empty]
        /\ recvBegin' = [recvBegin EXCEPT ![e] = first + 1]
        /\ pc[e] = "deliver"
        /\ UNCHANGED <<status, connected, pc, sendBegin, sendEnd, sendSlot,
                       chunks, received, net>>
    BY <1>2, <1>3 DEF Deliver, endVars, sendVars
  <1>5. \/ \A i \in Slots : recvSlot[e][i] # Stale
        \/ /\ ~connected[e] /\ first = 1
           /\ recvSlot[e][SlotOf(1)] # Stale
           /\ recvSlot[e][SlotOf(2)] = Empty
    BY <1>2, <1>3, <1>4 DEF RecvInv, FirstSlots
  <1>6. SlotOf(first) \in Slots /\ data \in Nat
    BY <1>1, <1>3, <1>4, <1>5, SlotInRange
  <1>7. /\ first < sendEnd[Peer(e)]
        /\ data = PayloadAt(Peer(e), first)
        /\ data # NoData => connected[e]
    <2>1. first \in recvBegin[e] .. RecvEnd(e) - 1
      BY <1>2, WindowSizeFacts DEF RecvEnd
    <2>2. QED
      BY <1>3, <1>6, <2>1 DEF RecvInv
  <1>8. /\ \A d \in Ends : \A n \in Int : ChunkCount(d, n)' = ChunkCount(d, n)
        /\ \A d \in Ends : \A n \in Int : PayloadAt(d, n)' = PayloadAt(d, n)
    BY <1>4 DEF ChunkCount, PayloadAt
  <1>9. \A d \in Ends : /\ recvBegin[d] \in Nat /\ recvBegin'[d] \in Nat
                        /\ recvBegin[d] <= recvBegin'[d]
                        /\ d # e => recvBegin'[d] = recvBegin[d]
    BY <1>1, <1>2, <1>4
  <1>10. WindowAgreement'
    <2>1. ASSUME NEW d \in Ends
          PROVE  /\ sendBegin[d] <= recvBegin'[Peer(d)]
                 /\ recvBegin'[Peer(d)] <= sendEnd[d]
                 /\ sendEnd[d] - sendBegin[d] <= WindowSize
      <3>1. /\ Peer(d) \in Ends
            /\ sendBegin[d] <= recvBegin[Peer(d)]
            /\ recvBegin[Peer(d)] <= sendEnd[d]
            /\ sendEnd[d] - sendBegin[d] <= WindowSize
            /\ sendBegin[d] \in Nat /\ sendEnd[d] \in Nat
        BY <1>1, EndsFacts DEF WindowAgreement
      <3>2. Peer(d) = e => recvBegin'[Peer(d)] = first + 1 /\ first < sendEnd[d]
        BY <1>1, <1>4, <1>7, EndsFacts
      <3>3. QED
        BY <1>2, <1>9, <3>1, <3>2
    <2>2. QED
      BY <1>4, <2>1 DEF WindowAgreement
  <1>11. HistoryInv' /\ SendInv'
    BY <1>4 DEF HistoryInv, SendInv, ChunkCount, PayloadAt
  <1>12. NetInv'
    <2> SUFFICES ASSUME NEW p \in net
                 PROVE  /\ p.syn = Byte(p.seq)
                        /\ p.ack = Byte(p.ackSeq)
                        /\ p.seq < sendEnd[p.src]
                        /\ p.ackSeq < recvBegin'[p.src]
                        /\ \/ p.seq < recvBegin'[Peer(p.src)]
                           \/ p.payload = PayloadAt(p.src, p.seq)
                        /\ p.payload # NoData => p.status = ST_ESTABLISHED
                        /\ p.status # ST_ESTABLISHED => p.seq <= 1
      BY <1>4 DEF NetInv, PayloadAt, ChunkCount
    <2>1. /\ p.syn = Byte(p.seq)
          /\ p.ack = Byte(p.ackSeq)
          /\ p.seq < sendEnd[p.src]
          /\ p.ackSeq < recvBegin[p.src]
          /\ \/ p.seq < recvBegin[Peer(p.src)]
             \/ p.payload = PayloadAt(p.src, p.seq)
          /\ p.payload # NoData => p.status = ST_ESTABLISHED
          /\ p.status # ST_ESTABLISHED => p.seq <= 1
      BY DEF NetInv
    <2>2. /\ p.src \in Ends /\ Peer(p.src) \in Ends
          /\ p.seq \in Nat /\ p.ackSeq \in Nat
      BY EndsFacts DEF TypeOK, Datagram
    <2>3. QED
      BY <1>9, <2>1, <2>2
  <1>13. RecvInv'
    <2>1. ASSUME NEW d \in Ends, NEW n \in recvBegin'[d] .. RecvEnd(d)' - 1,
                 recvSlot'[d][SlotOf(n)] \in Nat
          PROVE  /\ n < sendEnd[Peer(d)]
                 /\ recvSlot'[d][SlotOf(n)] = PayloadAt(Peer(d), n)
                 /\ recvSlot'[d][SlotOf(n)] # NoData => connected[d]
      <3>1. CASE d # e
        <4>1. recvSlot'[d] = recvSlot[d] /\ n \in recvBegin[d] .. RecvEnd(d) - 1
          BY <1>1, <1>4, <1>9, <3>1 DEF RecvEnd
        <4>2. QED
          BY <2>1, <4>1 DEF RecvInv
      <3>2. CASE d = e
        <4>1. n \in first + 1 .. first + WindowSize
          BY <1>1, <1>4, <3>2, WindowSizeFacts DEF RecvEnd
        <4>2. CASE n = first + WindowSize
          <5>1. SlotOf(n) = SlotOf(first)
            BY <4>2, SlotPeriodic
          <5>2. recvSlot'[d][SlotOf(n)] = Empty
            BY <1>1, <1>4, <1>6, <3>2, <5>1
          <5>3. QED
            BY <2>1, <5>2 DEF Empty
        <4>3. CASE n # first + WindowSize
          <5>1. n \in recvBegin[d] .. RecvEnd(d) - 1 /\ n \in Int /\ n # first
                /\ n - first < WindowSize /\ first - n < WindowSize
            BY <1>2, <3>2, <4>1, <4>3, WindowSizeFacts DEF RecvEnd
          <5>2. SlotOf(n) # SlotOf(first)
            BY <5>1, SlotInjective
          <5>3. recvSlot'[d][SlotOf(n)] = recvSlot[d][SlotOf(n)]
            BY <1>1, <1>4, <3>2, <5>2
          <5>4. QED
            BY <2>1, <5>1, <5>3 DEF RecvInv
        <4>4. QED
          BY <4>2, <4>3
      <3>3. QED
        BY <3>1, <3>2
    <2>2. ASSUME NEW d \in Ends
          PROVE  \/ \A i \in Slots : recvSlot'[d][i] # Stale
                 \/ ~connected'[d] /\ FirstSlots(d)'
      <3>1. CASE d = e
        <4>1. \A i \in Slots : recvSlot'[e][i] = Empty \/ recvSlot'[e][i] = recvSlot[e][i]
          BY <1>1, <1>4
        <4>2. recvSlot'[e][SlotOf(first)] = Empty /\ recvBegin'[e] = first + 1
          BY <1>1, <1>4, <1>6
        <4>3. SlotOf(2) \in Slots
          BY SlotInRange
        <4>4. CASE \A i \in Slots : recvSlot[e][i] # Stale
          BY <3>1, <4>1, <4>4 DEF Empty, Stale
        <4>5. CASE ~ \A i \in Slots : recvSlot[e][i] # Stale
          <5>1. /\ ~connected'[e] /\ recvBegin'[e] = 2
                /\ recvSlot'[e][SlotOf(1)] = Empty /\ recvSlot'[e][SlotOf(2)] = Empty
            BY <1>4, <1>5, <4>1, <4>2, <4>3, <4>5
          <5>2. QED
            BY <3>1, <5>1 DEF FirstSlots, Empty, Stale
        <4>6. QED
          BY <4>4, <4>5
      <3>2. CASE d # e
        <4>1. recvSlot'[d] = recvSlot[d] /\ recvBegin'[d] = recvBegin[d]
          BY <1>1, <1>4, <3>2
        <4>2. QED
          BY <1>4, <4>1 DEF RecvInv, FirstSlots
      <3>3. QED
        BY <3>1, <3>2
    <2>3. QED
      BY <1>4, <1>8, <2>1, <2>2, EndsFacts DEF RecvInv
  <1>14. DeliveryInv'
    <2> DEFINE before == ChunkCount(Peer(e), first - 1)
               after  == ChunkCount(Peer(e), first)
    <2>1. /\ Len(delivered[e]) = before
          /\ \A i \in DOMAIN delivered[e] : delivered[e][i] = i
          /\ delivered[e] \in Seq(Nat \cup {Stale})
      BY <1>1, <1>2 DEF DeliveryInv
    <2>2. /\ before \in Nat /\ after \in Nat
          /\ after = before \/ after = before + 1
      <3>1. /\ Peer(e) \in Ends
            /\ first \in 1 .. sendEnd[Peer(e)] - 1 /\ first \in 0 .. sendEnd[Peer(e)] - 1
            /\ first - 1 \in 0 .. sendEnd[Peer(e)] - 1
        BY <1>1, <1>7, EndsFacts
      <3>2. after = chunks[Peer(e)][first]
        BY DEF ChunkCount
      <3>3. QED
        BY <3>1, <3>2, ChunkCountType DEF HistoryInv
    <2>3. data = IF after = before THEN NoData ELSE after
      BY <1>7 DEF PayloadAt
    <2> HIDE DEF before, after
    <2>4. /\ Len(delivered'[e]) = after
          /\ \A i \in DOMAIN delivered'[e] : delivered'[e][i] = i
      <3>1. CASE data = NoData
        <4>1. delivered'[e] = delivered[e] /\ after = before
          BY <1>1, <1>4, <2>2, <2>3, <3>1 DEF NoData
        <4>2. QED
          BY <2>1, <4>1
      <3>2. CASE data # NoData
        <4>1. delivered'[e] = Append(delivered[e], data) /\ data = before + 1 /\ after = before + 1
          BY <1>1, <1>4, <2>2, <2>3, <3>2
        <4>2. QED
          BY <2>1, <2>2, <4>1
      <3>3. QED
        BY <3>1, <3>2
    <2>5. delivered'[e] # <<>> => connected'[e]
      <3>1. CASE data = NoData
        BY <1>1, <1>4, <3>1 DEF DeliveryInv
      <3>2. CASE data # NoData
        BY <1>4, <1>7, <3>2
      <3>3. QED
        BY <3>1, <3>2
    <2>6. recvBegin'[e] - 1 = first
      BY <1>1, <1>2, <1>4
    <2>7. ASSUME NEW d \in Ends
          PROVE  /\ \A i \in DOMAIN delivered'[d] : delivered'[d][i] = i
                 /\ Len(delivered'[d]) = ChunkCount(Peer(d), recvBegin'[d] - 1)
                 /\ delivered'[d] # <<>> => connected'[d]
                 /\ connected'[d] => status'[d] = ST_ESTABLISHED
      <3>1. CASE d = e
        BY <1>4, <2>4, <2>5, <2>6, <3>1 DEF DeliveryInv, after
      <3>2. CASE d # e
        <4>1. delivered'[d] = delivered[d] /\ recvBegin'[d] = recvBegin[d]
          BY <1>1, <1>4, <3>2
        <4>2. QED
          BY <1>4, <4>1 DEF DeliveryInv
      <3>3. QED
        BY <3>1, <3>2
    <2>8. QED
      BY <1>4, <2>7 DEF DeliveryInv, ChunkCount
  <1>15. QED
    BY <1>10, <1>11, <1>12, <1>13, <1>14

\* What the bytes of a datagram mean to the end that reads it: its ack is
\* valid exactly if it is new, its syn exactly if the packet is not delivered.
LEMMA DatagramDecoded ==
    ASSUME TypeOK, SafetyInv, NEW e \in Ends, NEW p \in net,
           p.src = Peer(e), Fresh(e, p)
    PROVE  /\ p.seq \in Nat /\ p.ackSeq \in Nat /\ p.payload \in Nat
           /\ IsValidIndex(p.ack, sendBegin[e], sendEnd[e]) <=> p.ackSeq >= sendBegin[e]
           /\ p.ackSeq >= sendBegin[e] =>
                  Offset(p.ack, sendBegin[e]) = p.ackSeq - sendBegin[e]
           /\ p.ackSeq < recvBegin[Peer(e)]
           /\ IsValidIndex(p.syn, recvBegin[e], RecvEnd(e)) <=> p.seq >= recvBegin[e]
           /\ p.seq < RecvEnd(e)
           /\ p.seq < sendEnd[Peer(e)]
           /\ SlotOf(p.syn) = SlotOf(p.seq) /\ SlotOf(p.syn) \in Slots
           /\ p.seq >= recvBegin[e] => p.payload = PayloadAt(Peer(e), p.seq)
           /\ p.payload # NoData => p.status = ST_ESTABLISHED
           /\ p.status # ST_ESTABLISHED => p.seq <= 1
  <1>1. /\ p.seq \in Nat /\ p.ackSeq \in Nat /\ p.payload \in Nat
        /\ Peer(e) \in Ends /\ Peer(Peer(e)) = e
    BY EndsFacts DEF TypeOK, Datagram
  <1>2. /\ p.syn = Byte(p.seq) /\ p.ack = Byte(p.ackSeq)
        /\ p.seq < sendEnd[Peer(e)]
        /\ p.ackSeq < recvBegin[Peer(e)]
        /\ \/ p.seq < recvBegin[e]
           \/ p.payload = PayloadAt(Peer(e), p.seq)
        /\ p.payload # NoData => p.status = ST_ESTABLISHED
        /\ p.status # ST_ESTABLISHED => p.seq <= 1
    BY <1>1 DEF SafetyInv, NetInv
  <1>3. /\ sendBegin[e] \in Nat /\ sendEnd[e] \in Nat /\ recvBegin[e] \in Nat
        /\ sendEnd[Peer(e)] \in Nat /\ recvBegin[Peer(e)] \in Nat
    BY <1>1, CounterTypes
  <1>4. /\ sendBegin[e] <= recvBegin[Peer(e)]
        /\ recvBegin[Peer(e)] <= sendEnd[e]
        /\ sendEnd[e] - sendBegin[e] <= WindowSize
        /\ sendEnd[Peer(e)] <= recvBegin[e] + WindowSize
    BY RecvBeginBound DEF SafetyInv, WindowAgreement
  <1>5. /\ recvBegin[e] - p.seq <= SeqMod - WindowSize
        /\ sendBegin[e] - p.ackSeq <= SeqMod - WindowSize
    BY DEF Fresh, Lifetime
  <1>6. /\ IsValidIndex(p.ack, sendBegin[e], sendEnd[e]) <=> p.ackSeq >= sendBegin[e]
        /\ p.ackSeq >= sendBegin[e] =>
               Offset(p.ack, sendBegin[e]) = p.ackSeq - sendBegin[e]
    <2>1. sendBegin[e] <= sendEnd[e] /\ p.ackSeq < sendEnd[e]
      BY <1>1, <1>2, <1>3, <1>4
    <2>2. QED
      BY <1>1, <1>2, <1>3, <1>4, <1>5, <2>1, ValidIndexExact
  <1>7. p.seq < RecvEnd(e) /\ RecvEnd(e) \in Nat
    BY <1>1, <1>2, <1>3, <1>4, WindowSizeFacts DEF RecvEnd
  <1>8. IsValidIndex(p.syn, recvBegin[e], RecvEnd(e)) <=> p.seq >= recvBegin[e]
    <2>1. recvBegin[e] <= RecvEnd(e) /\ RecvEnd(e) - recvBegin[e] <= WindowSize
      BY <1>3, WindowSizeFacts DEF RecvEnd
    <2>2. QED
      BY <1>1, <1>2, <1>3, <1>5, <1>7, <2>1, ValidIndexExact
  <1>9. SlotOf(p.syn) = SlotOf(p.seq) /\ SlotOf(p.syn) \in Slots
    BY <1>1, <1>2, SlotOfByte, SlotInRange
  <1>10. QED
    BY <1>1, <1>2, <1>3, <1>6, <1>7, <1>8, <1>9

\* One datagram is read: the send window moves to a new ack, an empty slot
\* takes the packet.
LEMMA RecvStep ==
    ASSUME TypeOK, SafetyInv, NEW e \in Ends, NEW p \in net, RecvPacket(e, p)
    PROVE  SafetyInv'
  <1> USE DEF SafetyInv
  <1> DEFINE opens  == ~connected[e] /\ p.status = ST_ESTABLISHED
             slots  == IF opens THEN [i \in Slots |-> Empty] ELSE recvSlot[e]
             acked  == IsValidIndex(p.ack, sendBegin[e], sendEnd[e])
             stored == /\ IsValidIndex(p.syn, recvBegin[e], RecvEnd(e))
                       /\ slots[SlotOf(p.syn)] = Empty
             free   == IF stored THEN recvFree[e] - 1 ELSE recvFree[e]
  <1>1. /\ sendBegin \in [Ends -> Nat \ {0}] /\ sendEnd \in [Ends -> Nat \ {0}]
        /\ recvBegin \in [Ends -> Nat \ {0}]
        /\ recvSlot \in [Ends -> [Slots -> Nat \cup {Empty, Stale}]]
        /\ status \in [Ends -> Status] /\ connected \in [Ends -> BOOLEAN]
        /\ received \in [Ends -> BOOLEAN]
        /\ pc \in [Ends -> {"idle", "stream", "transmit", "read", "deliver"}]
    BY DEF TypeOK
  <1> USE DEF Opens, Stores, AfterRead
  <1>2. /\ status' = [status EXCEPT ![e] = ST_ESTABLISHED]
        /\ connected' = [connected EXCEPT ![e] = @ \/ opens]
        /\ sendBegin' = [sendBegin EXCEPT ![e] =
                             IF acked THEN @ + Offset(p.ack, @) + 1 ELSE @]
        /\ recvSlot' = [recvSlot EXCEPT ![e] =
                             IF stored THEN [slots EXCEPT ![SlotOf(p.syn)] = p.payload]
                                       ELSE slots]
        /\ received' = [received EXCEPT ![e] = (pc[e] = "read" /\ @) \/ stored]
        /\ pc' = [pc EXCEPT ![e] = IF stored /\ free = 0 THEN "deliver" ELSE "read"]
        /\ UNCHANGED <<error, sendEnd, sendSlot, chunks, recvBegin, delivered,
                       sendAck, net>>
        /\ p.src = Peer(e) /\ Fresh(e, p)
        /\ pc[e] \in {"idle", "read"}
    BY DEF RecvPacket
  <1>3. /\ p.seq \in Nat /\ p.ackSeq \in Nat /\ p.payload \in Nat
        /\ acked <=> p.ackSeq >= sendBegin[e]
        /\ p.ackSeq >= sendBegin[e] =>
               Offset(p.ack, sendBegin[e]) = p.ackSeq - sendBegin[e]
        /\ p.ackSeq < recvBegin[Peer(e)]
        /\ IsValidIndex(p.syn, recvBegin[e], RecvEnd(e)) <=> p.seq >= recvBegin[e]
        /\ p.seq < RecvEnd(e)
        /\ p.seq < sendEnd[Peer(e)]
        /\ SlotOf(p.syn) = SlotOf(p.seq) /\ SlotOf(p.syn) \in Slots
        /\ p.seq >= recvBegin[e] => p.payload = PayloadAt(Peer(e), p.seq)
        /\ p.payload # NoData => p.status = ST_ESTABLISHED
        /\ p.status # ST_ESTABLISHED => p.seq <= 1
    BY <1>2, DatagramDecoded
  <1>4. slots \in [Slots -> Nat \cup {Empty, Stale}]
    BY <1>1
  <1>5. stored => p.seq >= recvBegin[e] /\ slots[SlotOf(p.seq)] = Empty
    BY <1>3
  <1>6. /\ opens \in BOOLEAN /\ stored \in BOOLEAN
        /\ opens => slots = [i \in Slots |-> Empty]
        /\ ~opens => slots = recvSlot[e]
        /\ opens => ~connected[e]
        /\ ~opens => (connected[e] \/ p.status # ST_ESTABLISHED)
    BY <1>1
  <1> HIDE DEF opens, slots, acked, stored, free, Opens, Stores, AfterRead
  <1>7. \A d \in Ends : \A n \in Int :
           ChunkCount(d, n)' = ChunkCount(d, n) /\ PayloadAt(d, n)' = PayloadAt(d, n)
    BY <1>2 DEF ChunkCount, PayloadAt
  <1>8. /\ sendBegin' \in [Ends -> Nat]
        /\ sendBegin[e] <= sendBegin'[e]
        /\ sendBegin'[e] <= recvBegin[Peer(e)]
        /\ \A d \in Ends \ {e} : sendBegin'[d] = sendBegin[d]
    <2>1. /\ sendBegin[e] <= recvBegin[Peer(e)]
          /\ sendBegin[e] \in Nat /\ recvBegin[Peer(e)] \in Nat
      BY <1>1, EndsFacts DEF WindowAgreement
    <2>2. acked => sendBegin[e] + Offset(p.ack, sendBegin[e]) + 1 = p.ackSeq + 1
      BY <1>3, <2>1
    <2>3. sendBegin'[e] = IF acked THEN p.ackSeq + 1 ELSE sendBegin[e]
      BY <1>1, <1>2, <2>2
    <2>4. \A d \in Ends \ {e} : sendBegin'[d] = sendBegin[d]
      BY <1>1, <1>2
    <2>5. sendBegin' \in [Ends -> Nat]
      BY <1>1, <1>2, <1>3, <2>1, <2>2
    <2>6. QED
      BY <1>3, <2>1, <2>3, <2>4, <2>5
  <1>9. WindowAgreement'
    <2>1. ASSUME NEW d \in Ends
          PROVE  /\ sendBegin'[d] <= recvBegin[Peer(d)]
                 /\ recvBegin[Peer(d)] <= sendEnd[d]
                 /\ sendEnd[d] - sendBegin'[d] <= WindowSize
      <3>1. /\ sendBegin[d] <= recvBegin[Peer(d)]
            /\ recvBegin[Peer(d)] <= sendEnd[d]
            /\ sendEnd[d] - sendBegin[d] <= WindowSize
            /\ sendBegin[d] \in Nat /\ sendEnd[d] \in Nat /\ sendBegin'[d] \in Nat
        BY <1>1, <1>8 DEF WindowAgreement
      <3>2. QED
        BY <1>8, <3>1, WindowSizeFacts
    <2>2. QED
      BY <1>2, <2>1 DEF WindowAgreement
  <1>10. HistoryInv'
    BY <1>2 DEF HistoryInv, ChunkCount
  <1>11. SendInv'
    <2>1. ASSUME NEW d \in Ends
          PROVE  /\ \A n \in sendBegin'[d] .. sendEnd[d] - 1 :
                       sendSlot[d][SlotOf(n)] = PayloadAt(d, n)
                 /\ ChunkCount(d, sendEnd[d] - 1) > 0 => status'[d] = ST_ESTABLISHED
                 /\ status'[d] # ST_ESTABLISHED => sendBegin'[d] = 1 /\ sendEnd[d] <= 2
      <3>1. /\ sendBegin[d] \in Nat /\ sendBegin'[d] \in Nat /\ sendEnd[d] \in Nat
            /\ sendBegin[d] <= sendBegin'[d]
        BY <1>1, <1>8
      <3>2. status'[d] = status[d] \/ status'[d] = ST_ESTABLISHED
        BY <1>1, <1>2
      <3>3. \A n \in sendBegin'[d] .. sendEnd[d] - 1 : n \in sendBegin[d] .. sendEnd[d] - 1
        BY <3>1
      <3>4. status'[d] # ST_ESTABLISHED => sendBegin'[d] = sendBegin[d]
        BY <1>1, <1>2, <1>8
      <3>5. QED
        BY <3>2, <3>3, <3>4 DEF SendInv
    <2>2. QED
      BY <1>2, <2>1 DEF SendInv, ChunkCount, PayloadAt
  <1>12. NetInv'
    BY <1>2 DEF NetInv, ChunkCount, PayloadAt
  <1>13. RecvInv'
    <2>1. /\ connected'[e] = (connected[e] \/ opens)
          /\ recvSlot'[e] = IF stored THEN [slots EXCEPT ![SlotOf(p.seq)] = p.payload]
                                      ELSE slots
          /\ \A d \in Ends \ {e} : /\ recvSlot'[d] = recvSlot[d]
                                   /\ connected'[d] = connected[d]
                                   /\ pc'[d] = pc[d] /\ received'[d] = received[d]
      BY <1>1, <1>2, <1>3
    <2>2. \A d \in Ends : RecvEnd(d)' = RecvEnd(d)
      BY <1>2 DEF RecvEnd
    <2>3. ASSUME NEW d \in Ends, NEW n \in recvBegin[d] .. RecvEnd(d) - 1,
                 recvSlot'[d][SlotOf(n)] \in Nat
          PROVE  /\ n < sendEnd[Peer(d)]
                 /\ recvSlot'[d][SlotOf(n)] = PayloadAt(Peer(d), n)
                 /\ recvSlot'[d][SlotOf(n)] # NoData => connected'[d]
      <3>1. CASE d # e
        BY <2>1, <2>3, <3>1 DEF RecvInv
      <3>2. CASE d = e /\ stored /\ SlotOf(n) = SlotOf(p.seq)
        <4>1. n \in Int /\ n - p.seq < WindowSize /\ p.seq - n < WindowSize
          BY <1>1, <1>3, <1>5, <3>2, WindowSizeFacts DEF RecvEnd
        <4>2. n = p.seq
          BY <1>3, <3>2, <4>1, SlotInjective
        <4>3. recvSlot'[e][SlotOf(n)] = p.payload
          BY <1>3, <1>4, <2>1, <3>2
        <4>4. p.payload # NoData => connected'[e]
          BY <1>3, <1>6, <2>1
        <4>5. QED
          BY <1>3, <1>5, <3>2, <4>2, <4>3, <4>4
      <3>3. CASE d = e /\ ~(stored /\ SlotOf(n) = SlotOf(p.seq))
        <4>1. n \in Int
          BY <1>1, WindowSizeFacts DEF RecvEnd
        <4>2. SlotOf(n) \in Slots
          BY <4>1, SlotInRange
        <4>3. recvSlot'[e][SlotOf(n)] = slots[SlotOf(n)]
          BY <1>4, <2>1, <3>3, <4>2
        <4>4. ~opens
          BY <1>6, <2>3, <3>3, <4>2, <4>3 DEF Empty
        <4>5. recvSlot'[e][SlotOf(n)] = recvSlot[e][SlotOf(n)]
          BY <1>6, <4>3, <4>4
        <4>6. QED
          BY <2>1, <2>3, <3>3, <4>5 DEF RecvInv
      <3>4. QED
        BY <3>1, <3>2, <3>3
    <2>4. ASSUME NEW d \in Ends
          PROVE  \/ \A i \in Slots : recvSlot'[d][i] # Stale
                 \/ ~connected'[d] /\ FirstSlots(d)'
      <3>1. CASE d # e
        BY <1>2, <2>1, <3>1 DEF RecvInv, FirstSlots
      <3>2. CASE d = e /\ \A i \in Slots : slots[i] # Stale
        <4>1. p.payload # Stale
          BY <1>3 DEF Stale
        <4>2. QED
          BY <1>3, <1>4, <2>1, <3>2, <4>1
      <3>3. CASE d = e /\ ~ \A i \in Slots : slots[i] # Stale
        <4>1. ~opens
          BY <1>6, <3>3 DEF Empty, Stale
        <4>2. ~connected[e] /\ FirstSlots(e) /\ slots = recvSlot[e]
          BY <1>6, <3>3, <4>1 DEF RecvInv
        <4>3. ~connected'[e] /\ p.seq <= 1 /\ recvBegin'[e] = recvBegin[e]
          BY <1>2, <1>3, <1>6, <2>1, <4>1, <4>2
        <4>4. CASE recvSlot[e][SlotOf(1)] = Stale
          <5>1. /\ recvBegin[e] = 1 /\ pc[e] # "deliver"
                /\ pc[e] = "read" => ~received[e]
            BY <4>2, <4>4 DEF FirstSlots
          <5>2. ~stored
            BY <1>3, <1>5, <4>2, <4>3, <4>4, <5>1 DEF Empty, Stale
          <5>3. /\ pc'[e] = "read" /\ received'[e] = (pc[e] = "read" /\ received[e])
                /\ recvSlot'[e] = recvSlot[e]
            BY <1>1, <1>2, <2>1, <4>2, <5>2
          <5>4. QED
            BY <3>3, <4>3, <4>4, <5>1, <5>3 DEF FirstSlots
        <4>5. CASE recvSlot[e][SlotOf(1)] # Stale
          <5>1. recvBegin[e] \in {1, 2} /\ recvSlot[e][SlotOf(2)] = Empty
            BY <4>2, <4>5 DEF FirstSlots
          <5>2. SlotOf(1) \in Slots /\ SlotOf(2) \in Slots
            BY SlotInRange
          <5>3. SlotOf(1) # SlotOf(2)
            <6>1. WindowSize # 1
              BY <3>3, <4>2, <4>5, <5>2 DEF Slots
            <6>2. 1 - 2 < WindowSize /\ 2 - 1 < WindowSize
              BY <6>1, WindowSizeFacts
            <6>3. QED
              BY <6>2, SlotInjective
          <5>4. stored => p.seq = 1
            BY <1>1, <1>3, <1>5, <4>3, <5>1
          <5>5. recvSlot'[e] = IF stored THEN [recvSlot[e] EXCEPT ![SlotOf(1)] = p.payload]
                                         ELSE recvSlot[e]
            BY <2>1, <4>2, <5>4
          <5>6. recvSlot[e] \in [Slots -> Nat \cup {Empty, Stale}] /\ p.payload # Stale
            BY <1>1, <1>3 DEF Stale
          <5>7. recvSlot'[e][SlotOf(1)] # Stale /\ recvSlot'[e][SlotOf(2)] = Empty
            BY <4>5, <5>1, <5>2, <5>3, <5>5, <5>6
          <5>8. QED
            BY <3>3, <4>3, <5>1, <5>7 DEF FirstSlots
        <4>6. QED
          BY <4>4, <4>5
      <3>4. QED
        BY <3>1, <3>2, <3>3
    <2>5. QED
      BY <1>2, <1>7, <2>2, <2>3, <2>4, EndsFacts DEF RecvInv, PayloadAt, ChunkCount
  <1>14. DeliveryInv'
    <2>1. \A d \in Ends : /\ connected[d] => connected'[d]
                          /\ connected'[d] => status'[d] = ST_ESTABLISHED
      BY <1>1, <1>2 DEF DeliveryInv
    <2>2. QED
      BY <1>2, <2>1 DEF DeliveryInv, ChunkCount
  <1>15. QED
    BY <1>9, <1>10, <1>11, <1>12, <1>13, <1>14

\* The steps that only move pc, fail, or lose a datagram.
LEMMA QuietStep ==
    ASSUME SafetyInv, TypeOK,
           UNCHANGED <<connected, sendVars, recvBegin, recvSlot, recvFree, delivered>>,
           net' \subseteq net,
           \A e \in Ends : status'[e] = status[e] \/ status[e] = ABSENT,
           \A e \in Ends :
              \/ pc'[e] = pc[e] /\ received'[e] = received[e]
              \/ pc'[e] = "idle"
              \/ pc'[e] = "deliver" /\ pc[e] = "read" /\ received[e]
    PROVE  SafetyInv'
  <1> USE DEF sendVars, recvVars
  <1>1. WindowAgreement'
    BY DEF SafetyInv, WindowAgreement
  <1>2. HistoryInv'
    BY DEF SafetyInv, HistoryInv, ChunkCount
  <1>3. SendInv'
    BY DEF SafetyInv, SendInv, PayloadAt, ChunkCount, ABSENT, ST_ESTABLISHED
  <1>4. NetInv'
    BY DEF SafetyInv, NetInv, PayloadAt, ChunkCount
  <1>5. RecvInv'
    BY DEF SafetyInv, RecvInv, FirstSlots, RecvEnd, PayloadAt, ChunkCount
  <1>6. DeliveryInv'
    BY DEF SafetyInv, DeliveryInv, ChunkCount, ABSENT, ST_ESTABLISHED
  <1>7. QED
    BY <1>1, <1>2, <1>3, <1>4, <1>5, <1>6 DEF SafetyInv

\* A connection starts with empty windows and, in its slots, no packet.
LEMMA SafetyInit ==
    ASSUME Init, SoundMemory
    PROVE  SafetyInv
  <1>1. \A n \in Int : SlotOf(n) \in Slots
    BY SlotInRange
  <1>2. \A e \in Ends : \A i \in Slots : recvSlot[e][i] \in {Empty, Stale}
    BY BoundAssumption DEF Init
  <1>3. WindowAgreement
    BY EndsFacts, WindowSizeFacts DEF Init, WindowAgreement
  <1>4. HistoryInv
    BY DEF Init, HistoryInv, ChunkCount
  <1>5. SendInv
    BY DEF Init, SendInv, ChunkCount
  <1>6. NetInv
    BY DEF Init, NetInv
  <1>7. ASSUME NEW e \in Ends, NEW n \in recvBegin[e] .. RecvEnd(e) - 1
        PROVE  recvSlot[e][SlotOf(n)] \notin Nat
    <2>1. n \in Int
      BY WindowSizeFacts DEF Init, RecvEnd
    <2>2. SlotOf(n) \in Slots
      BY <2>1, SlotInRange
    <2>3. QED
      BY <1>2, <2>2 DEF Empty, Stale
  <1>8. RecvInv
    <2>1. ASSUME NEW e \in Ends PROVE ~connected[e] /\ FirstSlots(e)
      <3>1. recvBegin[e] = 1 /\ ~connected[e] /\ pc[e] = "idle"
        BY DEF Init
      <3>2. \/ recvSlot[e][SlotOf(1)] = Stale
            \/ recvSlot[e][SlotOf(1)] # Stale /\ recvSlot[e][SlotOf(2)] = Empty
        BY <1>1, <1>2 DEF SoundMemory
      <3>3. QED
        BY <3>1, <3>2 DEF FirstSlots
    <2>2. QED
      BY <1>7, <2>1 DEF RecvInv, Empty, Stale
  <1>9. DeliveryInv
    BY EndsFacts DEF Init, DeliveryInv, ChunkCount
  <1>10. QED
    BY <1>3, <1>4, <1>5, <1>6, <1>8, <1>9 DEF SafetyInv

\* Every step of a connection preserves SafetyInv.
LEMMA SafetyStep ==
    ASSUME TypeOK, SafetyInv, [Next]_vars
    PROVE  SafetyInv'
  <1> USE DEF endVars, sendVars, recvVars
  <1>1. CASE Accept
    BY <1>1, QuietStep DEF TypeOK, Accept
  <1>2. ASSUME NEW e \in Ends, Send(e) PROVE SafetyInv'
    <2> DEFINE next == ChunkCount(e, sendEnd[e] - 1) + 1
    <2>1. next \in Nat
      BY ChunkCountType, CounterTypes
    <2>2. /\ SendFree(e) > 0
          /\ Add2SendWindow(e, next)
          /\ chunks' = [chunks EXCEPT ![e] = Append(@, next)]
          /\ status[e] = ST_ESTABLISHED
          /\ pc' = [pc EXCEPT ![e] = "stream"]
          /\ UNCHANGED <<status, connected, sendBegin, recvBegin, recvSlot,
                         received, delivered, net>>
      BY <1>2 DEF Send
    <2>3. QED
      BY <2>1, <2>2, AddPacketStep
  <1>3. ASSUME NEW e \in Ends, SendEmpty(e) PROVE SafetyInv'
    <2>1. ChunkCount(e, sendEnd[e] - 1) \in Nat /\ NoData \in Nat
      BY ChunkCountType, CounterTypes DEF NoData
    <2>2. /\ SendFree(e) > 0
          /\ Add2SendWindow(e, NoData)
          /\ chunks' = [chunks EXCEPT ![e] =
                            Append(@, ChunkCount(e, sendEnd[e] - 1))]
          /\ sendBegin[e] = sendEnd[e]
          /\ pc' = [pc EXCEPT ![e] = "transmit"]
          /\ UNCHANGED <<status, connected, sendBegin, recvBegin, recvSlot,
                         received, delivered, net>>
      BY <1>3 DEF SendEmpty
    <2>3. QED
      BY <2>1, <2>2, AddPacketStep
  <1>4. ASSUME NEW e \in Ends, Transmit(e) PROVE SafetyInv'
    BY <1>4, TransmitStep
  <1>5. ASSUME NEW e \in Ends, NEW p \in net, RecvPacket(e, p) PROVE SafetyInv'
    BY <1>5, RecvStep
  <1>6. ASSUME NEW e \in Ends, RecvNoBuffer(e) PROVE SafetyInv'
    BY <1>6, QuietStep DEF TypeOK, RecvNoBuffer
  <1>7. ASSUME NEW e \in Ends, RecvAgain(e) PROVE SafetyInv'
    BY <1>7, QuietStep DEF TypeOK, RecvAgain
  <1>8. ASSUME NEW e \in Ends, Deliver(e) PROVE SafetyInv'
    BY <1>8, DeliverStep
  <1>9. ASSUME NEW e \in Ends, DeliverDone(e) PROVE SafetyInv'
    BY <1>9, QuietStep DEF TypeOK, DeliverDone
  <1>10. ASSUME NEW e \in Ends, Fail(e) PROVE SafetyInv'
    BY <1>10, QuietStep DEF TypeOK, Fail
  <1>11. ASSUME NEW p \in net, Lose(p) PROVE SafetyInv'
    BY <1>11, QuietStep DEF Lose
  <1>12. CASE UNCHANGED vars
    BY <1>12, QuietStep DEF vars
  <1>13. QED
    BY <1>1, <1>2, <1>3, <1>4, <1>5, <1>6, <1>7, <1>8, <1>9, <1>10,
       <1>11, <1>12 DEF Next

\* The inductive invariant holds of every connection but one whose memory lets
\* packet 1 in and makes slot 2 look like a buffer behind it (SoundMemory).
THEOREM SafetyInvariant == SoundSpec => []SafetyInv
  <1>1. Init /\ SoundMemory => SafetyInv
    BY SafetyInit
  <1>2. TypeOK /\ SafetyInv /\ [Next]_vars => SafetyInv'
    BY SafetyStep
  <1>3. QED
    BY <1>1, <1>2, TypeCorrect, PTL DEF Spec, SoundInit, SoundSpec

------------------------------------------------------------------------------
(* What follows from the invariant *)

\* The chunks delivered at an end are those of the packets before its receive
\* window, so they are among the chunks its peer's session put in, and contain
\* the chunks of the packets its peer has freed.
LEMMA DeliveredBounds ==
    ASSUME TypeOK, SafetyInv, NEW e \in Ends
    PROVE  /\ Len(delivered[e]) <= ChunkCount(Peer(e), sendEnd[Peer(e)] - 1)
           /\ ChunkCount(Peer(e), sendBegin[Peer(e)] - 1) <= Len(delivered[e])
  <1> DEFINE d == Peer(e)
  <1>1. /\ d \in Ends
        /\ recvBegin[e] <= sendEnd[d]
        /\ recvBegin[e] - 1 \in 0 .. sendEnd[d] - 1
        /\ sendBegin[d] <= recvBegin[e]
    BY RecvBeginBound DEF SafetyInv
  <1>2. /\ sendBegin[d] \in Nat \ {0} /\ sendEnd[d] \in Nat \ {0}
        /\ recvBegin[e] \in Nat \ {0}
    BY <1>1 DEF TypeOK
  <1>3. Len(delivered[e]) = ChunkCount(d, recvBegin[e] - 1)
    BY DEF SafetyInv, DeliveryInv
  <1>4. \A m, n \in 0 .. sendEnd[d] - 1 :
           m <= n => ChunkCount(d, m) <= ChunkCount(d, n)
    BY <1>1 DEF SafetyInv, HistoryInv
  <1> HIDE DEF d
  <1>5. /\ sendEnd[d] - 1 \in 0 .. sendEnd[d] - 1
        /\ sendBegin[d] - 1 \in 0 .. sendEnd[d] - 1
        /\ recvBegin[e] - 1 <= sendEnd[d] - 1
        /\ sendBegin[d] - 1 <= recvBegin[e] - 1
    BY <1>1, <1>2
  <1>6. QED
    BY <1>1, <1>3, <1>4, <1>5 DEF d

\* Sessions get the chunks of their peer's stream in order, each once, from
\* SoundMemory on.
THEOREM DeliveryInOrder == SoundSpec => []InOrderDelivery
  <1>1. TypeOK /\ SafetyInv => InOrderDelivery
    BY DeliveredBounds DEF InOrderDelivery, SafetyInv, DeliveryInv
  <1>2. QED
    BY <1>1, TypeCorrect, SafetyInvariant, PTL DEF Spec, SoundInit, SoundSpec

\* A chunk whose packet the sender has freed was handed to the other session,
\* from SoundMemory on.
THEOREM AckMeansDelivered == SoundSpec => []AckedIsDelivered
  <1>1. TypeOK /\ SafetyInv => AckedIsDelivered
    <2> SUFFICES ASSUME TypeOK, SafetyInv, NEW e \in Ends
                 PROVE  ChunkCount(e, sendBegin[e] - 1) <= Len(delivered[Peer(e)])
      BY DEF AckedIsDelivered
    <2>1. Peer(e) \in Ends /\ Peer(Peer(e)) = e
      BY EndsFacts
    <2>2. ChunkCount(Peer(Peer(e)), sendBegin[Peer(Peer(e))] - 1)
              <= Len(delivered[Peer(e)])
      BY <2>1, DeliveredBounds
    <2>3. QED
      BY <2>1, <2>2
  <1>2. QED
    BY <1>1, TypeCorrect, SafetyInvariant, PTL DEF Spec, SoundInit, SoundSpec

\* The windows of a direction never drift apart by more than one window, from
\* SoundMemory on.
THEOREM WindowsAgree == SoundSpec => []WindowAgreement
  <1>1. SafetyInv => WindowAgreement
    BY DEF SafetyInv
  <1>2. QED
    BY <1>1, SafetyInvariant, PTL

\* Data reaches only a session that was told of the connection, from
\* SoundMemory on.
THEOREM DataAfterConnected == SoundSpec => []ConnectedBeforeData
  <1>1. SafetyInv => ConnectedBeforeData
    BY DEF SafetyInv, DeliveryInv, ConnectedBeforeData
  <1>2. QED
    BY <1>1, SafetyInvariant, PTL

\* No step overwrites a packet that is still in the send window: a free buffer
\* means a free slot.
THEOREM UnackedPacketsKept == Spec => UnackedKept
  <1> DEFINE Kept == \A e \in Ends : \A n \in sendBegin'[e] .. sendEnd[e] - 1 :
                        sendSlot'[e][SlotOf(n)] = sendSlot[e][SlotOf(n)]
  <1>1. ASSUME TypeOK, NEW e \in Ends, NEW payload, SendFree(e) > 0,
               Add2SendWindow(e, payload), sendBegin' = sendBegin
        PROVE  Kept
    <2> SUFFICES ASSUME NEW d \in Ends, NEW n \in sendBegin[d] .. sendEnd[d] - 1
                 PROVE  sendSlot'[d][SlotOf(n)] = sendSlot[d][SlotOf(n)]
      BY <1>1
    <2>1. /\ sendSlot \in [Ends -> [Slots -> Nat]]
          /\ sendSlot' = [sendSlot EXCEPT ![e][SlotOf(sendEnd[e])] = payload]
      BY <1>1 DEF TypeOK, Add2SendWindow
    <2>2. CASE d # e
      BY <2>1, <2>2
    <2>3. CASE d = e
      <3>1. /\ sendBegin[e] \in Nat /\ sendEnd[e] \in Nat /\ n \in Int
            /\ sendEnd[e] - sendBegin[e] < WindowSize
        BY <1>1, <2>3, WindowSizeFacts DEF TypeOK, SendFree
      <3>2. /\ n # sendEnd[e]
            /\ n - sendEnd[e] < WindowSize /\ sendEnd[e] - n < WindowSize
        BY <2>3, <3>1, WindowSizeFacts
      <3>3. sendEnd[e] \in Int /\ SlotOf(n) \in Slots
        BY <3>1, SlotInRange
      <3>4. SlotOf(n) # SlotOf(sendEnd[e])
        BY <3>1, <3>2, <3>3, SlotInjective
      <3>5. QED
        BY <2>1, <2>3, <3>3, <3>4
    <2>4. QED
      BY <2>2, <2>3
  <1>2. TypeOK /\ [Next]_vars => [Kept]_vars
    <2> SUFFICES ASSUME TypeOK, Next PROVE Kept
      OBVIOUS
    <2>1. ASSUME NEW e \in Ends, Send(e) PROVE Kept
      BY <1>1, <2>1 DEF Send
    <2>2. ASSUME NEW e \in Ends, SendEmpty(e) PROVE Kept
      BY <1>1, <2>2 DEF SendEmpty
    <2>3. CASE sendSlot' = sendSlot
      BY <2>3
    <2>4. QED
      BY <2>1, <2>2, <2>3
      DEF Next, Accept, Transmit, RecvPacket, RecvNoBuffer, RecvAgain, Deliver,
          DeliverDone, Fail, Lose, sendVars
  <1>3. QED
    BY <1>2, TypeCorrect, PTL DEF Spec, UnackedKept

------------------------------------------------------------------------------
(* The connection implements a pair of reliable streams *)

\* Every step opens an end, puts a chunk in, gets one out, or is a stutter.
LEMMA StreamStep ==
    ASSUME TypeOK, InOrderDelivery', ConnectedBeforeData', [Next]_vars
    PROVE  [Stream!Next]_Stream!streamVars
  <1> USE DEF endVars, sendVars, recvVars
  <1> DEFINE accepted == [e \in Ends |-> ChunkCount(e, sendEnd[e] - 1)]
  <1>1. UNCHANGED <<chunks, sendEnd>> => accepted' = accepted
    BY DEF ChunkCount
  <1>2. CASE UNCHANGED <<connected, chunks, sendEnd, delivered>>
    BY <1>1, <1>2 DEF Stream!streamVars
  <1>3. ASSUME NEW e \in Ends, NEW k \in Nat,
               chunks' = [chunks EXCEPT ![e] = Append(@, k)],
               sendEnd' = [sendEnd EXCEPT ![e] = @ + 1]
        PROVE  accepted' = [accepted EXCEPT ![e] = k]
    <2>1. PICK last \in Nat \ {0} : last = sendEnd[e]
      BY DEF TypeOK
    <2>2. /\ sendEnd'[e] - 1 = last
          /\ \A d \in Ends \ {e} : sendEnd'[d] = sendEnd[d]
      BY <1>3, <2>1 DEF TypeOK
    <2>3. ChunkCount(e, last)' = k /\ \A d \in Ends \ {e} : chunks'[d] = chunks[d]
      BY <1>3, <2>1, HistoryKept
    <2>4. accepted'[e] = k
      BY <2>2, <2>3
    <2>5. \A d \in Ends \ {e} : accepted'[d] = accepted[d]
      BY <2>2, <2>3 DEF ChunkCount
    <2>6. QED
      BY <2>4, <2>5
  <1>4. ASSUME NEW e \in Ends, Send(e) PROVE Stream!Put(e)
    <2>1. ChunkCount(e, sendEnd[e] - 1) + 1 \in Nat
      BY ChunkCountType, CounterTypes
    <2>2. accepted' = [accepted EXCEPT ![e] = ChunkCount(e, sendEnd[e] - 1) + 1]
      BY <1>3, <1>4, <2>1 DEF Send, Add2SendWindow
    <2>3. QED
      BY <1>4, <2>2 DEF Send, Stream!Put
  <1>5. ASSUME NEW e \in Ends, SendEmpty(e) PROVE UNCHANGED Stream!streamVars
    <2>1. ChunkCount(e, sendEnd[e] - 1) \in Nat
      BY ChunkCountType, CounterTypes
    <2>2. accepted' = [accepted EXCEPT ![e] = ChunkCount(e, sendEnd[e] - 1)]
      BY <1>3, <1>5, <2>1 DEF SendEmpty, Add2SendWindow
    <2>3. accepted' = accepted
      BY <2>2
    <2>4. QED
      BY <1>5, <2>3 DEF SendEmpty, Stream!streamVars
  <1>6. ASSUME NEW e \in Ends, NEW p \in net, RecvPacket(e, p)
        PROVE  [Stream!Next]_Stream!streamVars
    <2>1. /\ connected' = [connected EXCEPT ![e] =
                              @ \/ (~connected[e] /\ p.status = ST_ESTABLISHED)]
          /\ UNCHANGED <<chunks, sendEnd, delivered>>
      BY <1>6 DEF RecvPacket, Opens
    <2>2. CASE connected[e] \/ p.status # ST_ESTABLISHED
      <3>1. connected' = connected
        BY <2>1, <2>2 DEF TypeOK
      <3>2. QED
        BY <1>2, <2>1, <3>1
    <2>3. CASE ~connected[e] /\ p.status = ST_ESTABLISHED
      <3>1. connected' = [connected EXCEPT ![e] = TRUE]
        BY <2>1, <2>3
      <3>2. Stream!Open(e)
        BY <1>1, <2>1, <2>3, <3>1 DEF Stream!Open
      <3>3. QED
        BY <3>2 DEF Stream!Next
    <2>4. QED
      BY <2>2, <2>3
  <1>7. ASSUME NEW e \in Ends, Deliver(e)
        PROVE  [Stream!Next]_Stream!streamVars
    <2>1. PICK data : data = recvSlot[e][SlotOf(recvBegin[e])]
      OBVIOUS
    <2>2. /\ delivered' = [delivered EXCEPT ![e] =
                              IF data = NoData THEN @ ELSE Append(@, data)]
          /\ UNCHANGED <<connected, chunks, sendEnd>>
          /\ data \in Nat \cup {Empty, Stale}
      BY <1>7, <2>1, CounterTypes DEF Deliver, TypeOK
    <2>3. CASE data = NoData
      <3>1. delivered' = delivered
        BY <2>2, <2>3 DEF TypeOK
      <3>2. QED
        BY <1>2, <2>2, <3>1
    <2>4. CASE data # NoData
      <3>1. delivered' = [delivered EXCEPT ![e] = Append(@, data)]
        BY <2>2, <2>4
      <3>2. PICK s \in Seq(Nat \cup {Stale}) : s = delivered[e]
        BY DEF TypeOK
      <3>3. delivered'[e] = Append(s, data)
        BY <3>1, <3>2 DEF TypeOK
      <3>4. /\ Len(delivered'[e]) = Len(s) + 1
            /\ Len(s) + 1 \in DOMAIN delivered'[e]
            /\ delivered'[e][Len(s) + 1] = data
            /\ delivered'[e] # <<>>
        BY <3>2, <3>3
      <3>5. data = Len(s) + 1 /\ connected[e]
        BY <2>2, <3>4 DEF InOrderDelivery, ConnectedBeforeData
      <3>6. Len(delivered'[e]) <= accepted'[Peer(e)]
        BY EndsFacts DEF InOrderDelivery
      <3>7. accepted[Peer(e)] \in Nat
        BY EndsFacts, ChunkCountType, CounterTypes
      <3>8. Len(s) < accepted[Peer(e)]
        BY <1>1, <2>2, <3>2, <3>4, <3>6, <3>7
      <3>9. Stream!Get(e)
        BY <1>1, <2>2, <3>1, <3>2, <3>5, <3>8 DEF Stream!Get
      <3>10. QED
        BY <3>9 DEF Stream!Next
    <2>5. QED
      BY <2>3, <2>4
  <1>8. QED
    BY <1>2, <1>4, <1>5, <1>6, <1>7
    DEF Next, Accept, Transmit, RecvNoBuffer, RecvAgain, DeliverDone, Fail, Lose,
        vars, Stream!Next

\* A UDP connection that starts in SoundMemory is a pair of reliable, ordered
\* streams.
THEOREM StreamRefinement == SoundSpec => ImplementsStream
  <1>1. Init => Stream!Init
    BY DEF Init, Stream!Init, ChunkCount
  <1>2. TypeOK /\ InOrderDelivery' /\ ConnectedBeforeData' /\ [Next]_vars
            => [Stream!Next]_Stream!streamVars
    BY StreamStep
  <1>3. QED
    BY <1>1, <1>2, TypeCorrect, DeliveryInOrder, DataAfterConnected, PTL
    DEF Spec, SoundInit, SoundSpec, Stream!Spec, ImplementsStream

------------------------------------------------------------------------------
(* Receive buffers: with zeroed memory they never leak and never run out *)

\* A window has WindowSize slots.
LEMMA SlotsFinite == IsFiniteSet(Slots) /\ Cardinality(Slots) = WindowSize
  BY FS_Interval, WindowSizeFacts DEF Slots

\* The slots that hold a buffer can be counted.
LEMMA HeldFinite ==
    ASSUME NEW e \in Ends
    PROVE  IsFiniteSet(HeldSlots(e)) /\ Cardinality(HeldSlots(e)) \in Nat
  <1>1. HeldSlots(e) \subseteq Slots
    BY DEF HeldSlots
  <1>2. QED
    BY <1>1, SlotsFinite, FS_Subset, FS_CardinalityType

\* The invariant of one end, by name.
BufferInvAt(e) ==
    /\ recvFree[e] + Cardinality(HeldSlots(e)) = WindowSize
    /\ ~connected[e] => \A i \in Slots : recvSlot[e][i] = Stale
    /\ /\ error[e] = NoError
       /\ pc[e] # "deliver"
       /\ pc[e] = "read" => ~received[e]
       => recvSlot[e][SlotOf(recvBegin[e])] \notin Nat
    /\ pc[e] = "read" => recvFree[e] > 0
    /\ error[e] # AllocBuff

\* The buffers of the two ends are independent.
LEMMA BufferInvSplit == BufferInv <=> \A e \in Ends : BufferInvAt(e)
  BY DEF BufferInv, BufferInvAt

\* A step of one end that leaves the receive window and its buffers alone.
LEMMA BufferFrame ==
    ASSUME NEW e \in Ends, BufferInvAt(e),
           connected'[e] = connected[e], recvSlot'[e] = recvSlot[e],
           recvFree'[e] = recvFree[e], recvBegin'[e] = recvBegin[e],
           \/ /\ error'[e] # NoError /\ error'[e] # AllocBuff
              /\ pc'[e] # "read"
           \/ /\ error'[e] = error[e]
              /\ \/ pc'[e] = pc[e] /\ received'[e] = received[e]
                 \/ /\ pc'[e] # "read"
                    /\ error[e] = NoError /\ pc[e] # "deliver"
                    /\ pc[e] = "read" => ~received[e]
                 \/ pc'[e] = "deliver"
                 \/ /\ pc'[e] # "read"
                    /\ recvSlot[e][SlotOf(recvBegin[e])] \notin Nat
    PROVE  BufferInvAt(e)'
  BY DEF BufferInvAt, HeldSlots

\* ReceiveMessages stores a packet in a slot that holds no buffer, or none.
LEMMA BufferRecv ==
    ASSUME TypeOK, SafetyInv, NEW e \in Ends, BufferInvAt(e),
           NEW p \in net, RecvPacket(e, p)
    PROVE  BufferInvAt(e)'
  <1> DEFINE opens  == ~connected[e] /\ p.status = ST_ESTABLISHED
             slots  == IF opens THEN [i \in Slots |-> Empty] ELSE recvSlot[e]
             slot   == SlotOf(p.syn)
             stored == /\ IsValidIndex(p.syn, recvBegin[e], RecvEnd(e))
                       /\ slots[slot] = Empty
             free   == IF stored THEN recvFree[e] - 1 ELSE recvFree[e]
             held   == {i \in Slots : slots[i] \in Nat}
  <1>1. /\ connected'[e] = (connected[e] \/ opens)
        /\ recvSlot'[e] = IF stored THEN [slots EXCEPT ![slot] = p.payload] ELSE slots
        /\ recvFree'[e] = free
        /\ received'[e] = ((pc[e] = "read" /\ received[e]) \/ stored)
        /\ pc'[e] = IF stored /\ free = 0 THEN "deliver" ELSE "read"
        /\ recvBegin'[e] = recvBegin[e] /\ error'[e] = error[e]
        /\ error[e] = NoError /\ recvFree[e] > 0
        /\ pc[e] \in {"idle", "read"}
    BY DEF RecvPacket, TypeOK, Active, Opens, Stores, AfterRead
  <1>2. slot \in Slots /\ p.payload \in Nat
    BY DatagramDecoded DEF RecvPacket
  <1>3. /\ recvFree[e] \in Nat /\ recvBegin[e] \in Nat \ {0}
        /\ slots \in [Slots -> Nat \cup {Empty, Stale}]
    BY DEF TypeOK
  <1>4. SlotOf(recvBegin[e]) \in Slots
    BY CounterTypes
  <1>5. /\ opens \in BOOLEAN /\ stored \in BOOLEAN
        /\ stored => slots[slot] = Empty
        /\ opens => slots = [i \in Slots |-> Empty]
        /\ ~opens => slots = recvSlot[e]
        /\ opens => ~connected[e]
        /\ free = IF stored THEN recvFree[e] - 1 ELSE recvFree[e]
    BY DEF TypeOK
  <1> HIDE DEF opens, slots, stored, free, slot
  <1>6. held = HeldSlots(e)
    <2>1. opens => held = {} /\ HeldSlots(e) = {}
      BY <1>5 DEF HeldSlots, BufferInvAt, Empty, Stale
    <2>2. ~opens => held = HeldSlots(e)
      BY <1>5 DEF HeldSlots
    <2>3. QED
      BY <1>5, <2>1, <2>2
  <1>7. /\ stored => HeldSlots(e)' = held \cup {slot} /\ slot \notin held
        /\ ~stored => HeldSlots(e)' = held
    BY <1>1, <1>2, <1>3, <1>5 DEF HeldSlots, Empty
  <1> HIDE DEF held
  <1>8. recvFree'[e] + Cardinality(HeldSlots(e)') = WindowSize
    <2>1. IsFiniteSet(held) /\ Cardinality(held) \in Nat
          /\ recvFree[e] + Cardinality(held) = WindowSize
      BY <1>6, HeldFinite DEF BufferInvAt
    <2>2. stored => Cardinality(HeldSlots(e)') = Cardinality(held) + 1
      BY <1>7, <2>1, FS_AddElement
    <2>3. QED
      BY <1>1, <1>3, <1>5, <1>7, <2>1, <2>2
  <1>9. ~connected'[e] => \A i \in Slots : recvSlot'[e][i] = Stale
    <2> SUFFICES ASSUME ~connected'[e] PROVE \A i \in Slots : recvSlot'[e][i] = Stale
      OBVIOUS
    <2>1. ~connected[e] /\ ~opens
      BY <1>1, <1>5
    <2>2. \A i \in Slots : slots[i] = Stale
      BY <1>5, <2>1 DEF BufferInvAt
    <2>3. ~stored
      BY <1>2, <1>5, <2>2 DEF Empty, Stale
    <2>4. QED
      BY <1>1, <2>2, <2>3
  <1>10. /\ error'[e] = NoError
         /\ pc'[e] # "deliver"
         /\ pc'[e] = "read" => ~received'[e]
         => recvSlot'[e][SlotOf(recvBegin'[e])] \notin Nat
    <2> SUFFICES ASSUME ~stored, ~(pc[e] = "read" /\ received[e])
                 PROVE  slots[SlotOf(recvBegin[e])] \notin Nat
      BY <1>1, <1>5
    <2>1. recvSlot[e][SlotOf(recvBegin[e])] \notin Nat
      BY <1>1 DEF BufferInvAt
    <2>2. QED
      BY <1>4, <1>5, <2>1 DEF Empty
  <1>11. pc'[e] = "read" => recvFree'[e] > 0
    BY <1>1, <1>3, <1>5
  <1>12. QED
    BY <1>1, <1>8, <1>9, <1>10, <1>11 DEF BufferInvAt, NoError, AllocBuff

\* Delivery frees the buffer of the first slot; a garbage slot is never
\* delivered.
LEMMA BufferDeliver ==
    ASSUME TypeOK, SafetyInv, NEW e \in Ends, BufferInvAt(e), Deliver(e)
    PROVE  BufferInvAt(e)'
  <1>1. PICK slot \in Slots : slot = SlotOf(recvBegin[e])
    BY CounterTypes
  <1>2. /\ recvFree'[e] = recvFree[e] + 1
        /\ recvSlot'[e] = [recvSlot[e] EXCEPT ![slot] = Empty]
        /\ connected'[e] = connected[e] /\ pc'[e] = pc[e] /\ error'[e] = error[e]
        /\ pc[e] = "deliver" /\ recvSlot[e][slot] # Empty
    BY <1>1 DEF Deliver, TypeOK, endVars
  <1>3. recvFree[e] \in Nat /\ recvSlot[e] \in [Slots -> Nat \cup {Empty, Stale}]
    BY DEF TypeOK
  <1>4. \A i \in Slots : recvSlot[e][i] # Stale
    <2>1. ~connected[e] => recvSlot[e][SlotOf(1)] = Stale
      BY SlotInRange DEF BufferInvAt
    <2>2. QED
      BY <1>2, <2>1 DEF SafetyInv, RecvInv, FirstSlots
  <1>5. slot \in HeldSlots(e) /\ HeldSlots(e)' = HeldSlots(e) \ {slot}
    BY <1>1, <1>2, <1>3, <1>4 DEF HeldSlots, Empty
  <1>6. recvFree'[e] + Cardinality(HeldSlots(e)') = WindowSize
    <2>1. Cardinality(HeldSlots(e)') = Cardinality(HeldSlots(e)) - 1
      BY <1>5, HeldFinite, FS_RemoveElement
    <2>2. QED
      BY <1>2, <1>3, <2>1, HeldFinite DEF BufferInvAt
  <1>7. connected'[e]
    BY <1>1, <1>2, <1>4 DEF BufferInvAt
  <1>8. QED
    BY <1>2, <1>6, <1>7 DEF BufferInvAt

\* With a buffer in no slot of the window's start, one is free.
LEMMA BufferLeft ==
    ASSUME TypeOK, NEW e \in Ends, BufferInvAt(e), RecvNoBuffer(e)
    PROVE  FALSE
  <1>1. /\ recvFree[e] = 0 /\ error[e] = NoError /\ pc[e] \in {"idle", "read"}
    BY DEF RecvNoBuffer, Active
  <1>2. Cardinality(HeldSlots(e)) = WindowSize /\ pc[e] = "idle"
    BY <1>1, HeldFinite DEF BufferInvAt
  <1>3. HeldSlots(e) = Slots
    <2>1. HeldSlots(e) \subseteq Slots
      BY DEF HeldSlots
    <2>2. QED
      BY <1>2, <2>1, SlotsFinite, FS_Subset
  <1>4. SlotOf(recvBegin[e]) \in HeldSlots(e)
    BY <1>3, CounterTypes
  <1>5. QED
    BY <1>1, <1>2, <1>4 DEF BufferInvAt, HeldSlots

\* Every step keeps the buffers.
LEMMA BufferStep ==
    ASSUME TypeOK, SafetyInv, BufferInv, [Next]_vars
    PROVE  BufferInv'
  <1> SUFFICES ASSUME NEW d \in Ends PROVE BufferInvAt(d)'
    BY DEF BufferInv, BufferInvAt, HeldSlots
  <1> USE DEF endVars, sendVars, recvVars
  <1>1. BufferInvAt(d)
    BY BufferInvSplit
  <1>2. /\ connected \in [Ends -> BOOLEAN] /\ error \in [Ends -> Errors]
        /\ recvSlot \in [Ends -> [Slots -> Nat \cup {Empty, Stale}]]
        /\ recvFree \in [Ends -> Nat] /\ recvBegin \in [Ends -> Nat \ {0}]
        /\ received \in [Ends -> BOOLEAN]
        /\ pc \in [Ends -> {"idle", "stream", "transmit", "read", "deliver"}]
    BY DEF TypeOK
  <1>3. CASE /\ UNCHANGED <<connected, recvVars>>
             /\ error'[d] = error[d] /\ pc'[d] = pc[d]
    BY <1>1, <1>3, BufferFrame
  <1>4. ASSUME NEW e \in Ends, Send(e) \/ SendEmpty(e) \/ Transmit(e)
        PROVE  BufferInvAt(d)'
    <2>1. /\ UNCHANGED <<connected, error, recvVars>>
          /\ \E x \in {"stream", "transmit", "idle"} : pc' = [pc EXCEPT ![e] = x]
          /\ pc[e] \in {"idle", "stream", "transmit"}
          /\ error[e] = NoError
      BY <1>4 DEF Send, SendEmpty, Transmit, Active
    <2>2. CASE d = e
      <3>1. pc'[d] \in {"stream", "transmit", "idle"}
        BY <1>2, <2>1, <2>2
      <3>2. QED
        BY <1>1, <2>1, <2>2, <3>1, BufferFrame
    <2>3. CASE d # e
      BY <1>2, <1>3, <2>1, <2>3
    <2>4. QED
      BY <2>2, <2>3
  <1>5. ASSUME NEW e \in Ends, NEW p \in net, RecvPacket(e, p)
        PROVE  BufferInvAt(d)'
    <2>1. CASE d = e
      BY <1>1, <1>5, <2>1, BufferRecv
    <2>2. CASE d # e
      <3>1. /\ connected'[d] = connected[d] /\ recvSlot'[d] = recvSlot[d]
            /\ recvFree'[d] = recvFree[d] /\ recvBegin'[d] = recvBegin[d]
            /\ received'[d] = received[d] /\ error'[d] = error[d] /\ pc'[d] = pc[d]
        BY <1>2, <1>5, <2>2 DEF RecvPacket
      <3>2. QED
        BY <1>1, <3>1, BufferFrame
    <2>3. QED
      BY <2>1, <2>2
  <1>6. ASSUME NEW e \in Ends, RecvNoBuffer(e) PROVE FALSE
    BY <1>6, BufferInvSplit, BufferLeft
  <1>7. ASSUME NEW e \in Ends, RecvAgain(e) \/ DeliverDone(e) PROVE BufferInvAt(d)'
    <2>1. /\ UNCHANGED <<connected, error, recvBegin, recvSlot, recvFree>>
          /\ error[e] = NoError
          /\ \/ /\ pc[e] = "read"
                /\ received' = received
                /\ pc' = [pc EXCEPT ![e] = IF received[e] THEN "deliver" ELSE "idle"]
             \/ /\ received' = [received EXCEPT ![e] = FALSE]
                /\ pc' = [pc EXCEPT ![e] = "idle"]
                /\ recvSlot[e][SlotOf(recvBegin[e])] = Empty
      BY <1>7 DEF RecvAgain, DeliverDone, Active
    <2>2. CASE d = e
      <3>1. \/ pc[d] = "read" /\ ~received[d] /\ pc'[d] = "idle"
            \/ pc'[d] = "deliver"
            \/ pc'[d] = "idle" /\ recvSlot[d][SlotOf(recvBegin[d])] = Empty
        BY <1>2, <2>1, <2>2
      <3>2. QED
        BY <1>1, <2>1, <2>2, <3>1, BufferFrame DEF Empty
    <2>3. CASE d # e
      <3>1. pc'[d] = pc[d] /\ received'[d] = received[d]
        BY <1>2, <2>1, <2>3
      <3>2. QED
        BY <1>1, <2>1, <3>1, BufferFrame
    <2>4. QED
      BY <2>2, <2>3
  <1>8. ASSUME NEW e \in Ends, Deliver(e) PROVE BufferInvAt(d)'
    <2>1. CASE d = e
      BY <1>1, <1>8, <2>1, BufferDeliver
    <2>2. CASE d # e
      <3>1. /\ connected'[d] = connected[d] /\ recvSlot'[d] = recvSlot[d]
            /\ recvFree'[d] = recvFree[d] /\ recvBegin'[d] = recvBegin[d]
            /\ received'[d] = received[d] /\ error'[d] = error[d] /\ pc'[d] = pc[d]
        BY <1>2, <1>8, <2>2 DEF Deliver
      <3>2. QED
        BY <1>1, <3>1, BufferFrame
    <2>3. QED
      BY <2>1, <2>2
  <1>9. ASSUME NEW e \in Ends, Fail(e) PROVE BufferInvAt(d)'
    <2>1. /\ UNCHANGED <<connected, recvVars>>
          /\ error' = [error EXCEPT ![e] = Closed]
          /\ pc' = [pc EXCEPT ![e] = "idle"]
      BY <1>9 DEF Fail
    <2>2. CASE d = e
      <3>1. error'[d] = Closed /\ pc'[d] = "idle"
        BY <1>2, <2>1, <2>2
      <3>2. QED
        BY <1>1, <2>1, <3>1, BufferFrame DEF Closed, NoError, AllocBuff
    <2>3. CASE d # e
      BY <1>2, <1>3, <2>1, <2>3
    <2>4. QED
      BY <2>2, <2>3
  <1>10. CASE Accept \/ (\E p \in net : Lose(p)) \/ UNCHANGED vars
    BY <1>3, <1>10 DEF Accept, Lose, vars
  <1>11. QED
    BY <1>4, <1>5, <1>6, <1>7, <1>8, <1>9, <1>10 DEF Next

\* Slots that read as garbage until the connected packet, as zeroed memory
\* does, keep the free list whole.
THEOREM BufferInvariant == ASSUME SlotGarbage = {Stale} PROVE Spec => []BufferInv
  <1>1. Init => SoundMemory
    <2> SUFFICES ASSUME Init, NEW e \in Ends PROVE recvSlot[e][SlotOf(1)] = Stale
      BY DEF SoundMemory
    <2>1. SlotOf(1) \in Slots
      BY SlotInRange
    <2>2. QED
      BY <2>1 DEF Init
  <1>2. Init => BufferInv
    <2> SUFFICES ASSUME Init, NEW e \in Ends PROVE BufferInvAt(e)
      BY BufferInvSplit
    <2>1. \A i \in Slots : recvSlot[e][i] = Stale
      BY DEF Init
    <2>2. HeldSlots(e) = {} /\ recvSlot[e][SlotOf(recvBegin[e])] \notin Nat
      <3>1. SlotOf(recvBegin[e]) \in Slots
        BY SlotInRange DEF Init
      <3>2. QED
        BY <2>1, <3>1 DEF HeldSlots, Stale
    <2>3. recvFree[e] + Cardinality(HeldSlots(e)) = WindowSize
      BY <2>2, FS_EmptySet, WindowSizeFacts DEF Init
    <2>4. QED
      BY <2>1, <2>2, <2>3 DEF BufferInvAt, Init, NoError, AllocBuff
  <1>3. TypeOK /\ SafetyInv /\ BufferInv /\ [Next]_vars => BufferInv'
    BY BufferStep
  <1>4. Spec => []SafetyInv
    BY <1>1, SafetyInvariant, PTL DEF Spec, SoundInit, SoundSpec
  <1>5. QED
    BY <1>2, <1>3, <1>4, TypeCorrect, PTL DEF Spec

\* Every receive buffer is on the free list or in one slot.
THEOREM NoBufferLeak == ASSUME SlotGarbage = {Stale} PROVE Spec => []BuffersConserved
  <1>1. BufferInv => BuffersConserved
    BY DEF BufferInv, BuffersConserved
  <1>2. QED
    BY <1>1, BufferInvariant, PTL

\* ReceiveMessages always finds a buffer.
THEOREM BufferAvailable == ASSUME SlotGarbage = {Stale} PROVE Spec => []NoAllocFailure
  <1>1. BufferInv => NoAllocFailure
    BY DEF BufferInv, NoAllocFailure
  <1>2. QED
    BY <1>1, BufferInvariant, PTL
=============================================================================
