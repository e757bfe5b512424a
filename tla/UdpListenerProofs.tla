------------------------- MODULE UdpListenerProofs -------------------------
(***************************************************************************)
(* Why the listener's pool works although its list of free elements is     *)
(* wrong: the loop ends after one accept and the table is emptied before   *)
(* the next read operation, so that no more than one element, always the   *)
(* first, is ever in use. For any pool, table, hash and set of clients.    *)
(***************************************************************************)
EXTENDS UdpListener, SequenceTheorems, FiniteSetTheorems, TLAPS

Pools == [free : Links, next : [Elements -> Links], uses : [Elements -> Nat]]

\* Nothing in use: the first element is free, and linked to itself.
PoolIdle ==
    /\ pool.free = 1 /\ pool.next[1] = 1
    /\ \A e \in Elements : pool.uses[e] = 0

TableEmpty == \A b \in Buckets : table[b] = Nil

\* One request, in the first element.
OneRequest ==
    /\ pool.free = 1 /\ pool.next[1] = Nil
    /\ pool.uses[1] = 1
    /\ \A e \in Elements \ {1} : pool.uses[e] = 0
    /\ chain[1] = Nil
    /\ \E b \in Buckets : table[b] = 1 /\ \A x \in Buckets \ {b} : table[x] = Nil

RequestTypes ==
    /\ pc \in {"new", "wait", "read", "empty", "closed"}
    /\ pool \in Pools
    /\ table \in [Buckets -> Links]
    /\ chain \in [Elements -> Links]
    /\ addr \in [Elements -> Clients \cup {Malformed}]

RequestInv ==
    /\ RequestTypes
    /\ \/ PoolIdle /\ TableEmpty
       \/ pc = "empty" /\ OneRequest

-----------------------------------------------------------------------------
(* The pool *)

\* The pool's first element is not its last.
LEMMA OneIsElement == 1 \in Elements /\ 1 # PoolSize /\ Nil \notin Elements
BY ListenerAssumption DEF Elements, Nil

\* A fresh pool is idle.
LEMMA FreshPoolIdle ==
    /\ FreshPool \in Pools
    /\ FreshPool.free = 1 /\ FreshPool.next[1] = 1
    /\ \A e \in Elements : FreshPool.uses[e] = 0
BY OneIsElement DEF FreshPool, Pools, Links

\* An idle pool hands out its first element, and then none but the same.
LEMMA AllocatedOne ==
    ASSUME pool \in Pools, PoolIdle
    PROVE  /\ Allocated(pool) \in Pools
           /\ Allocated(pool).free = 1
           /\ Allocated(pool).next[1] = Nil
           /\ Allocated(pool).uses[1] = 1
           /\ \A e \in Elements \ {1} : Allocated(pool).uses[e] = 0
BY OneIsElement DEF Pools, PoolIdle, Allocated, Links

\* Freeing it makes a pool idle again.
LEMMA FreedOne ==
    ASSUME NEW p \in Pools, p.free = 1, p.uses[1] = 1,
           \A e \in Elements \ {1} : p.uses[e] = 0
    PROVE  /\ Freed(p, 1) \in Pools
           /\ Freed(p, 1).free = 1 /\ Freed(p, 1).next[1] = 1
           /\ \A e \in Elements : Freed(p, 1).uses[e] = 0
BY OneIsElement DEF Pools, Freed, Links

-----------------------------------------------------------------------------
(* Requests *)

\* The invariant holds at the start.
LEMMA RequestInit == Init => RequestInv
BY FreshPoolIdle DEF Init, RequestInv, RequestTypes, PoolIdle, TableEmpty, Links

\* What leaves pool, table and requests alone, and does not leave "empty".
LEMMA RequestStutter ==
    ASSUME RequestInv, UNCHANGED requestVars,
           pc' \in {"new", "wait", "read", "empty", "closed"},
           pc = "empty" => pc' = "empty"
    PROVE  RequestInv'
BY DEF RequestInv, RequestTypes, PoolIdle, TableEmpty, OneRequest, requestVars

\* A refused request gives its element back.
LEMMA RefuseStep ==
    ASSUME RequestInv, NEW c \in Clients, Refuse(c)
    PROVE  RequestInv'
<1>1. pc = "read" /\ PoolIdle /\ TableEmpty /\ RequestTypes
  BY DEF RequestInv, Refuse, Requested
<1>2. pool.free = 1
  BY <1>1 DEF PoolIdle
<1>3. pool' \in Pools /\ PoolIdle'
  BY <1>1, <1>2, AllocatedOne, FreedOne DEF Refuse, RequestTypes, PoolIdle
<1>4. TableEmpty' /\ table' \in [Buckets -> Links] /\ pc' = "read"
  BY <1>1 DEF Refuse, TableEmpty, RequestTypes
<1>5. chain' \in [Elements -> Links] /\ addr' \in [Elements -> Clients \cup {Malformed}]
  BY <1>1, <1>2, OneIsElement DEF Refuse, Requested, RequestTypes, Links
<1> QED BY <1>3, <1>4, <1>5 DEF RequestInv, RequestTypes

\* An accepted client's request is the only one.
LEMMA AcceptStep ==
    ASSUME RequestInv, NEW c \in Clients, Accept(c)
    PROVE  RequestInv'
<1>1. pc = "read" /\ PoolIdle /\ TableEmpty /\ RequestTypes
  BY DEF RequestInv, Accept, Requested
<1>2. pool.free = 1 /\ pool.free # Nil
  BY <1>1 DEF PoolIdle, Nil
<1>3. Hash[c] \in Buckets
  BY ListenerAssumption
<1>4. /\ pool' = Allocated(pool) /\ pc' = "empty"
      /\ table' = [table EXCEPT ![Hash[c]] = 1]
      /\ chain' = [chain EXCEPT ![1] = table[Hash[c]]]
      /\ addr' = [addr EXCEPT ![1] = c]
  BY <1>2 DEF Accept, Requested, AfterAccept, AddAcceptReq
<1>5. chain' \in [Elements -> Links] /\ chain'[1] = Nil
  BY <1>1, <1>3, <1>4, OneIsElement DEF RequestTypes, TableEmpty, Links
<1>6. table' \in [Buckets -> Links] /\ table'[Hash[c]] = 1
      /\ \A x \in Buckets \ {Hash[c]} : table'[x] = Nil
  BY <1>1, <1>3, <1>4, OneIsElement DEF RequestTypes, TableEmpty, Links
<1>7. addr' \in [Elements -> Clients \cup {Malformed}]
  BY <1>1, <1>4 DEF RequestTypes
<1>8. /\ pool' \in Pools /\ pool'.free = 1 /\ pool'.next[1] = Nil /\ pool'.uses[1] = 1
      /\ \A e \in Elements \ {1} : pool'.uses[e] = 0
  BY <1>1, <1>4, AllocatedOne DEF RequestTypes
<1>9. OneRequest'
  BY <1>3, <1>5, <1>6, <1>8 DEF OneRequest
<1> QED BY <1>4, <1>5, <1>6, <1>7, <1>8, <1>9 DEF RequestInv, RequestTypes

\* Emptying the table frees that request.
LEMMA EmptiedStep ==
    ASSUME RequestInv, Emptied
    PROVE  RequestInv'
<1>1. CASE TableEmpty
  <2>1. PoolIdle
    BY <1>1, OneIsElement DEF RequestInv, OneRequest, TableEmpty
  <2>2. pc' = "wait" /\ UNCHANGED requestVars
    BY <1>1 DEF Emptied, TableEmpty, requestVars
  <2> QED BY <1>1, <2>1, <2>2 DEF RequestInv, RequestTypes, PoolIdle, TableEmpty, requestVars
<1>2. CASE ~TableEmpty
  <2>1. OneRequest /\ RequestTypes /\ pc = "empty"
    BY <1>2 DEF RequestInv
  <2> DEFINE b == CHOOSE x \in Buckets : table[x] # Nil
  <2>2. b \in Buckets /\ table[b] # Nil
    BY <1>2 DEF TableEmpty
  <2>3. table[b] = 1 /\ \A x \in Buckets \ {b} : table[x] = Nil
    BY <2>1, <2>2 DEF OneRequest
  <2>4. table' = [table EXCEPT ![b] = chain[table[b]]] /\ pool' = Freed(pool, table[b])
        /\ UNCHANGED <<pc, chain, addr>>
    BY <1>2 DEF Emptied, TableEmpty
  <2>5. table' \in [Buckets -> Links] /\ TableEmpty'
    BY <2>1, <2>2, <2>3, <2>4 DEF OneRequest, TableEmpty, RequestTypes, Links
  <2>6. pool' \in Pools /\ PoolIdle'
    BY <2>1, <2>3, <2>4, FreedOne DEF OneRequest, PoolIdle, RequestTypes
  <2> QED BY <2>1, <2>4, <2>5, <2>6 DEF RequestInv, RequestTypes
<1> QED BY <1>1, <1>2

\* Every step keeps the invariant.
LEMMA RequestStep == RequestInv /\ [Next]_vars => RequestInv'
<1> SUFFICES ASSUME RequestInv, [Next]_vars PROVE RequestInv'
  OBVIOUS
<1>1. CASE Listen
  <2>1. pool' = FreshPool /\ TableEmpty' /\ table' \in [Buckets -> Links]
    BY <1>1 DEF Listen, TableEmpty, Links
  <2> QED
    BY <1>1, <2>1, FreshPoolIdle DEF Listen, RequestInv, RequestTypes, PoolIdle
<1>2. CASE CloseAll \/ ReadBegins \/ ReadEnds \/ ReadSkips
  BY <1>2, RequestStutter DEF CloseAll, ReadBegins, ReadEnds, ReadSkips, RequestInv, RequestTypes
<1>3. ASSUME NEW c \in Clients, Refuse(c) PROVE RequestInv'
  BY <1>3, RefuseStep
<1>4. ASSUME NEW c \in Clients, Accept(c) PROVE RequestInv'
  BY <1>4, AcceptStep
<1>5. CASE Emptied
  BY <1>5, EmptiedStep
<1>6. ASSUME NEW i \in DOMAIN sockets, Connect(i) \/ ConnectFails(i) \/ Ends(i)
      PROVE  RequestInv'
  BY <1>6, RequestStutter DEF Connect, ConnectFails, Ends, RequestInv, RequestTypes
<1>7. CASE MalformedArrives \/ \E c \in Clients : Arrives(c)
  BY <1>7, RequestStutter DEF MalformedArrives, Arrives, RequestInv, RequestTypes
<1>8. CASE UNCHANGED vars
  BY <1>8, RequestStutter DEF vars, RequestInv, RequestTypes
<1> QED
  BY <1>1, <1>2, <1>3, <1>4, <1>5, <1>6, <1>7, <1>8 DEF Next, ReadOperation, ReadDatagram

\* The invariant holds always.
LEMMA RequestInvariant == Spec => []RequestInv
BY RequestInit, RequestStep, PTL DEF Spec

-----------------------------------------------------------------------------
(* The kernel's queue and the sockets *)

Addresses == Clients \cup {Malformed}
ClientSockets == [client : Clients, connected : BOOLEAN]

\* The queue holds datagrams, and every socket is a client's.
SocketInv ==
    /\ inbox \in Seq(Addresses)
    /\ sockets \in Seq(ClientSockets)

\* What is left when one element of a sequence is taken out.
LEMMA WithoutOne ==
    ASSUME NEW S, sockets \in Seq(S), NEW i \in DOMAIN sockets
    PROVE  Without(i) \in Seq(S)
<1> DEFINE a == SubSeq(sockets, 1, i - 1)
           b == SubSeq(sockets, i + 1, Len(sockets))
<1>1. /\ i \in 1 .. Len(sockets) /\ Len(sockets) \in Nat
      /\ \A k \in 1 .. Len(sockets) : sockets[k] \in S
  BY LenProperties, ElementOfSeq
<1>2. a \in Seq(S) /\ b \in Seq(S)
  BY <1>1, SubSeqProperties
<1> HIDE DEF a, b
<1>3. a \o b \in Seq(S)
  BY <1>2, ConcatProperties
<1> QED BY <1>3 DEF Without, a, b

\* Connecting a socket or closing it leaves the others as they are.
LEMMA SocketStep ==
    ASSUME SocketInv, NEW i \in DOMAIN sockets, Connect(i) \/ ConnectFails(i) \/ Ends(i)
    PROVE  SocketInv'
<1>1. inbox' = inbox
  BY DEF Connect, ConnectFails, Ends
<1>2. CASE Connect(i)
  <2>1. sockets' = [sockets EXCEPT ![i].connected = TRUE]
    BY <1>2 DEF Connect
  <2>2. /\ \A j \in DOMAIN sockets : sockets[j] \in ClientSockets
        /\ DOMAIN sockets = 1 .. Len(sockets) /\ Len(sockets) \in Nat
    BY ElementOfSeq, LenProperties DEF SocketInv
  <2>3. sockets' \in [1 .. Len(sockets) -> ClientSockets]
    BY <2>1, <2>2, LenProperties DEF SocketInv, ClientSockets
  <2>4. sockets' \in Seq(ClientSockets)
    BY <2>2, <2>3, SeqDef
  <2> QED BY <1>1, <2>4 DEF SocketInv
<1>3. CASE ConnectFails(i) \/ Ends(i)
  <2>1. sockets' = Without(i)
    BY <1>3 DEF ConnectFails, Ends
  <2> QED BY <1>1, <2>1, WithoutOne DEF SocketInv
<1> QED BY <1>2, <1>3

\* Every step keeps it.
LEMMA SocketNext == SocketInv /\ [Next]_vars => SocketInv'
<1> SUFFICES ASSUME SocketInv, [Next]_vars PROVE SocketInv'
  OBVIOUS
<1>1. ASSUME inbox # <<>> PROVE Tail(inbox) \in Seq(Addresses)
  BY <1>1, HeadTailProperties DEF SocketInv
<1>2. CASE Listen \/ ReadBegins \/ ReadEnds \/ Emptied \/ UNCHANGED vars
  BY <1>2 DEF Listen, ReadBegins, ReadEnds, Emptied, vars, SocketInv
<1>3. CASE CloseAll
  BY <1>3, EmptySeq DEF CloseAll, SocketInv
<1>4. CASE ReadSkips
  BY <1>1, <1>4 DEF ReadSkips, SocketInv
<1>5. ASSUME NEW c \in Clients, Refuse(c) PROVE SocketInv'
  BY <1>1, <1>5 DEF Refuse, Requested, SocketInv
<1>6. ASSUME NEW c \in Clients, Accept(c) PROVE SocketInv'
  <2>1. inbox' \in Seq(Addresses)
    BY <1>1, <1>6 DEF Accept, Requested
  <2>2. CASE sockets' = sockets
    BY <2>1, <2>2 DEF SocketInv
  <2>3. CASE sockets' = Append(sockets, AcceptSocket(c))
    <3>1. AcceptSocket(c) \in ClientSockets
      BY DEF AcceptSocket, ClientSockets
    <3> QED BY <2>1, <2>3, <3>1, AppendProperties, LenProperties DEF SocketInv
  <2> QED BY <1>6, <2>2, <2>3 DEF Accept
<1>7. ASSUME NEW i \in DOMAIN sockets, Connect(i) \/ ConnectFails(i) \/ Ends(i)
      PROVE  SocketInv'
  BY <1>7, SocketStep
<1>8. CASE MalformedArrives \/ \E c \in Clients : Arrives(c)
  <2>1. sockets' = sockets /\ \E d \in Addresses : inbox' = Append(inbox, d)
    BY <1>8 DEF MalformedArrives, Arrives, Addresses
  <2> QED BY <2>1, AppendProperties DEF SocketInv
<1> QED
  BY <1>2, <1>3, <1>4, <1>5, <1>6, <1>7, <1>8 DEF Next, ReadOperation, ReadDatagram

\* It holds always.
LEMMA SocketInvariant == Spec => []SocketInv
<1>1. Init => SocketInv
  BY EmptySeq DEF Init, SocketInv
<1> QED BY <1>1, SocketNext, PTL DEF Spec

-----------------------------------------------------------------------------
(* Theorems *)

\* Types, for any clients, table and pool and queues of any length.
THEOREM TypeCorrect == Spec => []TypeOK
<1>1. RequestInv /\ SocketInv => TypeOK
  BY DEF RequestInv, RequestTypes, SocketInv, TypeOK, Pools, Addresses, ClientSockets
<1> QED BY <1>1, RequestInvariant, SocketInvariant, PTL

\* CQueue's check in a debug build never fails: no element is handed out while
\* it is in use, although the list of free elements would allow it.
THEOREM ElementsUsedOnce == Spec => []UsedOnce
<1>1. RequestInv => UsedOnce
  BY OneIsElement DEF RequestInv, RequestTypes, Pools, PoolIdle, OneRequest, UsedOnce
<1> QED BY <1>1, RequestInvariant, PTL

\* However many requests were refused or emptied before, a read operation finds
\* an empty table and an element for the next request.
THEOREM AlwaysReady == Spec => []ReadyToAccept
<1>1. RequestInv => ReadyToAccept
  BY OneIsElement DEF RequestInv, PoolIdle, TableEmpty, ReadyToAccept
<1> QED BY <1>1, RequestInvariant, PTL

\* The pool, whose free list is a loop, never runs out and never hands out twice.
THEOREM PoolSuffices == Spec => []PoolInv
<1>1. UsedOnce /\ ReadyToAccept => PoolInv
  BY DEF PoolInv
<1> QED BY <1>1, ElementsUsedOnce, AlwaysReady, PTL

=============================================================================
