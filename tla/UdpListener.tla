---------------------------- MODULE UdpListener -----------------------------
(***************************************************************************)
(* How a CUdpListener accepts clients. A client's first datagram, its SYN, *)
(* reaches the listener's socket; the read operation opens a socket for    *)
(* the client, makes a session and a connector, and posts the event that   *)
(* connects that socket. Until then the kernel gives the new socket the    *)
(* datagrams that any client sends to its address: it is bound to one      *)
(* address of the host, the listener to all of them.                       *)
(*                                                                         *)
(* A table of requests is there to recognise a client whose request is     *)
(* being dealt with; its entries come from a CQueue, a fixed pool.         *)
(*                                                                         *)
(* Each turn of the read operation's loop is a step, datagrams arrive in   *)
(* between. What the connectors do afterwards is UdpTransport's.           *)
(***************************************************************************)
EXTENDS Naturals, Sequences, FiniteSets

CONSTANTS
    Clients,     \* addresses of clients
    Elsewhere,   \* those that send to another address of the host, as 127.0.0.1
    Malformed,   \* a datagram that is no SYN
    Buckets,     \* UDP_ACCEPT_HASH_SIZE
    Hash,        \* GenerateAcceptHash
    PoolSize,    \* UDP_ACCEPT_MAX_SIZE
    InboxSize,   \* bound: datagrams the kernel keeps for the listener
    MaxCopies    \* bound: SYNs and sockets of one client at once

ASSUME ListenerAssumption ==
    /\ Malformed \notin Clients
    /\ Elsewhere \subseteq Clients
    /\ Hash \in [Clients -> Buckets]
    /\ PoolSize \in Nat /\ PoolSize >= 2
    /\ InboxSize \in Nat /\ MaxCopies \in Nat

Nil == 0
Elements == 1 .. PoolSize
Links == Elements \cup {Nil}

VARIABLES
    pc,       \* "new", "wait" in epoll, "read" in the loop, "empty", "closed"
    pool,     \* m_oAcceptPool: m_pFreeNode, m_pNext and m_dwUseCount
    table,    \* m_arroAcceptQueue
    chain,    \* m_pNext of the AcceptReq in each element
    addr,     \* its addr
    inbox,    \* what the kernel keeps for the listener's socket
    sockets   \* the sockets of connectors: client, connected or not

requestVars == <<pool, table, chain, addr>>
vars == <<pc, requestVars, inbox, sockets>>

-----------------------------------------------------------------------------
(* CQueue *)

\* A mistake: every element linked to the one after it, the last one too.
FreshPoolOverrun == [free |-> 1,
                     next |-> [e \in Elements |-> e + 1],
                     uses |-> [e \in Elements |-> 0]]

\* Init links every element to itself, the last one to none.
FreshPool == [free |-> 1,
              next |-> [e \in Elements |-> IF e = PoolSize THEN Nil ELSE e],
              uses |-> [e \in Elements |-> 0]]

\* Takes the element p.free.
Allocated(p) == [free |-> p.next[p.free],
                 next |-> [p.next EXCEPT ![p.free] = Nil],
                 uses |-> [p.uses EXCEPT ![p.free] = @ + 1]]

Freed(p, e) == [free |-> e,
                next |-> [p.next EXCEPT ![e] = p.free],
                uses |-> [p.uses EXCEPT ![e] = @ - 1]]

-----------------------------------------------------------------------------
(* The table of requests *)

\* The nth request of a bucket.
Nth(b) == LET nth[n \in 0 .. PoolSize] ==
                 IF n = 0 THEN table[b]
                 ELSE IF nth[n - 1] = Nil THEN Nil ELSE chain[nth[n - 1]]
          IN nth

Requests(b) == {Nth(b)[n] : n \in 0 .. PoolSize} \ {Nil}

\* GetAcceptReq finds one.
Known(c) == \E e \in Requests(Hash[c]) : addr[e] = c

Init ==
    /\ pc = "new"
    /\ pool = FreshPool
    /\ table = [b \in Buckets |-> Nil]
    /\ chain = [e \in Elements |-> Nil]
    /\ addr = [e \in Elements |-> Malformed]
    /\ inbox = <<>>
    /\ sockets = <<>>

\* Listen: the socket is opened, bound to all addresses and registered for
\* level-triggered input; if any of it fails it is closed again.
Listen ==
    /\ pc = "new"
    /\ pc' \in {"wait", "closed"}
    /\ pool' = FreshPool
    /\ table' = [b \in Buckets |-> Nil]
    /\ UNCHANGED <<chain, addr, inbox, sockets>>

\* CloseAllSockets: the listener is deregistered, its error operation closes
\* the socket.
CloseAll ==
    /\ pc = "wait"
    /\ pc' = "closed"
    /\ inbox' = <<>>
    /\ UNCHANGED <<requestVars, sockets>>

-----------------------------------------------------------------------------
(* The read operation *)

\* epoll goes on reporting the socket while it has datagrams.
ReadBegins ==
    /\ pc = "wait" /\ inbox # <<>>
    /\ pc' = "read"
    /\ UNCHANGED <<requestVars, inbox, sockets>>

\* recvfrom has nothing, or fails.
ReadEnds ==
    /\ pc = "read"
    /\ pc' = "empty"
    /\ UNCHANGED <<requestVars, inbox, sockets>>

\* Datagrams that are skipped: no SYN, or of a client with a request.
Skipped == {Malformed} \cup {c \in Clients : Known(c)}

ReadSkips ==
    /\ pc = "read" /\ inbox # <<>>
    /\ Head(inbox) \in Skipped
    /\ inbox' = Tail(inbox)
    /\ UNCHANGED <<pc, requestVars, sockets>>

\* A request gets an element.
Requested(c) ==
    /\ pc = "read" /\ inbox # <<>>
    /\ Head(inbox) = c /\ ~Known(c)
    /\ inbox' = Tail(inbox)
    /\ addr' = IF pool.free = Nil THEN addr ELSE [addr EXCEPT ![pool.free] = c]

\* The client's socket cannot be opened or bound; it is closed again, and the
\* loop goes on.
Refuse(c) ==
    /\ Requested(c)
    /\ pool.free # Nil
    /\ pool' = Freed(Allocated(pool), pool.free)
    /\ chain' = [chain EXCEPT ![pool.free] = Nil]
    /\ UNCHANGED <<pc, table, sockets>>

\* The client's socket, bound to the address that Listen was given.
AcceptSocket(c) == [client |-> c, connected |-> FALSE]

\* A mistake: the loop goes on, as for a datagram that is skipped.
AfterAcceptOn == "read"

\* After one client the loop ends.
AfterAccept == "empty"

\* The request in element e is the first of the client's bucket.
AddAcceptReq(c, e) ==
    /\ table' = [table EXCEPT ![Hash[c]] = e]
    /\ chain' = [chain EXCEPT ![e] = table[Hash[c]]]

\* The request is added, and OnClientConnected makes session, connector and posted
\* event. No element ends the loop.
Accept(c) ==
    /\ Requested(c)
    /\ IF pool.free = Nil
       THEN pc' = "empty" /\ UNCHANGED <<pool, table, chain, sockets>>
       ELSE /\ pc' = AfterAccept
            /\ pool' = Allocated(pool)
            /\ AddAcceptReq(c, pool.free)
            /\ sockets' = Append(sockets, AcceptSocket(c))

\* A mistake: the table keeps its requests.
EmptiedNot ==
    /\ pc = "empty"
    /\ pc' = "wait"
    /\ UNCHANGED <<requestVars, inbox, sockets>>

\* The requests go back to the pool, first bucket first.
Emptied ==
    /\ pc = "empty"
    /\ IF \A b \in Buckets : table[b] = Nil
       THEN pc' = "wait" /\ UNCHANGED <<pool, table>>
       ELSE LET b == CHOOSE b \in Buckets : table[b] # Nil IN
            /\ table' = [table EXCEPT ![b] = chain[table[b]]]
            /\ pool' = Freed(pool, table[b])
            /\ UNCHANGED pc
    /\ UNCHANGED <<chain, addr, inbox, sockets>>

-----------------------------------------------------------------------------
(* The connectors' events and the kernel *)

Without(i) == SubSeq(sockets, 1, i - 1) \o SubSeq(sockets, i + 1, Len(sockets))

\* The posted UdpConnect connects the socket to its client, or fails and the
\* error operation ends session and connector.
Connect(i) ==
    /\ ~sockets[i].connected
    /\ sockets' = [sockets EXCEPT ![i].connected = TRUE]
    /\ UNCHANGED <<pc, requestVars, inbox>>

ConnectFails(i) ==
    /\ ~sockets[i].connected
    /\ sockets' = Without(i)
    /\ UNCHANGED <<pc, requestVars, inbox>>

\* A connection ends, for whatever reason.
Ends(i) ==
    /\ sockets[i].connected
    /\ sockets' = Without(i)
    /\ UNCHANGED <<pc, requestVars, inbox>>

\* The client has a connector whose socket is connected.
Connected(c) == \E i \in DOMAIN sockets : sockets[i].client = c /\ sockets[i].connected

\* The kernel prefers a socket connected to the sender, then one bound to the
\* destination address: what is sent to the connectors' address goes to one of
\* them, what is sent elsewhere on the host to the listener.
Taken(c) ==
    /\ c \notin Elsewhere
    /\ \E i \in DOMAIN sockets : sockets[i].connected => sockets[i].client = c

Queued(c) == {i \in DOMAIN inbox : inbox[i] = c}
Copies(c) == Cardinality(Queued(c))
             + Cardinality({i \in DOMAIN sockets : sockets[i].client = c})

\* A client sends its SYN, for the first time or again; the network may have
\* duplicated it. One that another socket gets is not seen by the listener.
Arrives(c) ==
    /\ pc \in {"wait", "read", "empty"}
    /\ ~Taken(c)
    /\ Len(inbox) < InboxSize
    /\ Copies(c) < MaxCopies
    /\ inbox' = Append(inbox, c)
    /\ UNCHANGED <<pc, requestVars, sockets>>

\* Anybody sends anything, to any address of the host.
MalformedArrives ==
    /\ pc \in {"wait", "read", "empty"}
    /\ Len(inbox) < InboxSize
    /\ inbox' = Append(inbox, Malformed)
    /\ UNCHANGED <<pc, requestVars, sockets>>

ReadDatagram == ReadSkips \/ \E c \in Clients : Refuse(c) \/ Accept(c)

ReadOperation == ReadBegins \/ ReadDatagram \/ ReadEnds \/ Emptied

Next ==
    \/ Listen
    \/ CloseAll
    \/ ReadOperation
    \/ \E i \in DOMAIN sockets : Connect(i) \/ ConnectFails(i) \/ Ends(i)
    \/ \E c \in Clients : Arrives(c)
    \/ MalformedArrives

Spec == Init /\ [][Next]_vars

\* The I/O threads' loops go on. A client sends until it is answered and some of
\* that arrives; reading a datagram, opening, binding and connecting a client's
\* socket work now and then.
FairSpec ==
    /\ Spec
    /\ WF_vars(Listen)
    /\ WF_vars(ReadOperation)
    /\ SF_vars(ReadDatagram)
    /\ \A c \in Clients : SF_vars(Arrives(c)) /\ SF_vars(Accept(c))
    /\ WF_vars(\E i \in DOMAIN sockets : Connect(i) \/ ConnectFails(i))
    /\ \A c \in Clients :
          SF_vars(\E i \in DOMAIN sockets : sockets[i].client = c /\ Connect(i))

-----------------------------------------------------------------------------
(* Properties *)

\* Types of all variables.
TypeOK ==
    /\ pc \in {"new", "wait", "read", "empty", "closed"}
    /\ pool \in [free : Links, next : [Elements -> Links], uses : [Elements -> Nat]]
    /\ table \in [Buckets -> Links]
    /\ chain \in [Elements -> Links]
    /\ addr \in [Elements -> Clients \cup {Malformed}]
    /\ inbox \in Seq(Clients \cup {Malformed})
    /\ sockets \in Seq([client : Clients, connected : BOOLEAN])

\* An element is in use once at most, which is what CQueue checks in a debug
\* build. The pool's list would hand out an element that is in use.
UsedOnce == \A e \in Elements : pool.uses[e] <= 1

\* Every read operation finds an empty table and an element for a request.
ReadyToAccept == pc \in {"wait", "read"} =>
    /\ pool.free # Nil
    /\ \A b \in Buckets : table[b] = Nil

\* The pool serves as one of a single element, whatever was refused, accepted or
\* emptied: the operation that takes its element gives it back before the next.
PoolInv == UsedOnce /\ ReadyToAccept

\* A client has one connector: no SYN that is repeated, by the client or by the
\* network, makes a second one (the table of requests is there to prevent it).
OneConnector ==
    \A i, j \in DOMAIN sockets : sockets[i].client = sockets[j].client => i = j

\* Every client that goes on sending gets a connector with a connected socket,
\* whatever was refused before, unless the listener is closed. Clients that send to
\* another address are accepted whenever they send; while that goes on for ever,
\* the sockets made for them may get all that a client sends to the right one.
Intruded == \E i \in DOMAIN sockets :
                sockets[i].client \in Elsewhere /\ ~sockets[i].connected

Served ==
    \A c \in Clients :
        \/ []<>(Connected(c) \/ pc = "closed")
        \/ c \notin Elsewhere /\ []<>Intruded

=============================================================================
