-------------------------- MODULE TcpStreamProofs ---------------------------
(***************************************************************************)
(* Why a TCP connection ends once, and why its read and write loops find   *)
(* the session, a connection that is up and room to read into, for         *)
(* messages and buffers of any size. The argument has two layers: where    *)
(* the units are and what they may be; and what the queues, the flags and  *)
(* the ends of the connection say of each other.                           *)
(***************************************************************************)
EXTENDS TcpStream, SequenceTheorems, FiniteSetTheorems, TLAPS

-----------------------------------------------------------------------------
(* The invariant: types and data *)

Kinds == {"connect", "accepted", "send", "close"}
MessageKinds == {"connected", "recv", "close"}
Unit == Nat \X Nat

KernelTypes ==
    /\ link \in {"none", "syn", "up", "down"}
    /\ listener \in {"none", "open", "closed"}
    /\ backlog \in BOOLEAN
    /\ side \in [Ends -> {"none", "open", "fin", "rst"}]
    /\ unsent \in [Ends -> Seq(Unit)] /\ unread \in [Ends -> Seq(Unit)]
    /\ fin \in [Ends -> BOOLEAN] /\ reset \in [Ends -> BOOLEAN]
    /\ registered \in [Ends -> BOOLEAN] /\ edge \in [Ends -> BOOLEAN]
    /\ nospace \in [Ends -> BOOLEAN]

SocketTypes ==
    /\ made \in [Ends -> BOOLEAN] /\ connected \in [Ends -> BOOLEAN]
    /\ writable \in [Ends -> BOOLEAN] /\ failed \in [Ends -> BOOLEAN]
    /\ handle \in [Ends -> BOOLEAN] /\ refused \in [Ends -> BOOLEAN]
    /\ closes \in [Ends -> Nat]

ModuleTypes ==
    /\ pc \in [Ends -> {"deal", "send", "write", "read"}]
    /\ posted \in [Ends -> Seq(Kinds)] /\ running \in [Ends -> Seq(Kinds)]
    /\ reported \in [Ends -> [posted : BOOLEAN, mask : SUBSET {"in", "out"}]]

MessageTypes == messages \in [Ends -> Seq([kind : MessageKinds, number : Nat])]

SessionTypes ==
    /\ session \in [Ends -> {"none", "alive", "deleted"}]
    /\ sent \in [Ends -> Nat] /\ closing \in [Ends -> BOOLEAN]

BuffTypes ==
    /\ sendBuff \in [Ends -> Seq(Unit)] /\ recvBuff \in [Ends -> Seq(Unit)]
    /\ dataLen \in [Ends -> Nat]

StreamTypes ==
    /\ opened \in [Ends -> BOOLEAN] /\ accepted \in [Ends -> Nat]
    /\ output \in [Ends -> Seq(Nat)]

Types == KernelTypes /\ SocketTypes /\ ModuleTypes /\ MessageTypes /\ SessionTypes
            /\ BuffTypes /\ StreamTypes

\* The units of a message.
Length(e, n) == HeaderLength + Bodies[e][n]

\* The units that e's send buffer has been given.
Given(e) == {u \in Unit : u[1] \in 1 .. accepted[e] /\ u[2] \in 1 .. Length(e, u[1])}

\* Where the messages are that wait to be sent.
Sends(q) == {i \in DOMAIN q : q[i] = "send"}

\* What every end's buffers hold, and how much.
Buffers(e) ==
    /\ unsent[e] \in Seq(Given(e)) /\ sendBuff[e] \in Seq(Given(e))
    /\ unread[e] \in Seq(Given(Peer(e))) /\ recvBuff[e] \in Seq(Given(Peer(e)))
    /\ Len(unsent[e]) <= OutSize /\ Len(unread[e]) <= InSize
    /\ Len(recvBuff[e]) < dataLen[e] /\ BlockSize <= dataLen[e]

\* A message has a posted event until it is in the send buffer.
Counted(e) ==
    /\ sent[e] <= Len(Bodies[e])
    /\ accepted[e] + Cardinality(Sends(running[e])) + Cardinality(Sends(posted[e])) <= sent[e]

Data(e) == Buffers(e) /\ Counted(e)

DataInv == Types /\ \A e \in Ends : Data(e)

-----------------------------------------------------------------------------
(* The invariant: control *)

Starts == {"connect", "accepted"}

\* The event that gives an end its socket waits before all others.
StartsFirst(e) ==
    /\ \A i \in 1 .. Len(running[e]) : running[e][i] \in Starts => i = 1
    /\ \A i \in 1 .. Len(posted[e]) :
          posted[e][i] \in Starts => i = 1 /\ running[e] = <<>>

\* It is the client's "connect", after which there is a connector, or "accepted" of
\* the server's connector; without a connector no other event waits.
StartsAt(e, kind) ==
    /\ kind = "connect" => e = "client" /\ ~made[e]
    /\ kind = "accepted" => e = "server" /\ made[e]
    /\ ~made[e] => kind = "connect"

Fresh(e) ==
    \/ ~made[e]
    \/ \E i \in 1 .. Len(running[e]) : running[e][i] \in Starts
    \/ \E i \in 1 .. Len(posted[e]) : posted[e][i] \in Starts

\* An end that has had no socket yet.
Blank(e) ==
    /\ ~registered[e] /\ ~edge[e] /\ reported[e].mask = {} /\ pc[e] = "deal"
    /\ ~failed[e] /\ ~handle[e] /\ closes[e] = 0 /\ ~connected[e]

\* The end of an end.
EndInv(e) ==
    /\ pc[e] # "deal" => ~failed[e]
    /\ ~failed[e] =>
          /\ closes[e] = 0 /\ session[e] # "deleted"
          /\ \A i \in 1 .. Len(messages[e]) : messages[e][i].kind # "close"
    /\ closes[e] <= 1 \/ (refused[e] /\ closes[e] <= 2)
    /\ session[e] = "deleted" => messages[e] = <<>>
    /\ \A i \in 1 .. Len(messages[e]) : messages[e][i].kind = "close" => i = Len(messages[e])

\* How far an end is, and the connection.
LinkInv(e) ==
    /\ e = "client" /\ ~made[e] => link = "none"
    /\ e = "server" /\ made[e] => link = "up" /\ ~backlog
    /\ connected[e] => link = "up"
    /\ "out" \in reported[e].mask => reset[e] \/ link = "up"

Queue(e) ==
    /\ StartsFirst(e)
    /\ \A i \in 1 .. Len(running[e]) : StartsAt(e, running[e][i])
    /\ \A i \in 1 .. Len(posted[e]) : StartsAt(e, posted[e][i])

Control(e) ==
    /\ Queue(e)
    /\ Fresh(e) => Blank(e)
    /\ EndInv(e)
    /\ LinkInv(e)

ControlInv ==
    /\ backlog => link = "up"
    /\ \A e \in Ends : Control(e)

-----------------------------------------------------------------------------
(* Facts about sequences of events and units *)

\* How many messages wait is a number.
LEMMA SendsFinite ==
    ASSUME NEW q \in Seq(Kinds)
    PROVE  IsFiniteSet(Sends(q)) /\ Cardinality(Sends(q)) \in Nat
<1>1. Sends(q) \subseteq 1 .. Len(q) /\ Len(q) \in Nat
  BY LenProperties DEF Sends
<1>2. IsFiniteSet(1 .. Len(q))
  BY <1>1, FS_Interval
<1> QED BY <1>1, <1>2, FS_Subset, FS_CardinalityType

\* No message waits in an empty queue.
LEMMA SendsEmpty == Cardinality(Sends(<<>>)) = 0
<1>1. Sends(<<>>) = {}
  BY DEF Sends
<1> QED BY <1>1, FS_EmptySet

\* An event that is posted counts if it is a message.
LEMMA SendsAppend ==
    ASSUME NEW q \in Seq(Kinds), NEW k \in Kinds
    PROVE  Cardinality(Sends(Append(q, k))) =
              Cardinality(Sends(q)) + (IF k = "send" THEN 1 ELSE 0)
<1>1. /\ Append(q, k) \in Seq(Kinds) /\ Len(Append(q, k)) = Len(q) + 1 /\ Len(q) \in Nat
      /\ \A i \in 1 .. Len(q) : Append(q, k)[i] = q[i]
      /\ Append(q, k)[Len(q) + 1] = k
      /\ DOMAIN q = 1 .. Len(q) /\ DOMAIN Append(q, k) = 1 .. (Len(q) + 1)
  BY AppendProperties, LenProperties
<1>2. IsFiniteSet(Sends(q)) /\ Cardinality(Sends(q)) \in Nat
  BY SendsFinite
<1>3. CASE k = "send"
  <2>1. Sends(Append(q, k)) = Sends(q) \cup {Len(q) + 1}
    BY <1>1, <1>3 DEF Sends
  <2>2. Len(q) + 1 \notin Sends(q)
    BY <1>1 DEF Sends
  <2> QED BY <1>2, <1>3, <2>1, <2>2, FS_AddElement
<1>4. CASE k # "send"
  <2>1. Sends(Append(q, k)) = Sends(q)
    BY <1>1, <1>4 DEF Sends
  <2> QED BY <1>2, <1>4, <2>1
<1> QED BY <1>3, <1>4

\* The event that is run next counts no longer.
LEMMA SendsTail ==
    ASSUME NEW q \in Seq(Kinds), q # <<>>
    PROVE  /\ Head(q) \in Kinds /\ Tail(q) \in Seq(Kinds)
           /\ Cardinality(Sends(q)) =
                 Cardinality(Sends(Tail(q))) + (IF Head(q) = "send" THEN 1 ELSE 0)
<1>1. /\ Head(q) \in Kinds /\ Tail(q) \in Seq(Kinds) /\ Head(q) = q[1]
      /\ Len(Tail(q)) = Len(q) - 1 /\ Len(q) \in Nat \ {0}
      /\ \A i \in 1 .. Len(Tail(q)) : Tail(q)[i] = q[i + 1]
      /\ DOMAIN q = 1 .. Len(q) /\ DOMAIN Tail(q) = 1 .. (Len(q) - 1)
  BY HeadTailProperties, LenProperties, EmptySeq
<1>2. /\ IsFiniteSet(Sends(q)) /\ Cardinality(Sends(q)) \in Nat
      /\ IsFiniteSet(Sends(Tail(q))) /\ Cardinality(Sends(Tail(q))) \in Nat
  BY <1>1, SendsFinite
<1> DEFINE S == Sends(q) \ {1}
           f == [i \in Sends(Tail(q)) |-> i + 1]
<1>3. f \in Bijection(Sends(Tail(q)), S)
  <2>1. \A i \in Sends(Tail(q)) : i \in Nat /\ i + 1 \in S
    BY <1>1 DEF Sends
  <2>2. \A j \in S : j - 1 \in Sends(Tail(q)) /\ (j - 1) + 1 = j
    BY <1>1 DEF Sends
  <2>3. f \in [Sends(Tail(q)) -> S]
    BY <2>1
  <2>4. \A a, b \in Sends(Tail(q)) : f[a] = f[b] => a = b
    BY <2>1
  <2>5. \A j \in S : \E i \in Sends(Tail(q)) : f[i] = j
    BY <2>2
  <2> HIDE DEF f, S
  <2>6. f \in Injection(Sends(Tail(q)), S)
    BY <2>3, <2>4 DEF Injection, IsInjective
  <2>7. f \in Surjection(Sends(Tail(q)), S)
    BY <2>3, <2>5 DEF Surjection
  <2> QED BY <2>6, <2>7 DEF Bijection
<1>4. IsFiniteSet(S) /\ Cardinality(S) = Cardinality(Sends(Tail(q)))
  <2> HIDE DEF f, S
  <2>1. ExistsBijection(Sends(Tail(q)), S)
    BY <1>3 DEF ExistsBijection
  <2> QED BY <1>2, <2>1, FS_Bijection
<1>5. 1 \in Sends(q) <=> Head(q) = "send"
  BY <1>1 DEF Sends
<1>6. Cardinality(S) = IF 1 \in Sends(q) THEN Cardinality(Sends(q)) - 1 ELSE Cardinality(Sends(q))
  BY <1>2, FS_RemoveElement
<1> QED BY <1>1, <1>2, <1>4, <1>5, <1>6

-----------------------------------------------------------------------------
(* Types *)

\* Constants, and what both ends are called.
LEMMA Constants ==
    /\ HeaderLength \in Nat /\ HeaderLength > 0
    /\ BufferSize \in Nat /\ BlockSize \in Nat /\ BlockSize > 0 /\ BlockSize <= BufferSize
    /\ OutSize \in Nat /\ OutSize > 0 /\ InSize \in Nat /\ InSize > 0
    /\ Bodies \in [Ends -> Seq(Nat)]
    /\ \A e \in Ends : Peer(e) \in Ends /\ Peer(Peer(e)) = e /\ Peer(e) # e
    /\ \A e, x \in Ends : x # e => x = Peer(e)
BY TcpAssumption DEF Ends, Peer

\* Types hold at the start.
LEMMA TypesInit == Init => Types
<1>1. /\ <<>> \in Seq(Unit) /\ <<>> \in Seq(Nat) /\ <<>> \in Seq(Kinds)
      /\ <<>> \in Seq([kind : MessageKinds, number : Nat]) /\ <<"connect">> \in Seq(Kinds)
  BY DEF Kinds
<1>2. Init => KernelTypes
  <2>1. Init => /\ link \in {"none", "syn", "up", "down"} /\ listener \in {"none", "open", "closed"}
                /\ backlog \in BOOLEAN
    BY DEF Init
  <2>5. Init => side \in [Ends -> {"none", "open", "fin", "rst"}]
    BY DEF Init
  <2>2. Init => unsent \in [Ends -> Seq(Unit)] /\ unread \in [Ends -> Seq(Unit)]
    BY <1>1 DEF Init
  <2>3. Init => /\ fin \in [Ends -> BOOLEAN] /\ reset \in [Ends -> BOOLEAN]
                /\ registered \in [Ends -> BOOLEAN]
    BY DEF Init
  <2>4. Init => edge \in [Ends -> BOOLEAN] /\ nospace \in [Ends -> BOOLEAN]
    BY DEF Init
  <2> QED BY <2>1, <2>2, <2>3, <2>4, <2>5 DEF KernelTypes
<1>5. Init => SocketTypes
  BY DEF Init, SocketTypes
<1>3. Init => ModuleTypes /\ MessageTypes
  BY <1>1 DEF Init, ModuleTypes, MessageTypes, Idle
<1>4. Init => SessionTypes /\ BuffTypes /\ StreamTypes
  BY <1>1, Constants DEF Init, SessionTypes, BuffTypes, StreamTypes, Stream!Init
<1> QED BY <1>2, <1>3, <1>4, <1>5 DEF Types

\* What an action leaves alone keeps its type.
LEMMA TypesKept ==
    ASSUME Types
    PROVE  /\ UNCHANGED kernelVars => KernelTypes'
           /\ UNCHANGED socketVars => SocketTypes'
           /\ UNCHANGED moduleVars => ModuleTypes'
           /\ UNCHANGED messages => MessageTypes'
           /\ UNCHANGED sessionVars => SessionTypes'
           /\ UNCHANGED buffVars => BuffTypes'
           /\ UNCHANGED streamVars => StreamTypes'
<1>1. UNCHANGED kernelVars => KernelTypes'
  BY DEF Types, KernelTypes, kernelVars
<1>2. UNCHANGED socketVars => SocketTypes'
  BY DEF Types, SocketTypes, socketVars
<1>3. UNCHANGED moduleVars => ModuleTypes'
  BY DEF Types, ModuleTypes, moduleVars
<1>4. UNCHANGED messages => MessageTypes'
  BY DEF Types, MessageTypes
<1>5. UNCHANGED sessionVars => SessionTypes'
  BY DEF Types, SessionTypes, sessionVars
<1>6. UNCHANGED buffVars => BuffTypes'
  BY DEF Types, BuffTypes, buffVars
<1>7. UNCHANGED streamVars => StreamTypes'
  BY DEF Types, StreamTypes, streamVars
<1> QED BY <1>1, <1>2, <1>3, <1>4, <1>5, <1>6, <1>7

\* One more event, or message, for an end; one event less.
LEMMA PostType ==
    ASSUME Types, NEW e \in Ends, NEW k \in Kinds
    PROVE  [posted EXCEPT ![e] = Append(@, k)] \in [Ends -> Seq(Kinds)]
<1>1. posted[e] \in Seq(Kinds)
  BY DEF Types, ModuleTypes
<1>2. Append(posted[e], k) \in Seq(Kinds)
  BY <1>1, AppendProperties
<1> QED BY <1>2 DEF Types, ModuleTypes

\* Pushing a message keeps the queue's type.
LEMMA PushType ==
    ASSUME Types, NEW e \in Ends, NEW k \in MessageKinds, NEW n \in Nat
    PROVE  PushMessageEvent(e, k, n) \in [Ends -> Seq([kind : MessageKinds, number : Nat])]
<1>1. messages[e] \in Seq([kind : MessageKinds, number : Nat])
  BY DEF Types, MessageTypes
<1>2. Message(k, n) \in [kind : MessageKinds, number : Nat]
  BY DEF Message
<1>3. Append(messages[e], Message(k, n)) \in Seq([kind : MessageKinds, number : Nat])
  BY <1>1, <1>2, AppendProperties
<1> QED BY <1>3 DEF Types, MessageTypes, PushMessageEvent

\* Running an event keeps the queue's type.
LEMMA RunsType ==
    ASSUME Types, NEW e \in Ends, NEW k, Runs(e, k)
    PROVE  running' \in [Ends -> Seq(Kinds)]
<1>1. running[e] \in Seq(Kinds) /\ running[e] # <<>>
  BY DEF Types, ModuleTypes, Runs
<1>2. Tail(running[e]) \in Seq(Kinds)
  BY <1>1, HeadTailProperties
<1> QED BY <1>2 DEF Types, ModuleTypes, Runs

\* The first error and what the kernel does.
LEMMA FirstErrorTypes ==
    ASSUME Types, NEW e \in Ends, NEW open \in BOOLEAN, NEW n \in Nat, FirstError(e, open, n)
    PROVE  /\ KernelTypes' /\ MessageTypes'
           /\ failed' \in [Ends -> BOOLEAN] /\ handle' \in [Ends -> BOOLEAN]
           /\ closes' \in [Ends -> Nat]
<1>1. MessageTypes'
  BY PushType DEF FirstError, MessageKinds, MessageTypes
<1>2. <<>> \in Seq(Unit)
  BY EmptySeq
<1>3. link' \in {"none", "syn", "up", "down"} /\ listener' = listener /\ backlog' = backlog
  BY DEF Types, KernelTypes, FirstError, CloseSocket
<1>4. side' \in [Ends -> {"none", "open", "fin", "rst"}]
  BY DEF Types, KernelTypes, FirstError, CloseSocket
<1>5. unsent' \in [Ends -> Seq(Unit)] /\ unread' \in [Ends -> Seq(Unit)]
  BY <1>2 DEF Types, KernelTypes, FirstError, CloseSocket
<1>6. /\ registered' \in [Ends -> BOOLEAN] /\ edge' \in [Ends -> BOOLEAN]
      /\ UNCHANGED <<fin, reset, nospace>>
  BY DEF Types, KernelTypes, FirstError, CloseSocket
<1>7. KernelTypes'
  BY <1>3, <1>4, <1>5, <1>6 DEF Types, KernelTypes
<1>8. /\ failed' \in [Ends -> BOOLEAN] /\ handle' \in [Ends -> BOOLEAN]
      /\ closes' \in [Ends -> Nat]
  BY DEF Types, SocketTypes, FirstError
<1> QED BY <1>1, <1>7, <1>8

\* The error operation keeps the types.
LEMMA ErrorTypes ==
    ASSUME Types, NEW e \in Ends, ErrorOperation(e)
    PROVE  /\ KernelTypes' /\ MessageTypes'
           /\ failed' \in [Ends -> BOOLEAN] /\ handle' \in [Ends -> BOOLEAN]
           /\ closes' \in [Ends -> Nat]
<1>1. CASE failed[e]
  <2>1. UNCHANGED <<failed, handle, closes>> /\ UNCHANGED messages /\ UNCHANGED kernelVars
    BY <1>1 DEF ErrorOperation
  <2> QED BY <2>1, TypesKept DEF Types, SocketTypes
<1>2. CASE ~failed[e]
  <2>1. handle[e] \in BOOLEAN /\ closes[e] \in Nat
    BY DEF Types, SocketTypes
  <2> QED BY <1>2, <2>1, FirstErrorTypes DEF ErrorOperation
<1> QED BY <1>1, <1>2

\* A message's units are its number and theirs.
LEMMA UnitsProperties ==
    ASSUME NEW e \in Ends, NEW n \in 1 .. Len(Bodies[e])
    PROVE  /\ n \in Nat /\ Bodies[e][n] \in Nat
           /\ Length(e, n) \in Nat /\ Length(e, n) > 0 /\ Length(e, n) >= HeaderLength
           /\ Units(e, n) \in Seq(Unit)
           /\ Len(Units(e, n)) = Length(e, n)
           /\ \A i \in 1 .. Length(e, n) : Units(e, n)[i] = <<n, i>>
<1>1. Bodies[e] \in Seq(Nat) /\ HeaderLength \in Nat /\ HeaderLength > 0
  BY Constants
<1>2. n \in Nat /\ Bodies[e][n] \in Nat
  BY <1>1, ElementOfSeq, LenProperties
<1>3. Length(e, n) \in Nat /\ Length(e, n) > 0 /\ Length(e, n) >= HeaderLength
  BY <1>1, <1>2 DEF Length
<1>4. Units(e, n) = [i \in 1 .. Length(e, n) |-> <<n, i>>]
  BY DEF Units, Length
<1>5. \A i \in 1 .. Length(e, n) : <<n, i>> \in Unit
  BY <1>2, <1>3 DEF Unit
<1>6. Units(e, n) \in [1 .. Length(e, n) -> Unit]
  BY <1>4, <1>5
<1>7. Units(e, n) \in Seq(Unit) /\ Len(Units(e, n)) = Length(e, n)
  BY <1>3, <1>6, SeqDef, LenProperties
<1> QED BY <1>2, <1>3, <1>4, <1>7

\* A message that is sent was counted.
LEMMA NextMessage ==
    ASSUME DataInv, NEW e \in Ends, Runs(e, "send")
    PROVE  /\ accepted[e] \in Nat /\ accepted[e] + 1 \in 1 .. Len(Bodies[e])
           /\ accepted[e] + 1 <= sent[e]
<1>1. /\ running[e] \in Seq(Kinds) /\ posted[e] \in Seq(Kinds) /\ running[e] # <<>>
      /\ Head(running[e]) = "send" /\ accepted[e] \in Nat /\ sent[e] \in Nat
  BY DEF DataInv, Types, ModuleTypes, SessionTypes, StreamTypes, Runs
<1>2. Cardinality(Sends(running[e])) = Cardinality(Sends(Tail(running[e]))) + 1
  BY <1>1, SendsTail
<1>3. Cardinality(Sends(Tail(running[e]))) \in Nat /\ Cardinality(Sends(posted[e])) \in Nat
  BY <1>1, HeadTailProperties, SendsFinite
<1>4. /\ accepted[e] + Cardinality(Sends(running[e])) + Cardinality(Sends(posted[e])) <= sent[e]
      /\ sent[e] <= Len(Bodies[e])
  BY DEF DataInv, Data, Counted
<1>5. Len(Bodies[e]) \in Nat
  BY Constants, LenProperties
<1> QED BY <1>1, <1>2, <1>3, <1>4, <1>5

\* The failures are a few.
LEMMA Failures ==
    /\ \A f \in ConnectFailures : f.open \in BOOLEAN /\ f.refused \in BOOLEAN /\ f.closed \in 0 .. 1
          /\ (f.open /\ f.closed = 1 => f.refused)
    /\ \A f \in AcceptedFailures : f.open \in BOOLEAN /\ f.closed \in 0 .. 1
          /\ ~(f.open /\ f.closed = 1)
<1>1. ASSUME NEW f \in ConnectFailures
      PROVE  f.open \in BOOLEAN /\ f.refused \in BOOLEAN /\ f.closed \in 0 .. 1
                /\ (f.open /\ f.closed = 1 => f.refused)
  <2>1. CASE f = [open |-> FALSE, closed |-> 0, refused |-> FALSE]
    BY <2>1
  <2>2. CASE f = [open |-> FALSE, closed |-> 1, refused |-> FALSE]
    BY <2>2
  <2>3. CASE f = [open |-> TRUE, closed |-> 1, refused |-> TRUE]
    BY <2>3
  <2> QED BY <1>1, <2>1, <2>2, <2>3 DEF ConnectFailures
<1>2. ASSUME NEW f \in AcceptedFailures
      PROVE  f.open \in BOOLEAN /\ f.closed \in 0 .. 1 /\ ~(f.open /\ f.closed = 1)
  <2>1. CASE f = [open |-> FALSE, closed |-> 1]
    BY <2>1
  <2>2. CASE f = [open |-> TRUE, closed |-> 0]
    BY <2>2
  <2> QED BY <1>2, <2>1, <2>2 DEF AcceptedFailures
<1> QED BY <1>1, <1>2

\* An event that is run: one less waits.
LEMMA TypesEvent ==
    ASSUME DataInv, NEW e \in Ends, RunEvent(e)
    PROVE  Types'
<1>0. Types
  BY DEF DataInv
<1>1. running' \in [Ends -> Seq(Kinds)]
  BY <1>0, RunsType DEF RunEvent, TcpConnect, Accepted, SendOperator, CloseOperator
<1>2. CASE TcpConnect(e)
  <2>1. /\ SessionTypes' /\ BuffTypes' /\ StreamTypes'
        /\ UNCHANGED <<connected, writable, pc, posted, reported>>
        /\ made' = [made EXCEPT ![e] = TRUE]
    BY <1>2, <1>0, TypesKept DEF TcpConnect
  <2>2. ModuleTypes'
    BY <1>0, <1>1, <2>1 DEF Types, ModuleTypes
  <2>3. CASE Connect(e)
    <3>1. KernelTypes'
      BY <1>0, <2>3 DEF Types, KernelTypes, Connect, Register
    <3>2. SocketTypes' /\ MessageTypes'
      BY <1>0, <2>1, <2>3 DEF Types, SocketTypes, MessageTypes, Connect
    <3> QED BY <1>0, <2>1, <2>2, <3>1, <3>2 DEF Types
  <2>4. CASE \E f \in ConnectFailures : refused' = [refused EXCEPT ![e] = f.refused]
                                            /\ FirstError(e, f.open, f.closed)
    <3>1. PICK f \in ConnectFailures : refused' = [refused EXCEPT ![e] = f.refused]
                                            /\ FirstError(e, f.open, f.closed)
      BY <2>4
    <3>2. f.open \in BOOLEAN /\ f.closed \in Nat /\ f.refused \in BOOLEAN
      BY <3>1, Failures
    <3>3. /\ KernelTypes' /\ MessageTypes'
          /\ failed' \in [Ends -> BOOLEAN] /\ handle' \in [Ends -> BOOLEAN]
          /\ closes' \in [Ends -> Nat]
      BY <3>1, <3>2, <1>0, FirstErrorTypes
    <3>4. SocketTypes'
      BY <1>0, <2>1, <3>1, <3>2, <3>3 DEF Types, SocketTypes
    <3> QED BY <1>0, <2>1, <2>2, <3>3, <3>4 DEF Types
  <2> QED BY <1>2, <2>3, <2>4 DEF TcpConnect
<1>3. CASE Accepted(e)
  <2>1. /\ SessionTypes' /\ BuffTypes' /\ StreamTypes'
        /\ UNCHANGED <<made, writable, refused, pc, posted, reported>>
    BY <1>3, <1>0, TypesKept DEF Accepted
  <2>2. ModuleTypes'
    BY <1>0, <1>1, <2>1 DEF Types, ModuleTypes
  <2>3. CASE \E f \in AcceptedFailures : FirstError(e, f.open, f.closed) /\ UNCHANGED connected
    <3>1. PICK f \in AcceptedFailures : FirstError(e, f.open, f.closed) /\ UNCHANGED connected
      BY <2>3
    <3>2. f.open \in BOOLEAN /\ f.closed \in Nat
      BY <3>1, Failures
    <3>3. /\ KernelTypes' /\ MessageTypes'
          /\ failed' \in [Ends -> BOOLEAN] /\ handle' \in [Ends -> BOOLEAN]
          /\ closes' \in [Ends -> Nat]
      BY <3>1, <3>2, <1>0, FirstErrorTypes
    <3>4. SocketTypes'
      BY <1>0, <2>1, <3>1, <3>3 DEF Types, SocketTypes
    <3> QED BY <1>0, <2>1, <2>2, <3>3, <3>4 DEF Types
  <2>4. CASE /\ handle' = [handle EXCEPT ![e] = TRUE]
             /\ Register(e, TRUE)
             /\ connected' = [connected EXCEPT ![e] = TRUE]
             /\ messages' = PushMessageEvent(e, "connected", 0)
             /\ UNCHANGED <<link, listener, backlog, side, unsent, unread, fin, reset, nospace,
                            failed, closes>>
    <3>1. KernelTypes'
      BY <1>0, <2>4 DEF Types, KernelTypes, Register
    <3>2. SocketTypes'
      BY <1>0, <2>1, <2>4 DEF Types, SocketTypes
    <3>3. MessageTypes'
      BY <2>4, <1>0, PushType DEF MessageTypes, MessageKinds
    <3> QED BY <1>0, <2>1, <2>2, <3>1, <3>2, <3>3 DEF Types
  <2> QED BY <1>3, <2>3, <2>4 DEF Accepted
<1>4. CASE SendOperator(e)
  <2>1. /\ KernelTypes' /\ SocketTypes' /\ SessionTypes' /\ MessageTypes'
        /\ UNCHANGED <<posted, reported, recvBuff, dataLen, opened, output>>
    BY <1>4, <1>0, TypesKept DEF SendOperator
  <2>2. pc' \in [Ends -> {"deal", "send", "write", "read"}]
    BY <1>0, <1>4 DEF SendOperator, Types, ModuleTypes
  <2>3. accepted' \in [Ends -> Nat] /\ sendBuff' \in [Ends -> Seq(Unit)]
    <3>1. CASE failed[e]
      BY <1>0, <1>4, <3>1 DEF SendOperator, Types, StreamTypes, BuffTypes
    <3>2. CASE ~failed[e]
      <4>1. /\ accepted' = [accepted EXCEPT ![e] = @ + 1]
            /\ sendBuff' = [sendBuff EXCEPT ![e] = @ \o Units(e, accepted[e] + 1)]
        BY <1>4, <3>2 DEF SendOperator
      <4>2. Units(e, accepted[e] + 1) \in Seq(Unit)
        BY <1>4, NextMessage, UnitsProperties DEF SendOperator
      <4>3. sendBuff[e] \in Seq(Unit)
        BY <1>0 DEF Types, BuffTypes
      <4>4. sendBuff[e] \o Units(e, accepted[e] + 1) \in Seq(Unit)
        BY <4>2, <4>3, ConcatProperties
      <4> QED BY <1>0, <4>1, <4>4 DEF Types, StreamTypes, BuffTypes
    <3> QED BY <3>1, <3>2
  <2> QED BY <1>0, <1>1, <2>1, <2>2, <2>3 DEF Types, ModuleTypes, BuffTypes, StreamTypes
<1>5. CASE CloseOperator(e)
  <2>1. /\ SessionTypes' /\ BuffTypes' /\ StreamTypes' /\ ErrorOperation(e)
        /\ UNCHANGED <<made, connected, writable, refused, pc, posted, reported>>
    BY <1>5, <1>0, TypesKept DEF CloseOperator
  <2>2. /\ KernelTypes' /\ MessageTypes'
        /\ failed' \in [Ends -> BOOLEAN] /\ handle' \in [Ends -> BOOLEAN]
        /\ closes' \in [Ends -> Nat]
    BY <2>1, <1>0, ErrorTypes
  <2> QED BY <1>0, <1>1, <2>1, <2>2 DEF Types, ModuleTypes, SocketTypes
<1> QED BY <1>2, <1>3, <1>4, <1>5 DEF RunEvent

\* So do waiting, taking events, and the operations that end there.
LEMMA TypesServe ==
    ASSUME Types, NEW e \in Ends,
           \/ WaitEvents(e) \/ TakePosted(e) \/ WriteOperation(e) \/ SendAgain(e)
           \/ SendError(e) \/ ReadOperation(e) \/ RecvEnds(e)
    PROVE  Types'
<1>1. CASE WaitEvents(e)
  <2>1. Mask(e) \in SUBSET {"in", "out"}
    BY DEF Mask
  <2>2. SocketTypes' /\ SessionTypes' /\ BuffTypes' /\ MessageTypes' /\ StreamTypes'
    BY <1>1, TypesKept DEF WaitEvents
  <2>3. KernelTypes'
    BY <1>1 DEF WaitEvents, Types, KernelTypes
  <2>4. ModuleTypes'
    BY <1>1, <2>1 DEF WaitEvents, Types, ModuleTypes
  <2> QED BY <2>2, <2>3, <2>4 DEF Types
<1>2. CASE TakePosted(e)
  <2>1. <<>> \in Seq(Kinds)
    BY EmptySeq
  <2>2. KernelTypes' /\ SocketTypes' /\ SessionTypes' /\ BuffTypes' /\ MessageTypes' /\ StreamTypes'
    BY <1>2, TypesKept DEF TakePosted
  <2>3. ModuleTypes'
    BY <1>2, <2>1 DEF TakePosted, Types, ModuleTypes
  <2> QED BY <2>2, <2>3 DEF Types
<1>3. CASE WriteOperation(e)
  <2>1. /\ SessionTypes' /\ BuffTypes' /\ StreamTypes'
        /\ UNCHANGED <<made, refused, posted, running>>
    BY <1>3, TypesKept DEF WriteOperation
  <2>2. CASE failed[e] \/ (~connected[e] /\ ConnectError(e))
    <3>1. ErrorOperation(e) /\ ServedAll(e) /\ UNCHANGED <<connected, writable, pc>>
      BY <1>3, <2>2 DEF WriteOperation
    <3>2. /\ KernelTypes' /\ MessageTypes'
          /\ failed' \in [Ends -> BOOLEAN] /\ handle' \in [Ends -> BOOLEAN]
          /\ closes' \in [Ends -> Nat]
      BY <3>1, ErrorTypes
    <3>3. SocketTypes'
      BY <2>1, <3>1, <3>2 DEF Types, SocketTypes
    <3>4. ModuleTypes'
      BY <2>1, <3>1 DEF Types, ModuleTypes, ServedAll
    <3> QED BY <2>1, <3>2, <3>3, <3>4 DEF Types
  <2>3. CASE ~(failed[e] \/ (~connected[e] /\ ConnectError(e)))
    <3>1. /\ connected' = [connected EXCEPT ![e] = TRUE]
          /\ messages' = messages \/ messages' = PushMessageEvent(e, "connected", 0)
          /\ writable' = [writable EXCEPT ![e] = TRUE]
          /\ Served(e, "out")
          /\ pc' = [pc EXCEPT ![e] = "write"] \/ pc' = pc
          /\ UNCHANGED kernelVars /\ UNCHANGED <<failed, handle, closes>>
      BY <1>3, <2>3 DEF WriteOperation
    <3>2. KernelTypes' /\ MessageTypes'
      BY <3>1, PushType, TypesKept DEF MessageTypes, MessageKinds
    <3>3. SocketTypes'
      BY <2>1, <3>1 DEF Types, SocketTypes
    <3>4. ModuleTypes'
      BY <2>1, <3>1 DEF Types, ModuleTypes, Served
    <3> QED BY <2>1, <3>2, <3>3, <3>4 DEF Types
  <2> QED BY <2>2, <2>3
<1>4. CASE SendAgain(e)
  <2>1. /\ SessionTypes' /\ BuffTypes' /\ StreamTypes' /\ MessageTypes'
    BY <1>4, TypesKept DEF SendAgain
  <2>2. KernelTypes'
    BY <1>4 DEF SendAgain, Types, KernelTypes
  <2>3. SocketTypes'
    BY <1>4 DEF SendAgain, Types, SocketTypes
  <2>4. ModuleTypes'
    BY <1>4 DEF SendAgain, Types, ModuleTypes
  <2> QED BY <2>1, <2>2, <2>3, <2>4 DEF Types
<1>5. CASE SendError(e)
  <2>1. /\ SessionTypes' /\ BuffTypes' /\ StreamTypes'
        /\ UNCHANGED <<made, connected, refused, posted, running>>
        /\ writable' = [writable EXCEPT ![e] = FALSE]
        /\ pc' = [pc EXCEPT ![e] = "deal"]
    BY <1>5, TypesKept DEF SendError
  <2>2. \/ ErrorOperation(e) /\ ServedAll(e)
        \/ UNCHANGED kernelVars /\ UNCHANGED messages /\ UNCHANGED <<failed, handle, closes, reported>>
    BY <1>5 DEF SendError
  <2>3. ModuleTypes'
    BY <2>1, <2>2 DEF Types, ModuleTypes, ServedAll
  <2>4. /\ KernelTypes' /\ MessageTypes'
        /\ failed' \in [Ends -> BOOLEAN] /\ handle' \in [Ends -> BOOLEAN]
        /\ closes' \in [Ends -> Nat]
    BY <2>2, ErrorTypes, TypesKept DEF Types, SocketTypes
  <2>5. SocketTypes'
    BY <2>1, <2>4 DEF Types, SocketTypes
  <2> QED BY <2>1, <2>3, <2>4, <2>5 DEF Types
<1>6. CASE ReadOperation(e)
  <2>1. KernelTypes' /\ SocketTypes' /\ SessionTypes' /\ BuffTypes' /\ MessageTypes' /\ StreamTypes'
    BY <1>6, TypesKept DEF ReadOperation
  <2>2. ModuleTypes'
    BY <1>6 DEF ReadOperation, Served, Types, ModuleTypes
  <2> QED BY <2>1, <2>2 DEF Types
<1>7. CASE RecvEnds(e)
  <2>1. /\ SessionTypes' /\ BuffTypes' /\ StreamTypes'
        /\ UNCHANGED <<made, connected, writable, refused, posted, running, reported>>
        /\ pc' = [pc EXCEPT ![e] = "deal"]
    BY <1>7, TypesKept DEF RecvEnds
  <2>2. \/ ErrorOperation(e)
        \/ UNCHANGED kernelVars /\ UNCHANGED messages /\ UNCHANGED <<failed, handle, closes>>
    BY <1>7 DEF RecvEnds
  <2>3. ModuleTypes'
    BY <2>1 DEF Types, ModuleTypes
  <2>4. /\ KernelTypes' /\ MessageTypes'
        /\ failed' \in [Ends -> BOOLEAN] /\ handle' \in [Ends -> BOOLEAN]
        /\ closes' \in [Ends -> Nat]
    BY <2>2, ErrorTypes, TypesKept DEF Types, SocketTypes
  <2>5. SocketTypes'
    BY <2>1, <2>4 DEF Types, SocketTypes
  <2> QED BY <2>1, <2>3, <2>4, <2>5 DEF Types
<1> QED BY <1>1, <1>2, <1>3, <1>4, <1>5, <1>6, <1>7
-----------------------------------------------------------------------------
(* Units that move *)

\* The units that are taken from the front, and those that stay.
LEMMA Split ==
    ASSUME NEW S, NEW s \in Seq(S), NEW n \in 0 .. Len(s)
    PROVE  /\ SubSeq(s, 1, n) \in Seq(S) /\ Drop(s, n) \in Seq(S)
           /\ Len(SubSeq(s, 1, n)) = n /\ Len(Drop(s, n)) = Len(s) - n
           /\ \A i \in 1 .. n : SubSeq(s, 1, n)[i] = s[i]
           /\ \A i \in 1 .. Len(s) - n : Drop(s, n)[i] = s[n + i]
           /\ SubSeq(s, 1, n) \o Drop(s, n) = s
<1>1. Len(s) \in Nat /\ n \in Nat
  BY LenProperties
<1>2. \A i \in 1 .. Len(s) : s[i] \in S
  BY ElementOfSeq
<1>3. \A i \in 1 .. n : s[i] \in S
  BY <1>1, <1>2
<1>4. /\ SubSeq(s, 1, n) \in Seq(S) /\ Len(SubSeq(s, 1, n)) = IF 1 <= n THEN n - 1 + 1 ELSE 0
      /\ \A i \in 1 .. n - 1 + 1 : SubSeq(s, 1, n)[i] = s[1 + i - 1]
  BY <1>1, <1>3, SubSeqProperties
<1>5. \A i \in n + 1 .. Len(s) : s[i] \in S
  BY <1>1, <1>2
<1>6. /\ Drop(s, n) \in Seq(S)
      /\ Len(Drop(s, n)) = IF n + 1 <= Len(s) THEN Len(s) - (n + 1) + 1 ELSE 0
      /\ \A i \in 1 .. Len(s) - (n + 1) + 1 : Drop(s, n)[i] = s[(n + 1) + i - 1]
  <2>1. n + 1 \in Int /\ Len(s) \in Int
    BY <1>1
  <2> QED BY <2>1, <1>5, SubSeqProperties DEF Drop
<1>7. SubSeq(s, 1, n) \o Drop(s, n) = s
  <2>1. 1 \in 1 .. Len(s) + 1 /\ n \in 1 - 1 .. Len(s) /\ Len(s) \in n .. Len(s)
    BY <1>1
  <2>2. SubSeq(s, 1, n) \o SubSeq(s, n + 1, Len(s)) = SubSeq(s, 1, Len(s))
    BY <2>1, ConcatAdjacentSubSeq
  <2> QED BY <2>2, SubSeqFull DEF Drop
<1>8. \A i \in 1 .. n : SubSeq(s, 1, n)[i] = s[i]
  BY <1>1, <1>4
<1>9. \A i \in 1 .. Len(s) - n : Drop(s, n)[i] = s[n + i]
  BY <1>1, <1>6
<1> QED BY <1>1, <1>4, <1>6, <1>7, <1>8, <1>9

\* Units that were given stay given.
LEMMA GivenGrows ==
    ASSUME Types, Types', NEW e \in Ends, accepted'[e] >= accepted[e]
    PROVE  Given(e) \subseteq Given(e)'
<1>1. accepted[e] \in Nat /\ accepted'[e] \in Nat
  BY DEF Types, StreamTypes
<1>2. 1 .. accepted[e] \subseteq 1 .. accepted'[e]
  BY <1>1
<1> QED BY <1>2 DEF Given, Length

\* A message may be accepted, and buffers emptied.
LEMMA BuffersKept ==
    ASSUME Types, Types', NEW e \in Ends, Buffers(e),
           \A x \in Ends : accepted'[x] >= accepted[x],
           unsent'[e] = unsent[e] \/ unsent'[e] = <<>>,
           unread'[e] = unread[e] \/ unread'[e] = <<>>,
           sendBuff'[e] = sendBuff[e] \/ sendBuff'[e] \in Seq(Given(e)'),
           recvBuff'[e] = recvBuff[e], dataLen'[e] = dataLen[e]
    PROVE  Buffers(e)'
<1>1. Given(e) \subseteq Given(e)' /\ Given(Peer(e)) \subseteq Given(Peer(e))'
  BY Constants, GivenGrows
<1>2. /\ unsent[e] \in Seq(Given(e)') /\ sendBuff[e] \in Seq(Given(e)')
      /\ unread[e] \in Seq(Given(Peer(e))') /\ recvBuff[e] \in Seq(Given(Peer(e))')
  BY <1>1, SeqMonotonic DEF Buffers
<1>3. /\ <<>> \in Seq(Given(e)') /\ <<>> \in Seq(Given(Peer(e))') /\ Len(<<>>) = 0
  BY EmptySeq
<1>4. /\ unsent'[e] \in Seq(Given(e)') /\ sendBuff'[e] \in Seq(Given(e)')
      /\ unread'[e] \in Seq(Given(Peer(e))') /\ recvBuff'[e] \in Seq(Given(Peer(e))')
  BY <1>2, <1>3
<1>5. Len(unsent'[e]) <= OutSize /\ Len(unread'[e]) <= InSize
  BY <1>3, Constants DEF Buffers
<1> QED BY <1>4, <1>5 DEF Buffers

\* What waits is counted the same.
LEMMA CountedKept ==
    ASSUME NEW e \in Ends, Counted(e), sent'[e] = sent[e], accepted'[e] = accepted[e],
           running'[e] = running[e], posted'[e] = posted[e]
    PROVE  Counted(e)'
BY DEF Counted

\* The free space is never used up.
LEMMA ReallocGrows ==
    ASSUME NEW len \in Nat, NEW need \in Nat, BlockSize <= len
    PROVE  /\ Realloc(len, need) \in Nat
           /\ need < Realloc(len, need) /\ BlockSize <= Realloc(len, need)
<1>1. BlockSize \in Nat /\ BlockSize > 0
  BY Constants
<1>2. CASE need < len
  BY <1>1, <1>2 DEF Realloc
<1>3. CASE need >= len
  <2> DEFINE m == (2 * need) % BlockSize
  <2>1. m \in 0 .. BlockSize - 1
    BY <1>1
  <2>2. Realloc(len, need) = 2 * need - m
    BY <1>3 DEF Realloc
  <2> HIDE DEF m
  <2>3. 2 * need - m > need
    BY <1>1, <1>3, <2>1
  <2> QED BY <1>1, <1>3, <2>1, <2>2, <2>3
<1> QED BY <1>2, <1>3

\* Only messages that were sent are accepted.
LEMMA AcceptedBound ==
    ASSUME DataInv, NEW e \in Ends
    PROVE  /\ accepted[e] \in Nat /\ sent[e] \in Nat /\ Len(Bodies[e]) \in Nat
           /\ accepted[e] <= sent[e] /\ sent[e] <= Len(Bodies[e])
<1>1. /\ running[e] \in Seq(Kinds) /\ posted[e] \in Seq(Kinds)
      /\ accepted[e] \in Nat /\ sent[e] \in Nat
  BY DEF DataInv, Types, ModuleTypes, SessionTypes, StreamTypes
<1>2. Cardinality(Sends(running[e])) \in Nat /\ Cardinality(Sends(posted[e])) \in Nat
  BY <1>1, SendsFinite
<1>3. Len(Bodies[e]) \in Nat
  BY Constants, LenProperties
<1> QED BY <1>1, <1>2, <1>3 DEF DataInv, Data, Counted

\* A unit that was given is one of an accepted message's.
LEMMA GivenUnit ==
    ASSUME DataInv, NEW e \in Ends, NEW u \in Given(e)
    PROVE  /\ u \in Unit /\ u[1] \in 1 .. accepted[e] /\ u[1] \in 1 .. Len(Bodies[e])
           /\ u[2] \in 1 .. Length(e, u[1]) /\ u = <<u[1], u[2]>> /\ u[1] \in Nat /\ u[2] \in Nat
<1>1. u \in Unit /\ u[1] \in 1 .. accepted[e] /\ u[2] \in 1 .. Length(e, u[1])
  BY DEF Given
<1>2. u[1] \in Nat /\ u[2] \in Nat /\ u = <<u[1], u[2]>>
  BY <1>1 DEF Unit
<1> QED BY <1>1, <1>2, AcceptedBound

\* A package is not empty.
LEMMA PackageFacts ==
    ASSUME DataInv, NEW e \in Ends, CheckPackage(e)
    PROVE  /\ recvBuff[e] # <<>> /\ PackageLength(e) \in 1 .. Len(recvBuff[e])
           /\ Head(recvBuff[e]) = recvBuff[e][1] /\ recvBuff[e][1] \in Given(Peer(e))
           /\ Package(e) \in Nat
<1> DEFINE p == Peer(e)
<1>1. p \in Ends /\ HeaderLength \in Nat /\ HeaderLength > 0
  BY Constants
<1>2. recvBuff[e] \in Seq(Given(p)) /\ Len(recvBuff[e]) \in Nat
  BY LenProperties DEF DataInv, Data, Buffers
<1>3. Len(recvBuff[e]) > 0 /\ recvBuff[e] # <<>> /\ PackageLength(e) <= Len(recvBuff[e])
  BY <1>1, <1>2, EmptySeq DEF CheckPackage
<1>4. Head(recvBuff[e]) = recvBuff[e][1] /\ recvBuff[e][1] \in Given(p)
  BY <1>2, <1>3, ElementOfSeq
<1>5. recvBuff[e][1][1] \in 1 .. Len(Bodies[p]) /\ recvBuff[e][1][1] \in Nat
  BY <1>1, <1>4, GivenUnit
<1>6. Len(Units(p, recvBuff[e][1][1])) \in Nat /\ Len(Units(p, recvBuff[e][1][1])) > 0
  BY <1>1, <1>5, UnitsProperties
<1>7. PackageLength(e) \in Nat /\ PackageLength(e) > 0
  BY <1>1, <1>4, <1>6 DEF PackageLength
<1>8. Package(e) \in Nat
  BY <1>4, <1>5 DEF Package
<1> QED BY <1>2, <1>3, <1>4, <1>7, <1>8

\* Closing empties what the kernel has of an end.
LEMMA SocketCleared ==
    ASSUME Types, NEW e \in Ends, CloseSocket(e)
    PROVE  \A x \in Ends : /\ unsent'[x] = unsent[x] \/ unsent'[x] = <<>>
                           /\ unread'[x] = unread[x] \/ unread'[x] = <<>>
BY DEF Types, KernelTypes, CloseSocket

\* The error operation leaves a kernel buffer alone or clears it.
LEMMA CloseClears ==
    ASSUME Types, NEW e \in Ends, ErrorOperation(e)
    PROVE  \A x \in Ends : /\ unsent'[x] = unsent[x] \/ unsent'[x] = <<>>
                           /\ unread'[x] = unread[x] \/ unread'[x] = <<>>
<1>1. UNCHANGED <<unsent, unread>> \/ CloseSocket(e)
  BY DEF ErrorOperation, FirstError, kernelVars
<1> QED BY <1>1, SocketCleared

-----------------------------------------------------------------------------
(* The first layer of the invariant *)

\* The buffers are empty at the start.
LEMMA DataInit == Init => DataInv
<1> SUFFICES ASSUME Init PROVE DataInv
  OBVIOUS
<1>1. Types
  BY TypesInit
<1>2. ASSUME NEW e \in Ends PROVE Buffers(e)
  <2>1. /\ unsent[e] = <<>> /\ sendBuff[e] = <<>> /\ unread[e] = <<>> /\ recvBuff[e] = <<>>
        /\ dataLen[e] = BufferSize
    BY DEF Init
  <2>2. \A S : <<>> \in Seq(S) /\ Len(<<>>) = 0
    BY EmptySeq
  <2> QED BY <2>1, <2>2, Constants DEF Buffers
<1>3. ASSUME NEW e \in Ends PROVE Counted(e)
  <2>1. sent[e] = 0 /\ accepted[e] = 0 /\ running[e] = <<>>
    BY DEF Init, Stream!Init
  <2>2. posted[e] = <<>> \/ posted[e] = Append(<<>>, "connect")
    BY DEF Init
  <2>3. <<>> \in Seq(Kinds) /\ "connect" \in Kinds
    BY DEF Kinds
  <2>4. Cardinality(Sends(posted[e])) = 0
    <3>1. Cardinality(Sends(Append(<<>>, "connect"))) =
             Cardinality(Sends(<<>>)) + (IF "connect" = "send" THEN 1 ELSE 0)
      BY <2>3, SendsAppend
    <3> QED BY <2>2, <3>1, SendsEmpty
  <2>5. Len(Bodies[e]) \in Nat
    BY Constants, LenProperties
  <2> QED BY <2>1, <2>4, <2>5, SendsEmpty DEF Counted
<1> QED BY <1>1, <1>2, <1>3 DEF DataInv, Data

\* What the module does with events and reports.
LEMMA DataModule ==
    ASSUME DataInv, NEW e \in Ends,
           \/ WaitEvents(e) \/ TakePosted(e) \/ WriteOperation(e) \/ SendAgain(e)
           \/ SendError(e) \/ ReadOperation(e) \/ RecvEnds(e)
    PROVE  DataInv'
<1>1. Types /\ Types'
  BY TypesServe DEF DataInv
<1>2. /\ UNCHANGED <<accepted, sendBuff, recvBuff, dataLen, sent>>
      /\ \A x \in Ends : unsent'[x] = unsent[x] \/ unsent'[x] = <<>>
      /\ \A x \in Ends : unread'[x] = unread[x] \/ unread'[x] = <<>>
  <2>1. /\ UNCHANGED <<accepted, sendBuff, recvBuff, dataLen, sent>>
        /\ UNCHANGED <<unsent, unread>> \/ ErrorOperation(e)
    BY DEF WaitEvents, TakePosted, WriteOperation, SendAgain, SendError, ReadOperation, RecvEnds,
           kernelVars, sessionVars, buffVars, streamVars
  <2> QED BY <2>1, <1>1, CloseClears
<1>3. ASSUME NEW x \in Ends PROVE Buffers(x)'
  <2>1. \A y \in Ends : accepted'[y] >= accepted[y]
    BY <1>1, <1>2 DEF Types, StreamTypes
  <2> QED BY <1>1, <1>2, <2>1, BuffersKept DEF DataInv, Data
<1>4. ASSUME NEW x \in Ends PROVE Counted(x)'
  <2>1. CASE running'[x] = running[x] /\ posted'[x] = posted[x]
    BY <1>2, <2>1, CountedKept DEF DataInv, Data
  <2>2. CASE TakePosted(e) /\ x = e
    <3>1. running[e] = <<>> /\ running'[e] = posted[e] /\ posted'[e] = <<>>
      BY <1>1, <2>2 DEF TakePosted, Deals, Types, ModuleTypes
    <3>2. posted[e] \in Seq(Kinds)
      BY <1>1 DEF Types, ModuleTypes
    <3>3. Cardinality(Sends(posted[e])) \in Nat /\ Cardinality(Sends(<<>>)) = 0 /\ accepted[e] \in Nat
      BY <1>1, <3>2, SendsFinite, SendsEmpty DEF Types, StreamTypes
    <3> QED BY <1>2, <2>2, <3>1, <3>3 DEF DataInv, Data, Counted
  <2>3. (TakePosted(e) /\ x = e) \/ (running'[x] = running[x] /\ posted'[x] = posted[x])
    BY <1>1 DEF WaitEvents, TakePosted, WriteOperation, SendAgain, SendError, ReadOperation,
           RecvEnds, Types, ModuleTypes
  <2> QED BY <2>1, <2>2, <2>3
<1> QED BY <1>1, <1>3, <1>4 DEF DataInv, Data

\* An event that is run counts no more.
LEMMA DataEvent ==
    ASSUME DataInv, NEW e \in Ends, RunEvent(e)
    PROVE  DataInv'
<1>1. Types /\ Types'
  BY TypesEvent DEF DataInv
<1>2. PICK k \in Kinds : Runs(e, k) /\ (k = "send" <=> SendOperator(e))
  BY DEF RunEvent, TcpConnect, Accepted, SendOperator, CloseOperator, Kinds, Runs
<1>3. /\ UNCHANGED <<recvBuff, dataLen, sent, posted>>
      /\ k # "send" => UNCHANGED <<accepted, sendBuff>>
      /\ \A x \in Ends : unsent'[x] = unsent[x] \/ unsent'[x] = <<>>
      /\ \A x \in Ends : unread'[x] = unread[x] \/ unread'[x] = <<>>
  <2>1. /\ UNCHANGED <<recvBuff, dataLen, sent, posted>>
        /\ k # "send" => UNCHANGED <<accepted, sendBuff>>
    BY <1>2 DEF RunEvent, TcpConnect, Accepted, SendOperator, CloseOperator, sessionVars, buffVars,
           streamVars
  <2>2. UNCHANGED <<unsent, unread>> \/ CloseSocket(e)
    BY DEF RunEvent, TcpConnect, Accepted, SendOperator, CloseOperator, ErrorOperation, FirstError,
           Connect, kernelVars
  <2> QED BY <2>1, <2>2, <1>1, SocketCleared
<1>4. /\ running[e] \in Seq(Kinds) /\ running[e] # <<>> /\ Head(running[e]) = k
      /\ running'[e] = Tail(running[e])
      /\ \A x \in Ends : x # e => running'[x] = running[x]
  BY <1>1, <1>2 DEF Runs, Types, ModuleTypes
<1>5. /\ \A x \in Ends : x # e => accepted'[x] = accepted[x] /\ sendBuff'[x] = sendBuff[x]
      /\ accepted'[e] = accepted[e] \/ (k = "send" /\ accepted'[e] = accepted[e] + 1)
  BY <1>1, <1>2, <1>3 DEF SendOperator, Types, StreamTypes, BuffTypes
<1>6. ASSUME NEW x \in Ends PROVE accepted'[x] >= accepted[x]
  <2>1. accepted[x] \in Nat
    BY <1>1 DEF Types, StreamTypes
  <2> QED BY <1>5, <2>1
<1>7. sendBuff'[e] = sendBuff[e] \/ sendBuff'[e] \in Seq(Given(e)')
  <2>1. CASE k # "send" \/ failed[e]
    BY <1>2, <1>3, <2>1 DEF SendOperator
  <2>2. CASE k = "send" /\ ~failed[e]
    <3> DEFINE n == accepted[e] + 1
    <3>1. n \in Nat /\ n \in 1 .. Len(Bodies[e])
      BY <1>2, <2>2, NextMessage
    <3>2. accepted'[e] = n /\ sendBuff'[e] = sendBuff[e] \o Units(e, n)
      BY <1>1, <1>2, <2>2 DEF SendOperator, Types, StreamTypes, BuffTypes
    <3>3. sendBuff[e] \in Seq(Given(e)')
      BY <1>1, <1>6, GivenGrows, SeqMonotonic DEF DataInv, Data, Buffers
    <3>4. Units(e, n) \in Seq(Given(e)')
      <4>1. /\ Units(e, n) \in Seq(Unit) /\ Len(Units(e, n)) = Length(e, n)
            /\ Length(e, n) \in Nat
            /\ \A i \in 1 .. Length(e, n) : Units(e, n)[i] = <<n, i>>
        BY <3>1, UnitsProperties
      <4>2. ASSUME NEW i \in 1 .. Length(e, n) PROVE Units(e, n)[i] \in Given(e)'
        <5>1. Units(e, n)[i] = <<n, i>> /\ <<n, i>> \in Unit /\ n \in 1 .. accepted'[e]
          BY <3>1, <3>2, <4>1 DEF Unit
        <5> QED BY <5>1, <4>2 DEF Given, Length
      <4>3. Units(e, n) \in [1 .. Length(e, n) -> Given(e)']
        BY <4>1, <4>2, LenProperties
      <4> QED BY <4>1, <4>3, SeqDef
    <3> QED BY <3>2, <3>3, <3>4, ConcatProperties
  <2> QED BY <2>1, <2>2
<1>8. ASSUME NEW x \in Ends PROVE Buffers(x)'
  BY <1>1, <1>3, <1>5, <1>6, <1>7, BuffersKept DEF DataInv, Data
<1>9. ASSUME NEW x \in Ends PROVE Counted(x)'
  <2>1. CASE x # e
    BY <1>3, <1>4, <1>5, <2>1, CountedKept DEF DataInv, Data
  <2>2. CASE x = e
    <3>1. Cardinality(Sends(running[e])) = Cardinality(Sends(running'[e])) + (IF k = "send" THEN 1 ELSE 0)
      BY <1>4, SendsTail
    <3>2. Cardinality(Sends(running'[e])) \in Nat /\ Cardinality(Sends(posted[e])) \in Nat
          /\ accepted[e] \in Nat /\ sent[e] \in Nat
      BY <1>1, SendsFinite DEF Types, ModuleTypes, StreamTypes, SessionTypes
    <3> QED BY <1>3, <1>5, <2>2, <3>1, <3>2 DEF DataInv, Data, Counted
  <2> QED BY <2>1, <2>2
<1> QED BY <1>1, <1>8, <1>9 DEF DataInv, Data

\* What the kernel may take or give, and what the receiver has room for.
LEMMA LeastFacts ==
    ASSUME NEW a \in Nat, NEW b \in Nat
    PROVE  Least(a, b) \in Nat /\ Least(a, b) <= a /\ Least(a, b) <= b
BY DEF Least

\* Units move from the front of one buffer to the back of another.
LEMMA Moved ==
    ASSUME NEW S, NEW s \in Seq(S), NEW t \in Seq(S), NEW n \in 0 .. Len(s)
    PROVE  /\ t \o SubSeq(s, 1, n) \in Seq(S) /\ Drop(s, n) \in Seq(S)
           /\ Len(t \o SubSeq(s, 1, n)) = Len(t) + n /\ Len(Drop(s, n)) = Len(s) - n
           /\ Len(s) \in Nat /\ Len(t) \in Nat /\ n \in Nat
           /\ (t \o SubSeq(s, 1, n)) \o Drop(s, n) = t \o s
<1>1. Len(s) \in Nat /\ Len(t) \in Nat /\ n \in Nat
  BY LenProperties
<1>2. /\ SubSeq(s, 1, n) \in Seq(S) /\ Drop(s, n) \in Seq(S)
      /\ Len(SubSeq(s, 1, n)) = n /\ Len(Drop(s, n)) = Len(s) - n
      /\ SubSeq(s, 1, n) \o Drop(s, n) = s
  BY Split
<1>3. t \o SubSeq(s, 1, n) \in Seq(S) /\ Len(t \o SubSeq(s, 1, n)) = Len(t) + n
  BY <1>2, ConcatProperties
<1>4. (t \o SubSeq(s, 1, n)) \o Drop(s, n) = t \o (SubSeq(s, 1, n) \o Drop(s, n))
  <2> DEFINE a == SubSeq(s, 1, n)
             b == Drop(s, n)
  <2>1. a \in Seq(S) /\ b \in Seq(S)
    BY <1>2
  <2> HIDE DEF a, b
  <2>2. (t \o a) \o b = t \o (a \o b)
    BY <2>1, ConcatAssociative
  <2> QED BY <2>2 DEF a, b
<1> QED BY <1>1, <1>2, <1>3, <1>4

\* send and recv.
LEMMA DataSend ==
    ASSUME DataInv, NEW e \in Ends, SendSome(e)
    PROVE  DataInv'
<1>1. Types
  BY DEF DataInv
<1>2. PICK n : /\ n = Least(SendRoom(e), Len(sendBuff[e]))
               /\ unsent' = [unsent EXCEPT ![e] = @ \o SubSeq(sendBuff[e], 1, n)]
               /\ sendBuff' = [sendBuff EXCEPT ![e] = Drop(@, n)]
  BY DEF SendSome, SentUnits
<1>3. /\ sendBuff[e] \in Seq(Given(e)) /\ unsent[e] \in Seq(Given(e)) /\ Len(unsent[e]) \in Nat
      /\ sendBuff[e] \in Seq(Unit) /\ unsent[e] \in Seq(Unit)
      /\ Len(sendBuff[e]) \in Nat /\ SendRoom(e) \in Nat /\ Len(unsent[e]) + SendRoom(e) = OutSize
  <2>1. /\ sendBuff[e] \in Seq(Given(e)) /\ unsent[e] \in Seq(Given(e)) /\ Len(unsent[e]) <= OutSize
        /\ sendBuff[e] \in Seq(Unit) /\ unsent[e] \in Seq(Unit)
    BY <1>1 DEF DataInv, Data, Buffers, Types, KernelTypes, BuffTypes
  <2>2. Len(sendBuff[e]) \in Nat /\ Len(unsent[e]) \in Nat /\ OutSize \in Nat
    BY <2>1, Constants, LenProperties
  <2> QED BY <2>1, <2>2 DEF SendRoom
<1>4. n \in 0 .. Len(sendBuff[e]) /\ n <= SendRoom(e) /\ n \in Nat
  BY <1>2, <1>3 DEF Least
<1>5. /\ unsent[e] \o SubSeq(sendBuff[e], 1, n) \in Seq(Given(e))
      /\ Drop(sendBuff[e], n) \in Seq(Given(e))
      /\ Len(unsent[e] \o SubSeq(sendBuff[e], 1, n)) <= OutSize
  <2>1. Drop(sendBuff[e], n) \in Seq(Given(e))
    BY <1>3, <1>4, Split
  <2>2. /\ unsent[e] \o SubSeq(sendBuff[e], 1, n) \in Seq(Given(e))
        /\ Len(unsent[e] \o SubSeq(sendBuff[e], 1, n)) = Len(unsent[e]) + n
    <3> DEFINE S == Given(e)
               s == sendBuff[e]
               t == unsent[e]
    <3>1. s \in Seq(S) /\ t \in Seq(S) /\ n \in 0 .. Len(s)
      BY <1>3, <1>4
    <3> HIDE DEF S, s, t
    <3>2. t \o SubSeq(s, 1, n) \in Seq(S) /\ Len(t \o SubSeq(s, 1, n)) = Len(t) + n
      BY <3>1, Moved
    <3> QED BY <3>2 DEF S, s, t
  <2>3. OutSize \in Nat
    BY Constants
  <2>4. Len(unsent[e]) + n <= OutSize
    BY <1>3, <1>4, <2>3
  <2> QED BY <2>1, <2>2, <2>4
<1>6. unsent[e] \o SubSeq(sendBuff[e], 1, n) \in Seq(Unit) /\ Drop(sendBuff[e], n) \in Seq(Unit)
  BY <1>3, <1>4, Moved
<1>7. Types'
  <2>1. SocketTypes' /\ SessionTypes' /\ MessageTypes' /\ StreamTypes'
    BY <1>1, TypesKept DEF SendSome
  <2>2. KernelTypes'
    BY <1>1, <1>2, <1>6 DEF SendSome, Types, KernelTypes
  <2>3. BuffTypes'
    BY <1>1, <1>2, <1>6 DEF SendSome, Types, BuffTypes
  <2>4. ModuleTypes'
    BY <1>1 DEF SendSome, Types, ModuleTypes
  <2> QED BY <2>1, <2>2, <2>3, <2>4 DEF Types
<1>8. UNCHANGED <<unread, recvBuff, dataLen, accepted, sent, running, posted>>
  BY DEF SendSome, sessionVars, streamVars
<1>9. ASSUME NEW x \in Ends PROVE Buffers(x)'
  <2>1. CASE x # e
    <3>1. unsent'[x] = unsent[x] /\ sendBuff'[x] = sendBuff[x]
      BY <1>1, <1>2, <2>1 DEF Types, KernelTypes, BuffTypes
    <3> QED BY <1>8, <3>1 DEF DataInv, Data, Buffers, Given
  <2>2. CASE x = e
    <3>1. /\ unsent'[e] = unsent[e] \o SubSeq(sendBuff[e], 1, n)
          /\ sendBuff'[e] = Drop(sendBuff[e], n)
      BY <1>1, <1>2 DEF Types, KernelTypes, BuffTypes
    <3> QED BY <1>5, <1>8, <2>2, <3>1 DEF DataInv, Data, Buffers, Given
  <2> QED BY <2>1, <2>2
<1>10. \A x \in Ends : Counted(x)'
  BY <1>8, CountedKept DEF DataInv, Data
<1> QED BY <1>7, <1>9, <1>10 DEF DataInv, Data

\* recv takes no more than there is room for.
LEMMA DataRecv ==
    ASSUME DataInv, NEW e \in Ends, Recv(e)
    PROVE  DataInv'
<1>1. Types
  BY DEF DataInv
<1>2. PICK n : /\ n = Least(FreeSize(e), Len(unread[e]))
               /\ recvBuff' = [recvBuff EXCEPT ![e] = @ \o SubSeq(unread[e], 1, n)]
               /\ dataLen' = [dataLen EXCEPT ![e] = Realloc(@, Len(recvBuff[e]) + n)]
               /\ unread' = [unread EXCEPT ![e] = Drop(@, n)]
  BY DEF Recv
<1>3. /\ recvBuff[e] \in Seq(Given(Peer(e))) /\ unread[e] \in Seq(Given(Peer(e)))
      /\ recvBuff[e] \in Seq(Unit) /\ unread[e] \in Seq(Unit)
      /\ Len(recvBuff[e]) \in Nat /\ Len(unread[e]) \in Nat /\ dataLen[e] \in Nat
      /\ FreeSize(e) \in Nat /\ BlockSize <= dataLen[e] /\ Len(unread[e]) <= InSize
  BY <1>1, Constants, LenProperties DEF FreeSize, DataInv, Data, Buffers, Types, KernelTypes, BuffTypes
<1>4. n \in 0 .. Len(unread[e]) /\ n \in Nat
  BY <1>2, <1>3 DEF Least
<1>5. /\ recvBuff[e] \o SubSeq(unread[e], 1, n) \in Seq(Given(Peer(e)))
      /\ Drop(unread[e], n) \in Seq(Given(Peer(e)))
      /\ Len(recvBuff[e] \o SubSeq(unread[e], 1, n)) = Len(recvBuff[e]) + n
      /\ Len(Drop(unread[e], n)) <= InSize
  <2>1. Len(Drop(unread[e], n)) = Len(unread[e]) - n
    BY <1>3, <1>4, Split
  <2>2. InSize \in Nat
    BY Constants
  <2>3. Len(Drop(unread[e], n)) <= InSize
    BY <1>3, <1>4, <2>1, <2>2
  <2>4. Drop(unread[e], n) \in Seq(Given(Peer(e)))
    BY <1>3, <1>4, Split
  <2>5. /\ recvBuff[e] \o SubSeq(unread[e], 1, n) \in Seq(Given(Peer(e)))
        /\ Len(recvBuff[e] \o SubSeq(unread[e], 1, n)) = Len(recvBuff[e]) + n
    <3> DEFINE S == Given(Peer(e))
               s == unread[e]
               t == recvBuff[e]
    <3>1. s \in Seq(S) /\ t \in Seq(S) /\ n \in 0 .. Len(s)
      BY <1>3, <1>4
    <3> HIDE DEF S, s, t
    <3>2. t \o SubSeq(s, 1, n) \in Seq(S) /\ Len(t \o SubSeq(s, 1, n)) = Len(t) + n
      BY <3>1, Moved
    <3> QED BY <3>2 DEF S, s, t
  <2> QED BY <2>3, <2>4, <2>5
<1>6. recvBuff[e] \o SubSeq(unread[e], 1, n) \in Seq(Unit) /\ Drop(unread[e], n) \in Seq(Unit)
  BY <1>3, <1>4, Moved
<1>7. /\ Realloc(dataLen[e], Len(recvBuff[e]) + n) \in Nat
      /\ Len(recvBuff[e]) + n < Realloc(dataLen[e], Len(recvBuff[e]) + n)
      /\ BlockSize <= Realloc(dataLen[e], Len(recvBuff[e]) + n)
  <2>1. Len(recvBuff[e]) + n \in Nat
    BY <1>3, <1>4
  <2> QED BY <1>3, <2>1, ReallocGrows
<1>8. Types'
  <2>1. SocketTypes' /\ SessionTypes' /\ MessageTypes' /\ StreamTypes'
    BY <1>1, TypesKept DEF Recv
  <2>2. KernelTypes'
    BY <1>1, <1>2, <1>6 DEF Recv, Types, KernelTypes
  <2>3. BuffTypes'
    BY <1>1, <1>2, <1>6, <1>7 DEF Recv, Types, BuffTypes
  <2>4. ModuleTypes'
    BY <1>1 DEF Recv, AfterRecv, Types, ModuleTypes
  <2> QED BY <2>1, <2>2, <2>3, <2>4 DEF Types
<1>9. UNCHANGED <<unsent, sendBuff, accepted, sent, running, posted>>
  BY DEF Recv, sessionVars, streamVars
<1>10. ASSUME NEW x \in Ends PROVE Buffers(x)'
  <2>1. CASE x # e
    <3>1. unread'[x] = unread[x] /\ recvBuff'[x] = recvBuff[x] /\ dataLen'[x] = dataLen[x]
      BY <1>1, <1>2, <2>1 DEF Types, KernelTypes, BuffTypes
    <3> QED BY <1>9, <3>1 DEF DataInv, Data, Buffers, Given
  <2>2. CASE x = e
    <3>1. /\ recvBuff'[e] = recvBuff[e] \o SubSeq(unread[e], 1, n)
          /\ unread'[e] = Drop(unread[e], n)
          /\ dataLen'[e] = Realloc(dataLen[e], Len(recvBuff[e]) + n)
      BY <1>1, <1>2 DEF Types, KernelTypes, BuffTypes
    <3> QED BY <1>5, <1>7, <1>9, <2>2, <3>1 DEF DataInv, Data, Buffers, Given
  <2> QED BY <2>1, <2>2
<1>11. \A x \in Ends : Counted(x)'
  BY <1>9, CountedKept DEF DataInv, Data
<1> QED BY <1>8, <1>10, <1>11 DEF DataInv, Data

\* A package is cut from the buffer, for the session.
LEMMA DataPop ==
    ASSUME DataInv, NEW e \in Ends, PopPackage(e)
    PROVE  DataInv'
<1>1. Types
  BY DEF DataInv
<1>2. /\ recvBuff' = [recvBuff EXCEPT ![e] = Drop(@, PackageLength(e))]
      /\ messages' = PushMessageEvent(e, "recv", Package(e))
      /\ UNCHANGED <<kernelVars, socketVars, moduleVars, sessionVars, sendBuff, dataLen, streamVars>>
  BY DEF PopPackage
<1>3. PackageLength(e) \in 1 .. Len(recvBuff[e]) /\ Package(e) \in Nat
  BY PackageFacts DEF PopPackage
<1>4. /\ recvBuff[e] \in Seq(Given(Peer(e))) /\ recvBuff[e] \in Seq(Unit)
      /\ Len(recvBuff[e]) \in Nat /\ dataLen[e] \in Nat /\ Len(recvBuff[e]) < dataLen[e]
  BY <1>1, LenProperties DEF DataInv, Data, Buffers, Types, BuffTypes
<1>5. PackageLength(e) \in 0 .. Len(recvBuff[e]) /\ PackageLength(e) \in Nat
  BY <1>3, <1>4
<1>6. /\ Drop(recvBuff[e], PackageLength(e)) \in Seq(Given(Peer(e)))
      /\ Drop(recvBuff[e], PackageLength(e)) \in Seq(Unit)
      /\ Len(Drop(recvBuff[e], PackageLength(e))) = Len(recvBuff[e]) - PackageLength(e)
  BY <1>4, <1>5, Split
<1>7. Types'
  <2>1. KernelTypes' /\ SocketTypes' /\ ModuleTypes' /\ SessionTypes' /\ StreamTypes'
    BY <1>1, <1>2, TypesKept
  <2>2. MessageTypes'
    BY <1>1, <1>2, <1>3, PushType DEF MessageTypes, MessageKinds
  <2>3. BuffTypes'
    BY <1>1, <1>2, <1>6 DEF Types, BuffTypes
  <2> QED BY <2>1, <2>2, <2>3 DEF Types
<1>8. UNCHANGED <<unsent, unread, sendBuff, dataLen, accepted, sent, running, posted>>
  BY <1>2 DEF kernelVars, moduleVars, sessionVars, streamVars
<1>9. ASSUME NEW x \in Ends PROVE Buffers(x)'
  <2>1. CASE x # e
    <3>1. recvBuff'[x] = recvBuff[x]
      BY <1>1, <1>2, <2>1 DEF Types, BuffTypes
    <3> QED BY <1>8, <3>1 DEF DataInv, Data, Buffers, Given
  <2>2. CASE x = e
    <3>1. recvBuff'[e] = Drop(recvBuff[e], PackageLength(e))
      BY <1>1, <1>2 DEF Types, BuffTypes
    <3>2. Len(recvBuff'[e]) < dataLen[e]
      BY <1>4, <1>5, <1>6, <3>1
    <3> QED BY <1>6, <1>8, <2>2, <3>1, <3>2 DEF DataInv, Data, Buffers, Given
  <2> QED BY <2>1, <2>2
<1>10. \A x \in Ends : Counted(x)'
  BY <1>8, CountedKept DEF DataInv, Data
<1> QED BY <1>7, <1>9, <1>10 DEF DataInv, Data

\* A segment arrives.
LEMMA DataArrive ==
    ASSUME DataInv, NEW e \in Ends, Arrive(e)
    PROVE  DataInv'
<1> DEFINE p == Peer(e)
<1>1. Types /\ p \in Ends /\ p # e /\ Peer(p) = e
  BY Constants DEF DataInv
<1>2. PICK n \in 1 .. Least(Len(unsent[p]), InSize - Len(unread[e])) :
          /\ unread' = [unread EXCEPT ![e] = @ \o SubSeq(unsent[p], 1, n)]
          /\ unsent' = [unsent EXCEPT ![p] = Drop(@, n)]
  BY DEF Arrive
<1>3. /\ unsent[p] \in Seq(Given(p)) /\ unread[e] \in Seq(Given(p))
      /\ unsent[p] \in Seq(Unit) /\ unread[e] \in Seq(Unit)
      /\ Len(unsent[p]) \in Nat /\ Len(unread[e]) \in Nat /\ InSize \in Nat /\ OutSize \in Nat
      /\ InSize - Len(unread[e]) \in Nat /\ Len(unsent[p]) <= OutSize
  BY <1>1, Constants, LenProperties DEF DataInv, Data, Buffers, Types, KernelTypes
<1>4. n \in 0 .. Len(unsent[p]) /\ n \in Nat /\ n <= InSize - Len(unread[e])
  <2> HIDE DEF p
  <2> QED BY <1>2, <1>3 DEF Least
<1>5. /\ unread[e] \o SubSeq(unsent[p], 1, n) \in Seq(Given(p))
      /\ Drop(unsent[p], n) \in Seq(Given(p))
      /\ Len(unread[e] \o SubSeq(unsent[p], 1, n)) <= InSize /\ Len(Drop(unsent[p], n)) <= OutSize
  <2> HIDE DEF p
  <2>1. /\ unread[e] \o SubSeq(unsent[p], 1, n) \in Seq(Given(p))
        /\ Len(unread[e] \o SubSeq(unsent[p], 1, n)) = Len(unread[e]) + n
    BY <1>3, <1>4, Moved
  <2>2. /\ Drop(unsent[p], n) \in Seq(Given(p))
        /\ Len(Drop(unsent[p], n)) = Len(unsent[p]) - n
    BY <1>3, <1>4, Split
  <2> QED BY <1>3, <1>4, <2>1, <2>2
<1>6. unread[e] \o SubSeq(unsent[p], 1, n) \in Seq(Unit) /\ Drop(unsent[p], n) \in Seq(Unit)
  BY <1>3, <1>4, Moved
<1>7. Types'
  <2>1. SocketTypes' /\ ModuleTypes' /\ SessionTypes' /\ BuffTypes' /\ MessageTypes' /\ StreamTypes'
    BY <1>1, TypesKept DEF Arrive
  <2>2. KernelTypes'
    <3>1. /\ unsent' \in [Ends -> Seq(Unit)] /\ unread' \in [Ends -> Seq(Unit)]
      BY <1>1, <1>2, <1>6 DEF Types, KernelTypes
    <3>2. edge' \in [Ends -> BOOLEAN] /\ nospace' \in [Ends -> BOOLEAN]
      BY <1>1 DEF Arrive, Wake, Types, KernelTypes
    <3>3. UNCHANGED <<link, listener, backlog, side, fin, reset, registered>>
      BY DEF Arrive
    <3> QED BY <1>1, <3>1, <3>2, <3>3 DEF Types, KernelTypes
  <2> QED BY <2>1, <2>2 DEF Types
<1>8. UNCHANGED <<sendBuff, recvBuff, dataLen, accepted, sent, running, posted>>
  BY DEF Arrive, moduleVars, sessionVars, buffVars, streamVars
<1>9. /\ unread'[e] = unread[e] \o SubSeq(unsent[p], 1, n) /\ unread'[p] = unread[p]
      /\ unsent'[p] = Drop(unsent[p], n) /\ unsent'[e] = unsent[e]
  <2> HIDE DEF p
  <2> QED BY <1>1, <1>2 DEF Types, KernelTypes
<1>10. Buffers(e)' /\ Buffers(p)'
  BY <1>1, <1>5, <1>8, <1>9 DEF DataInv, Data, Buffers, Given
<1>11. \A x \in Ends : Buffers(x)'
  <2> HIDE DEF p
  <2>1. \A x \in Ends : x = e \/ x = p
    BY Constants DEF p
  <2> QED BY <1>10, <2>1
<1>12. \A x \in Ends : Counted(x)'
  BY <1>8, CountedKept DEF DataInv, Data
<1> QED BY <1>7, <1>11, <1>12 DEF DataInv, Data

\* What the listener, the main threads and the network do.
LEMMA DataAccept ==
    ASSUME DataInv, Listen \/ Accept \/ AcceptFails \/ Establish \/ Refuse
    PROVE  DataInv'
<1>1. Types
  BY DEF DataInv
<1>2. "server" \in Ends /\ "accepted" \in Kinds /\ <<>> \in Seq(Unit)
  BY EmptySeq DEF Ends, Kinds
<1>3. UNCHANGED <<unsent, sendBuff, recvBuff, dataLen, accepted, sent, running>>
  BY DEF Listen, Accept, AcceptFails, Establish, Refuse, moduleVars, sessionVars, buffVars, streamVars
<1>4. Types'
  <2>1. CASE Listen
    <3>1. KernelTypes'
      BY <1>1, <2>1 DEF Listen, Types, KernelTypes
    <3> QED BY <1>1, <2>1, <3>1, TypesKept DEF Listen, Types
  <2>2. CASE Accept
    <3>1. KernelTypes'
      BY <1>1, <2>2 DEF Accept, Types, KernelTypes
    <3>2. SocketTypes'
      BY <1>1, <2>2 DEF Accept, Types, SocketTypes
    <3>3. ModuleTypes'
      BY <1>1, <1>2, <2>2, PostType DEF Accept, Types, ModuleTypes
    <3>4. SessionTypes'
      BY <1>1, <2>2 DEF Accept, Types, SessionTypes
    <3> QED BY <1>1, <2>2, <3>1, <3>2, <3>3, <3>4, TypesKept DEF Accept, Types
  <2>3. CASE AcceptFails
    <3>1. KernelTypes'
      BY <1>1, <1>2, <2>3 DEF AcceptFails, ListenerError, Types, KernelTypes
    <3> QED BY <1>1, <2>3, <3>1, TypesKept DEF AcceptFails, Types
  <2>4. CASE Establish
    <3>1. KernelTypes'
      BY <1>1, <2>4 DEF Establish, Wake, Types, KernelTypes
    <3> QED BY <1>1, <2>4, <3>1, TypesKept DEF Establish, Types
  <2>5. CASE Refuse
    <3>1. KernelTypes'
      BY <1>1, <2>5 DEF Refuse, Wake, Types, KernelTypes
    <3> QED BY <1>1, <2>5, <3>1, TypesKept DEF Refuse, Types
  <2> QED BY <2>1, <2>2, <2>3, <2>4, <2>5
<1>5. \A x \in Ends : unread'[x] = unread[x] \/ unread'[x] = <<>>
  BY <1>1 DEF Listen, Accept, AcceptFails, ListenerError, Establish, Refuse, Types, KernelTypes
<1>6. ASSUME NEW x \in Ends PROVE Buffers(x)'
  <2>1. \A y \in Ends : accepted'[y] >= accepted[y]
    BY <1>1, <1>3 DEF Types, StreamTypes
  <2> QED BY <1>1, <1>3, <1>4, <1>5, <2>1, BuffersKept DEF DataInv, Data
<1>7. ASSUME NEW x \in Ends PROVE Counted(x)'
  <2>1. CASE posted' = posted
    BY <1>3, <2>1, CountedKept DEF DataInv, Data
  <2>2. CASE Accept
    <3>1. posted'[x] = posted[x] \/ posted'[x] = Append(posted[x], "accepted")
      BY <1>1, <2>2 DEF Accept, Types, ModuleTypes
    <3>2. posted[x] \in Seq(Kinds)
      BY <1>1 DEF Types, ModuleTypes
    <3>3. Cardinality(Sends(Append(posted[x], "accepted"))) =
             Cardinality(Sends(posted[x])) + (IF "accepted" = "send" THEN 1 ELSE 0)
      BY <1>2, <3>2, SendsAppend
    <3>5. Cardinality(Sends(posted[x])) \in Nat
      BY <3>2, SendsFinite
    <3>6. Cardinality(Sends(Append(posted[x], "accepted"))) = Cardinality(Sends(posted[x]))
      BY <3>3, <3>5
    <3>4. Cardinality(Sends(posted'[x])) = Cardinality(Sends(posted[x]))
      BY <3>1, <3>6
    <3> QED BY <1>3, <3>4 DEF DataInv, Data, Counted
  <2>3. Accept \/ posted' = posted
    BY DEF Listen, AcceptFails, Establish, Refuse, moduleVars
  <2> QED BY <2>1, <2>2, <2>3
<1> QED BY <1>4, <1>6, <1>7 DEF DataInv, Data

\* The application sends a message or closes.
LEMMA DataMain ==
    ASSUME DataInv, NEW e \in Ends, Send(e) \/ Close(e)
    PROVE  DataInv'
<1>1. Types
  BY DEF DataInv
<1>2. PICK k \in {"send", "close"} :
         /\ posted' = [posted EXCEPT ![e] = Append(@, k)]
         /\ k = "send" => sent[e] < Len(Bodies[e]) /\ sent' = [sent EXCEPT ![e] = @ + 1]
         /\ k = "close" => sent' = sent
  BY DEF Send, Close
<1>3. UNCHANGED <<unsent, unread, sendBuff, recvBuff, dataLen, accepted, running>>
  BY DEF Send, Close, kernelVars, buffVars, streamVars
<1>4. Types'
  <2>1. k \in Kinds
    BY DEF Kinds
  <2>2. KernelTypes' /\ SocketTypes' /\ BuffTypes' /\ MessageTypes' /\ StreamTypes'
    BY <1>1, TypesKept DEF Send, Close
  <2>3. posted' \in [Ends -> Seq(Kinds)]
    BY <1>1, <1>2, <2>1, PostType
  <2>4. ModuleTypes'
    BY <1>1, <2>3 DEF Send, Close, Types, ModuleTypes
  <2>5. SessionTypes'
    <3>1. CASE Send(e)
      BY <1>1, <3>1 DEF Send, Types, SessionTypes
    <3>2. CASE Close(e)
      BY <1>1, <3>2 DEF Close, Types, SessionTypes
    <3> QED BY <3>1, <3>2
  <2> QED BY <2>2, <2>4, <2>5 DEF Types
<1>5. ASSUME NEW x \in Ends PROVE Buffers(x)'
  <2>1. \A y \in Ends : accepted'[y] >= accepted[y]
    BY <1>1, <1>3 DEF Types, StreamTypes
  <2> QED BY <1>1, <1>3, <1>4, <2>1, BuffersKept DEF DataInv, Data
<1>6. ASSUME NEW x \in Ends PROVE Counted(x)'
  <2>1. CASE x # e
    <3>1. posted'[x] = posted[x] /\ sent'[x] = sent[x]
      BY <1>1, <1>2, <2>1 DEF Types, ModuleTypes, SessionTypes
    <3> QED BY <1>3, <3>1, CountedKept DEF DataInv, Data
  <2>2. CASE x = e
    <3>1. posted[e] \in Seq(Kinds) /\ running[e] \in Seq(Kinds) /\ k \in Kinds /\ sent[e] \in Nat
          /\ accepted[e] \in Nat
      BY <1>1 DEF Types, ModuleTypes, SessionTypes, StreamTypes, Kinds
    <3>2. posted'[e] = Append(posted[e], k) /\ sent'[e] = sent[e] + (IF k = "send" THEN 1 ELSE 0)
      BY <1>1, <1>2, <3>1 DEF Types, ModuleTypes, SessionTypes
    <3>3. Cardinality(Sends(posted'[e])) = Cardinality(Sends(posted[e])) + (IF k = "send" THEN 1 ELSE 0)
      BY <3>1, <3>2, SendsAppend
    <3>4. Cardinality(Sends(posted[e])) \in Nat /\ Cardinality(Sends(running[e])) \in Nat
          /\ Len(Bodies[e]) \in Nat
      BY <3>1, SendsFinite, Constants, LenProperties
    <3>5. /\ sent[e] <= Len(Bodies[e])
          /\ accepted[e] + Cardinality(Sends(running[e])) + Cardinality(Sends(posted[e])) <= sent[e]
      BY DEF DataInv, Data, Counted
    <3>6. sent'[e] <= Len(Bodies[e])
      BY <1>2, <3>1, <3>2, <3>4, <3>5
    <3>7. accepted'[e] + Cardinality(Sends(running'[e])) + Cardinality(Sends(posted'[e])) <= sent'[e]
      BY <1>3, <3>1, <3>2, <3>3, <3>4, <3>5
    <3> QED BY <2>2, <3>6, <3>7 DEF Counted
  <2> QED BY <2>1, <2>2
<1> QED BY <1>4, <1>5, <1>6 DEF DataInv, Data

\* A message is handled, or the end of a connection arrives.
LEMMA DataNetwork ==
    ASSUME DataInv, NEW e \in Ends, HandleMessage(e) \/ ArriveFin(e) \/ ArriveReset(e)
    PROVE  DataInv'
<1>1. Types
  BY DEF DataInv
<1>2. UNCHANGED <<unread, sendBuff, recvBuff, dataLen, accepted, sent, running, posted>>
  BY DEF HandleMessage, ArriveFin, ArriveReset, kernelVars, moduleVars, sessionVars, buffVars,
         streamVars
<1>3. Types'
  <2>1. CASE HandleMessage(e)
    <3>1. KernelTypes' /\ SocketTypes' /\ ModuleTypes' /\ BuffTypes'
      BY <1>1, <2>1, TypesKept DEF HandleMessage
    <3>2. messages[e] \in Seq([kind : MessageKinds, number : Nat]) /\ messages[e] # <<>>
      BY <1>1, <2>1 DEF HandleMessage, Types, MessageTypes
    <3>3. /\ Tail(messages[e]) \in Seq([kind : MessageKinds, number : Nat])
          /\ Head(messages[e]) \in [kind : MessageKinds, number : Nat]
      BY <3>2, HeadTailProperties
    <3>4. MessageTypes'
      BY <1>1, <2>1, <3>3 DEF HandleMessage, Types, MessageTypes
    <3>5. SessionTypes'
      BY <1>1, <2>1 DEF HandleMessage, Types, SessionTypes
    <3>6. StreamTypes'
      <4>1. output[e] \in Seq(Nat) /\ Head(messages[e]).number \in Nat
        BY <1>1, <3>3 DEF Types, StreamTypes
      <4>2. Append(output[e], Head(messages[e]).number) \in Seq(Nat)
        BY <4>1, AppendProperties
      <4> QED BY <1>1, <2>1, <4>2 DEF HandleMessage, Types, StreamTypes
    <3> QED BY <3>1, <3>4, <3>5, <3>6 DEF Types
  <2>2. CASE ArriveFin(e)
    <3>1. KernelTypes'
      BY <1>1, <2>2 DEF ArriveFin, Wake, Types, KernelTypes
    <3> QED BY <1>1, <2>2, <3>1, TypesKept DEF ArriveFin, Types
  <2>3. CASE ArriveReset(e)
    <3>1. <<>> \in Seq(Unit)
      BY EmptySeq
    <3>2. KernelTypes'
      BY <1>1, <2>3, <3>1 DEF ArriveReset, Wake, Types, KernelTypes
    <3> QED BY <1>1, <2>3, <3>2, TypesKept DEF ArriveReset, Types
  <2> QED BY <2>1, <2>2, <2>3
<1>4. \A x \in Ends : unsent'[x] = unsent[x] \/ unsent'[x] = <<>>
  BY DEF HandleMessage, ArriveFin, ArriveReset, kernelVars
<1>5. ASSUME NEW x \in Ends PROVE Buffers(x)'
  <2>1. \A y \in Ends : accepted'[y] >= accepted[y]
    BY <1>1, <1>2 DEF Types, StreamTypes
  <2> QED BY <1>1, <1>2, <1>3, <1>4, <2>1, BuffersKept DEF DataInv, Data
<1>6. \A x \in Ends : Counted(x)'
  BY <1>2, CountedKept DEF DataInv, Data
<1> QED BY <1>3, <1>5, <1>6 DEF DataInv, Data

\* The first layer is an invariant by itself.
LEMMA DataNext == DataInv /\ [Next]_vars => DataInv'
<1> SUFFICES ASSUME DataInv, [Next]_vars PROVE DataInv'
  OBVIOUS
<1>1. CASE UNCHANGED vars
  <2>1. /\ UNCHANGED kernelVars /\ UNCHANGED socketVars /\ UNCHANGED moduleVars
        /\ UNCHANGED sessionVars /\ UNCHANGED buffVars /\ UNCHANGED messages
        /\ UNCHANGED streamVars
    BY <1>1 DEF vars
  <2>2. Types /\ Types'
    BY <2>1, TypesKept DEF Types, DataInv
  <2>3. UNCHANGED <<unsent, unread, sendBuff, recvBuff, dataLen, accepted, sent, running, posted>>
    BY <2>1 DEF kernelVars, moduleVars, sessionVars, buffVars, streamVars
  <2>4. ASSUME NEW x \in Ends PROVE Buffers(x)' /\ Counted(x)'
    <3>1. \A y \in Ends : accepted'[y] >= accepted[y]
      BY <2>2, <2>3 DEF Types, StreamTypes
    <3> QED BY <2>2, <2>3, <3>1, BuffersKept, CountedKept DEF DataInv, Data
  <2> QED BY <2>2, <2>4 DEF DataInv, Data
<1>2. CASE Next
  <2>1. ASSUME NEW e \in Ends, DealData(e) PROVE DataInv'
    BY <2>1, DataModule, DataEvent, DataSend, DataRecv, DataPop DEF DealData, SendMessage, ReadLoop
  <2>2. ASSUME NEW e \in Ends, HandleMessage(e) \/ ArriveFin(e) \/ ArriveReset(e) PROVE DataInv'
    BY <2>2, DataNetwork
  <2>3. ASSUME NEW e \in Ends, Arrive(e) PROVE DataInv'
    BY <2>3, DataArrive
  <2>4. ASSUME NEW e \in Ends, Send(e) \/ Close(e) PROVE DataInv'
    BY <2>4, DataMain
  <2>5. CASE Listen \/ Accept \/ AcceptFails \/ Establish \/ Refuse
    BY <2>5, DataAccept
  <2> QED BY <1>2, <2>1, <2>2, <2>3, <2>4, <2>5 DEF Next, Progress, Network
<1> QED BY <1>1, <1>2

\* Where units are, how many, and of which messages.
THEOREM DataInvariant == Spec => []DataInv
BY DataInit, DataNext, PTL DEF Spec

-----------------------------------------------------------------------------
(* What a step of one end leaves alone at the other *)

KernelAt(x) == <<side[x], unsent[x], unread[x], fin[x], reset[x], registered[x], edge[x], nospace[x]>>
SocketAt(x) == <<made[x], connected[x], writable[x], failed[x], handle[x], closes[x], refused[x]>>
ModuleAt(x) == <<pc[x], posted[x], running[x], reported[x]>>
SessionAt(x) == <<session[x], sent[x], closing[x], messages[x]>>
StreamAt(x) == <<sendBuff[x], recvBuff[x], dataLen[x], opened[x], accepted[x], output[x]>>

AllAt(x) == <<KernelAt(x), SocketAt(x), ModuleAt(x), SessionAt(x), StreamAt(x)>>

\* Connections come up, fail to, and stay what they are then.
LinkGoesOn == link' = link \/ (link = "syn" /\ link' = "down")

\* What leaves the groups of variables alone leaves each end alone.
LEMMA AllKept ==
    ASSUME NEW x
    PROVE  /\ UNCHANGED kernelVars => UNCHANGED KernelAt(x) /\ UNCHANGED <<link, listener, backlog>>
           /\ UNCHANGED socketVars => UNCHANGED SocketAt(x)
           /\ UNCHANGED moduleVars => UNCHANGED ModuleAt(x)
           /\ UNCHANGED sessionVars /\ UNCHANGED messages => UNCHANGED SessionAt(x)
           /\ UNCHANGED buffVars /\ UNCHANGED streamVars => UNCHANGED StreamAt(x)
<1>1. UNCHANGED kernelVars => UNCHANGED KernelAt(x) /\ UNCHANGED <<link, listener, backlog>>
  BY DEF kernelVars, KernelAt
<1>2. UNCHANGED socketVars => UNCHANGED SocketAt(x)
  BY DEF socketVars, SocketAt
<1>3. UNCHANGED moduleVars => UNCHANGED ModuleAt(x)
  BY DEF moduleVars, ModuleAt
<1>4. UNCHANGED sessionVars /\ UNCHANGED messages => UNCHANGED SessionAt(x)
  BY DEF sessionVars, SessionAt
<1>5. UNCHANGED buffVars /\ UNCHANGED streamVars => UNCHANGED StreamAt(x)
  BY DEF buffVars, streamVars, StreamAt
<1> QED BY <1>1, <1>2, <1>3, <1>4, <1>5

\* The first error of an end, seen from the other end.
LEMMA FirstErrorElsewhere ==
    ASSUME Types, NEW e \in Ends, NEW x \in Ends, x # e, NEW open, NEW n, FirstError(e, open, n)
    PROVE  /\ UNCHANGED KernelAt(x)
           /\ UNCHANGED <<failed[x], handle[x], closes[x], messages[x]>>
           /\ LinkGoesOn /\ UNCHANGED <<listener, backlog>>
<1>1. UNCHANGED KernelAt(x)
  BY DEF FirstError, CloseSocket, KernelAt, Types, KernelTypes
<1>2. UNCHANGED <<failed[x], handle[x], closes[x]>>
  BY DEF FirstError, Types, SocketTypes
<1>3. UNCHANGED messages[x]
  BY DEF FirstError, PushMessageEvent, Types, MessageTypes
<1>4. LinkGoesOn /\ UNCHANGED <<listener, backlog>>
  BY DEF FirstError, CloseSocket, LinkGoesOn
<1> QED BY <1>1, <1>2, <1>3, <1>4

\* An error operation, seen from the other end.
LEMMA ErrorElsewhere ==
    ASSUME Types, NEW e \in Ends, NEW x \in Ends, x # e, ErrorOperation(e)
    PROVE  /\ UNCHANGED KernelAt(x)
           /\ UNCHANGED <<failed[x], handle[x], closes[x], messages[x]>>
           /\ LinkGoesOn /\ UNCHANGED <<listener, backlog>>
<1>1. CASE failed[e]
  BY <1>1, AllKept DEF ErrorOperation, LinkGoesOn
<1>2. CASE ~failed[e]
  BY <1>2, FirstErrorElsewhere DEF ErrorOperation
<1> QED BY <1>1, <1>2

\* Events that are run.
LEMMA EventElsewhere ==
    ASSUME Types, NEW e \in Ends, NEW x \in Ends, x # e, RunEvent(e)
    PROVE  /\ UNCHANGED AllAt(x)
           /\ LinkGoesOn \/ (Runs(e, "connect") /\ link' = "syn")
           /\ UNCHANGED <<listener, backlog>>
<1>1. UNCHANGED ModuleAt(x)
  <2>1. running'[x] = running[x]
    BY DEF RunEvent, TcpConnect, Accepted, SendOperator, CloseOperator, Runs, Types, ModuleTypes
  <2>2. posted' = posted /\ reported' = reported
    BY DEF RunEvent, TcpConnect, Accepted, SendOperator, CloseOperator
  <2>3. pc'[x] = pc[x]
    BY DEF RunEvent, TcpConnect, Accepted, SendOperator, CloseOperator, Types, ModuleTypes
  <2> QED BY <2>1, <2>2, <2>3 DEF ModuleAt
<1>2. CASE TcpConnect(e)
  <2>1. /\ UNCHANGED <<connected, writable>> /\ made'[x] = made[x]
        /\ UNCHANGED sessionVars /\ UNCHANGED buffVars /\ UNCHANGED streamVars
    BY <1>2 DEF TcpConnect, Types, SocketTypes
  <2>2. CASE Connect(e)
    <3>1. UNCHANGED KernelAt(x) /\ UNCHANGED <<listener, backlog>>
      BY <2>2 DEF Connect, Register, KernelAt, Types, KernelTypes
    <3>2. UNCHANGED SocketAt(x) /\ messages' = messages
      BY <2>1, <2>2 DEF Connect, SocketAt, Types, SocketTypes
    <3>3. Runs(e, "connect") /\ link' = "syn"
      BY <1>2, <2>2 DEF TcpConnect, Connect
    <3> QED BY <1>1, <2>1, <3>1, <3>2, <3>3, AllKept DEF AllAt
  <2>3. CASE \E f \in ConnectFailures : refused' = [refused EXCEPT ![e] = f.refused]
                                            /\ FirstError(e, f.open, f.closed)
    <3>1. PICK f \in ConnectFailures : refused' = [refused EXCEPT ![e] = f.refused]
                                            /\ FirstError(e, f.open, f.closed)
      BY <2>3
    <3>2. /\ UNCHANGED KernelAt(x)
          /\ UNCHANGED <<failed[x], handle[x], closes[x], messages[x]>>
          /\ LinkGoesOn /\ UNCHANGED <<listener, backlog>>
      BY <3>1, FirstErrorElsewhere
    <3>3. UNCHANGED SocketAt(x)
      BY <2>1, <3>1, <3>2 DEF SocketAt, Types, SocketTypes
    <3>4. UNCHANGED SessionAt(x)
      BY <2>1, <3>2 DEF SessionAt, sessionVars
    <3> QED BY <1>1, <2>1, <3>2, <3>3, <3>4, AllKept DEF AllAt
  <2> QED BY <1>2, <2>2, <2>3 DEF TcpConnect
<1>3. CASE Accepted(e)
  <2>1. /\ UNCHANGED <<made, writable, refused>>
        /\ UNCHANGED sessionVars /\ UNCHANGED buffVars /\ UNCHANGED streamVars
    BY <1>3 DEF Accepted
  <2>2. CASE \E f \in AcceptedFailures : FirstError(e, f.open, f.closed) /\ UNCHANGED connected
    <3>1. PICK f \in AcceptedFailures : FirstError(e, f.open, f.closed) /\ UNCHANGED connected
      BY <2>2
    <3>2. /\ UNCHANGED KernelAt(x)
          /\ UNCHANGED <<failed[x], handle[x], closes[x], messages[x]>>
          /\ LinkGoesOn /\ UNCHANGED <<listener, backlog>>
      BY <3>1, FirstErrorElsewhere
    <3>3. UNCHANGED SocketAt(x) /\ UNCHANGED SessionAt(x)
      BY <2>1, <3>1, <3>2 DEF SocketAt, SessionAt, sessionVars
    <3> QED BY <1>1, <2>1, <3>2, <3>3, AllKept DEF AllAt
  <2>3. CASE /\ handle' = [handle EXCEPT ![e] = TRUE]
             /\ Register(e, TRUE)
             /\ connected' = [connected EXCEPT ![e] = TRUE]
             /\ messages' = PushMessageEvent(e, "connected", 0)
             /\ UNCHANGED <<link, listener, backlog, side, unsent, unread, fin, reset, nospace,
                            failed, closes>>
    <3>1. UNCHANGED KernelAt(x)
      BY <2>3 DEF Register, KernelAt, Types, KernelTypes
    <3>2. UNCHANGED SocketAt(x)
      BY <2>1, <2>3 DEF SocketAt, Types, SocketTypes
    <3>3. messages'[x] = messages[x]
      BY <2>3 DEF PushMessageEvent, Types, MessageTypes
    <3>4. UNCHANGED SessionAt(x)
      BY <2>1, <3>3 DEF SessionAt, sessionVars
    <3>5. LinkGoesOn /\ UNCHANGED <<listener, backlog>>
      BY <2>3 DEF LinkGoesOn
    <3> QED BY <1>1, <2>1, <3>1, <3>2, <3>4, <3>5, AllKept DEF AllAt
  <2> QED BY <1>3, <2>2, <2>3 DEF Accepted
<1>4. CASE SendOperator(e)
  <2>1. /\ UNCHANGED kernelVars /\ UNCHANGED socketVars /\ UNCHANGED sessionVars /\ UNCHANGED messages
        /\ UNCHANGED <<recvBuff, dataLen, opened, output>>
    BY <1>4 DEF SendOperator
  <2>2. accepted'[x] = accepted[x] /\ sendBuff'[x] = sendBuff[x]
    BY <1>4 DEF SendOperator, Types, StreamTypes, BuffTypes
  <2>3. UNCHANGED StreamAt(x)
    BY <2>1, <2>2 DEF StreamAt
  <2> QED BY <1>1, <2>1, <2>3, AllKept DEF AllAt, LinkGoesOn
<1>5. CASE CloseOperator(e)
  <2>1. /\ UNCHANGED <<made, connected, writable, refused>>
        /\ UNCHANGED sessionVars /\ UNCHANGED buffVars /\ UNCHANGED streamVars
        /\ ErrorOperation(e)
    BY <1>5 DEF CloseOperator
  <2>2. /\ UNCHANGED KernelAt(x)
        /\ UNCHANGED <<failed[x], handle[x], closes[x], messages[x]>>
        /\ LinkGoesOn /\ UNCHANGED <<listener, backlog>>
    BY <2>1, ErrorElsewhere
  <2>3. UNCHANGED SocketAt(x) /\ UNCHANGED SessionAt(x)
    BY <2>1, <2>2 DEF SocketAt, SessionAt, sessionVars
  <2> QED BY <1>1, <2>1, <2>2, <2>3, AllKept DEF AllAt
<1> QED BY <1>2, <1>3, <1>4, <1>5 DEF RunEvent

\* Reports that are waited for and served.
LEMMA ServeElsewhere ==
    ASSUME Types, NEW e \in Ends, NEW x \in Ends, x # e,
           \/ WaitEvents(e) \/ TakePosted(e) \/ WriteOperation(e) \/ SendAgain(e)
           \/ SendError(e) \/ ReadOperation(e) \/ RecvEnds(e)
    PROVE  UNCHANGED AllAt(x) /\ LinkGoesOn /\ UNCHANGED <<listener, backlog>>
<1>1. UNCHANGED ModuleAt(x)
  <2>1. running'[x] = running[x] /\ posted'[x] = posted[x]
    BY DEF WaitEvents, TakePosted, WriteOperation, SendAgain, SendError, ReadOperation, RecvEnds,
           Types, ModuleTypes
  <2>2. pc'[x] = pc[x]
    BY DEF WaitEvents, TakePosted, WriteOperation, SendAgain, SendError, ReadOperation, RecvEnds,
           Types, ModuleTypes
  <2>3. reported'[x] = reported[x]
    BY DEF WaitEvents, TakePosted, WriteOperation, SendAgain, SendError, ReadOperation, RecvEnds,
           Served, ServedAll, Types, ModuleTypes
  <2> QED BY <2>1, <2>2, <2>3 DEF ModuleAt
<1>2. /\ UNCHANGED sessionVars /\ UNCHANGED buffVars /\ UNCHANGED streamVars
      /\ UNCHANGED <<made, refused>>
  BY DEF WaitEvents, TakePosted, WriteOperation, SendAgain, SendError, ReadOperation, RecvEnds,
         socketVars
<1>3. connected'[x] = connected[x] /\ writable'[x] = writable[x]
  BY DEF WaitEvents, TakePosted, WriteOperation, SendAgain, SendError, ReadOperation, RecvEnds,
         socketVars, Types, SocketTypes
<1>4. /\ UNCHANGED KernelAt(x) /\ LinkGoesOn /\ UNCHANGED <<listener, backlog>>
      /\ UNCHANGED <<failed[x], handle[x], closes[x], messages[x]>>
  <2>1. CASE ErrorOperation(e)
    BY <2>1, ErrorElsewhere
  <2>2. CASE UNCHANGED kernelVars /\ UNCHANGED <<failed, handle, closes>> /\ messages'[x] = messages[x]
    BY <2>2, AllKept DEF LinkGoesOn, kernelVars
  <2>3. CASE WaitEvents(e) \/ SendAgain(e)
    <3>1. /\ UNCHANGED <<link, listener, backlog, side, unsent, unread, fin, reset, registered>>
          /\ UNCHANGED <<failed, handle, closes, messages>>
          /\ edge'[x] = edge[x] /\ nospace'[x] = nospace[x]
      BY <2>3 DEF WaitEvents, SendAgain, socketVars, Types, KernelTypes
    <3> QED BY <3>1 DEF KernelAt, LinkGoesOn
  <2>4. CASE WriteOperation(e) /\ ~ErrorOperation(e)
    <3>1. UNCHANGED kernelVars /\ UNCHANGED <<failed, handle, closes>>
      BY <2>4 DEF WriteOperation
    <3>2. messages'[x] = messages[x]
      BY <2>4 DEF WriteOperation, PushMessageEvent, Types, MessageTypes
    <3> QED BY <2>2, <3>1, <3>2
  <2>5. CASE TakePosted(e) \/ ReadOperation(e) \/ ((SendError(e) \/ RecvEnds(e)) /\ ~ErrorOperation(e))
    <3>1. UNCHANGED kernelVars /\ UNCHANGED <<failed, handle, closes>> /\ messages' = messages
      BY <2>5 DEF TakePosted, ReadOperation, SendError, RecvEnds, socketVars
    <3> QED BY <2>2, <3>1
  <2> QED BY <2>1, <2>3, <2>4, <2>5
<1>5. UNCHANGED SocketAt(x) /\ UNCHANGED SessionAt(x)
  BY <1>2, <1>3, <1>4 DEF SocketAt, SessionAt, sessionVars
<1> QED BY <1>1, <1>2, <1>4, <1>5, AllKept DEF AllAt

\* Units that move, and what sessions do.
LEMMA MoveElsewhere ==
    ASSUME Types, NEW e \in Ends, NEW x \in Ends, x # e,
           SendSome(e) \/ PopPackage(e) \/ Recv(e) \/ Send(e) \/ Close(e) \/ HandleMessage(e)
    PROVE  UNCHANGED AllAt(x) /\ UNCHANGED <<link, listener, backlog>>
<1>1. UNCHANGED KernelAt(x) /\ UNCHANGED <<link, listener, backlog>>
  <2>1. CASE SendSome(e) \/ Recv(e)
    BY <2>1 DEF SendSome, Recv, KernelAt, Types, KernelTypes
  <2>2. CASE UNCHANGED kernelVars
    BY <2>2, AllKept
  <2> QED BY <2>1, <2>2 DEF PopPackage, Send, Close, HandleMessage
<1>2. UNCHANGED SocketAt(x)
  BY AllKept DEF SendSome, PopPackage, Recv, Send, Close, HandleMessage
<1>3. UNCHANGED ModuleAt(x)
  <2>1. CASE UNCHANGED moduleVars
    BY <2>1, AllKept
  <2>2. CASE SendSome(e) \/ Recv(e)
    BY <2>2 DEF SendSome, Recv, ModuleAt, Types, ModuleTypes
  <2>3. CASE Send(e) \/ Close(e)
    BY <2>3 DEF Send, Close, ModuleAt, Types, ModuleTypes
  <2> QED BY <2>1, <2>2, <2>3 DEF PopPackage, HandleMessage
<1>4. UNCHANGED SessionAt(x)
  <2>1. CASE UNCHANGED sessionVars /\ UNCHANGED messages
    BY <2>1, AllKept
  <2>2. CASE PopPackage(e)
    BY <2>2 DEF PopPackage, PushMessageEvent, sessionVars, SessionAt, Types, MessageTypes
  <2>3. CASE Send(e) \/ Close(e)
    BY <2>3 DEF Send, Close, SessionAt, Types, SessionTypes
  <2>4. CASE HandleMessage(e)
    BY <2>4 DEF HandleMessage, SessionAt, Types, SessionTypes, MessageTypes
  <2> QED BY <2>1, <2>2, <2>3, <2>4 DEF SendSome, Recv
<1>5. UNCHANGED StreamAt(x)
  <2>1. CASE UNCHANGED buffVars /\ UNCHANGED streamVars
    BY <2>1, AllKept
  <2>2. CASE SendSome(e) \/ Recv(e) \/ PopPackage(e)
    BY <2>2 DEF SendSome, Recv, PopPackage, streamVars, StreamAt, Types, BuffTypes
  <2>3. CASE HandleMessage(e)
    BY <2>3 DEF HandleMessage, buffVars, StreamAt, Types, StreamTypes
  <2> QED BY <2>1, <2>2, <2>3 DEF Send, Close
<1> QED BY <1>1, <1>2, <1>3, <1>4, <1>5 DEF AllAt

-----------------------------------------------------------------------------
(* The second layer of the invariant *)

\* What keeps the order of the events of an end.
LEMMA QueueKept ==
    ASSUME NEW x, Queue(x),
           made'[x] = made[x], running'[x] = running[x], posted'[x] = posted[x]
    PROVE  Queue(x)' /\ (Fresh(x)' => Fresh(x))
BY DEF Queue, StartsFirst, StartsAt, Fresh

\* The event that is run is the first; the start can only be that one.
LEMMA QueueRun ==
    ASSUME Types, NEW e \in Ends, Queue(e), NEW k, Runs(e, k), made'[e],
           posted'[e] = posted[e]
    PROVE  /\ Queue(e)' /\ ~Fresh(e)' /\ StartsAt(e, k)
           /\ k \in Starts => Fresh(e)
           /\ ~made[e] => k = "connect"
<1>1. /\ running[e] \in Seq(Kinds) /\ running[e] # <<>> /\ Head(running[e]) = k
      /\ running'[e] = Tail(running[e])
  BY DEF Types, ModuleTypes, Runs
<1>2. /\ Len(running[e]) \in Nat /\ Len(running[e]) > 0 /\ k = running[e][1]
      /\ Len(running'[e]) = Len(running[e]) - 1
      /\ \A i \in 1 .. Len(running'[e]) : running'[e][i] = running[e][i + 1]
  BY <1>1, HeadTailProperties, EmptySeq
<1>3. 1 \in 1 .. Len(running[e])
  BY <1>2
<1>4. StartsAt(e, k) /\ (k \in Starts => Fresh(e)) /\ (~made[e] => k = "connect")
  BY <1>2, <1>3 DEF Queue, Fresh, StartsAt
<1>5. ASSUME NEW i \in 1 .. Len(running'[e])
      PROVE  running'[e][i] \notin Starts /\ StartsAt(e, running[e][i])'
  <2>1. i + 1 \in 1 .. Len(running[e]) /\ i + 1 # 1
    BY <1>2
  <2>2. running'[e][i] \notin Starts
    BY <1>2, <2>1 DEF Queue, StartsFirst
  <2> QED BY <2>2 DEF StartsAt, Starts
<1>6. ASSUME NEW i \in 1 .. Len(posted'[e])
      PROVE  posted'[e][i] \notin Starts /\ StartsAt(e, posted[e][i])'
  <2>1. posted'[e][i] \notin Starts
    BY <1>1 DEF Queue, StartsFirst
  <2> QED BY <2>1 DEF StartsAt, Starts
<1> QED BY <1>4, <1>5, <1>6 DEF Queue, StartsFirst, Fresh

\* A session's events wait behind the start.
LEMMA QueuePosted ==
    ASSUME Types, NEW e \in Ends, Queue(e), made[e], made'[e], NEW k \in Kinds \ Starts,
           running'[e] = running[e], posted'[e] = Append(posted[e], k)
    PROVE  Queue(e)' /\ (Fresh(e)' => Fresh(e))
<1>1. posted[e] \in Seq(Kinds)
  BY DEF Types, ModuleTypes
<1>2. /\ Len(posted'[e]) = Len(posted[e]) + 1 /\ Len(posted[e]) \in Nat
      /\ \A i \in 1 .. Len(posted[e]) : posted'[e][i] = posted[e][i]
      /\ posted'[e][Len(posted[e]) + 1] = k
  BY <1>1, AppendProperties, LenProperties
<1>3. ASSUME NEW i \in 1 .. Len(posted'[e])
      PROVE  /\ posted'[e][i] \in Starts =>
                   i \in 1 .. Len(posted[e]) /\ posted'[e][i] = posted[e][i]
             /\ StartsAt(e, posted[e][i])'
             /\ posted'[e][i] \in Starts => i = 1 /\ running[e] = <<>>
  <2>1. CASE i \in 1 .. Len(posted[e])
    <3>1. StartsAt(e, posted[e][i]) /\ posted'[e][i] = posted[e][i]
      BY <1>2, <2>1 DEF Queue
    <3>2. StartsAt(e, posted[e][i])'
      BY <3>1 DEF StartsAt
    <3> QED BY <2>1, <3>1, <3>2 DEF Queue, StartsFirst
  <2>2. CASE i = Len(posted[e]) + 1
    BY <1>2, <2>2 DEF StartsAt, Starts
  <2> QED BY <1>2, <2>1, <2>2
<1>4. \A i \in 1 .. Len(running'[e]) : StartsAt(e, running[e][i])'
  BY DEF Queue, StartsAt
<1>5. Queue(e)'
  BY <1>3, <1>4 DEF Queue, StartsFirst
<1>6. Fresh(e)' => Fresh(e)
  BY <1>3 DEF Fresh
<1> QED BY <1>5, <1>6

\* All posted events are taken.
LEMMA QueueTaken ==
    ASSUME NEW e \in Ends, Queue(e), made'[e] = made[e],
           running[e] = <<>>, running'[e] = posted[e], posted'[e] = <<>>
    PROVE  Queue(e)' /\ (Fresh(e)' => Fresh(e))
<1>1. Len(<<>>) = 0
  BY EmptySeq
<1>2. Queue(e)'
  BY <1>1 DEF Queue, StartsFirst, StartsAt
<1> QED BY <1>1, <1>2 DEF Fresh

\* A blank end that nothing happens to is blank. Without a socket nothing wakes it.
LEMMA BlankKept ==
    ASSUME NEW x, Blank(x),
           registered'[x] = registered[x], edge'[x] => edge[x] \/ registered[x],
           reported'[x].mask = {}, pc'[x] = pc[x], failed'[x] = failed[x],
           handle'[x] = handle[x], closes'[x] = closes[x], connected'[x] = connected[x]
    PROVE  Blank(x)'
BY DEF Blank

\* What keeps the end of an end.
LEMMA EndKept ==
    ASSUME NEW x, EndInv(x), pc'[x] # "deal" => pc[x] # "deal" \/ ~failed[x],
           failed'[x] = failed[x], closes'[x] = closes[x], refused'[x] = refused[x],
           session'[x] = session[x], messages'[x] = messages[x]
    PROVE  EndInv(x)'
BY DEF EndInv

\* What keeps an end and the connection together.
LEMMA LinkKept ==
    ASSUME NEW x \in Ends, LinkInv(x), link = "up" => link' = "up",
           x = "client" /\ ~made[x] => link' = link,
           x = "server" /\ made[x] => backlog' = backlog,
           made'[x] = made[x], connected'[x] = connected[x],
           "out" \in reported'[x].mask => "out" \in reported[x].mask, reset[x] => reset'[x]
    PROVE  LinkInv(x)'
BY DEF LinkInv

\* Whatever one end does, the other is as it was.
LEMMA ControlElsewhere ==
    ASSUME ControlInv, NEW x \in Ends, UNCHANGED AllAt(x), backlog' = backlog,
           link = "up" => link' = "up", x = "client" /\ ~made[x] => link' = link
    PROVE  Control(x)'
<1>1. /\ made'[x] = made[x] /\ running'[x] = running[x] /\ posted'[x] = posted[x]
      /\ registered'[x] = registered[x] /\ edge'[x] = edge[x] /\ reported'[x] = reported[x]
      /\ pc'[x] = pc[x] /\ failed'[x] = failed[x] /\ handle'[x] = handle[x]
      /\ closes'[x] = closes[x] /\ connected'[x] = connected[x] /\ refused'[x] = refused[x]
      /\ session'[x] = session[x] /\ messages'[x] = messages[x] /\ reset'[x] = reset[x]
  BY DEF AllAt, KernelAt, SocketAt, ModuleAt, SessionAt
<1>2. Queue(x) /\ (Fresh(x) => Blank(x)) /\ EndInv(x) /\ LinkInv(x)
  BY DEF ControlInv, Control
<1>3. Queue(x)' /\ (Fresh(x)' => Fresh(x))
  BY <1>1, <1>2, QueueKept
<1>4. Fresh(x)' => Blank(x)'
  <2>1. Blank(x) => reported'[x].mask = {}
    BY <1>1 DEF Blank
  <2> QED BY <1>1, <1>2, <1>3, <2>1, BlankKept
<1>5. EndInv(x)'
  BY <1>1, <1>2, EndKept
<1>6. LinkInv(x)'
  BY <1>1, <1>2, LinkKept
<1> QED BY <1>3, <1>4, <1>5, <1>6 DEF Control

\* The first error is the last that is said of an end.
LEMMA EndFails ==
    ASSUME Types, NEW e \in Ends, EndInv(e), ~failed[e],
           NEW open \in BOOLEAN, NEW n \in 0 .. 1, FirstError(e, open, n),
           pc'[e] = "deal", session'[e] = session[e],
           open /\ n = 1 => refused'[e]
    PROVE  EndInv(e)'
<1>1. messages[e] \in Seq([kind : MessageKinds, number : Nat])
      /\ Message("close", 0) \in [kind : MessageKinds, number : Nat]
  BY DEF Types, MessageTypes, MessageKinds, Message
<1>2. /\ failed'[e] = TRUE /\ closes'[e] = n + (IF open THEN 1 ELSE 0)
      /\ messages'[e] = Append(messages[e], Message("close", 0))
  BY DEF FirstError, PushMessageEvent, Types, SocketTypes, MessageTypes
<1>3. /\ Len(messages'[e]) = Len(messages[e]) + 1 /\ Len(messages[e]) \in Nat
      /\ \A i \in 1 .. Len(messages[e]) : messages'[e][i] = messages[e][i]
  BY <1>1, <1>2, AppendProperties, LenProperties
<1>4. \A i \in 1 .. Len(messages'[e]) : messages'[e][i].kind = "close" => i = Len(messages'[e])
  BY <1>3 DEF EndInv
<1>5. closes'[e] <= 1 \/ (refused'[e] /\ closes'[e] <= 2)
  <2>1. CASE open
    BY <1>2, <2>1
  <2>2. CASE ~open
    BY <1>2, <2>2
  <2> QED BY <2>1, <2>2
<1>6. session'[e] # "deleted"
  BY DEF EndInv
<1> QED BY <1>2, <1>4, <1>5, <1>6 DEF EndInv

\* An error operation ends an end, once.
LEMMA EndErrs ==
    ASSUME Types, NEW e \in Ends, EndInv(e), ErrorOperation(e),
           pc'[e] = "deal", session'[e] = session[e], refused'[e] = refused[e]
    PROVE  EndInv(e)'
<1>1. CASE failed[e]
  <2>1. UNCHANGED <<failed, closes, messages>>
    BY <1>1 DEF ErrorOperation
  <2> QED BY <2>1, EndKept
<1>2. CASE ~failed[e]
  <2>1. FirstError(e, handle[e], closes[e]) /\ handle[e] \in BOOLEAN /\ closes[e] = 0
    BY <1>2 DEF ErrorOperation, EndInv, Types, SocketTypes
  <2> QED BY <1>2, <2>1, EndFails
<1> QED BY <1>1, <1>2

\* A session is told more while its end has not failed.
LEMMA EndTold ==
    ASSUME Types, NEW e \in Ends, EndInv(e), ~failed[e], failed'[e] = failed[e],
           closes'[e] = closes[e], session'[e] = session[e],
           NEW k \in MessageKinds \ {"close"}, NEW n \in Nat,
           messages'[e] = Append(messages[e], Message(k, n))
    PROVE  EndInv(e)'
<1>1. messages[e] \in Seq([kind : MessageKinds, number : Nat])
      /\ Message(k, n) \in [kind : MessageKinds, number : Nat] /\ Message(k, n).kind = k
  BY DEF Types, MessageTypes, Message
<1>2. /\ Len(messages'[e]) = Len(messages[e]) + 1 /\ Len(messages[e]) \in Nat
      /\ \A i \in 1 .. Len(messages[e]) : messages'[e][i] = messages[e][i]
      /\ messages'[e][Len(messages[e]) + 1] = Message(k, n)
  BY <1>1, AppendProperties, LenProperties
<1>3. ASSUME NEW i \in 1 .. Len(messages'[e]) PROVE messages'[e][i].kind # "close"
  <2>1. CASE i \in 1 .. Len(messages[e])
    BY <1>2, <2>1 DEF EndInv
  <2>2. CASE i = Len(messages[e]) + 1
    BY <1>1, <1>2, <2>2
  <2> QED BY <1>2, <2>1, <2>2
<1> QED BY <1>3 DEF EndInv

\* A connection that is up stays up.
LEMMA ControlAll ==
    ASSUME ControlInv, NEW e \in Ends, Control(e)',
           \A x \in Ends : x # e => UNCHANGED AllAt(x),
           backlog' = backlog, LinkGoesOn, e # "client" => link' = link \/ made["client"]
    PROVE  ControlInv'
<1>1. (link = "up" => link' = "up") /\ (link = "none" => link' = link)
  BY DEF LinkGoesOn
<1>2. "client" \in Ends /\ (~made["client"] => link = "none")
  BY DEF ControlInv, Control, LinkInv, Ends
<1>3. ASSUME NEW x \in Ends, x # e PROVE Control(x)'
  BY <1>1, <1>2, <1>3, ControlElsewhere
<1>4. backlog' => link' = "up"
  BY <1>1 DEF ControlInv
<1> QED BY <1>3, <1>4 DEF ControlInv

\* connect() is called, and goes on or is refused.
LEMMA ControlConnect ==
    ASSUME Types, Types', ControlInv, NEW e \in Ends, TcpConnect(e)
    PROVE  ControlInv'
<1>1. /\ Runs(e, "connect") /\ made'[e] /\ posted'[e] = posted[e] /\ pc' = pc
      /\ reported' = reported /\ connected' = connected /\ session' = session
  BY DEF TcpConnect, Types, SocketTypes, sessionVars
<1>2. Queue(e) /\ EndInv(e) /\ LinkInv(e) /\ (Fresh(e) => Blank(e))
  BY DEF ControlInv, Control
<1>3. Queue(e)' /\ ~Fresh(e)' /\ StartsAt(e, "connect") /\ Fresh(e)
  BY <1>1, <1>2, QueueRun DEF Starts
<1>4. /\ Blank(e) /\ e = "client" /\ ~made[e] /\ link = "none"
  BY <1>2, <1>3 DEF StartsAt, LinkInv
<1>5. EndInv(e)' /\ backlog' = backlog /\ reset'[e] = reset[e]
  <2>1. CASE Connect(e)
    <3>1. failed' = failed /\ closes' = closes /\ refused' = refused /\ messages' = messages
          /\ backlog' = backlog /\ reset' = reset
      BY <2>1 DEF Connect
    <3> QED BY <1>1, <1>2, <1>4, <3>1, EndKept DEF Blank
  <2>2. CASE \E f \in ConnectFailures : refused' = [refused EXCEPT ![e] = f.refused]
                                            /\ FirstError(e, f.open, f.closed)
    <3>1. PICK f \in ConnectFailures : refused' = [refused EXCEPT ![e] = f.refused]
                                            /\ FirstError(e, f.open, f.closed)
      BY <2>2
    <3>2. /\ f.open \in BOOLEAN /\ f.closed \in 0 .. 1 /\ (f.open /\ f.closed = 1 => f.refused)
          /\ refused'[e] = f.refused
      BY <3>1, Failures DEF Types, SocketTypes
    <3>3. EndInv(e)'
      BY <1>1, <1>2, <1>4, <3>1, <3>2, EndFails DEF Blank
    <3> QED BY <3>1, <3>3 DEF FirstError, CloseSocket
  <2> QED BY <2>1, <2>2 DEF TcpConnect
<1>6. LinkInv(e)'
  BY <1>1, <1>4 DEF LinkInv, Blank
<1>7. Control(e)'
  BY <1>3, <1>5, <1>6 DEF Control
<1>8. ASSUME NEW x \in Ends, x # e PROVE UNCHANGED AllAt(x)
  BY <1>8, EventElsewhere DEF RunEvent
<1>9. ASSUME NEW x \in Ends, x # e PROVE Control(x)'
  BY <1>4, <1>5, <1>8, <1>9, ControlElsewhere
<1>10. ~backlog
  BY <1>4 DEF ControlInv
<1> QED BY <1>5, <1>7, <1>9, <1>10 DEF ControlInv

\* An accepted connector is registered.
LEMMA ControlAccepted ==
    ASSUME Types, Types', ControlInv, NEW e \in Ends, Accepted(e)
    PROVE  ControlInv'
<1>1. /\ Runs(e, "accepted") /\ made' = made /\ posted' = posted /\ pc' = pc
      /\ reported' = reported /\ session' = session /\ refused' = refused
  BY DEF Accepted, sessionVars
<1>2. Queue(e) /\ EndInv(e) /\ LinkInv(e) /\ (Fresh(e) => Blank(e))
  BY DEF ControlInv, Control
<1>3. made[e]
  <2>1. /\ running[e] # <<>> /\ Head(running[e]) = "accepted" /\ running[e] \in Seq(Kinds)
    BY <1>1 DEF Runs, Types, ModuleTypes
  <2>2. 1 \in 1 .. Len(running[e]) /\ running[e][1] = "accepted"
    BY <2>1, EmptySeq
  <2> QED BY <1>2, <2>2 DEF Queue, StartsAt
<1>4. Queue(e)' /\ ~Fresh(e)' /\ StartsAt(e, "accepted") /\ Fresh(e)
  BY <1>1, <1>2, <1>3, QueueRun DEF Starts
<1>5. Blank(e) /\ e = "server" /\ link = "up" /\ ~backlog
  BY <1>2, <1>3, <1>4 DEF StartsAt, LinkInv
<1>6. EndInv(e)' /\ backlog' = backlog /\ link' = link /\ reset'[e] = reset[e]
  <2>1. CASE \E f \in AcceptedFailures : FirstError(e, f.open, f.closed) /\ UNCHANGED connected
    <3>1. PICK f \in AcceptedFailures : FirstError(e, f.open, f.closed) /\ UNCHANGED connected
      BY <2>1
    <3>2. f.open \in BOOLEAN /\ f.closed \in 0 .. 1 /\ ~(f.open /\ f.closed = 1)
      BY <3>1, Failures
    <3>3. EndInv(e)'
      BY <1>1, <1>2, <1>5, <3>1, <3>2, EndFails DEF Blank
    <3> QED BY <1>5, <3>1, <3>3 DEF FirstError, CloseSocket
  <2>2. CASE /\ messages' = PushMessageEvent(e, "connected", 0)
             /\ UNCHANGED <<link, listener, backlog, side, unsent, unread, fin, reset, nospace,
                            failed, closes>>
    <3>1. messages'[e] = Append(messages[e], Message("connected", 0))
      BY <2>2 DEF PushMessageEvent, Types, MessageTypes
    <3>2. "connected" \in MessageKinds \ {"close"} /\ 0 \in Nat
      BY DEF MessageKinds
    <3>3. EndInv(e)'
      BY <1>1, <1>2, <1>5, <2>2, <3>1, <3>2, EndTold DEF Blank
    <3> QED BY <2>2, <3>3
  <2> QED BY <2>1, <2>2 DEF Accepted
<1>7. LinkInv(e)'
  BY <1>1, <1>5, <1>6 DEF LinkInv, Blank
<1>8. Control(e)'
  BY <1>4, <1>6, <1>7 DEF Control
<1>9. ASSUME NEW x \in Ends, x # e PROVE UNCHANGED AllAt(x)
  BY <1>9, EventElsewhere DEF RunEvent
<1> QED BY <1>6, <1>8, <1>9, ControlAll DEF LinkGoesOn

\* Events behind the start.
LEMMA ControlLater ==
    ASSUME Types, Types', ControlInv, NEW e \in Ends, SendOperator(e) \/ CloseOperator(e)
    PROVE  ControlInv'
<1>1. PICK k \in {"send", "close"} : Runs(e, k)
  BY DEF SendOperator, CloseOperator
<1>2. /\ UNCHANGED <<made, connected, refused, reported, session>> /\ posted' = posted
  BY DEF SendOperator, CloseOperator, socketVars, sessionVars
<1>3. Queue(e) /\ EndInv(e) /\ LinkInv(e)
  BY DEF ControlInv, Control
<1>4. made[e]
  <2>1. /\ running[e] # <<>> /\ Head(running[e]) = k /\ running[e] \in Seq(Kinds)
    BY <1>1 DEF Runs, Types, ModuleTypes
  <2>2. 1 \in 1 .. Len(running[e]) /\ running[e][1] = k
    BY <2>1, EmptySeq
  <2> QED BY <1>3, <2>2 DEF Queue, StartsAt
<1>5. Queue(e)' /\ ~Fresh(e)'
  BY <1>1, <1>2, <1>3, <1>4, QueueRun
<1>6. EndInv(e)'
  <2>1. CASE CloseOperator(e)
    <3>1. ErrorOperation(e) /\ pc'[e] = "deal" /\ session'[e] = session[e] /\ refused'[e] = refused[e]
      BY <1>2, <2>1 DEF CloseOperator, Runs
    <3> QED BY <1>3, <3>1, EndErrs
  <2>2. CASE SendOperator(e)
    <3>1. /\ failed' = failed /\ closes' = closes /\ messages' = messages
          /\ pc'[e] # "deal" => pc[e] # "deal" \/ ~failed[e]
      BY <2>2 DEF SendOperator, socketVars
    <3> QED BY <1>2, <1>3, <3>1, EndKept
  <2> QED BY <2>1, <2>2
<1>7. backlog' = backlog /\ reset'[e] = reset[e] /\ LinkGoesOn /\ (e # "client" => link' = link)
  BY DEF SendOperator, CloseOperator, kernelVars, ErrorOperation, FirstError, CloseSocket, LinkGoesOn
<1>8. LinkInv(e)'
  <2>1. e = "client" /\ ~made[e] => link' = link
    BY <1>4
  <2> QED BY <1>2, <1>3, <1>7, <2>1, LinkKept DEF LinkGoesOn
<1>9. Control(e)'
  BY <1>5, <1>6, <1>8 DEF Control
<1>10. ASSUME NEW x \in Ends, x # e PROVE UNCHANGED AllAt(x)
  BY <1>10, EventElsewhere DEF RunEvent
<1> QED BY <1>7, <1>9, <1>10, ControlAll

\* What is reported, and served, is about sockets.
LEMMA ControlServe ==
    ASSUME Types, Types', ControlInv, NEW e \in Ends,
           \/ WaitEvents(e) \/ TakePosted(e) \/ WriteOperation(e) \/ SendAgain(e)
           \/ SendError(e) \/ ReadOperation(e) \/ RecvEnds(e)
    PROVE  ControlInv'
<1>1. /\ UNCHANGED <<made, refused, session>>
  BY DEF WaitEvents, TakePosted, WriteOperation, SendAgain, SendError, ReadOperation, RecvEnds,
         socketVars, sessionVars
<1>2. Queue(e) /\ EndInv(e) /\ LinkInv(e) /\ (Fresh(e) => Blank(e))
  BY DEF ControlInv, Control
<1>3. Queue(e)' /\ (Fresh(e)' => Fresh(e))
  <2>1. CASE TakePosted(e)
    <3>1. /\ running[e] = <<>> /\ running'[e] = posted[e] /\ posted'[e] = <<>>
      BY <2>1 DEF TakePosted, Deals, Types, ModuleTypes
    <3> QED BY <1>1, <1>2, <3>1, QueueTaken
  <2>2. CASE ~TakePosted(e)
    <3>1. running' = running /\ posted' = posted
      BY <2>2 DEF WaitEvents, WriteOperation, SendAgain, SendError, ReadOperation, RecvEnds
    <3> QED BY <1>1, <1>2, <3>1, QueueKept
  <2> QED BY <2>1, <2>2
<1>4. Fresh(e)' => Blank(e)'
  <2>1. CASE WaitEvents(e)
    <3>1. /\ UNCHANGED <<registered, pc, failed, handle, closes, connected>> /\ ~edge'[e]
          /\ ~edge[e] => reported'[e].mask = {}
      BY <2>1 DEF WaitEvents, socketVars, Types, KernelTypes, ModuleTypes
    <3>2. Blank(e) => reported'[e].mask = {}
      BY <3>1 DEF Blank
    <3> QED BY <1>2, <1>3, <3>1, <3>2, BlankKept
  <2>2. CASE TakePosted(e)
    <3>1. /\ UNCHANGED <<registered, edge, pc, failed, handle, closes, connected>>
          /\ reported'[e].mask = reported[e].mask
      BY <2>2 DEF TakePosted, kernelVars, socketVars, Types, ModuleTypes
    <3>2. Blank(e) => reported'[e].mask = {}
      BY <3>1 DEF Blank
    <3> QED BY <1>2, <1>3, <3>1, <3>2, BlankKept
  <2>3. CASE ~WaitEvents(e) /\ ~TakePosted(e)
    <3>1. reported[e].mask # {} \/ pc[e] # "deal"
      BY <2>3 DEF WriteOperation, SendAgain, SendError, ReadOperation, RecvEnds, Sending, ReadTurn,
         Reading
    <3> QED BY <1>2, <1>3, <3>1 DEF Blank
  <2> QED BY <2>1, <2>2, <2>3
<1>5. EndInv(e)'
  <2>1. CASE ErrorOperation(e) /\ pc'[e] = "deal"
    BY <1>1, <1>2, <2>1, EndErrs
  <2>2. CASE WriteOperation(e) /\ ~(failed[e] \/ (~connected[e] /\ ConnectError(e)))
    <3>1. ~failed[e] /\ UNCHANGED <<failed, closes>>
      BY <2>2 DEF WriteOperation
    <3>2. CASE messages' = messages
      BY <1>1, <1>2, <3>1, <3>2, EndKept
    <3>3. CASE messages' = PushMessageEvent(e, "connected", 0)
      <4>1. messages'[e] = Append(messages[e], Message("connected", 0))
        BY <3>3 DEF PushMessageEvent, Types, MessageTypes
      <4>2. "connected" \in MessageKinds \ {"close"} /\ 0 \in Nat
        BY DEF MessageKinds
      <4>3. failed'[e] = failed[e] /\ closes'[e] = closes[e] /\ session'[e] = session[e]
        BY <1>1, <3>1
      <4> QED BY <1>2, <3>1, <4>1, <4>2, <4>3, EndTold
    <3> QED BY <2>2, <3>2, <3>3 DEF WriteOperation
  <2>3. CASE /\ UNCHANGED <<failed, closes, messages>>
             /\ pc'[e] # "deal" => pc[e] # "deal" \/ ~failed[e]
    BY <1>1, <1>2, <2>3, EndKept
  <2>4. \/ ErrorOperation(e) /\ pc'[e] = "deal"
        \/ WriteOperation(e) /\ ~(failed[e] \/ (~connected[e] /\ ConnectError(e)))
        \/ /\ UNCHANGED <<failed, closes, messages>>
           /\ pc'[e] # "deal" => pc[e] # "deal" \/ ~failed[e]
    <3>1. CASE WaitEvents(e) \/ TakePosted(e)
      BY <3>1 DEF WaitEvents, TakePosted, socketVars
    <3>2. CASE WriteOperation(e)
      BY <3>2 DEF WriteOperation, Deals
    <3>3. CASE SendAgain(e)
      BY <3>3 DEF SendAgain, Types, ModuleTypes
    <3>4. CASE SendError(e)
      BY <3>4 DEF SendError, Types, ModuleTypes
    <3>5. CASE ReadOperation(e)
      BY <3>5 DEF ReadOperation, FailedBefore, Types, ModuleTypes, socketVars
    <3>6. CASE RecvEnds(e)
      BY <3>6 DEF RecvEnds, Types, ModuleTypes
    <3> QED BY <3>1, <3>2, <3>3, <3>4, <3>5, <3>6
  <2> QED BY <2>1, <2>2, <2>3, <2>4
<1>6. backlog' = backlog /\ reset'[e] = reset[e] /\ LinkGoesOn /\ (e # "client" => link' = link)
  BY DEF WaitEvents, TakePosted, WriteOperation, SendAgain, SendError, ReadOperation, RecvEnds,
         kernelVars, ErrorOperation, FirstError, CloseSocket, LinkGoesOn
<1>7. LinkInv(e)'
  <2>1. connected'[e] => link = "up"
    <3>1. CASE WriteOperation(e)
      <4>1. "out" \in reported[e].mask /\ (connected'[e] => connected[e] \/ ~reset[e])
        BY <3>1 DEF WriteOperation, ConnectError
      <4> QED BY <1>2, <4>1 DEF LinkInv
    <3>2. CASE connected' = connected
      BY <1>2, <3>2 DEF LinkInv
    <3> QED BY <3>1, <3>2 DEF WaitEvents, TakePosted, SendAgain, SendError, ReadOperation, RecvEnds,
                socketVars
  <2>2. "out" \in reported'[e].mask => reset[e] \/ link = "up"
    <3>1. CASE WaitEvents(e)
      <4>1. "out" \in reported'[e].mask => "out" \in Mask(e)
        BY <3>1 DEF WaitEvents, Types, ModuleTypes
      <4> QED BY <4>1 DEF Mask
    <3>2. CASE ~WaitEvents(e)
      <4>1. "out" \in reported'[e].mask => "out" \in reported[e].mask
        <5>1. CASE TakePosted(e)
          BY <5>1 DEF TakePosted, Types, ModuleTypes
        <5>2. CASE reported' = reported \/ ServedAll(e) \/ Served(e, "in") \/ Served(e, "out")
          BY <5>2 DEF Served, ServedAll, Types, ModuleTypes
        <5> QED BY <3>2, <5>1, <5>2 DEF WriteOperation, SendAgain, SendError, ReadOperation, RecvEnds
      <4> QED BY <1>2, <4>1 DEF LinkInv
    <3> QED BY <3>1, <3>2
  <2>3. (e = "client" /\ ~made[e] => link = "none") /\ (link = "none" => link' = link)
    BY <1>2, <1>6 DEF LinkInv, LinkGoesOn
  <2> QED BY <1>1, <1>2, <1>6, <2>1, <2>2, <2>3 DEF LinkInv, LinkGoesOn
<1>8. Control(e)'
  BY <1>3, <1>4, <1>5, <1>7 DEF Control
<1>9. ASSUME NEW x \in Ends, x # e PROVE UNCHANGED AllAt(x)
  BY <1>9, ServeElsewhere
<1> QED BY <1>6, <1>8, <1>9, ControlAll

\* Units that move say nothing about control, but for the messages.
LEMMA ControlMove ==
    ASSUME Types, Types', DataInv, ControlInv, NEW e \in Ends,
           \/ SendSome(e) \/ PopPackage(e) \/ Recv(e) \/ Send(e) \/ Close(e) \/ HandleMessage(e)
    PROVE  ControlInv'
<1>1. Queue(e) /\ EndInv(e) /\ LinkInv(e) /\ (Fresh(e) => Blank(e))
  BY DEF ControlInv, Control
<1>2. /\ UNCHANGED <<link, listener, backlog, reset, registered, edge>> /\ UNCHANGED socketVars
      /\ reported' = reported
  BY DEF SendSome, PopPackage, Recv, Send, Close, HandleMessage, kernelVars, moduleVars
<1>3. Queue(e)' /\ (Fresh(e)' => Fresh(e))
  <2>1. CASE Send(e) \/ Close(e)
    <3>1. PICK k \in {"send", "close"} : posted' = [posted EXCEPT ![e] = Append(@, k)]
      BY <2>1 DEF Send, Close
    <3>2. k \in Kinds \ Starts /\ made[e] /\ made'[e] /\ running' = running
      BY <1>2, <2>1 DEF Kinds, Starts, Send, Close, socketVars
    <3>3. posted'[e] = Append(posted[e], k)
      BY <3>1 DEF Types, ModuleTypes
    <3> QED BY <1>1, <3>2, <3>3, QueuePosted
  <2>2. CASE running' = running /\ posted' = posted
    BY <1>1, <1>2, <2>2, QueueKept DEF socketVars
  <2> QED BY <2>1, <2>2 DEF SendSome, PopPackage, Recv, HandleMessage, moduleVars
<1>4. Fresh(e)' => Blank(e)'
  <2>1. CASE pc'[e] = pc[e]
    BY <1>1, <1>2, <1>3, <2>1, BlankKept DEF Blank, socketVars
  <2>2. CASE pc[e] # "deal"
    BY <1>1, <1>3, <2>2 DEF Blank
  <2> QED BY <2>1, <2>2 DEF SendSome, PopPackage, Recv, Send, Close, HandleMessage, moduleVars,
          Sending, Reading
<1>5. EndInv(e)'
  <2>1. CASE SendSome(e) \/ Recv(e) \/ Send(e) \/ Close(e)
    <3>1. session' = session /\ messages' = messages
      BY <2>1 DEF SendSome, Recv, Send, Close, sessionVars
    <3>2. pc'[e] # "deal" => pc[e] # "deal"
      BY <2>1 DEF SendSome, Recv, Send, Close, Sending, Reading
    <3> QED BY <1>1, <1>2, <3>1, <3>2, EndKept DEF socketVars
  <2>2. CASE PopPackage(e)
    <3>1. messages'[e] = Append(messages[e], Message("recv", Package(e)))
      BY <2>2 DEF PopPackage, PushMessageEvent, Types, MessageTypes
    <3>2. /\ ~failed[e] /\ failed'[e] = failed[e] /\ closes'[e] = closes[e]
          /\ session'[e] = session[e] /\ "recv" \in MessageKinds \ {"close"} /\ Package(e) \in Nat
      BY <1>1, <1>2, <2>2, PackageFacts DEF EndInv, PopPackage, socketVars, sessionVars, MessageKinds
    <3> QED BY <1>1, <3>1, <3>2, EndTold
  <2>3. CASE HandleMessage(e)
    <3>1. messages[e] \in Seq([kind : MessageKinds, number : Nat]) /\ messages[e] # <<>>
      BY <2>3 DEF HandleMessage, Types, MessageTypes
    <3>2. messages'[e] = Tail(messages[e])
      BY <2>3 DEF HandleMessage, Types, MessageTypes
    <3>3. /\ Len(messages[e]) \in Nat /\ Len(messages[e]) > 0 /\ Head(messages[e]) = messages[e][1]
          /\ Len(messages'[e]) = Len(messages[e]) - 1
          /\ \A i \in 1 .. Len(messages'[e]) : messages'[e][i] = messages[e][i + 1]
      BY <3>1, <3>2, HeadTailProperties, EmptySeq
    <3>4. ASSUME NEW i \in 1 .. Len(messages'[e]), messages'[e][i].kind = "close"
          PROVE  failed[e] /\ i = Len(messages'[e])
      <4>1. i + 1 \in 1 .. Len(messages[e]) /\ messages[e][i + 1].kind = "close"
        BY <3>3, <3>4
      <4>2. i + 1 = Len(messages[e]) /\ failed[e]
        BY <1>1, <4>1 DEF EndInv
      <4> QED BY <3>3, <3>4, <4>2
    <3>5. session'[e] = session[e] \/ (messages[e][1].kind = "close" /\ session'[e] = "deleted")
      BY <2>3, <3>3 DEF HandleMessage, Types, SessionTypes
    <3>6. session[e] # "deleted"
      BY <1>1, <3>1 DEF EndInv
    <3>7. messages[e][1].kind = "close" => failed[e] /\ messages'[e] = <<>>
      <4>1. 1 \in 1 .. Len(messages[e])
        BY <3>3
      <4>2. messages[e][1].kind = "close" => 1 = Len(messages[e]) /\ failed[e]
        BY <1>1, <4>1 DEF EndInv
      <4>3. messages'[e] \in Seq([kind : MessageKinds, number : Nat])
        BY <3>1, <3>2, HeadTailProperties
      <4> QED BY <3>3, <4>2, <4>3, EmptySeq
    <3>8. pc'[e] = pc[e] /\ UNCHANGED <<failed, closes, refused>>
      BY <1>2, <2>3 DEF HandleMessage, moduleVars, socketVars
    <3> QED BY <1>1, <3>4, <3>5, <3>6, <3>7, <3>8 DEF EndInv
  <2> QED BY <2>1, <2>2, <2>3
<1>6. LinkInv(e)'
  BY <1>1, <1>2, LinkKept DEF socketVars
<1>7. Control(e)'
  BY <1>3, <1>4, <1>5, <1>6 DEF Control
<1>8. ASSUME NEW x \in Ends, x # e PROVE UNCHANGED AllAt(x)
  BY <1>8, MoveElsewhere
<1> QED BY <1>2, <1>7, <1>8, ControlAll DEF LinkGoesOn

\* The network and the listener leave the ends' events and messages alone.
LEMMA ControlKept ==
    ASSUME Types, Types', ControlInv,
           UNCHANGED socketVars, UNCHANGED moduleVars, UNCHANGED sessionVars, UNCHANGED messages,
           UNCHANGED registered, \A x \in Ends : edge'[x] => edge[x] \/ registered[x],
           \A x \in Ends : reset[x] => reset'[x],
           link = "up" => link' = "up", link # "none" \/ link' = link,
           backlog' => link' = "up" /\ (made["server"] => backlog)
    PROVE  ControlInv'
<1>1. ASSUME NEW x \in Ends PROVE Control(x)'
  <2>1. /\ made' = made /\ running' = running /\ posted' = posted /\ reported' = reported
        /\ pc' = pc /\ failed' = failed /\ handle' = handle /\ closes' = closes
        /\ connected' = connected /\ refused' = refused /\ session' = session /\ messages' = messages
        /\ registered' = registered
    BY DEF socketVars, moduleVars, sessionVars
  <2>2. Queue(x) /\ EndInv(x) /\ LinkInv(x) /\ (Fresh(x) => Blank(x))
    BY DEF ControlInv, Control
  <2>3. Queue(x)' /\ (Fresh(x)' => Fresh(x))
    BY <2>1, <2>2, QueueKept
  <2>4. Fresh(x)' => Blank(x)'
    <3>1. Blank(x) => reported'[x].mask = {}
      BY <2>1 DEF Blank
    <3> QED BY <2>1, <2>2, <2>3, <3>1, BlankKept
  <2>5. EndInv(x)'
    BY <2>1, <2>2, EndKept
  <2>6. LinkInv(x)'
    <3>1. x = "client" /\ ~made[x] => link' = "none"
      BY <2>2 DEF LinkInv
    <3>2. x = "server" /\ made[x] => link' = "up" /\ ~backlog'
      BY <2>2 DEF LinkInv, Types, KernelTypes
    <3> QED BY <2>1, <2>2, <3>1, <3>2 DEF LinkInv
  <2> QED BY <2>3, <2>4, <2>5, <2>6 DEF Control
<1> QED BY <1>1 DEF ControlInv

\* What the network and the listener do.
LEMMA ControlNetwork ==
    ASSUME Types, Types', ControlInv,
           \/ Listen \/ AcceptFails \/ Establish \/ Refuse
           \/ \E e \in Ends : Arrive(e) \/ ArriveFin(e) \/ ArriveReset(e)
    PROVE  ControlInv'
<1>1. /\ UNCHANGED socketVars /\ UNCHANGED moduleVars /\ UNCHANGED sessionVars
      /\ UNCHANGED messages /\ UNCHANGED registered
  BY DEF Listen, AcceptFails, Establish, Refuse, Arrive, ArriveFin, ArriveReset
<1>2. \A x \in Ends : edge'[x] => edge[x] \/ registered[x]
  BY DEF Listen, AcceptFails, Establish, Refuse, Arrive, ArriveFin, ArriveReset, Wake
<1>3. \A x \in Ends : reset[x] => reset'[x]
  BY DEF Listen, AcceptFails, Establish, Refuse, Arrive, ArriveFin, ArriveReset, Types, KernelTypes
<1>4. (link = "up" => link' = "up") /\ (link # "none" \/ link' = link)
  BY DEF Listen, AcceptFails, Establish, Refuse, Arrive, ArriveFin, ArriveReset
<1>5. backlog' => link' = "up" /\ (made["server"] => backlog)
  <2>1. CASE Establish
    BY <2>1 DEF Establish, ControlInv, Control, LinkInv, Ends
  <2>2. CASE AcceptFails
    BY <2>2 DEF AcceptFails, ListenerError
  <2>3. CASE backlog' = backlog
    BY <1>4, <2>3 DEF ControlInv
  <2> QED BY <2>1, <2>2, <2>3 DEF Listen, Refuse, Arrive, ArriveFin, ArriveReset
<1> QED BY <1>1, <1>2, <1>3, <1>4, <1>5, ControlKept

\* The server's connector is made for a connection that is up.
LEMMA ControlAccept ==
    ASSUME Types, Types', ControlInv, Accept
    PROVE  ControlInv'
<1> DEFINE s == "server"
           c == "client"
<1>1. s \in Ends /\ c \in Ends /\ s # c /\ \A x \in Ends : x = s \/ x = c
  BY DEF Ends
<1>2. link = "up" /\ backlog /\ ~made[s] /\ Blank(s) /\ Control(s) /\ Control(c)
  <2>1. backlog /\ link = "up" /\ Control(s) /\ Control(c)
    BY <1>1 DEF Accept, ControlInv
  <2>2. ~made[s]
    BY <1>1, <2>1 DEF Control, LinkInv
  <2> QED BY <2>1, <2>2 DEF Control, Fresh
<1>3. /\ made'[s] /\ made'[c] = made[c] /\ session'[s] = "alive" /\ session'[c] = session[c]
      /\ posted'[s] = Append(posted[s], "accepted") /\ posted'[c] = posted[c] /\ ~backlog'
      /\ UNCHANGED <<link, reset, registered, edge, connected, failed, handle, closes, refused, pc,
                     running, reported, messages>>
  BY <1>1 DEF Accept, Types, SocketTypes, SessionTypes, ModuleTypes
<1>4. running[s] = <<>> /\ posted[s] = <<>>
  <2>1. running[s] \in Seq(Kinds) /\ posted[s] \in Seq(Kinds)
    BY <1>1 DEF Types, ModuleTypes
  <2>2. \A k : ~StartsAt(s, k)
    BY <1>2 DEF StartsAt
  <2>3. ~(1 \in 1 .. Len(running[s])) /\ ~(1 \in 1 .. Len(posted[s]))
    BY <1>2, <2>2 DEF Control, Queue
  <2> QED BY <2>1, <2>3, EmptySeq
<1>5. Control(s)'
  <2>1. posted'[s] = <<"accepted">>
    BY <1>3, <1>4
  <2>2. Len(posted'[s]) = 1 /\ posted'[s][1] = "accepted" /\ Len(running'[s]) = 0
    BY <1>3, <1>4, <2>1
  <2>3. Queue(s)'
    <3>1. StartsFirst(s)'
      BY <1>3, <1>4, <2>2 DEF StartsFirst
    <3>2. \A i \in 1 .. Len(posted'[s]) : StartsAt(s, posted[s][i])'
      BY <1>3, <2>2 DEF StartsAt
    <3> QED BY <2>2, <3>1, <3>2 DEF Queue
  <2>4. Blank(s)'
    BY <1>2, <1>3 DEF Blank
  <2>5. EndInv(s)'
    BY <1>2, <1>3 DEF Control, EndInv, Blank
  <2>6. LinkInv(s)'
    BY <1>2, <1>3 DEF LinkInv, Blank
  <2> QED BY <2>3, <2>4, <2>5, <2>6 DEF Control
<1>6. Control(c)'
  <2>1. Queue(c) /\ EndInv(c) /\ LinkInv(c) /\ (Fresh(c) => Blank(c))
    BY <1>2 DEF Control
  <2>2. Queue(c)' /\ (Fresh(c)' => Fresh(c))
    BY <1>3, <2>1, QueueKept
  <2>3. Blank(c) => reported'[c].mask = {}
    BY <1>3 DEF Blank
  <2>4. Fresh(c)' => Blank(c)'
    BY <1>3, <2>1, <2>2, <2>3, BlankKept
  <2>5. EndInv(c)'
    BY <1>3, <2>1, EndKept
  <2>6. LinkInv(c)'
    BY <1>1, <1>3, <2>1, LinkKept
  <2> QED BY <2>2, <2>4, <2>5, <2>6 DEF Control
<1> QED BY <1>1, <1>3, <1>5, <1>6 DEF ControlInv

\* No end has started at the start.
LEMMA ControlInit == Init => ControlInv
<1> SUFFICES ASSUME Init PROVE ControlInv
  OBVIOUS
<1>1. ASSUME NEW e \in Ends PROVE Control(e)
  <2>1. /\ running[e] = <<>> /\ messages[e] = <<>> /\ ~made[e] /\ Len(<<>>) = 0
        /\ pc[e] = "deal" /\ ~failed[e] /\ closes[e] = 0 /\ session[e] # "deleted"
    BY EmptySeq DEF Init
  <2>2. /\ ~registered[e] /\ ~edge[e] /\ reported[e].mask = {} /\ ~handle[e] /\ ~connected[e]
        /\ link = "none" /\ ~backlog
    BY DEF Init, Idle
  <2>3. Queue(e)
    <3>1. CASE e = "client"
      <4>1. Len(posted[e]) = 1 /\ posted[e][1] = "connect"
        BY <3>1 DEF Init
      <4> QED BY <2>1, <3>1, <4>1 DEF Queue, StartsFirst, StartsAt
    <3>2. CASE e # "client"
      <4>1. posted[e] = <<>>
        BY <3>2 DEF Init
      <4> QED BY <2>1, <4>1 DEF Queue, StartsFirst
    <3> QED BY <3>1, <3>2
  <2> QED BY <2>1, <2>2, <2>3 DEF Control, Blank, EndInv, LinkInv
<1> QED BY <1>1 DEF ControlInv, Init

\* Every step keeps the control layer.
LEMMA ControlNext == DataInv /\ ControlInv /\ [Next]_vars => ControlInv'
<1> SUFFICES ASSUME DataInv, ControlInv, [Next]_vars PROVE ControlInv'
  OBVIOUS
<1>1. Types /\ Types'
  BY DataNext DEF DataInv
<1>2. CASE UNCHANGED vars
  <2>1. /\ UNCHANGED socketVars /\ UNCHANGED moduleVars /\ UNCHANGED sessionVars
        /\ UNCHANGED messages
    BY <1>2 DEF vars
  <2>2. UNCHANGED <<link, backlog, registered, edge, reset>>
    BY <1>2 DEF vars, kernelVars
  <2> QED BY <1>1, <2>1, <2>2, ControlKept DEF ControlInv
<1>3. CASE Next
  <2>1. ASSUME NEW e \in Ends, DealData(e) PROVE ControlInv'
    <3>1. CASE RunEvent(e)
      BY <1>1, <3>1, ControlConnect, ControlAccepted, ControlLater DEF RunEvent
    <3>2. CASE SendSome(e) \/ PopPackage(e) \/ Recv(e)
      BY <1>1, <3>2, ControlMove
    <3>3. CASE ~RunEvent(e) /\ ~(SendSome(e) \/ PopPackage(e) \/ Recv(e))
      BY <1>1, <2>1, <3>3, ControlServe DEF DealData, SendMessage, ReadLoop
    <3> QED BY <3>1, <3>2, <3>3
  <2>2. ASSUME NEW e \in Ends, HandleMessage(e) \/ Send(e) \/ Close(e) PROVE ControlInv'
    BY <1>1, <2>2, ControlMove
  <2>3. CASE \/ Listen \/ AcceptFails \/ Establish \/ Refuse
             \/ \E e \in Ends : Arrive(e) \/ ArriveFin(e) \/ ArriveReset(e)
    BY <1>1, <2>3, ControlNetwork
  <2>4. CASE Accept
    BY <1>1, <2>4, ControlAccept
  <2> QED BY <1>3, <2>1, <2>2, <2>3, <2>4 DEF Next, Progress, Network
<1> QED BY <1>2, <1>3

\* Every end has one start and one end, and what it is told of comes in between.
THEOREM ControlInvariant == Spec => []ControlInv
<1>1. Init => DataInv /\ ControlInv
  BY DataInit, ControlInit
<1>2. DataInv /\ ControlInv /\ [Next]_vars => (DataInv /\ ControlInv)'
  BY DataNext, ControlNext
<1>3. Spec => [](DataInv /\ ControlInv)
  BY <1>1, <1>2, PTL DEF Spec
<1> QED BY <1>3, PTL

-----------------------------------------------------------------------------
(* Theorems *)

\* Types are kept, no buffer of the kernel holds more than it may, and no message is
\* accepted that was not sent.
THEOREM TypeCorrect == Spec => []TypeOK
<1>1. DataInv /\ ControlInv => TypeOK
  <2> SUFFICES ASSUME DataInv, ControlInv PROVE TypeOK
    OBVIOUS
  <2>1. Types
    BY DEF DataInv
  <2>2. \A e \in Ends : Len(unsent[e]) <= OutSize /\ Len(unread[e]) <= InSize
    BY DEF DataInv, Data, Buffers
  <2>3. closes \in [Ends -> 0 .. 2]
    <3>1. closes \in [Ends -> Nat] /\ \A e \in Ends : closes[e] <= 2
      BY <2>1 DEF Types, SocketTypes, ControlInv, Control, EndInv
    <3> QED BY <3>1
  <2>4. \A e \in Ends : sent[e] \in 0 .. Len(Bodies[e]) /\ accepted[e] \in 0 .. sent[e]
    BY AcceptedBound
  <2>5. {fin, reset, registered, edge, nospace, made, connected, writable, failed, handle,
         refused, closing, opened} \subseteq [Ends -> BOOLEAN]
    <3>1. /\ fin \in [Ends -> BOOLEAN] /\ reset \in [Ends -> BOOLEAN]
          /\ registered \in [Ends -> BOOLEAN] /\ edge \in [Ends -> BOOLEAN]
          /\ nospace \in [Ends -> BOOLEAN]
      BY <2>1 DEF Types, KernelTypes
    <3>2. /\ made \in [Ends -> BOOLEAN] /\ connected \in [Ends -> BOOLEAN]
          /\ writable \in [Ends -> BOOLEAN] /\ failed \in [Ends -> BOOLEAN]
          /\ handle \in [Ends -> BOOLEAN] /\ refused \in [Ends -> BOOLEAN]
      BY <2>1 DEF Types, SocketTypes
    <3>3. closing \in [Ends -> BOOLEAN] /\ opened \in [Ends -> BOOLEAN]
      BY <2>1 DEF Types, SessionTypes, StreamTypes
    <3> QED BY <3>1, <3>2, <3>3
  <2>6. /\ link \in {"none", "syn", "up", "down"} /\ listener \in {"none", "open", "closed"}
        /\ backlog \in BOOLEAN /\ side \in [Ends -> {"none", "open", "fin", "rst"}]
        /\ pc \in [Ends -> {"deal", "send", "write", "read"}]
        /\ reported \in [Ends -> [posted : BOOLEAN, mask : SUBSET {"in", "out"}]]
        /\ session \in [Ends -> {"none", "alive", "deleted"}]
    BY <2>1 DEF Types, KernelTypes, ModuleTypes, SessionTypes
  <2> QED BY <2>2, <2>3, <2>4, <2>5, <2>6 DEF TypeOK
<1> QED BY <1>1, DataInvariant, ControlInvariant, PTL

\* Read and write loops find the session, room to read into, and a connection that is up.
THEOREM OperationsCorrect == Spec => []OperationsInv
<1>1. DataInv /\ ControlInv => OperationsInv
  <2> SUFFICES ASSUME DataInv, ControlInv PROVE OperationsInv
    OBVIOUS
  <2>1. SessionWhileServed /\ ConnectedIsUp
    BY DEF ControlInv, Control, EndInv, LinkInv, SessionWhileServed, ConnectedIsUp
  <2>2. ASSUME NEW e \in Ends PROVE FreeSize(e) > 0
    <3>1. recvBuff[e] \in Seq(Unit) /\ dataLen[e] \in Nat /\ Len(recvBuff[e]) < dataLen[e]
      BY DEF DataInv, Types, BuffTypes, Data, Buffers
    <3>2. Len(recvBuff[e]) \in Nat
      BY <3>1, LenProperties
    <3> QED BY <3>1, <3>2 DEF FreeSize
  <2> QED BY <2>1, <2>2 DEF OperationsInv, RoomToRead
<1> QED BY <1>1, DataInvariant, ControlInvariant, PTL

\* A session is told of its end once and last, and a descriptor is closed once, unless
\* connect() refused it.
THEOREM OneEndEach == Spec => []EndsOnce
<1>1. DataInv /\ ControlInv => EndsOnce
  <2> SUFFICES ASSUME DataInv, ControlInv PROVE EndsOnce
    OBVIOUS
  <2>1. ASSUME NEW e \in Ends
        PROVE  /\ session[e] = "deleted" => messages[e] = <<>>
               /\ \A i \in DOMAIN messages[e] :
                     messages[e][i].kind = "close" => i = Len(messages[e])
    <3>1. DOMAIN messages[e] = 1 .. Len(messages[e])
      BY LenProperties DEF DataInv, Types, MessageTypes
    <3> QED BY <3>1 DEF ControlInv, Control, EndInv
  <2>2. ASSUME NEW e \in Ends PROVE closes[e] > 1 => refused[e]
    <3>1. closes[e] \in Nat /\ (closes[e] <= 1 \/ refused[e])
      BY DEF ControlInv, Control, EndInv, DataInv, Types, SocketTypes
    <3> QED BY <3>1
  <2> QED BY <2>1, <2>2 DEF EndsOnce, CloseIsLast, ClosedOnce
<1> QED BY <1>1, DataInvariant, ControlInvariant, PTL
=============================================================================
