------------------------- MODULE TcpDeliveryProofs --------------------------
(***************************************************************************)
(* Why a TCP connection is a pair of reliable, ordered streams: the units  *)
(* on their way, from the sender's buffer through both kernels to the      *)
(* receiver's buffer, are the messages that were accepted and not          *)
(* delivered yet, in order, unless an end failed.                          *)
(***************************************************************************)
EXTENDS TcpStreamProofs

-----------------------------------------------------------------------------
(* The invariant: streams *)

\* How the session is told that it is connected: after nothing, before everything.
Told(e) == Len(messages[e]) > 0 /\ messages[e][1].kind = "connected"

Opening(e) ==
    /\ connected[e] <=> opened[e] \/ Told(e)
    /\ ~(opened[e] /\ Told(e))
    /\ \A i \in 1 .. Len(messages[e]) : messages[e][i].kind = "connected" => i = 1
    /\ ~connected[e] => output[e] = <<>> /\ unsent[e] = <<>> /\ ~writable[e]
    /\ ~connected[e] => \A i \in 1 .. Len(messages[e]) : messages[e][i].kind = "close"
    /\ pc[e] # "deal" => connected[e]
    /\ reported[e].mask = {"in"} => connected[e]
    /\ unread[e] # <<>> \/ fin[e] => link = "up"

\* The messages that wait for a session or were handled, all but the closing.
Offset(e) == IF Told(e) THEN 1 ELSE 0
Popped(e) == Len(output[e]) + Len(messages[e]) - Offset(e)

Numbered(e) == \A i \in 1 .. Len(messages[e]) : messages[e][i].kind = "recv" =>
    /\ messages[e][i].number = Len(output[e]) + i - Offset(e)
    /\ messages[e][i].number <= accepted[Peer(e)]

\* Units of e in order: in a message one after the other, then the next message.
\* Said of all units ahead in a message, it needs no induction to be used.
InOrder(e, s) ==
    /\ \A i \in 1 .. Len(s) : \A d \in 0 .. Length(e, s[i][1]) - s[i][2] :
          i + d <= Len(s) => s[i + d] = <<s[i][1], s[i][2] + d>>
    /\ \A i \in 1 .. Len(s) - 1 :
          s[i][2] = Length(e, s[i][1]) => s[i + 1] = <<s[i][1] + 1, 1>>

From(e, s, n) == InOrder(e, s) /\ (s # <<>> => s[1] = <<n, 1>>)
UpTo(e, s, n, m) == IF s = <<>> THEN m + 1 = n ELSE s[Len(s)] = <<m, Length(e, m)>>

\* What the receiver has of e's units; with those in the kernel of e; with those that
\* e still has in its send buffer.
Received(e) == recvBuff[Peer(e)] \o unread[Peer(e)]
Underway(e) == Received(e) \o unsent[e]
Outstanding(e) == Underway(e) \o sendBuff[e]

Over(e) == side[e] \in {"fin", "rst"}

\* They come next, in order, and are complete, unless one end will not have them.
StreamTo(e) == LET q == Peer(e)
                   n == Popped(q) + 1 IN
    ~failed[q] =>
       /\ From(e, Received(e), n)
       /\ ~Over(q) =>
             /\ From(e, Underway(e), n)
             /\ ~failed[e] /\ ~reset[e] =>
                   From(e, Outstanding(e), n) /\ UpTo(e, Outstanding(e), n, accepted[e])

\* An end is over when it has failed, or when it was never accepted.
SideInv(e) ==
    /\ Over(e) => failed[e] \/ ~made[e]
    /\ side[e] # "none" => link = "up"
    /\ backlog /\ e = "server" => side[e] = "open"

StreamInv == \A e \in Ends :
    Opening(e) /\ Numbered(e) /\ StreamTo(e) /\ SideInv(e)


-----------------------------------------------------------------------------
(* Units in order *)

\* The units there can be.
Valid(e) == {u \in Unit : u[1] \in 1 .. Len(Bodies[e]) /\ u[2] \in 1 .. Length(e, u[1])}

\* What was accepted belongs to messages there are.
LEMMA GivenValid ==
    ASSUME DataInv, NEW e \in Ends
    PROVE  Given(e) \subseteq Valid(e)
BY GivenUnit DEF Valid, Given

\* A unit is its message and its place in it.
LEMMA ValidUnit ==
    ASSUME NEW e \in Ends, NEW u \in Valid(e)
    PROVE  /\ u = <<u[1], u[2]>> /\ u[1] \in 1 .. Len(Bodies[e]) /\ u[2] \in 1 .. Length(e, u[1])
           /\ u[1] \in Nat /\ u[2] \in Nat /\ Length(e, u[1]) \in Nat
<1>1. u \in Unit /\ u[1] \in 1 .. Len(Bodies[e]) /\ u[2] \in 1 .. Length(e, u[1])
  BY DEF Valid
<1>2. u[1] \in Nat /\ u[2] \in Nat /\ u = <<u[1], u[2]>>
  BY <1>1 DEF Unit
<1>3. Length(e, u[1]) \in Nat
  BY <1>1, UnitsProperties
<1> QED BY <1>1, <1>2, <1>3

\* A message consists of such units.
LEMMA UnitsValid ==
    ASSUME NEW e \in Ends, NEW n \in 1 .. Len(Bodies[e])
    PROVE  Units(e, n) \in Seq(Valid(e))
<1>1. /\ n \in Nat /\ Units(e, n) \in Seq(Unit) /\ Len(Units(e, n)) = Length(e, n)
      /\ Length(e, n) \in Nat
      /\ \A i \in 1 .. Length(e, n) : Units(e, n)[i] = <<n, i>>
  BY UnitsProperties
<1>2. ASSUME NEW i \in 1 .. Length(e, n) PROVE Units(e, n)[i] \in Valid(e)
  <2>1. Units(e, n)[i] = <<n, i>> /\ <<n, i>> \in Unit
    BY <1>1 DEF Unit
  <2> QED BY <2>1, <1>2 DEF Valid
<1>3. Units(e, n) \in [1 .. Length(e, n) -> Valid(e)]
  BY <1>1, <1>2, LenProperties
<1> QED BY <1>1, <1>3, SeqDef

\* The first part of units in order is in order.
LEMMA FromPrefix ==
    ASSUME NEW e \in Ends, NEW n, NEW a \in Seq(Valid(e)), NEW b \in Seq(Valid(e)),
           From(e, a \o b, n)
    PROVE  From(e, a, n)
<1> DEFINE s == a \o b
<1>1. /\ s \in Seq(Valid(e)) /\ Len(s) = Len(a) + Len(b) /\ Len(a) \in Nat /\ Len(b) \in Nat
      /\ \A i \in 1 .. Len(s) : s[i] = IF i <= Len(a) THEN a[i] ELSE b[i - Len(a)]
  BY ConcatProperties, LenProperties
<1>2. \A i \in 1 .. Len(a) : i \in 1 .. Len(s) /\ s[i] = a[i] /\ a[i] \in Valid(e)
  BY <1>1, ElementOfSeq
<1>3. From(e, s, n)
  OBVIOUS
<1> HIDE DEF s
<1>4. ASSUME NEW i \in 1 .. Len(a), NEW d \in 0 .. Length(e, a[i][1]) - a[i][2], i + d <= Len(a)
      PROVE  a[i + d] = <<a[i][1], a[i][2] + d>>
  <2>1. a[i][2] \in Nat /\ Length(e, a[i][1]) \in Nat
    BY <1>2, ValidUnit
  <2>2. d \in Nat /\ i + d \in 1 .. Len(a) /\ i + d <= Len(s)
    BY <1>1, <1>4, <2>1
  <2>3. s[i] = a[i] /\ s[i + d] = a[i + d]
    BY <1>2, <2>2
  <2>4. s[i + d] = <<s[i][1], s[i][2] + d>>
    BY <1>2, <1>3, <2>2, <2>3 DEF From, InOrder
  <2> QED BY <2>3, <2>4
<1>5. ASSUME NEW i \in 1 .. Len(a) - 1, a[i][2] = Length(e, a[i][1])
      PROVE  a[i + 1] = <<a[i][1] + 1, 1>>
  <2>1. i \in 1 .. Len(a) /\ i + 1 \in 1 .. Len(a) /\ i \in 1 .. Len(s) - 1
    BY <1>1
  <2>2. s[i] = a[i] /\ s[i + 1] = a[i + 1]
    BY <1>2, <2>1
  <2> QED BY <1>3, <1>5, <2>1, <2>2 DEF From, InOrder
<1>6. a # <<>> => a[1] = <<n, 1>>
  <2> SUFFICES ASSUME a # <<>> PROVE a[1] = <<n, 1>>
    OBVIOUS
  <2>1. 1 \in 1 .. Len(a)
    BY EmptySeq
  <2>2. s # <<>>
    BY <1>1, <2>1, EmptySeq
  <2> QED BY <1>2, <1>3, <2>1, <2>2 DEF From
<1> QED BY <1>4, <1>5, <1>6 DEF From, InOrder

\* A whole message in front, and what is behind it.
LEMMA FromDrop ==
    ASSUME NEW e \in Ends, NEW n \in 1 .. Len(Bodies[e]), NEW s \in Seq(Valid(e)),
           From(e, s, n), Length(e, n) <= Len(s)
    PROVE  /\ SubSeq(s, 1, Length(e, n)) = Units(e, n)
           /\ From(e, Drop(s, Length(e, n)), n + 1)
           /\ \A m \in Nat : UpTo(e, s, n, m) => UpTo(e, Drop(s, Length(e, n)), n + 1, m)
<1> DEFINE L == Length(e, n)
           t == Drop(s, L)
<1>1. L \in Nat /\ L > 0 /\ n \in Nat /\ Len(s) \in Nat
  BY UnitsProperties, LenProperties
<1>2. L \in 0 .. Len(s) /\ s # <<>> /\ 1 \in 1 .. Len(s)
  BY <1>1, EmptySeq
<1>3. s[1] = <<n, 1>>
  BY <1>2 DEF From
<1>4. ASSUME NEW i \in 1 .. L PROVE s[i] = <<n, i>>
  <2>1. i - 1 \in 0 .. L - 1 /\ 1 + (i - 1) = i /\ 1 + (i - 1) <= Len(s)
    BY <1>1, <1>2
  <2>2. s[1][1] = n /\ s[1][2] = 1
    BY <1>3
  <2>3. i - 1 \in 0 .. Length(e, s[1][1]) - s[1][2]
    BY <2>1, <2>2
  <2>4. s[1 + (i - 1)] = <<s[1][1], s[1][2] + (i - 1)>>
    BY <1>2, <2>1, <2>3 DEF From, InOrder
  <2> QED BY <1>1, <2>1, <2>2, <2>4
<1>5. SubSeq(s, 1, L) = Units(e, n)
  <2>1. /\ SubSeq(s, 1, L) \in Seq(Valid(e)) /\ Len(SubSeq(s, 1, L)) = L
        /\ \A i \in 1 .. L : SubSeq(s, 1, L)[i] = s[i]
    BY <1>2, Split
  <2>2. /\ Units(e, n) \in Seq(Valid(e)) /\ Len(Units(e, n)) = L
        /\ \A i \in 1 .. L : Units(e, n)[i] = <<n, i>>
    BY UnitsProperties, UnitsValid
  <2>3. \A i \in 1 .. Len(SubSeq(s, 1, L)) : SubSeq(s, 1, L)[i] = Units(e, n)[i]
    BY <1>4, <2>1, <2>2
  <2> HIDE DEF L
  <2> QED BY <2>1, <2>2, <2>3, SeqEqual
<1>6. /\ t \in Seq(Valid(e)) /\ Len(t) = Len(s) - L
      /\ \A i \in 1 .. Len(s) - L : t[i] = s[L + i]
  BY <1>2, Split
<1> HIDE DEF t
<1>7. ASSUME NEW i \in 1 .. Len(t), NEW d \in 0 .. Length(e, t[i][1]) - t[i][2], i + d <= Len(t)
      PROVE  t[i + d] = <<t[i][1], t[i][2] + d>>
  <2>1. t[i][2] \in Nat /\ Length(e, t[i][1]) \in Nat
    BY <1>6, ElementOfSeq, ValidUnit
  <2>2. /\ d \in Nat /\ i + d \in 1 .. Len(s) - L /\ i \in 1 .. Len(s) - L
        /\ L + i \in 1 .. Len(s) /\ (L + i) + d <= Len(s) /\ L + (i + d) = (L + i) + d
    BY <1>1, <1>6, <1>7, <2>1
  <2>3. t[i] = s[L + i] /\ t[i + d] = s[(L + i) + d]
    BY <1>6, <2>2
  <2>4. s[(L + i) + d] = <<s[L + i][1], s[L + i][2] + d>>
    BY <2>2, <2>3 DEF From, InOrder
  <2> QED BY <2>3, <2>4
<1>8. ASSUME NEW i \in 1 .. Len(t) - 1, t[i][2] = Length(e, t[i][1])
      PROVE  t[i + 1] = <<t[i][1] + 1, 1>>
  <2>1. /\ i \in 1 .. Len(s) - L /\ i + 1 \in 1 .. Len(s) - L /\ L + i \in 1 .. Len(s) - 1
        /\ L + (i + 1) = (L + i) + 1
    BY <1>1, <1>6
  <2>2. t[i] = s[L + i] /\ t[i + 1] = s[(L + i) + 1]
    BY <1>6, <2>1
  <2> QED BY <1>8, <2>1, <2>2 DEF From, InOrder
<1>9. t # <<>> => t[1] = <<n + 1, 1>>
  <2> SUFFICES ASSUME t # <<>> PROVE t[1] = <<n + 1, 1>>
    OBVIOUS
  <2>1. 1 \in 1 .. Len(s) - L /\ L \in 1 .. Len(s) - 1 /\ L \in 1 .. L
    BY <1>1, <1>6, EmptySeq
  <2>2. s[L] = <<n, L>>
    BY <1>4, <2>1
  <2>3. s[L][1] = n /\ s[L][2] = L
    BY <2>2
  <2>4. s[L + 1] = <<n + 1, 1>>
    BY <2>1, <2>3 DEF From, InOrder
  <2> QED BY <1>6, <2>1, <2>4
<1>10. From(e, t, n + 1)
  BY <1>7, <1>8, <1>9 DEF From, InOrder
<1>11. ASSUME NEW m \in Nat, UpTo(e, s, n, m) PROVE UpTo(e, t, n + 1, m)
  <2>1. s[Len(s)] = <<m, Length(e, m)>>
    BY <1>2, <1>11 DEF UpTo
  <2>2. CASE Len(s) = L
    <3>1. t = <<>> /\ s[L] = <<n, L>>
      BY <1>1, <1>4, <1>6, <2>2, EmptySeq
    <3>2. m = n
      BY <2>1, <2>2, <3>1
    <3> QED BY <3>1, <3>2 DEF UpTo
  <2>3. CASE Len(s) # L
    <3>1. /\ Len(t) \in 1 .. Len(s) - L /\ L + Len(t) = Len(s)
      BY <1>1, <1>2, <1>6, <2>3
    <3>2. t # <<>> /\ t[Len(t)] = s[Len(s)]
      BY <1>6, <3>1, EmptySeq
    <3> QED BY <2>1, <3>2 DEF UpTo
  <2> QED BY <2>2, <2>3
<1> QED BY <1>5, <1>10, <1>11 DEF t

\* The next message behind complete ones.
LEMMA FromAppend ==
    ASSUME NEW e \in Ends, NEW n \in Nat, NEW m \in Nat, m + 1 \in 1 .. Len(Bodies[e]),
           NEW s \in Seq(Valid(e)), From(e, s, n), UpTo(e, s, n, m)
    PROVE  /\ From(e, s \o Units(e, m + 1), n)
           /\ UpTo(e, s \o Units(e, m + 1), n, m + 1)
<1> DEFINE k == m + 1
           u == Units(e, k)
           L == Length(e, k)
           t == s \o u
<1>1. /\ u \in Seq(Valid(e)) /\ Len(u) = L /\ L \in Nat /\ L > 0 /\ k \in Nat
      /\ \A i \in 1 .. L : u[i] = <<k, i>>
  BY UnitsProperties, UnitsValid
<1> HIDE DEF u
<1>2. /\ t \in Seq(Valid(e)) /\ Len(t) = Len(s) + L /\ Len(s) \in Nat
      /\ \A i \in 1 .. Len(s) + L : t[i] = IF i <= Len(s) THEN s[i] ELSE u[i - Len(s)]
  <2> HIDE DEF L
  <2> QED BY <1>1, ConcatProperties, LenProperties
<1> HIDE DEF t, L, k
<1>3. ASSUME NEW i \in 1 .. Len(s) PROVE t[i] = s[i] /\ i \in 1 .. Len(t) /\ s[i] \in Valid(e)
  BY <1>1, <1>2, ElementOfSeq
<1>4. ASSUME NEW i \in Len(s) + 1 .. Len(t) PROVE t[i] = <<k, i - Len(s)>> /\ i - Len(s) \in 1 .. L
  <2>1. i \in 1 .. Len(s) + L /\ ~(i <= Len(s)) /\ i - Len(s) \in 1 .. L
    BY <1>1, <1>2
  <2> QED BY <1>1, <1>2, <2>1
<1>5. ASSUME s # <<>> PROVE s[Len(s)] = <<m, Length(e, m)>> /\ Len(s) \in 1 .. Len(s)
  BY <1>2, <1>5, EmptySeq DEF UpTo
<1>6. ASSUME NEW i \in 1 .. Len(t), NEW d \in 0 .. Length(e, t[i][1]) - t[i][2], i + d <= Len(t)
      PROVE  t[i + d] = <<t[i][1], t[i][2] + d>>
  <2>0. t[i] \in Valid(e)
    BY <1>2, ElementOfSeq
  <2>1. t[i][2] \in Nat /\ Length(e, t[i][1]) \in Nat
    BY <2>0, ValidUnit
  <2>2. d \in Nat /\ i + d \in 1 .. Len(t) /\ d <= Length(e, t[i][1]) - t[i][2]
    BY <1>1, <1>2, <1>6, <2>1
  <2>3. CASE i + d <= Len(s)
    <3>1. i \in 1 .. Len(s) /\ i + d \in 1 .. Len(s)
      BY <1>2, <2>2, <2>3
    <3>2. t[i] = s[i] /\ t[i + d] = s[i + d]
      BY <1>3, <3>1
    <3>3. s[i + d] = <<s[i][1], s[i][2] + d>>
      BY <1>6, <2>3, <3>1, <3>2 DEF From, InOrder
    <3> QED BY <3>2, <3>3
  <2>4. CASE i > Len(s)
    <3>1. i \in Len(s) + 1 .. Len(t) /\ i + d \in Len(s) + 1 .. Len(t)
      BY <1>1, <1>2, <2>2, <2>4
    <3>2. t[i] = <<k, i - Len(s)>> /\ t[i + d] = <<k, (i + d) - Len(s)>>
      BY <1>4, <3>1
    <3>3. (i + d) - Len(s) = (i - Len(s)) + d
      BY <1>2, <2>2
    <3>4. t[i][1] = k /\ t[i][2] = i - Len(s)
      BY <3>2
    <3> QED BY <3>2, <3>3, <3>4
  <2>5. CASE i <= Len(s) /\ i + d > Len(s)
    <3> DEFINE c == Len(s) - i
    <3>1. /\ i \in 1 .. Len(s) /\ c \in Nat /\ c < d /\ i + c = Len(s)
      BY <1>2, <2>2, <2>5
    <3>2. t[i] = s[i] /\ s # <<>>
      BY <1>2, <1>3, <3>1, EmptySeq
    <3>3. c \in 0 .. Length(e, s[i][1]) - s[i][2] /\ i + c <= Len(s)
      BY <1>2, <2>1, <2>2, <3>1, <3>2
    <3>4. s[i + c] = <<s[i][1], s[i][2] + c>>
      BY <3>1, <3>3 DEF From, InOrder
    <3>5. <<s[i][1], s[i][2] + c>> = <<m, Length(e, m)>>
      BY <1>5, <3>1, <3>2, <3>4
    <3>6. s[i][1] = m /\ s[i][2] + c = Length(e, m)
      BY <3>5
    <3>7. d <= Length(e, m) - s[i][2] /\ s[i][2] \in Nat /\ Length(e, m) \in Nat
      BY <2>1, <2>2, <3>2, <3>6
    <3> QED BY <2>2, <3>1, <3>6, <3>7
  <2> QED BY <1>2, <2>2, <2>3, <2>4, <2>5
<1>7. ASSUME NEW i \in 1 .. Len(t) - 1, t[i][2] = Length(e, t[i][1])
      PROVE  t[i + 1] = <<t[i][1] + 1, 1>>
  <2>1. CASE i < Len(s)
    <3>1. i \in 1 .. Len(s) - 1 /\ i \in 1 .. Len(s) /\ i + 1 \in 1 .. Len(s)
      BY <1>2, <2>1
    <3>2. t[i] = s[i] /\ t[i + 1] = s[i + 1]
      BY <1>3, <3>1
    <3> QED BY <1>7, <3>1, <3>2 DEF From, InOrder
  <2>2. CASE i = Len(s)
    <3>1. i \in 1 .. Len(s) /\ i + 1 \in Len(s) + 1 .. Len(t) /\ (i + 1) - Len(s) = 1 /\ s # <<>>
      BY <1>1, <1>2, <2>2, EmptySeq
    <3>2. t[i] = <<m, Length(e, m)>> /\ t[i + 1] = <<k, 1>>
      BY <1>3, <1>4, <1>5, <2>2, <3>1
    <3>3. t[i][1] = m
      BY <3>2
    <3> QED BY <3>2, <3>3 DEF k
  <2>3. CASE i > Len(s)
    <3>1. i \in Len(s) + 1 .. Len(t) /\ i - Len(s) < L
      BY <1>1, <1>2, <2>3
    <3>2. t[i] = <<k, i - Len(s)>>
      BY <1>4, <3>1
    <3>3. t[i][1] = k /\ t[i][2] = i - Len(s)
      BY <3>2
    <3> QED BY <1>1, <1>2, <1>7, <3>1, <3>3 DEF L
  <2> QED BY <1>2, <2>1, <2>2, <2>3
<1>8. t[1] = <<n, 1>>
  <2>1. CASE s # <<>>
    <3>1. 1 \in 1 .. Len(s)
      BY <2>1, EmptySeq
    <3> QED BY <1>3, <2>1, <3>1 DEF From
  <2>2. CASE s = <<>>
    <3>1. Len(s) = 0 /\ k = n
      BY <2>2, EmptySeq DEF UpTo, k
    <3>2. 1 \in Len(s) + 1 .. Len(t) /\ 1 - Len(s) = 1
      BY <1>1, <1>2, <3>1
    <3>3. t[1] = <<k, 1 - Len(s)>>
      BY <1>4, <3>2
    <3> QED BY <3>1, <3>2, <3>3
  <2> QED BY <2>1, <2>2
<1>9. From(e, t, n)
  BY <1>6, <1>7, <1>8 DEF From, InOrder
<1>10. UpTo(e, t, n, k)
  <2>1. Len(t) \in Len(s) + 1 .. Len(t) /\ Len(t) - Len(s) = L /\ t # <<>>
    BY <1>1, <1>2, EmptySeq
  <2>2. t[Len(t)] = <<k, Len(t) - Len(s)>>
    BY <1>4, <2>1
  <2> QED BY <2>1, <2>2 DEF UpTo, L
<1> QED BY <1>9, <1>10 DEF t, u, k

-----------------------------------------------------------------------------
(* The third layer of the invariant: what an action leaves as it is *)

\* All buffers between two sessions hold such units.
LEMMA Segments ==
    ASSUME DataInv, NEW e \in Ends
    PROVE  /\ recvBuff[Peer(e)] \in Seq(Valid(e)) /\ unread[Peer(e)] \in Seq(Valid(e))
           /\ unsent[e] \in Seq(Valid(e)) /\ sendBuff[e] \in Seq(Valid(e))
           /\ Received(e) \in Seq(Valid(e)) /\ Underway(e) \in Seq(Valid(e))
           /\ Outstanding(e) \in Seq(Valid(e))
<1>1. Given(e) \subseteq Valid(e) /\ Peer(e) \in Ends /\ Peer(Peer(e)) = e
  BY GivenValid, Constants
<1>2. /\ recvBuff[Peer(e)] \in Seq(Given(e)) /\ unread[Peer(e)] \in Seq(Given(e))
      /\ unsent[e] \in Seq(Given(e)) /\ sendBuff[e] \in Seq(Given(e))
  BY <1>1 DEF DataInv, Data, Buffers
<1>3. /\ recvBuff[Peer(e)] \in Seq(Valid(e)) /\ unread[Peer(e)] \in Seq(Valid(e))
      /\ unsent[e] \in Seq(Valid(e)) /\ sendBuff[e] \in Seq(Valid(e))
  BY <1>1, <1>2, SeqMonotonic
<1>4. Received(e) \in Seq(Valid(e))
  BY <1>3, ConcatProperties DEF Received
<1>5. Underway(e) \in Seq(Valid(e))
  BY <1>3, <1>4, ConcatProperties DEF Underway
<1>6. Outstanding(e) \in Seq(Valid(e))
  BY <1>3, <1>5, ConcatProperties DEF Outstanding
<1> QED BY <1>3, <1>4, <1>5, <1>6

\* The same, said of all ends and so also of what a step leads to.
SegmentsInv == \A e \in Ends :
    Received(e) \in Seq(Valid(e)) /\ Underway(e) \in Seq(Valid(e))

\* The same for both ends, as a predicate of the state.
LEMMA SegmentsAll == DataInv => SegmentsInv
BY Segments DEF SegmentsInv

\* The same after a step.
LEMMA SegmentsNext == DataInv' => SegmentsInv'
BY SegmentsAll, PTL

\* How many messages were taken out of the receive buffer is a number.
LEMMA PoppedType ==
    ASSUME Types, NEW e \in Ends
    PROVE  /\ messages[e] \in Seq([kind : MessageKinds, number : Nat])
           /\ Len(messages[e]) \in Nat /\ Len(output[e]) \in Nat
           /\ Offset(e) \in {0, 1} /\ Offset(e) <= Len(messages[e]) /\ Popped(e) \in Nat
<1>1. /\ messages[e] \in Seq([kind : MessageKinds, number : Nat]) /\ output[e] \in Seq(Nat)
  BY DEF Types, MessageTypes, StreamTypes
<1>2. Len(messages[e]) \in Nat /\ Len(output[e]) \in Nat
  BY <1>1, LenProperties
<1>3. Offset(e) \in {0, 1} /\ Offset(e) <= Len(messages[e])
  BY <1>2 DEF Offset, Told
<1> QED BY <1>1, <1>2, <1>3 DEF Popped

\* Less may be underway than was, and some ends will not have more.
LEMMA StreamKept ==
    ASSUME DataInv, DataInv', NEW e \in Ends, StreamTo(e),
           NEW t \in Seq(Valid(e)), NEW u \in Seq(Valid(e)),
           failed[Peer(e)] => failed'[Peer(e)], failed[e] => failed'[e], reset[e] => reset'[e],
           Over(Peer(e)) => Over(Peer(e))',
           ~failed'[Peer(e)] =>
              /\ Popped(Peer(e))' = Popped(Peer(e)) /\ accepted'[e] = accepted[e]
              /\ Received(e) = Received(e)' \o t
              /\ ~Over(Peer(e))' =>
                    /\ Underway(e) = Underway(e)' \o u
                    /\ ~failed'[e] /\ ~reset'[e] => Outstanding(e)' = Outstanding(e)
    PROVE  StreamTo(e)'
<1> DEFINE q == Peer(e)
           n == Popped(q) + 1
<1>1. /\ Received(e)' \in Seq(Valid(e)) /\ Underway(e)' \in Seq(Valid(e))
  BY SegmentsNext DEF SegmentsInv, Valid, Length
<1>2. ASSUME ~failed'[q]
      PROVE  /\ n' = n /\ From(e, Received(e)', n)
             /\ ~Over(q)' =>
                   /\ From(e, Underway(e)', n)
                   /\ ~failed'[e] /\ ~reset'[e] =>
                         From(e, Outstanding(e)', n) /\ UpTo(e, Outstanding(e)', n, accepted'[e])
  <2>1. /\ n' = n /\ accepted'[e] = accepted[e]
        /\ Received(e) = Received(e)' \o t
        /\ ~Over(q)' => /\ Underway(e) = Underway(e)' \o u
                        /\ ~failed'[e] /\ ~reset'[e] => Outstanding(e)' = Outstanding(e)
    BY <1>2
  <2>2. /\ From(e, Received(e), n)
        /\ ~Over(q) =>
             /\ From(e, Underway(e), n)
             /\ ~failed[e] /\ ~reset[e] =>
                   From(e, Outstanding(e), n) /\ UpTo(e, Outstanding(e), n, accepted[e])
    BY <1>2 DEF StreamTo
  <2> HIDE DEF n, q
  <2>3. From(e, Received(e)', n)
    BY <1>1, <2>1, <2>2, FromPrefix
  <2>4. ASSUME ~Over(q)' PROVE From(e, Underway(e)', n)
    <3>1. From(e, Underway(e)' \o u, n)
      BY <2>1, <2>2, <2>4 DEF q
    <3> QED BY <1>1, <3>1, FromPrefix
  <2>5. ASSUME ~Over(q)', ~failed'[e], ~reset'[e]
        PROVE  From(e, Outstanding(e)', n) /\ UpTo(e, Outstanding(e)', n, accepted'[e])
    BY <2>1, <2>2, <2>5 DEF q
  <2> QED BY <2>1, <2>3, <2>4, <2>5
<1> QED BY <1>2 DEF StreamTo, From, InOrder, UpTo, Length

\* Nothing moves.
LEMMA StreamSame ==
    ASSUME DataInv, DataInv', NEW e \in Ends, StreamTo(e),
           failed[Peer(e)] => failed'[Peer(e)], failed[e] => failed'[e], reset[e] => reset'[e],
           Over(Peer(e)) => Over(Peer(e))',
           ~failed'[Peer(e)] => Popped(Peer(e))' = Popped(Peer(e)),
           accepted'[e] = accepted[e], Received(e)' = Received(e),
           unsent'[e] = unsent[e], sendBuff'[e] = sendBuff[e]
    PROVE  StreamTo(e)'
<1>1. Underway(e)' = Underway(e) /\ Outstanding(e)' = Outstanding(e)
  BY DEF Underway, Outstanding
<1>2. <<>> \in Seq(Valid(e)) /\ Received(e) \in Seq(Valid(e)) /\ Underway(e) \in Seq(Valid(e))
  BY EmptySeq, Segments
<1>3. Received(e) = Received(e)' \o <<>> /\ Underway(e) = Underway(e)' \o <<>>
  BY <1>1, <1>2, ConcatEmptySeq
<1> QED BY <1>1, <1>2, <1>3, StreamKept

\* The sender fails: what it left with the kernel may be lost.
LEMMA StreamCut ==
    ASSUME DataInv, DataInv', NEW e \in Ends, StreamTo(e),
           failed[Peer(e)] => failed'[Peer(e)], failed'[e] \/ reset'[e],
           Over(Peer(e)) => Over(Peer(e))',
           ~failed'[Peer(e)] => Popped(Peer(e))' = Popped(Peer(e)),
           failed[e] => failed'[e], reset[e] => reset'[e],
           accepted'[e] = accepted[e], Received(e)' = Received(e),
           unsent'[e] = unsent[e] \/ unsent'[e] = <<>>
    PROVE  StreamTo(e)'
<1>1. /\ <<>> \in Seq(Valid(e)) /\ Received(e) \in Seq(Valid(e)) /\ Underway(e) \in Seq(Valid(e))
      /\ unsent[e] \in Seq(Valid(e))
  BY EmptySeq, Segments
<1>2. Received(e) = Received(e)' \o <<>>
  BY <1>1, ConcatEmptySeq
<1>3. CASE unsent'[e] = unsent[e]
  <2>1. Underway(e) = Underway(e)' \o <<>>
    BY <1>1, <1>3, ConcatEmptySeq DEF Underway
  <2> QED BY <1>1, <1>2, <2>1, StreamKept
<1>4. CASE unsent'[e] = <<>>
  <2>1. Underway(e)' = Received(e)
    BY <1>1, <1>4, ConcatEmptySeq DEF Underway
  <2>2. Underway(e) = Underway(e)' \o unsent[e]
    BY <2>1 DEF Underway
  <2> QED BY <1>1, <1>2, <2>2, StreamKept
<1> QED BY <1>3, <1>4

\* What keeps the connected message before all others.
LEMMA OpeningKept ==
    ASSUME NEW x, Opening(x), connected'[x] = connected[x], opened'[x] = opened[x],
           messages'[x] = messages[x], output'[x] = output[x],
           unsent'[x] = unsent[x] \/ unsent'[x] = <<>> \/ connected[x],
           writable'[x] => writable[x] \/ connected[x], pc'[x] # "deal" => pc[x] # "deal" \/ connected[x],
           reported'[x].mask = {"in"} => reported[x].mask = {"in"} \/ connected[x],
           unread'[x] # <<>> => unread[x] # <<>> \/ link' = "up",
           fin'[x] => fin[x] \/ link' = "up", link = "up" => link' = "up"
    PROVE  Opening(x)' /\ (Told(x)' <=> Told(x))
BY DEF Opening, Told

\* What keeps the numbers of the waiting messages.
LEMMA NumberedKept ==
    ASSUME Types, Types', NEW x \in Ends, Numbered(x),
           messages'[x] = messages[x], output'[x] = output[x],
           accepted'[Peer(x)] >= accepted[Peer(x)]
    PROVE  Numbered(x)' /\ Popped(x)' = Popped(x)
<1>1. Offset(x)' = Offset(x)
  BY DEF Offset, Told
<1>2. Popped(x)' = Popped(x)
  BY <1>1 DEF Popped
<1>3. accepted[Peer(x)] \in Nat /\ accepted'[Peer(x)] \in Nat
  BY Constants DEF Types, StreamTypes
<1>4. ASSUME NEW i \in 1 .. Len(messages'[x]), messages'[x][i].kind = "recv"
      PROVE  /\ messages'[x][i].number = Len(output'[x]) + i - Offset(x)'
             /\ messages'[x][i].number <= accepted'[Peer(x)]
  <2>1. messages[x][i].number \in Nat
    <3>1. messages[x] \in Seq([kind : MessageKinds, number : Nat]) /\ i \in 1 .. Len(messages[x])
      BY PoppedType
    <3>2. messages[x][i] \in [kind : MessageKinds, number : Nat]
      BY <3>1, ElementOfSeq
    <3> QED BY <3>2
  <2> QED BY <1>1, <1>3, <1>4, <2>1 DEF Numbered
<1> QED BY <1>2, <1>4 DEF Numbered

\* What keeps the sides of the connection.
LEMMA SideKept ==
    ASSUME NEW x, SideInv(x), side'[x] = side[x], failed[x] => failed'[x],
           ~made'[x] \/ made'[x] = made[x], link = "up" => link' = "up",
           backlog' => backlog
    PROVE  SideInv(x)' /\ (Over(x)' <=> Over(x))
BY DEF SideInv, Over

\* Whatever one end does, the other is told nothing of it, and its stream stays.
LEMMA StreamElsewhere ==
    ASSUME Types, Types', NEW x \in Ends, Opening(x), Numbered(x), SideInv(x),
           UNCHANGED AllAt(x), backlog' = backlog, link = "up" => link' = "up",
           accepted'[Peer(x)] >= accepted[Peer(x)]
    PROVE  /\ Opening(x)' /\ Numbered(x)' /\ SideInv(x)'
           /\ Popped(x)' = Popped(x) /\ Over(x)' = Over(x)
<1>1. /\ made'[x] = made[x] /\ reported'[x] = reported[x] /\ pc'[x] = pc[x]
      /\ failed'[x] = failed[x] /\ connected'[x] = connected[x] /\ writable'[x] = writable[x]
      /\ messages'[x] = messages[x] /\ opened'[x] = opened[x] /\ output'[x] = output[x]
      /\ side'[x] = side[x] /\ unsent'[x] = unsent[x] /\ unread'[x] = unread[x] /\ fin'[x] = fin[x]
  BY DEF AllAt, KernelAt, SocketAt, ModuleAt, SessionAt, StreamAt
<1>2. Opening(x)'
  BY <1>1, OpeningKept
<1>3. Numbered(x)' /\ Popped(x)' = Popped(x)
  BY <1>1, NumberedKept
<1>4. SideInv(x)'
  BY <1>1, SideKept
<1>5. Over(x)' = Over(x)
  BY <1>1 DEF Over
<1> QED BY <1>2, <1>3, <1>4, <1>5

\* One more message at the end: only the first may be that of the connection.
LEMMA Pushed ==
    ASSUME Types, NEW e \in Ends, NEW k \in MessageKinds, NEW n \in Nat,
           messages'[e] = Append(messages[e], Message(k, n)),
           messages[e] = <<>> => k # "connected"
    PROVE  /\ Len(messages[e]) \in Nat /\ Len(messages'[e]) = Len(messages[e]) + 1
           /\ \A i \in 1 .. Len(messages[e]) : messages'[e][i] = messages[e][i]
           /\ messages'[e][Len(messages[e]) + 1] = [kind |-> k, number |-> n]
           /\ Told(e)' <=> Told(e)
           /\ Offset(e)' = Offset(e)
<1>1. messages[e] \in Seq([kind : MessageKinds, number : Nat])
      /\ Message(k, n) \in [kind : MessageKinds, number : Nat]
      /\ Message(k, n) = [kind |-> k, number |-> n]
  BY DEF Types, MessageTypes, Message
<1>2. /\ Len(messages'[e]) = Len(messages[e]) + 1 /\ Len(messages[e]) \in Nat
      /\ \A i \in 1 .. Len(messages[e]) : messages'[e][i] = messages[e][i]
      /\ messages'[e][Len(messages[e]) + 1] = [kind |-> k, number |-> n]
  BY <1>1, AppendProperties, LenProperties
<1>3. Told(e)' <=> Told(e)
  <2>1. CASE messages[e] = <<>>
    <3>1. Len(messages[e]) = 0 /\ messages'[e][1].kind = k
      BY <1>2, <2>1, EmptySeq
    <3> QED BY <2>1, <3>1 DEF Told
  <2>2. CASE messages[e] # <<>>
    <3>1. Len(messages[e]) > 0 /\ 1 \in 1 .. Len(messages[e])
      BY <1>1, <1>2, <2>2, EmptySeq
    <3>2. messages'[e][1] = messages[e][1] /\ Len(messages'[e]) > 0
      BY <1>2, <3>1
    <3> QED BY <3>1, <3>2 DEF Told
  <2> QED BY <2>1, <2>2
<1>4. Offset(e)' = Offset(e)
  BY <1>3 DEF Offset
<1> QED BY <1>2, <1>3, <1>4

\* A step of one end, put together.
LEMMA StreamAll ==
    ASSUME DataInv, DataInv', StreamInv, NEW e \in Ends,
           \A x \in Ends : x # e => UNCHANGED AllAt(x),
           backlog' = backlog, link = "up" => link' = "up", accepted'[e] >= accepted[e],
           Opening(e)', Numbered(e)', SideInv(e)', StreamTo(e)', StreamTo(Peer(e))'
    PROVE  StreamInv'
<1> DEFINE q == Peer(e)
<1>1. q \in Ends /\ q # e /\ Peer(q) = e /\ \A x \in Ends : x = e \/ x = q
  BY Constants
<1>2. Opening(q) /\ Numbered(q) /\ SideInv(q) /\ UNCHANGED AllAt(q)
  BY <1>1 DEF StreamInv
<1>3. Types /\ Types'
  BY DEF DataInv
<1>4. Opening(q)' /\ Numbered(q)' /\ SideInv(q)'
  <2> HIDE DEF q
  <2> QED BY <1>1, <1>2, <1>3, StreamElsewhere
<1> QED BY <1>1, <1>4 DEF StreamInv

\* What StreamSame and its like ask of the other end.
LEMMA OtherEnd ==
    ASSUME Types, Types', StreamInv, NEW e \in Ends,
           \A x \in Ends : x # e => UNCHANGED AllAt(x),
           backlog' = backlog, link = "up" => link' = "up", accepted'[e] >= accepted[e]
    PROVE  LET q == Peer(e) IN
           /\ failed'[q] = failed[q] /\ reset'[q] = reset[q] /\ Popped(q)' = Popped(q)
           /\ Over(q)' = Over(q) /\ accepted'[q] = accepted[q]
           /\ unsent'[q] = unsent[q] /\ unread'[q] = unread[q]
           /\ sendBuff'[q] = sendBuff[q] /\ recvBuff'[q] = recvBuff[q]
           /\ Received(e)' = Received(e)
<1> DEFINE q == Peer(e)
<1>1. q \in Ends /\ q # e /\ Peer(q) = e
  BY Constants
<1>2. Opening(q) /\ Numbered(q) /\ SideInv(q) /\ UNCHANGED AllAt(q)
  BY <1>1 DEF StreamInv
<1>3. Popped(q)' = Popped(q) /\ Over(q)' = Over(q)
  <2> HIDE DEF q
  <2> QED BY <1>1, <1>2, StreamElsewhere
<1>4. /\ failed'[q] = failed[q] /\ reset'[q] = reset[q] /\ accepted'[q] = accepted[q]
      /\ unsent'[q] = unsent[q] /\ unread'[q] = unread[q]
      /\ sendBuff'[q] = sendBuff[q] /\ recvBuff'[q] = recvBuff[q]
  BY <1>2 DEF AllAt, KernelAt, SocketAt, StreamAt
<1> QED BY <1>3, <1>4 DEF Received

\* Nothing moves, and the session is told nothing.
LEMMA QuietStep ==
    ASSUME DataInv, DataInv', StreamInv, NEW e \in Ends,
           \A x \in Ends : x # e => UNCHANGED AllAt(x),
           backlog' = backlog, link = "up" => link' = "up",
           UNCHANGED <<failed[e], reset[e], side[e], unsent[e], unread[e], fin[e]>>,
           UNCHANGED <<connected[e], opened[e], messages[e], output[e], accepted[e]>>,
           UNCHANGED <<sendBuff[e], recvBuff[e]>>,
           made'[e] = made[e] \/ ~Over(e),
           writable'[e] => writable[e] \/ connected[e],
           pc'[e] # "deal" => pc[e] # "deal" \/ connected[e],
           reported'[e].mask = {"in"} => reported[e].mask = {"in"} \/ connected[e]
    PROVE  StreamInv'
<1> DEFINE q == Peer(e)
<1>1. q \in Ends /\ q # e /\ Peer(q) = e
  BY Constants
<1>2. Types /\ Types' /\ accepted[e] \in Nat /\ accepted'[e] >= accepted[e]
  BY DEF DataInv, Types, StreamTypes
<1>3. Opening(e) /\ Numbered(e) /\ SideInv(e) /\ StreamTo(e) /\ StreamTo(q)
  BY <1>1 DEF StreamInv
<1>4. /\ failed'[q] = failed[q] /\ reset'[q] = reset[q] /\ Popped(q)' = Popped(q)
      /\ Over(q)' = Over(q) /\ accepted'[q] = accepted[q]
      /\ unsent'[q] = unsent[q] /\ sendBuff'[q] = sendBuff[q]
      /\ Received(e)' = Received(e)
  BY <1>2, OtherEnd
<1>5. Opening(e)'
  BY <1>3, OpeningKept
<1>6. Numbered(e)' /\ Popped(e)' = Popped(e)
  BY <1>1, <1>2, <1>3, <1>4, NumberedKept DEF Types, StreamTypes
<1>7. SideInv(e)' /\ Over(e)' = Over(e)
  BY <1>3 DEF SideInv, Over
<1>8. StreamTo(e)'
  BY <1>3, <1>4, StreamSame
<1>9. Received(q)' = Received(q)
  BY <1>1 DEF Received
<1>10. StreamTo(q)'
  <2> HIDE DEF q
  <2> QED BY <1>1, <1>3, <1>4, <1>6, <1>7, <1>9, StreamSame
<1> QED BY <1>2, <1>5, <1>6, <1>7, <1>8, <1>10, StreamAll

\* An event that is run is of an end that has its connector, but for the first.
LEMMA RunsMade ==
    ASSUME Types, ControlInv, NEW e \in Ends, NEW k, Runs(e, k)
    PROVE  StartsAt(e, k) /\ (k \in Starts => Fresh(e))
<1>1. running[e] \in Seq(Kinds) /\ running[e] # <<>> /\ Head(running[e]) = k
  BY DEF Types, ModuleTypes, Runs
<1>2. 1 \in 1 .. Len(running[e]) /\ running[e][1] = k
  BY <1>1, EmptySeq, HeadTailProperties
<1>3. Queue(e)
  BY DEF ControlInv, Control
<1> QED BY <1>2, <1>3 DEF Queue, Fresh

\* What every step of an end's own does to the other and to the link.
OwnStep(e) ==
    /\ \A x \in Ends : x # e => UNCHANGED AllAt(x)
    /\ backlog' = backlog
    /\ link = "up" => link' = "up"

\* A posted event changes its own end, and what it sends to the peer.
LEMMA EventOwn ==
    ASSUME Types, ControlInv, NEW e \in Ends, RunEvent(e)
    PROVE  OwnStep(e)
<1>1. \A x \in Ends : x # e => UNCHANGED AllAt(x)
  BY EventElsewhere
<1>2. backlog' = backlog /\ (LinkGoesOn \/ (Runs(e, "connect") /\ link' = "syn"))
  <2>1. PICK x \in Ends : x # e
    BY Constants
  <2> QED BY <2>1, EventElsewhere
<1>3. Runs(e, "connect") => link = "none"
  <2>1. Runs(e, "connect") => e = "client" /\ ~made[e]
    BY RunsMade DEF StartsAt
  <2> QED BY <2>1 DEF ControlInv, Control, LinkInv
<1> QED BY <1>1, <1>2, <1>3 DEF OwnStep, LinkGoesOn

\* So do the read and write operations, with what ends them.
LEMMA ServeOwn ==
    ASSUME Types, NEW e \in Ends,
           \/ WaitEvents(e) \/ TakePosted(e) \/ WriteOperation(e) \/ SendAgain(e)
           \/ SendError(e) \/ ReadOperation(e) \/ RecvEnds(e)
    PROVE  OwnStep(e)
<1>1. \A x \in Ends : x # e => UNCHANGED AllAt(x)
  BY ServeElsewhere
<1>2. LinkGoesOn /\ backlog' = backlog
  <2>1. PICK x \in Ends : x # e
    BY Constants
  <2> QED BY <2>1, ServeElsewhere
<1> QED BY <1>1, <1>2 DEF OwnStep, LinkGoesOn

\* So do sending, receiving and what the sessions do.
LEMMA MoveOwn ==
    ASSUME Types, NEW e \in Ends,
           SendSome(e) \/ PopPackage(e) \/ Recv(e) \/ Send(e) \/ Close(e) \/ HandleMessage(e)
    PROVE  OwnStep(e) /\ link' = link
<1>1. \A x \in Ends : x # e => UNCHANGED AllAt(x)
  BY MoveElsewhere
<1>2. link' = link /\ backlog' = backlog
  <2>1. PICK x \in Ends : x # e
    BY Constants
  <2> QED BY <2>1, MoveElsewhere
<1> QED BY <1>1, <1>2 DEF OwnStep

\* The session is told that it is connected, before all.
LEMMA ConnectedStep ==
    ASSUME DataInv, DataInv', ControlInv, StreamInv, NEW e \in Ends, OwnStep(e),
           ~failed[e], ~connected[e], connected'[e],
           messages'[e] = Append(messages[e], Message("connected", 0)),
           UNCHANGED <<failed[e], reset[e], side[e], unsent[e], unread[e], fin[e]>>,
           UNCHANGED <<opened[e], output[e], accepted[e], sendBuff[e], recvBuff[e], made[e]>>
    PROVE  StreamInv'
<1> DEFINE q == Peer(e)
           m == Message("connected", 0)
<1>1. q \in Ends /\ q # e /\ Peer(q) = e
  BY Constants
<1>2. Types /\ Types' /\ accepted[e] \in Nat /\ accepted'[e] >= accepted[e]
  BY DEF DataInv, Types, StreamTypes
<1>3. Opening(e) /\ Numbered(e) /\ SideInv(e) /\ StreamTo(e) /\ StreamTo(q)
  BY <1>1 DEF StreamInv
<1>4. /\ failed'[q] = failed[q] /\ reset'[q] = reset[q] /\ Popped(q)' = Popped(q)
      /\ Over(q)' = Over(q) /\ accepted'[q] = accepted[q]
      /\ unsent'[q] = unsent[q] /\ sendBuff'[q] = sendBuff[q]
      /\ Received(e)' = Received(e)
  BY <1>2, OtherEnd DEF OwnStep
<1>5. messages[e] = <<>> /\ ~opened[e] /\ output[e] = <<>>
  <2>1. messages[e] \in Seq([kind : MessageKinds, number : Nat]) /\ Len(messages[e]) \in Nat
    BY <1>2, PoppedType
  <2>2. \A i \in 1 .. Len(messages[e]) : messages[e][i].kind = "close" /\ messages[e][i].kind # "close"
    BY <1>3 DEF Opening, ControlInv, Control, EndInv
  <2>3. ~(1 \in 1 .. Len(messages[e]))
    BY <2>2
  <2> QED BY <1>3, <2>1, <2>3, EmptySeq DEF Opening
<1>6. Len(messages'[e]) = 1 /\ messages'[e][1].kind = "connected" /\ Len(messages[e]) = 0
  <2>1. messages'[e] = <<m>> /\ m.kind = "connected"
    BY <1>5 DEF Message
  <2> QED BY <1>5, <2>1, EmptySeq
<1>7. Told(e)' /\ ~Told(e)
  BY <1>6 DEF Told
<1>8. Opening(e)'
  BY <1>3, <1>5, <1>6, <1>7 DEF Opening, OwnStep
<1>9. Numbered(e)' /\ Popped(e)' = Popped(e)
  <2>1. Popped(e)' = Popped(e)
    <3>1. Offset(e) = 0 /\ Offset(e)' = 1 /\ Len(output[e]) \in Nat /\ output'[e] = output[e]
      BY <1>2, <1>7, PoppedType DEF Offset
    <3>2. Popped(e) = Len(output[e])
      BY <1>6, <3>1 DEF Popped
    <3>3. Popped(e)' = Len(output[e])
      <4>1. Len(output'[e]) = Len(output[e]) /\ Len(messages'[e]) = 1
        BY <1>6, <3>1
      <4>2. Popped(e)' = Len(output'[e]) + Len(messages'[e]) - Offset(e)'
        BY DEF Popped
      <4> QED BY <3>1, <4>1, <4>2
    <3> QED BY <3>2, <3>3
  <2> QED BY <1>6, <2>1 DEF Numbered
<1>10. SideInv(e)' /\ Over(e)' = Over(e)
  BY <1>3 DEF SideInv, Over, OwnStep
<1>11. StreamTo(e)'
  BY <1>3, <1>4, StreamSame
<1>12. Received(q)' = Received(q)
  BY <1>1 DEF Received
<1>13. StreamTo(q)'
  <2> HIDE DEF q
  <2> QED BY <1>1, <1>3, <1>4, <1>9, <1>10, <1>12, StreamSame
<1> QED BY <1>2, <1>8, <1>9, <1>10, <1>11, <1>13, StreamAll DEF OwnStep

\* An end fails: it gets no more, and what it sent may be lost.
LEMMA FailedStep ==
    ASSUME DataInv, DataInv', StreamInv, NEW e \in Ends, OwnStep(e),
           e = "server" => ~backlog, NEW open, NEW n, FirstError(e, open, n),
           UNCHANGED <<connected[e], opened[e], output[e], accepted[e], recvBuff[e], sendBuff[e]>>,
           writable'[e] => writable[e], pc'[e] = "deal",
           reported'[e].mask = {"in"} => reported[e].mask = {"in"} \/ connected[e]
    PROVE  StreamInv'
<1> DEFINE q == Peer(e)
<1>1. q \in Ends /\ q # e /\ Peer(q) = e
  BY Constants
<1>2. Types /\ Types' /\ accepted[e] \in Nat /\ accepted'[e] >= accepted[e]
  BY DEF DataInv, Types, StreamTypes
<1>3. Opening(e) /\ Numbered(e) /\ SideInv(e) /\ StreamTo(e) /\ StreamTo(q)
  BY <1>1 DEF StreamInv
<1>4. /\ failed'[q] = failed[q] /\ reset'[q] = reset[q] /\ Popped(q)' = Popped(q)
      /\ Over(q)' = Over(q) /\ accepted'[q] = accepted[q]
      /\ unsent'[q] = unsent[q] /\ sendBuff'[q] = sendBuff[q]
      /\ Received(e)' = Received(e)
  BY <1>2, OtherEnd DEF OwnStep
<1>5. /\ failed'[e] /\ messages'[e] = Append(messages[e], Message("close", 0))
      /\ fin'[e] = fin[e] /\ reset'[e] = reset[e] /\ unread'[e] = <<>>
      /\ unsent'[e] = unsent[e] \/ unsent'[e] = <<>>
      /\ side[e] = "none" => side'[e] = "none"
  BY <1>2 DEF FirstError, CloseSocket, PushMessageEvent, Types, SocketTypes, MessageTypes, KernelTypes
<1>6. /\ Len(messages[e]) \in Nat /\ Len(messages'[e]) = Len(messages[e]) + 1
      /\ \A i \in 1 .. Len(messages[e]) : messages'[e][i] = messages[e][i]
      /\ messages'[e][Len(messages[e]) + 1].kind = "close"
      /\ Told(e)' <=> Told(e)
      /\ Offset(e)' = Offset(e)
  <2>1. "close" \in MessageKinds /\ 0 \in Nat /\ "close" # "connected"
    BY DEF MessageKinds
  <2>2. messages'[e] = Append(messages[e], Message("close", 0))
    BY <1>5
  <2>3. /\ Len(messages[e]) \in Nat /\ Len(messages'[e]) = Len(messages[e]) + 1
        /\ \A i \in 1 .. Len(messages[e]) : messages'[e][i] = messages[e][i]
        /\ messages'[e][Len(messages[e]) + 1] = [kind |-> "close", number |-> 0]
        /\ Told(e)' <=> Told(e)
        /\ Offset(e)' = Offset(e)
    BY <1>2, <2>1, <2>2, Pushed
  <2> QED BY <2>3
<1>7. \A i \in 1 .. Len(messages'[e]) :
          \/ i \in 1 .. Len(messages[e]) /\ messages'[e][i] = messages[e][i]
          \/ messages'[e][i].kind = "close"
  BY <1>6
<1>8. Opening(e)'
  BY <1>3, <1>5, <1>6, <1>7 DEF Opening, OwnStep
<1>9. Numbered(e)'
  BY <1>3, <1>4, <1>6, <1>7 DEF Numbered
<1>10. SideInv(e)'
  BY <1>3, <1>5 DEF SideInv, Over, OwnStep
<1>11. StreamTo(e)'
  BY <1>3, <1>4, <1>5, StreamCut
<1>12. StreamTo(q)'
  BY <1>1, <1>5 DEF StreamTo
<1> QED BY <1>2, <1>8, <1>9, <1>10, <1>11, <1>12, StreamAll DEF OwnStep

\* An end that failed is promised nothing more, and neither are messages it sent.
LEMMA ErrorStep ==
    ASSUME DataInv, DataInv', ControlInv, StreamInv, NEW e \in Ends, OwnStep(e),
           made[e], ErrorOperation(e),
           UNCHANGED <<connected[e], opened[e], output[e], accepted[e], recvBuff[e], sendBuff[e]>>,
           made'[e] = made[e], writable'[e] => writable[e], pc'[e] = "deal",
           reported'[e].mask = {"in"} => reported[e].mask = {"in"} \/ connected[e]
    PROVE  StreamInv'
<1>1. CASE failed[e]
  <2>1. /\ UNCHANGED <<failed[e], reset[e], side[e], unsent[e], unread[e], fin[e]>>
        /\ UNCHANGED messages[e]
    BY <1>1 DEF ErrorOperation, kernelVars
  <2> QED BY <2>1, QuietStep DEF OwnStep
<1>2. CASE ~failed[e]
  <2>1. e = "server" => ~backlog
    BY DEF ControlInv, Control, LinkInv
  <2>2. FirstError(e, handle[e], closes[e])
    BY <1>2 DEF ErrorOperation
  <2> QED BY <2>1, <2>2, FailedStep
<1> QED BY <1>1, <1>2

-----------------------------------------------------------------------------
(* The third layer of the invariant: events and operations *)

\* What epoll reports of a socket that is not connected is not input alone.
LEMMA MaskInput ==
    ASSUME Types, NEW e \in Ends, Opening(e), Mask(e) = {"in"}
    PROVE  connected[e]
<1>1. "out" \notin Mask(e) /\ "in" \in Mask(e) /\ ~reset[e]
  <2>1. "out" \notin Mask(e) /\ "in" \in Mask(e)
    OBVIOUS
  <2>2. reset[e] => "out" \in Mask(e)
    BY DEF Mask
  <2> QED BY <2>1, <2>2
<1>2. unread[e] # <<>> \/ fin[e]
  BY <1>1 DEF Mask
<1>3. link = "up"
  BY <1>2 DEF Opening
<1>4. ~(Len(unsent[e]) < OutSize)
  BY <1>1, <1>3 DEF Mask
<1>5. unsent[e] # <<>>
  BY <1>4, Constants, EmptySeq
<1> QED BY <1>5 DEF Opening

\* Waiting, taking events and EAGAIN move no unit.
LEMMA StreamWaits ==
    ASSUME DataInv, DataInv', StreamInv, NEW e \in Ends, OwnStep(e),
           WaitEvents(e) \/ TakePosted(e) \/ ReadOperation(e) \/ SendAgain(e)
    PROVE  StreamInv'
<1>1. Types /\ Opening(e)
  BY DEF DataInv, StreamInv
<1>2. CASE WaitEvents(e)
  <2>1. /\ UNCHANGED <<side, unsent, unread, fin, reset>> /\ UNCHANGED socketVars /\ pc' = pc
        /\ UNCHANGED buffVars /\ UNCHANGED messages /\ UNCHANGED streamVars
    BY <1>2 DEF WaitEvents
  <2>2. reported'[e].mask = {"in"} => connected[e]
    <3>1. reported'[e].mask = IF edge[e] THEN Mask(e) ELSE {}
      BY <1>1, <1>2 DEF WaitEvents, Types, ModuleTypes
    <3>2. {"in"} # {}
      OBVIOUS
    <3> QED BY <1>1, <3>1, <3>2, MaskInput
  <2> QED BY <2>1, <2>2, QuietStep DEF OwnStep, socketVars, buffVars, streamVars
<1>3. CASE TakePosted(e)
  <2>1. /\ UNCHANGED kernelVars /\ UNCHANGED socketVars /\ pc' = pc
        /\ UNCHANGED buffVars /\ UNCHANGED messages /\ UNCHANGED streamVars
    BY <1>3 DEF TakePosted
  <2>2. reported'[e].mask = reported[e].mask
    BY <1>1, <1>3 DEF TakePosted, Types, ModuleTypes
  <2> QED BY <2>1, <2>2, QuietStep DEF OwnStep, kernelVars, socketVars, buffVars, streamVars
<1>4. CASE ReadOperation(e)
  <2>1. /\ UNCHANGED kernelVars /\ UNCHANGED socketVars
        /\ UNCHANGED buffVars /\ UNCHANGED messages /\ UNCHANGED streamVars
    BY <1>4 DEF ReadOperation
  <2>2. reported[e].mask \subseteq {"in", "out"} /\ reported'[e].mask = reported[e].mask \ {"in"}
    BY <1>1, <1>4 DEF ReadOperation, Served, Types, ModuleTypes
  <2>3. connected[e] /\ reported'[e].mask # {"in"}
    <3>1. reported[e].mask = {"in"}
      BY <1>4, <2>2 DEF ReadOperation, ReadTurn
    <3> QED BY <1>1, <2>2, <3>1 DEF Opening
  <2> QED BY <2>1, <2>3, QuietStep DEF OwnStep, kernelVars, socketVars, buffVars, streamVars
<1>5. CASE SendAgain(e)
  <2>1. /\ UNCHANGED <<side, unsent, unread, fin, reset>>
        /\ UNCHANGED <<made, connected, failed>> /\ reported' = reported
        /\ UNCHANGED buffVars /\ UNCHANGED messages /\ UNCHANGED streamVars
    BY <1>5 DEF SendAgain
  <2>2. ~writable'[e] /\ pc'[e] = "deal"
    BY <1>1, <1>5 DEF SendAgain, Types, SocketTypes, ModuleTypes
  <2> QED BY <2>1, <2>2, QuietStep DEF OwnStep, buffVars, streamVars
<1> QED BY <1>2, <1>3, <1>4, <1>5

\* An end that does something about its socket has its connector.
LEMMA Active ==
    ASSUME ControlInv, NEW e \in Ends, pc[e] # "deal" \/ reported[e].mask # {}
    PROVE  made[e]
BY DEF ControlInv, Control, Fresh, Blank

\* The write operation connects a connector.
LEMMA StreamWrites ==
    ASSUME DataInv, DataInv', ControlInv, StreamInv, NEW e \in Ends, OwnStep(e), WriteOperation(e)
    PROVE  StreamInv'
<1>1. Types /\ Opening(e) /\ made[e]
  BY Active DEF DataInv, StreamInv, WriteOperation
<1>2. /\ UNCHANGED made /\ UNCHANGED buffVars /\ UNCHANGED streamVars
  BY DEF WriteOperation
<1>3. CASE failed[e] \/ (~connected[e] /\ ConnectError(e))
  <2>1. /\ ErrorOperation(e) /\ ServedAll(e) /\ UNCHANGED <<connected, writable, pc>>
    BY <1>3 DEF WriteOperation
  <2>2. reported'[e].mask # {"in"}
    BY <1>1, <2>1 DEF ServedAll, Types, ModuleTypes
  <2>3. pc'[e] = "deal"
    BY <2>1 DEF WriteOperation, Deals
  <2> QED BY <1>1, <1>2, <2>1, <2>2, <2>3, ErrorStep DEF buffVars, streamVars
<1>4. CASE ~(failed[e] \/ (~connected[e] /\ ConnectError(e)))
  <2>1. /\ connected'[e] /\ UNCHANGED kernelVars /\ failed' = failed
        /\ messages' = IF connected[e] THEN messages ELSE PushMessageEvent(e, "connected", 0)
    BY <1>1, <1>4 DEF WriteOperation, Types, SocketTypes
  <2>2. CASE connected[e]
    BY <1>2, <2>1, <2>2, QuietStep DEF OwnStep, kernelVars, buffVars, streamVars
  <2>3. CASE ~connected[e]
    <3>1. messages'[e] = Append(messages[e], Message("connected", 0))
      BY <1>1, <2>1, <2>3 DEF PushMessageEvent, Types, MessageTypes
    <3> QED BY <1>2, <1>4, <2>1, <2>3, <3>1, ConnectedStep DEF kernelVars, buffVars, streamVars
  <2> QED BY <2>2, <2>3
<1> QED BY <1>3, <1>4

\* send or recv says that the connection is over.
LEMMA StreamErrors ==
    ASSUME DataInv, DataInv', ControlInv, StreamInv, NEW e \in Ends, OwnStep(e),
           SendError(e) \/ RecvEnds(e)
    PROVE  StreamInv'
<1>1. Types /\ Opening(e) /\ made[e] /\ connected[e]
  BY Active DEF DataInv, StreamInv, SendError, Sending, RecvEnds, Reading, Opening
<1>2. /\ UNCHANGED <<made, connected>> /\ UNCHANGED buffVars /\ UNCHANGED streamVars
      /\ pc'[e] = "deal"
  BY <1>1 DEF SendError, RecvEnds, Types, ModuleTypes
<1>3. writable'[e] => writable[e]
  BY <1>1 DEF SendError, RecvEnds, Types, SocketTypes
<1>4. ErrorOperation(e) \/ UNCHANGED <<failed, messages, kernelVars>>
  BY DEF SendError, RecvEnds
<1>5. CASE ErrorOperation(e)
  BY <1>1, <1>2, <1>3, <1>5, ErrorStep DEF buffVars, streamVars
<1>6. CASE UNCHANGED <<failed, messages, kernelVars>>
  BY <1>1, <1>2, <1>3, <1>6, QuietStep DEF OwnStep, kernelVars, buffVars, streamVars
<1> QED BY <1>4, <1>5, <1>6

\* connect() is called, and goes on or is refused.
LEMMA StreamConnect ==
    ASSUME DataInv, DataInv', ControlInv, StreamInv, NEW e \in Ends, OwnStep(e), TcpConnect(e)
    PROVE  StreamInv'
<1>1. Types /\ e = "client" /\ ~made[e] /\ link = "none"
  <2>1. Types /\ StartsAt(e, "connect")
    BY RunsMade DEF DataInv, TcpConnect
  <2> QED BY <2>1 DEF StartsAt, ControlInv, Control, LinkInv
<1>2. /\ UNCHANGED <<connected, writable, pc, reported>> /\ UNCHANGED buffVars
      /\ UNCHANGED streamVars /\ pc[e] = "deal"
  BY DEF TcpConnect, Runs
<1>3. CASE Connect(e)
  <2>1. UNCHANGED <<side, unsent, unread, fin, reset, failed, messages>>
    BY <1>3 DEF Connect
  <2>2. ~Over(e)
    BY <1>1 DEF StreamInv, SideInv, Over
  <2> QED BY <1>2, <2>1, <2>2, QuietStep DEF OwnStep, buffVars, streamVars
<1>4. ASSUME NEW f \in ConnectFailures, FirstError(e, f.open, f.closed) PROVE StreamInv'
  <2>1. e # "server"
    BY <1>1
  <2> QED BY <1>2, <1>4, <2>1, FailedStep DEF buffVars, streamVars
<1> QED BY <1>3, <1>4 DEF TcpConnect

\* An accepted connector is registered and connected.
LEMMA StreamAccepted ==
    ASSUME DataInv, DataInv', ControlInv, StreamInv, NEW e \in Ends, OwnStep(e), Accepted(e)
    PROVE  StreamInv'
<1>1. Types /\ made[e] /\ Blank(e)
  <2>1. Types /\ StartsAt(e, "accepted") /\ ("accepted" \in Starts => Fresh(e))
    BY RunsMade DEF DataInv, Accepted
  <2> QED BY <2>1 DEF StartsAt, Starts, ControlInv, Control
<1>2. /\ UNCHANGED <<made, writable, pc, reported>> /\ UNCHANGED buffVars
      /\ UNCHANGED streamVars /\ pc[e] = "deal"
  BY DEF Accepted, Runs
<1>3. ASSUME NEW f \in AcceptedFailures, FirstError(e, f.open, f.closed), UNCHANGED connected
      PROVE  StreamInv'
  <2>1. e = "server" => ~backlog
    BY <1>1 DEF ControlInv, Control, LinkInv
  <2> QED BY <1>2, <1>3, <2>1, FailedStep DEF buffVars, streamVars
<1>4. CASE /\ connected' = [connected EXCEPT ![e] = TRUE]
           /\ messages' = PushMessageEvent(e, "connected", 0)
           /\ UNCHANGED <<side, unsent, unread, fin, reset, failed>>
  <2>1. connected'[e] /\ messages'[e] = Append(messages[e], Message("connected", 0))
    BY <1>1, <1>4 DEF PushMessageEvent, Types, SocketTypes, MessageTypes
  <2>2. ~failed[e] /\ ~connected[e]
    BY <1>1 DEF Blank
  <2> QED BY <1>2, <1>4, <2>1, <2>2, ConnectedStep DEF buffVars, streamVars
<1> QED BY <1>3, <1>4 DEF Accepted

\* A connector is closed.
LEMMA StreamClose ==
    ASSUME DataInv, DataInv', ControlInv, StreamInv, NEW e \in Ends, OwnStep(e), CloseOperator(e)
    PROVE  StreamInv'
<1>1. made[e]
  <2>1. StartsAt(e, "close")
    BY RunsMade DEF DataInv, CloseOperator
  <2> QED BY <2>1 DEF StartsAt
<1>2. /\ UNCHANGED <<made, connected, writable, pc, reported>> /\ UNCHANGED buffVars
      /\ UNCHANGED streamVars /\ pc[e] = "deal" /\ ErrorOperation(e)
  BY DEF CloseOperator, Runs
<1> QED BY <1>1, <1>2, ErrorStep DEF buffVars, streamVars

\* The session's calls are events that wait.
LEMMA StreamCalls ==
    ASSUME DataInv, DataInv', StreamInv, NEW e \in Ends, OwnStep(e), Send(e) \/ Close(e)
    PROVE  StreamInv'
<1>1. /\ UNCHANGED kernelVars /\ UNCHANGED socketVars /\ UNCHANGED <<pc, reported>>
      /\ UNCHANGED buffVars /\ UNCHANGED messages /\ UNCHANGED streamVars
  BY DEF Send, Close
<1> QED BY <1>1, QuietStep DEF OwnStep, kernelVars, socketVars, buffVars, streamVars

-----------------------------------------------------------------------------
(* The third layer of the invariant: units move *)

\* What a step that moves units of e towards its peer leaves as it is.
LEMMA SenderStep ==
    ASSUME DataInv, DataInv', StreamInv, NEW e \in Ends, OwnStep(e),
           UNCHANGED <<failed[e], reset[e], side[e], unread[e], fin[e], made[e]>>,
           UNCHANGED <<connected[e], opened[e], messages[e], output[e], recvBuff[e]>>,
           accepted'[e] >= accepted[e], writable'[e] = writable[e],
           reported'[e].mask = reported[e].mask,
           unsent'[e] = unsent[e] \/ connected[e],
           pc'[e] # "deal" => pc[e] # "deal" \/ connected[e],
           StreamTo(e)'
    PROVE  StreamInv'
<1> DEFINE q == Peer(e)
<1>1. q \in Ends /\ q # e /\ Peer(q) = e
  BY Constants
<1>2. Types /\ Types'
  BY DEF DataInv
<1>3. Opening(e) /\ Numbered(e) /\ SideInv(e) /\ StreamTo(q)
  BY <1>1 DEF StreamInv
<1>4. /\ failed'[q] = failed[q] /\ reset'[q] = reset[q] /\ Popped(q)' = Popped(q)
      /\ Over(q)' = Over(q) /\ accepted'[q] = accepted[q]
      /\ unsent'[q] = unsent[q] /\ sendBuff'[q] = sendBuff[q]
  BY <1>2, OtherEnd DEF OwnStep
<1>5. Opening(e)'
  BY <1>3, OpeningKept DEF OwnStep
<1>6. Numbered(e)' /\ Popped(e)' = Popped(e)
  BY <1>1, <1>2, <1>3, <1>4, NumberedKept DEF Types, StreamTypes
<1>7. SideInv(e)' /\ Over(e)' = Over(e)
  BY <1>3 DEF SideInv, Over, OwnStep
<1>8. Received(q)' = Received(q)
  BY <1>1 DEF Received
<1>9. StreamTo(q)'
  <2> HIDE DEF q
  <2> QED BY <1>1, <1>3, <1>4, <1>6, <1>7, <1>8, StreamSame
<1> QED BY <1>5, <1>6, <1>7, <1>9, StreamAll DEF OwnStep

\* A message gets into the send buffer, behind complete ones.
LEMMA StreamSends ==
    ASSUME DataInv, DataInv', ControlInv, StreamInv, NEW e \in Ends, OwnStep(e), SendOperator(e)
    PROVE  StreamInv'
<1> DEFINE q == Peer(e)
           n == Popped(q) + 1
           m == accepted[e]
<1>1. Types /\ Types' /\ Opening(e) /\ StreamTo(e) /\ q \in Ends
  BY Constants DEF DataInv, StreamInv
<1>2. /\ UNCHANGED kernelVars /\ UNCHANGED socketVars /\ reported' = reported
      /\ UNCHANGED <<recvBuff, messages, opened, output>> /\ pc[e] = "deal"
  BY DEF SendOperator, Runs
<1>3. CASE failed[e]
  <2>1. UNCHANGED <<pc, sendBuff, accepted>>
    BY <1>3 DEF SendOperator
  <2> QED BY <1>2, <2>1, QuietStep DEF OwnStep, kernelVars, socketVars
<1>4. CASE ~failed[e]
  <2>1. /\ accepted'[e] = m + 1 /\ sendBuff'[e] = sendBuff[e] \o Units(e, m + 1)
        /\ pc'[e] # "deal" => writable[e]
    BY <1>1, <1>2, <1>4 DEF SendOperator, Types, StreamTypes, BuffTypes, ModuleTypes
  <2>2. m \in Nat /\ m + 1 \in 1 .. Len(Bodies[e])
    BY NextMessage DEF SendOperator
  <2>3. Popped(q)' = Popped(q) /\ Over(q)' = Over(q) /\ Received(e)' = Received(e)
        /\ failed'[q] = failed[q]
    BY <1>1, <2>1, <2>2, OtherEnd DEF OwnStep
  <2>4. n \in Nat /\ n' = n
    BY <1>1, <2>3, PoppedType
  <2>5. /\ sendBuff[e] \in Seq(Valid(e)) /\ Underway(e) \in Seq(Valid(e))
        /\ Outstanding(e) \in Seq(Valid(e)) /\ Units(e, m + 1) \in Seq(Valid(e))
    BY <2>2, Segments, UnitsValid
  <2>6. Underway(e)' = Underway(e)
    BY <1>2, <2>3 DEF Underway, kernelVars
  <2>7. Outstanding(e)' = Outstanding(e) \o Units(e, m + 1)
    <3> DEFINE u == Units(e, m + 1)
           S == Valid(e)
           a == Underway(e)
           b == sendBuff[e]
    <3>0. u \in Seq(S) /\ a \in Seq(S) /\ b \in Seq(S)
      BY <2>5
    <3> HIDE DEF u, S, a, b
    <3>1. (a \o b) \o u = a \o (b \o u)
      BY <3>0, ConcatAssociative
    <3> QED BY <2>1, <2>6, <3>1 DEF Outstanding, a, b, u
  <2>8. ASSUME From(e, Outstanding(e), n), UpTo(e, Outstanding(e), n, m)
        PROVE  From(e, Outstanding(e)', n) /\ UpTo(e, Outstanding(e)', n, m + 1)
    <3> HIDE DEF n, m
    <3> QED BY <2>2, <2>4, <2>5, <2>7, <2>8, FromAppend
  <2>9. StreamTo(e)'
    <3>1. ASSUME ~failed'[q]
          PROVE  /\ From(e, Received(e), n)'
                 /\ ~Over(q)' =>
                      /\ From(e, Underway(e), n)'
                      /\ ~failed'[e] /\ ~reset'[e] =>
                            (From(e, Outstanding(e), n) /\ UpTo(e, Outstanding(e), n, accepted[e]))'
      <4>1. /\ From(e, Received(e), n)
            /\ ~Over(q) =>
                 /\ From(e, Underway(e), n)
                 /\ ~failed[e] /\ ~reset[e] =>
                       From(e, Outstanding(e), n) /\ UpTo(e, Outstanding(e), n, accepted[e])
        BY <1>1, <2>3, <3>1 DEF StreamTo
      <4>2. failed'[e] = failed[e] /\ reset'[e] = reset[e]
        BY <1>2 DEF socketVars, kernelVars
      <4>3. From(e, Received(e)', n')
        BY <2>3, <2>4, <4>1
      <4>4. ~Over(q)' => From(e, Underway(e)', n')
        BY <2>3, <2>4, <2>6, <4>1
      <4>5. ~Over(q)' /\ ~failed'[e] /\ ~reset'[e] =>
               From(e, Outstanding(e)', n') /\ UpTo(e, Outstanding(e)', n', accepted'[e])
        BY <2>1, <2>3, <2>4, <2>8, <4>1, <4>2
      <4> HIDE DEF n
      <4> QED BY <4>3, <4>4, <4>5 DEF From, InOrder, UpTo, Length
    <3> QED BY <3>1 DEF StreamTo
  <2> QED BY <1>1, <1>2, <2>1, <2>2, <2>9, SenderStep DEF kernelVars, socketVars, Opening
<1> QED BY <1>3, <1>4

\* From the send buffer into the kernel: the units are the same.
LEMMA StreamSome ==
    ASSUME DataInv, DataInv', ControlInv, StreamInv, NEW e \in Ends, OwnStep(e), SendSome(e)
    PROVE  StreamInv'
<1> DEFINE q == Peer(e)
           n == Popped(q) + 1
           S == Valid(e)
           k == Least(SendRoom(e), Len(sendBuff[e]))
           r == Received(e)
           a == unsent[e]
           b == sendBuff[e]
<1>1. /\ Types /\ Types' /\ Opening(e) /\ StreamTo(e) /\ q \in Ends /\ pc[e] # "deal"
      /\ ~reset[e] /\ SendRoom(e) > 0
  BY Constants DEF DataInv, StreamInv, SendSome, Sending
<1>2. ~failed[e] /\ connected[e]
  BY <1>1 DEF ControlInv, Control, EndInv, Opening
<1>3. /\ UNCHANGED <<side, unread, fin, reset>> /\ UNCHANGED socketVars /\ reported' = reported
      /\ UNCHANGED <<recvBuff, messages>> /\ UNCHANGED streamVars
  BY DEF SendSome
<1>4. a \in Seq(S) /\ b \in Seq(S) /\ r \in Seq(S) /\ Len(a) \in Nat /\ Len(b) \in Nat
  BY Segments, LenProperties
<1>5. k \in 0 .. Len(b)
  <2>1. SendRoom(e) \in Nat
    BY <1>1, <1>4, Constants DEF SendRoom
  <2> HIDE DEF b
  <2> QED BY <1>4, <2>1, LeastFacts DEF b
<1>6. unsent'[e] = a \o SubSeq(b, 1, k) /\ sendBuff'[e] = Drop(b, k)
  BY <1>1 DEF SendSome, SentUnits, Types, KernelTypes, BuffTypes
<1>7. /\ Popped(q)' = Popped(q) /\ Over(q)' = Over(q) /\ Received(e)' = r
      /\ failed'[q] = failed[q]
  <2>1. accepted'[e] >= accepted[e]
    BY <1>1, <1>3 DEF streamVars, Types, StreamTypes
  <2> QED BY <1>1, <2>1, OtherEnd DEF OwnStep
<1>8. /\ Outstanding(e)' = Outstanding(e) /\ Underway(e)' \in Seq(S) /\ sendBuff'[e] \in Seq(S)
      /\ Outstanding(e)' = Underway(e)' \o sendBuff'[e]
  <2> HIDE DEF S, k, r, a, b
  <2>1. /\ (a \o SubSeq(b, 1, k)) \o Drop(b, k) = a \o b
        /\ a \o SubSeq(b, 1, k) \in Seq(S) /\ Drop(b, k) \in Seq(S)
    BY <1>4, <1>5, Moved
  <2>2. r \o ((a \o SubSeq(b, 1, k)) \o Drop(b, k)) = (r \o (a \o SubSeq(b, 1, k))) \o Drop(b, k)
    <3> DEFINE c == a \o SubSeq(b, 1, k)
               d == Drop(b, k)
    <3>1. r \in Seq(S) /\ c \in Seq(S) /\ d \in Seq(S)
      BY <1>4, <2>1
    <3> HIDE DEF c, d
    <3>2. (r \o c) \o d = r \o (c \o d)
      BY <3>1, ConcatAssociative
    <3> QED BY <3>2 DEF c, d
  <2>3. r \o (a \o b) = (r \o a) \o b
    BY <1>4, ConcatAssociative
  <2>4. r \o (a \o SubSeq(b, 1, k)) \in Seq(S)
    BY <1>4, <2>1, ConcatProperties
  <2>5. Underway(e)' = r \o (a \o SubSeq(b, 1, k)) /\ Underway(e) = r \o a
    BY <1>6, <1>7 DEF Underway, r, a
  <2>6. Outstanding(e)' = Underway(e)' \o sendBuff'[e] /\ Outstanding(e) = (r \o a) \o b
    BY <2>5 DEF Outstanding, b
  <2> QED BY <1>6, <2>1, <2>2, <2>3, <2>4, <2>5, <2>6
<1>9. StreamTo(e)'
  <2>1. ASSUME ~failed'[q]
        PROVE  /\ From(e, Received(e)', n)
               /\ ~Over(q)' =>
                    /\ From(e, Underway(e)', n)
                    /\ From(e, Outstanding(e)', n) /\ UpTo(e, Outstanding(e)', n, accepted'[e])
    <3>1. /\ From(e, Received(e), n)
          /\ ~Over(q) => From(e, Outstanding(e), n) /\ UpTo(e, Outstanding(e), n, accepted[e])
      BY <1>1, <1>2, <1>7, <2>1 DEF StreamTo
    <3>2. ASSUME ~Over(q)' PROVE From(e, Underway(e)', n)
      <4>1. From(e, Underway(e)' \o sendBuff'[e], n)
        BY <1>7, <1>8, <3>1, <3>2
      <4> HIDE DEF n
      <4> QED BY <1>8, <4>1, FromPrefix
    <3> QED BY <1>3, <1>7, <1>8, <3>1, <3>2 DEF streamVars
  <2>2. n' = n
    BY <1>7
  <2> HIDE DEF n
  <2> QED BY <2>1, <2>2 DEF StreamTo, From, InOrder, UpTo, Length, n
<1>10. accepted'[e] >= accepted[e]
  BY <1>1, <1>3 DEF streamVars, Types, StreamTypes
<1> QED BY <1>2, <1>3, <1>9, <1>10, SenderStep DEF socketVars, streamVars

\* A step of the receiver: the units stay where they are, or are a message less.
LEMMA ReceiverStep ==
    ASSUME DataInv, DataInv', StreamInv, NEW e \in Ends, OwnStep(e),
           UNCHANGED <<failed[e], reset[e], side[e], unsent[e], fin[e], made[e], connected[e]>>,
           UNCHANGED <<accepted[e], sendBuff[e]>>,
           Opening(e)', Numbered(e)', StreamTo(Peer(e))'
    PROVE  StreamInv'
<1> DEFINE q == Peer(e)
<1>1. q \in Ends /\ q # e /\ Peer(q) = e
  BY Constants
<1>2. Types /\ Types' /\ accepted'[e] >= accepted[e]
  BY DEF DataInv, Types, StreamTypes
<1>3. SideInv(e) /\ StreamTo(e)
  BY DEF StreamInv
<1>4. /\ failed'[q] = failed[q] /\ Popped(q)' = Popped(q) /\ Over(q)' = Over(q)
      /\ Received(e)' = Received(e)
  BY <1>2, OtherEnd DEF OwnStep
<1>5. SideInv(e)'
  BY <1>3 DEF SideInv, Over, OwnStep
<1>6. StreamTo(e)'
  BY <1>3, <1>4, StreamSame
<1> QED BY <1>2, <1>5, <1>6, StreamAll DEF OwnStep

\* From the kernel into the receive buffer: the units are the same.
LEMMA StreamRecv ==
    ASSUME DataInv, DataInv', ControlInv, StreamInv, NEW e \in Ends, OwnStep(e), Recv(e)
    PROVE  StreamInv'
<1> DEFINE q == Peer(e)
           S == Valid(q)
           k == Least(FreeSize(e), Len(unread[e]))
           a == recvBuff[e]
           b == unread[e]
<1>1. /\ Types /\ Types' /\ Opening(e) /\ Numbered(e) /\ pc[e] # "deal" /\ FreeSize(e) > 0
      /\ unread[e] # <<>> /\ q \in Ends /\ q # e /\ Peer(q) = e /\ StreamTo(q)
  BY Constants DEF DataInv, StreamInv, Recv, Reading
<1>2. connected[e]
  BY <1>1 DEF Opening
<1>3. /\ UNCHANGED <<link, side, unsent, fin, reset>> /\ UNCHANGED socketVars
      /\ reported' = reported /\ UNCHANGED <<sendBuff, messages>> /\ UNCHANGED streamVars
  BY DEF Recv
<1>4. a \in Seq(S) /\ b \in Seq(S) /\ Len(a) \in Nat /\ Len(b) \in Nat
  <2> HIDE DEF q
  <2> QED BY <1>1, Segments, LenProperties
<1>5. k \in 0 .. Len(b)
  <2>1. FreeSize(e) \in Nat
    <3>1. dataLen[e] \in Nat
      BY <1>1 DEF Types, BuffTypes
    <3> QED BY <1>1, <1>4, <3>1 DEF FreeSize
  <2>2. Len(unread[e]) \in Nat
    BY <1>4
  <2>3. k \in Nat /\ k <= Len(unread[e])
    BY <2>1, <2>2, LeastFacts
  <2> QED BY <2>2, <2>3
<1>6. recvBuff'[e] = a \o SubSeq(b, 1, k) /\ unread'[e] = Drop(b, k)
  BY <1>1 DEF Recv, Types, KernelTypes, BuffTypes
<1>7. Received(q)' = Received(q)
  <2>1. Received(q)' = recvBuff'[e] \o unread'[e] /\ Received(q) = a \o b
    BY <1>1 DEF Received
  <2> HIDE DEF S, k, a, b
  <2>2. (a \o SubSeq(b, 1, k)) \o Drop(b, k) = a \o b
    BY <1>4, <1>5, Moved
  <2> QED BY <1>6, <2>1, <2>2
<1>8. Opening(e)'
  BY <1>1, <1>2, <1>3, OpeningKept DEF socketVars, streamVars
<1>9. /\ failed'[q] = failed[q] /\ reset'[q] = reset[q] /\ accepted'[q] = accepted[q]
      /\ unsent'[q] = unsent[q] /\ sendBuff'[q] = sendBuff[q]
  BY <1>3 DEF socketVars, streamVars
<1>10. Numbered(e)' /\ Popped(e)' = Popped(e)
  BY <1>1, <1>3, <1>9, NumberedKept DEF Types, StreamTypes, streamVars
<1>11. StreamTo(q)'
  <2>1. Over(e)' = Over(e) /\ failed'[e] = failed[e]
    BY <1>3 DEF Over, socketVars
  <2> HIDE DEF q
  <2> QED BY <1>1, <1>7, <1>9, <1>10, <2>1, StreamSame
<1> QED BY <1>3, <1>8, <1>10, <1>11, ReceiverStep DEF socketVars, streamVars

\* What is taken from the front of two sequences is taken from the first.
LEMMA DropConcat ==
    ASSUME NEW S, NEW s \in Seq(S), NEW t \in Seq(S), NEW n \in 0 .. Len(s)
    PROVE  Drop(s \o t, n) = Drop(s, n) \o t
<1> DEFINE u == s \o t
           v == Drop(s, n)
           x == Drop(u, n)
           y == v \o t
<1>1. /\ u \in Seq(S) /\ Len(u) = Len(s) + Len(t) /\ Len(s) \in Nat /\ Len(t) \in Nat
      /\ \A i \in 1 .. Len(u) : u[i] = IF i <= Len(s) THEN s[i] ELSE t[i - Len(s)]
  BY ConcatProperties, LenProperties
<1> HIDE DEF u
<1>2. /\ x \in Seq(S) /\ Len(x) = Len(u) - n
      /\ \A i \in 1 .. Len(u) - n : x[i] = u[n + i]
  <2>1. n \in 0 .. Len(u)
    BY <1>1
  <2> QED BY <1>1, <2>1, Split
<1>3. /\ v \in Seq(S) /\ Len(v) = Len(s) - n
      /\ \A i \in 1 .. Len(s) - n : v[i] = s[n + i]
  BY Split
<1> HIDE DEF v
<1>4. /\ y \in Seq(S) /\ Len(y) = Len(v) + Len(t)
      /\ \A i \in 1 .. Len(y) : y[i] = IF i <= Len(v) THEN v[i] ELSE t[i - Len(v)]
  <2>1. v \in Seq(S)
    BY <1>3
  <2>2. /\ v \o t \in Seq(S) /\ Len(v \o t) = Len(v) + Len(t)
        /\ \A i \in 1 .. Len(v) + Len(t) :
              (v \o t)[i] = IF i <= Len(v) THEN v[i] ELSE t[i - Len(v)]
    BY <2>1, ConcatProperties
  <2> QED BY <2>2
<1> HIDE DEF x, y
<1>5. ASSUME NEW i \in 1 .. Len(x) PROVE x[i] = y[i]
  <2>1. /\ i \in 1 .. Len(u) - n /\ i \in 1 .. Len(y) /\ n + i \in 1 .. Len(u) /\ n \in Nat
    BY <1>1, <1>2, <1>3, <1>4
  <2>2. x[i] = IF n + i <= Len(s) THEN s[n + i] ELSE t[(n + i) - Len(s)]
    BY <1>1, <1>2, <2>1
  <2>3. CASE n + i <= Len(s)
    <3>1. i \in 1 .. Len(s) - n /\ i <= Len(v)
      BY <1>1, <1>3, <2>1, <2>3
    <3>2. v[i] = s[n + i] /\ y[i] = v[i]
      BY <1>3, <1>4, <2>1, <3>1
    <3> QED BY <2>2, <2>3, <3>2
  <2>4. CASE ~(n + i <= Len(s))
    <3>1. ~(i <= Len(v)) /\ i - Len(v) = (n + i) - Len(s)
      BY <1>1, <1>3, <2>1, <2>4
    <3> QED BY <1>4, <2>1, <2>2, <2>4, <3>1
  <2> QED BY <2>3, <2>4
<1>6. Len(x) = Len(y)
  BY <1>1, <1>2, <1>3, <1>4
<1>7. x = y
  BY <1>2, <1>4, <1>5, <1>6, SeqEqual
<1> QED BY <1>7 DEF x, y, u, v

\* What is in front of the receiver's buffer is the next message.
LEMMA PackageIsNext ==
    ASSUME DataInv, StreamInv, NEW e \in Ends, ~failed[e], CheckPackage(e)
    PROVE  LET q == Peer(e)
               n == Popped(e) + 1 IN
           /\ n \in 1 .. accepted[q] /\ n \in 1 .. Len(Bodies[q])
           /\ Package(e) = n /\ PackageLength(e) = Length(q, n)
           /\ Length(q, n) \in 1 .. Len(recvBuff[e])
<1> DEFINE q == Peer(e)
           n == Popped(e) + 1
           a == recvBuff[e]
           b == unread[e]
<1>1. q \in Ends /\ Peer(q) = e /\ StreamTo(q) /\ Types
  BY Constants DEF StreamInv, DataInv
<1>2. a \in Seq(Valid(q)) /\ b \in Seq(Valid(q))
  <2> HIDE DEF q
  <2> QED BY <1>1, Segments
<1>3. /\ a # <<>> /\ PackageLength(e) \in 1 .. Len(a) /\ Head(a) = a[1] /\ a[1] \in Given(q)
  BY PackageFacts
<1>4. From(q, a, n)
  <2>1. From(q, a \o b, n)
    BY <1>1 DEF StreamTo, Received
  <2> HIDE DEF q, n, a, b
  <2> QED BY <1>1, <1>2, <2>1, FromPrefix
<1>5. a[1] = <<n, 1>>
  BY <1>3, <1>4 DEF From
<1>6. Head(a)[1] = n /\ Head(a)[2] = 1
  BY <1>3, <1>5
<1>7. n \in 1 .. accepted[q] /\ n \in 1 .. Len(Bodies[q])
  <2>1. a[1][1] \in 1 .. accepted[q] /\ a[1][1] \in 1 .. Len(Bodies[q])
    <3> HIDE DEF q
    <3> QED BY <1>1, <1>3, GivenUnit
  <2> QED BY <1>3, <1>6, <2>1
<1>8. PackageLength(e) = Length(q, n)
  <2>1. Len(Units(q, n)) = Length(q, n)
    <3> HIDE DEF q, n
    <3> QED BY <1>1, <1>7, UnitsProperties
  <2> QED BY <1>6, <2>1 DEF PackageLength
<1>9. SubSeq(a, 1, PackageLength(e)) = Units(q, n)
  <2>1. Length(q, n) <= Len(a)
    <3>1. Len(a) \in Nat
      BY <1>2, LenProperties
    <3> QED BY <1>3, <1>8, <3>1
  <2>2. SubSeq(a, 1, Length(q, n)) = Units(q, n)
    <3> HIDE DEF q, n, a
    <3> QED BY <1>1, <1>2, <1>4, <1>7, <2>1, FromDrop
  <2> QED BY <1>8, <2>2
<1>10. Package(e) = n
  BY <1>6, <1>9 DEF Package
<1> QED BY <1>3, <1>7, <1>8, <1>10

\* A message leaves the receive buffer for the session's queue.
LEMMA StreamPops ==
    ASSUME DataInv, DataInv', ControlInv, StreamInv, NEW e \in Ends, OwnStep(e), PopPackage(e)
    PROVE  StreamInv'
<1> DEFINE q == Peer(e)
           n == Popped(e) + 1
           L == Length(q, n)
           S == Valid(q)
           a == recvBuff[e]
           b == unread[e]
           c == unsent[q]
           d == sendBuff[q]
<1>1. /\ Types /\ Types' /\ Opening(e) /\ Numbered(e) /\ pc[e] # "deal" /\ CheckPackage(e)
      /\ q \in Ends /\ q # e /\ Peer(q) = e /\ StreamTo(q)
  BY Constants DEF DataInv, StreamInv, PopPackage
<1>2. ~failed[e] /\ connected[e]
  BY <1>1 DEF ControlInv, Control, EndInv, Opening
<1>3. /\ UNCHANGED kernelVars /\ UNCHANGED socketVars /\ UNCHANGED moduleVars
      /\ UNCHANGED sendBuff /\ UNCHANGED streamVars
  BY DEF PopPackage
<1>4. /\ n \in 1 .. accepted[q] /\ n \in 1 .. Len(Bodies[q])
      /\ Package(e) = n /\ PackageLength(e) = L /\ L \in 1 .. Len(a)
  BY <1>1, <1>2, PackageIsNext
<1>5. /\ messages'[e] = Append(messages[e], Message("recv", n)) /\ recvBuff'[e] = Drop(a, L)
  BY <1>1, <1>4 DEF PopPackage, PushMessageEvent, Types, MessageTypes, BuffTypes
<1>6. /\ Len(messages[e]) \in Nat /\ Len(messages'[e]) = Len(messages[e]) + 1
      /\ \A i \in 1 .. Len(messages[e]) : messages'[e][i] = messages[e][i]
      /\ messages'[e][Len(messages[e]) + 1] = [kind |-> "recv", number |-> n]
      /\ Told(e)' <=> Told(e)
      /\ Offset(e)' = Offset(e)
  <2>1. "recv" \in MessageKinds /\ "recv" # "connected" /\ n \in Nat
    BY <1>4 DEF MessageKinds
  <2> HIDE DEF n
  <2> QED BY <1>1, <1>5, <2>1, Pushed
<1>7. output'[e] = output[e] /\ Len(output[e]) \in Nat /\ Offset(e) \in {0, 1} /\ Popped(e) \in Nat
  BY <1>1, <1>3, PoppedType DEF streamVars
<1>8. Popped(e)' = n /\ n = Len(output[e]) + (Len(messages[e]) + 1) - Offset(e)
  <2>1. Popped(e)' = Len(output'[e]) + Len(messages'[e]) - Offset(e)'
    BY DEF Popped
  <2>2. Popped(e) = Len(output[e]) + Len(messages[e]) - Offset(e)
    BY DEF Popped
  <2>3. Len(output'[e]) = Len(output[e])
    BY <1>7
  <2>4. /\ Len(messages'[e]) = Len(messages[e]) + 1 /\ Offset(e)' = Offset(e)
        /\ Len(messages[e]) \in Nat /\ Len(output[e]) \in Nat /\ Offset(e) \in Nat
    BY <1>6, <1>7
  <2>5. Popped(e)' = Len(output[e]) + (Len(messages[e]) + 1) - Offset(e)
    BY <2>1, <2>3, <2>4
  <2> QED BY <2>2, <2>4, <2>5
<1>9. \A i \in 1 .. Len(messages'[e]) :
          \/ i \in 1 .. Len(messages[e]) /\ messages'[e][i] = messages[e][i]
          \/ /\ i = Len(messages[e]) + 1
             /\ messages'[e][i].kind = "recv" /\ messages'[e][i].number = n
  BY <1>6
<1>10. Opening(e)'
  BY <1>1, <1>2, <1>3, <1>6, <1>9 DEF Opening, kernelVars, socketVars, moduleVars, streamVars
<1>11. Numbered(e)'
  <2>1. accepted' = accepted /\ Len(output'[e]) = Len(output[e])
    BY <1>3, <1>7 DEF streamVars
  <2>2. ASSUME NEW i \in 1 .. Len(messages'[e]), messages'[e][i].kind = "recv"
        PROVE  /\ messages'[e][i].number = Len(output'[e]) + i - Offset(e)'
               /\ messages'[e][i].number <= accepted'[q]
    <3>1. CASE i \in 1 .. Len(messages[e]) /\ messages'[e][i] = messages[e][i]
      BY <1>1, <1>6, <2>1, <2>2, <3>1 DEF Numbered
    <3>2. CASE i = Len(messages[e]) + 1 /\ messages'[e][i].number = n
      <4> HIDE DEF n
      <4> QED BY <1>4, <1>6, <1>7, <1>8, <2>1, <3>2
    <3> QED BY <1>9, <3>1, <3>2
  <2> QED BY <2>2 DEF Numbered
<1>12. /\ a \in Seq(S) /\ b \in Seq(S) /\ c \in Seq(S) /\ d \in Seq(S)
       /\ Received(q) = a \o b /\ Received(q) \in Seq(S)
       /\ Underway(q) = Received(q) \o c /\ Underway(q) \in Seq(S)
       /\ Outstanding(q) = Underway(q) \o d /\ Outstanding(q) \in Seq(S)
  <2> HIDE DEF q
  <2> QED BY <1>1, Segments DEF Received, Underway, Outstanding
<1>13. /\ Received(q)' = Drop(a, L) \o b
       /\ Underway(q)' = Received(q)' \o c
       /\ Outstanding(q)' = Underway(q)' \o d
  BY <1>1, <1>3, <1>5 DEF Received, Underway, Outstanding, kernelVars
<1>14. /\ L \in 0 .. Len(a) /\ L \in 0 .. Len(Received(q)) /\ L \in 0 .. Len(Underway(q))
       /\ L \in 0 .. Len(Outstanding(q))
  <2>1. /\ Len(Received(q)) = Len(a) + Len(b) /\ Len(Underway(q)) = Len(Received(q)) + Len(c)
        /\ Len(Outstanding(q)) = Len(Underway(q)) + Len(d)
        /\ Len(a) \in Nat /\ Len(b) \in Nat /\ Len(c) \in Nat /\ Len(d) \in Nat
    <3> HIDE DEF q, S
    <3> QED BY <1>12, ConcatProperties, LenProperties
  <2>2. L \in Nat /\ L <= Len(a)
    BY <1>4, <2>1
  <2> HIDE DEF q, L, a, b, c, d
  <2> QED BY <2>1, <2>2
<1>15. /\ Received(q)' = Drop(Received(q), L) /\ Underway(q)' = Drop(Underway(q), L)
       /\ Outstanding(q)' = Drop(Outstanding(q), L)
  <2> HIDE DEF q, S, L, a, b, c, d
  <2>1. Received(q)' = Drop(Received(q), L)
    BY <1>12, <1>13, <1>14, DropConcat
  <2>2. Underway(q)' = Drop(Underway(q), L)
    BY <1>12, <1>13, <1>14, <2>1, DropConcat
  <2>3. Outstanding(q)' = Drop(Outstanding(q), L)
    BY <1>12, <1>13, <1>14, <2>2, DropConcat
  <2> QED BY <2>1, <2>2, <2>3
<1>16. \A s \in Seq(S) : L <= Len(s) /\ From(q, s, n) =>
          /\ From(q, Drop(s, L), n + 1)
          /\ \A m \in Nat : UpTo(q, s, n, m) => UpTo(q, Drop(s, L), n + 1, m)
  <2> HIDE DEF q, n
  <2> QED BY <1>1, <1>4, FromDrop
<1>17. StreamTo(q)'
  <2>1. /\ From(q, Received(q), n)
        /\ ~Over(e) =>
             /\ From(q, Underway(q), n)
             /\ ~failed[q] /\ ~reset[q] =>
                   From(q, Outstanding(q), n) /\ UpTo(q, Outstanding(q), n, accepted[q])
    BY <1>1, <1>2 DEF StreamTo
  <2>2. /\ Over(e)' = Over(e) /\ failed'[q] = failed[q] /\ reset'[q] = reset[q]
        /\ accepted'[q] = accepted[q] /\ accepted[q] \in Nat
    BY <1>1, <1>3 DEF Over, kernelVars, socketVars, streamVars, Types, StreamTypes
  <2>3. /\ L <= Len(Received(q)) /\ L <= Len(Underway(q)) /\ L <= Len(Outstanding(q))
    BY <1>14
  <2>4. (Popped(e) + 1)' = n + 1
    BY <1>8
  <2> HIDE DEF n, L, S
  <2>5. From(q, Received(q)', n + 1)
    BY <1>12, <1>15, <1>16, <2>1, <2>3
  <2>6. ~Over(e)' => From(q, Underway(q)', n + 1)
    BY <1>12, <1>15, <1>16, <2>1, <2>2, <2>3
  <2>7. ~Over(e)' /\ ~failed'[q] /\ ~reset'[q] =>
           From(q, Outstanding(q)', n + 1) /\ UpTo(q, Outstanding(q)', n + 1, accepted'[q])
    BY <1>12, <1>15, <1>16, <2>1, <2>2, <2>3
  <2> QED BY <1>1, <2>4, <2>5, <2>6, <2>7 DEF StreamTo, From, InOrder, UpTo, Length
<1>18. UNCHANGED accepted /\ UNCHANGED <<failed, reset, side, unsent, fin, made, connected>>
  BY <1>3 DEF kernelVars, socketVars, streamVars
<1> QED BY <1>3, <1>10, <1>11, <1>17, <1>18, ReceiverStep

\* The session handles a message: it has been told one more, and one less waits.
LEMMA StreamHandles ==
    ASSUME DataInv, DataInv', ControlInv, StreamInv, NEW e \in Ends, OwnStep(e), HandleMessage(e)
    PROVE  StreamInv'
<1> DEFINE q == Peer(e)
           M == [kind : MessageKinds, number : Nat]
           f == messages[e][1]
<1>1. /\ Types /\ Types' /\ Opening(e) /\ Numbered(e) /\ EndInv(e)
      /\ q \in Ends /\ q # e /\ Peer(q) = e /\ StreamTo(q)
  BY Constants DEF DataInv, StreamInv, ControlInv, Control
<1>2. /\ UNCHANGED kernelVars /\ UNCHANGED socketVars /\ UNCHANGED moduleVars
      /\ UNCHANGED buffVars /\ UNCHANGED accepted
  BY DEF HandleMessage
<1>3. messages[e] \in Seq(M) /\ messages[e] # <<>> /\ messages'[e] = Tail(messages[e])
  BY <1>1 DEF HandleMessage, Types, MessageTypes
<1>4. /\ Len(messages[e]) \in Nat /\ Len(messages[e]) > 0 /\ Head(messages[e]) = f
      /\ messages'[e] \in Seq(M) /\ Len(messages'[e]) = Len(messages[e]) - 1
      /\ \A i \in 1 .. Len(messages'[e]) : messages'[e][i] = messages[e][i + 1]
  <2> HIDE DEF M
  <2> QED BY <1>3, HeadTailProperties, EmptySeq, LenProperties
<1>5. 1 \in 1 .. Len(messages[e]) /\ f.kind \in MessageKinds /\ f.number \in Nat
  <2>1. 1 \in 1 .. Len(messages[e])
    BY <1>4
  <2>2. f \in M
    <3> HIDE DEF M
    <3> QED BY <1>3, <2>1, ElementOfSeq
  <2> QED BY <2>1, <2>2
<1>6. ASSUME NEW i \in 1 .. Len(messages'[e])
      PROVE  /\ i + 1 \in 1 .. Len(messages[e]) /\ i + 1 # 1 /\ i \in Nat
             /\ messages'[e][i] = messages[e][i + 1]
             /\ messages'[e][i].kind # "connected"
  <2>1. i + 1 \in 1 .. Len(messages[e]) /\ i + 1 # 1 /\ messages'[e][i] = messages[e][i + 1]
    BY <1>4
  <2> QED BY <1>1, <2>1 DEF Opening
<1>7. ~Told(e)' /\ Offset(e)' = 0 /\ (Told(e) <=> f.kind = "connected")
  <2>1. ~Told(e)'
    <3>1. Len(messages'[e]) > 0 => 1 \in 1 .. Len(messages'[e])
      BY <1>4
    <3> QED BY <1>6, <3>1 DEF Told
  <2> QED BY <1>4, <2>1 DEF Told, Offset
<1>8. /\ opened'[e] = (opened[e] \/ f.kind = "connected")
      /\ output'[e] = IF f.kind = "recv" THEN Append(output[e], f.number) ELSE output[e]
  BY <1>1, <1>4 DEF HandleMessage, Types, StreamTypes
<1>9. Len(output[e]) \in Nat /\ Len(output'[e]) = Len(output[e]) + (IF f.kind = "recv" THEN 1 ELSE 0)
  <2>1. output[e] \in Seq(Nat) /\ Len(output[e]) \in Nat
    BY <1>1, PoppedType DEF Types, StreamTypes
  <2>2. CASE f.kind = "recv"
    BY <1>5, <1>8, <2>1, <2>2, AppendProperties
  <2>3. CASE f.kind # "recv"
    BY <1>8, <2>1, <2>3
  <2> QED BY <2>2, <2>3
<1>10. f.kind # "close" => connected[e] /\ connected'[e]
  BY <1>1, <1>2, <1>5 DEF Opening, socketVars
<1>11. f.kind = "close" => failed[e] /\ ~(\E i \in 1 .. Len(messages'[e]) : TRUE)
  <2> SUFFICES ASSUME f.kind = "close" PROVE failed[e] /\ ~(\E i \in 1 .. Len(messages'[e]) : TRUE)
    OBVIOUS
  <2>1. failed[e] /\ 1 = Len(messages[e])
    BY <1>1, <1>5 DEF EndInv
  <2> QED BY <1>4, <2>1
<1>12. Opening(e)'
  <2>1. connected'[e] = connected[e] /\ connected[e] \in BOOLEAN /\ opened[e] \in BOOLEAN
    BY <1>1, <1>2 DEF socketVars, Types, SocketTypes, StreamTypes
  <2>2. connected'[e] <=> opened'[e] \/ Told(e)'
    BY <1>1, <1>7, <1>8, <2>1 DEF Opening
  <2>3. \A i \in 1 .. Len(messages'[e]) : messages'[e][i].kind = "connected" => i = 1
    BY <1>6
  <2>4. ~connected'[e] => \A i \in 1 .. Len(messages'[e]) : messages'[e][i].kind = "close"
    BY <1>1, <1>6, <2>1 DEF Opening
  <2>5. ~connected'[e] => output'[e] = <<>> /\ unsent'[e] = <<>> /\ ~writable'[e]
    BY <1>1, <1>2, <1>8, <1>10, <2>1 DEF Opening, kernelVars, socketVars
  <2>6. /\ pc'[e] = pc[e] /\ reported'[e] = reported[e] /\ unread'[e] = unread[e]
        /\ fin'[e] = fin[e] /\ link' = link
    BY <1>2 DEF kernelVars, moduleVars
  <2> QED BY <1>1, <1>7, <2>1, <2>2, <2>3, <2>4, <2>5, <2>6 DEF Opening
<1>13. /\ Offset(e) \in Nat /\ Len(output'[e]) \in Nat
       /\ f.kind # "close" => Len(output'[e]) = Len(output[e]) + 1 - Offset(e)
  <2>0. Len(output[e]) \in Nat /\ 0 \in Nat /\ 1 \in Nat
    BY <1>9
  <2>1. CASE f.kind = "connected"
    <3>1. Offset(e) = 1 /\ Len(output'[e]) = Len(output[e])
      BY <1>7, <1>8, <2>1 DEF Offset
    <3>2. Len(output[e]) = Len(output[e]) + 1 - 1
      BY <2>0
    <3> QED BY <2>0, <3>1, <3>2
  <2>2. CASE f.kind = "recv"
    <3>1. Offset(e) = 0 /\ Len(output'[e]) = Len(output[e]) + 1
      BY <1>7, <1>9, <2>2 DEF Offset
    <3>2. Len(output[e]) + 1 \in Nat /\ Len(output[e]) + 1 = Len(output[e]) + 1 - 0
      BY <2>0
    <3> QED BY <2>0, <3>1, <3>2
  <2>3. CASE f.kind = "close"
    <3>1. Offset(e) = 0 /\ Len(output'[e]) = Len(output[e])
      BY <1>7, <1>8, <2>3 DEF Offset
    <3> QED BY <1>9, <2>3, <3>1
  <2> QED BY <1>5, <2>1, <2>2, <2>3 DEF MessageKinds
<1>14. Numbered(e)'
  <2>1. ASSUME NEW i \in 1 .. Len(messages'[e]), messages'[e][i].kind = "recv"
        PROVE  /\ messages'[e][i].number = Len(output'[e]) + i - Offset(e)'
               /\ messages'[e][i].number <= accepted'[q]
    <3>1. /\ messages'[e][i].number = Len(output[e]) + (i + 1) - Offset(e)
          /\ messages'[e][i].number <= accepted[q]
      BY <1>1, <1>6, <2>1 DEF Numbered
    <3>2. i \in Nat /\ f.kind # "close"
      BY <1>6, <1>11, <2>1
    <3>3. Len(output'[e]) = Len(output[e]) + 1 - Offset(e) /\ Offset(e)' = 0
      BY <1>7, <1>13, <3>2
    <3>4. Len(output'[e]) + i - Offset(e)' = Len(output[e]) + (i + 1) - Offset(e)
      <4>1. Len(output[e]) \in Nat /\ Offset(e) \in Nat
        BY <1>9, <1>13
      <4>2. (Len(output[e]) + 1 - Offset(e)) + i - 0 = Len(output[e]) + (i + 1) - Offset(e)
        BY <3>2, <4>1
      <4> QED BY <3>3, <4>2
    <3> QED BY <1>2, <3>1, <3>4
  <2> QED BY <2>1 DEF Numbered
<1>15. ~failed'[e] => Popped(e)' = Popped(e)
  <2> SUFFICES ASSUME ~failed'[e] PROVE Popped(e)' = Popped(e)
    OBVIOUS
  <2>1. f.kind # "close"
    BY <1>2, <1>11 DEF socketVars
  <2>2. Popped(e)' = Len(output'[e]) + Len(messages'[e]) - Offset(e)'
    BY DEF Popped
  <2>3. Popped(e) = Len(output[e]) + Len(messages[e]) - Offset(e)
    BY DEF Popped
  <2>4. /\ Len(messages'[e]) = Len(messages[e]) - 1 /\ Offset(e)' = 0
        /\ Len(output'[e]) = Len(output[e]) + 1 - Offset(e)
    BY <1>4, <1>7, <1>13, <2>1
  <2>5. Len(messages[e]) \in Nat /\ Len(output[e]) \in Nat /\ Offset(e) \in Nat
    BY <1>4, <1>9, <1>13
  <2>6. Popped(e)' = (Len(output[e]) + 1 - Offset(e)) + (Len(messages[e]) - 1) - 0
    BY <2>2, <2>4
  <2> QED BY <2>3, <2>5, <2>6
<1>16. StreamTo(q)'
  <2>1. Received(q)' = Received(q)
    BY <1>2 DEF Received, kernelVars, buffVars
  <2>2. /\ Over(e)' = Over(e) /\ failed' = failed /\ reset' = reset /\ accepted' = accepted
        /\ unsent' = unsent /\ sendBuff' = sendBuff
    BY <1>2 DEF Over, kernelVars, socketVars, buffVars
  <2> HIDE DEF q
  <2> QED BY <1>1, <1>15, <2>1, <2>2, StreamSame
<1> QED BY <1>2, <1>12, <1>14, <1>16, ReceiverStep DEF kernelVars, socketVars, buffVars

-----------------------------------------------------------------------------
(* The third layer of the invariant: the listener and the network *)

NetworkSame == UNCHANGED <<connected, failed, writable, opened, messages, output, accepted, pc,
                           reported, sendBuff, recvBuff>>

\* Sessions and their queues learn nothing from the network itself.
LEMMA NetworkKept ==
    ASSUME DataInv, DataInv', StreamInv, NetworkSame, link = "up" => link' = "up", NEW x \in Ends,
           unsent'[x] = unsent[x] \/ unsent'[x] = <<>> \/ connected[x],
           unread'[x] # <<>> => unread[x] # <<>> \/ link' = "up",
           fin'[x] => fin[x] \/ link' = "up"
    PROVE  /\ Opening(x)' /\ Numbered(x)' /\ Popped(x)' = Popped(x)
           /\ accepted'[x] = accepted[x] /\ failed'[x] = failed[x] /\ sendBuff'[x] = sendBuff[x]
<1>1. Opening(x) /\ Numbered(x) /\ Types /\ Types'
  BY DEF StreamInv, DataInv
<1>2. Opening(x)'
  BY <1>1, OpeningKept DEF NetworkSame
<1>3. accepted'[Peer(x)] >= accepted[Peer(x)]
  BY <1>1, Constants DEF NetworkSame, Types, StreamTypes
<1>4. Numbered(x)' /\ Popped(x)' = Popped(x)
  BY <1>1, <1>3, NumberedKept DEF NetworkSame
<1> QED BY <1>2, <1>4 DEF NetworkSame

\* Nothing moves: only who listens, waits, or has a connector.
LEMMA StreamListens ==
    ASSUME DataInv, DataInv', ControlInv, StreamInv, Listen \/ Accept \/ Establish \/ Refuse
    PROVE  StreamInv'
<1>1. NetworkSame /\ UNCHANGED <<unsent, unread, fin>>
  BY DEF Listen, Accept, Establish, Refuse, NetworkSame, socketVars, moduleVars, buffVars, streamVars
<1>2. link = "up" => link' = "up"
  BY DEF Listen, Accept, Establish, Refuse
<1>3. Types
  BY DEF DataInv
<1>4. ASSUME NEW x \in Ends
      PROVE  /\ reset[x] => reset'[x]
             /\ Over(x) => Over(x)'
             /\ SideInv(x)'
  <2>1. SideInv(x)
    BY DEF StreamInv
  <2>2. CASE Listen
    BY <2>1, <2>2 DEF Listen, SideInv, Over, socketVars
  <2>3. CASE Accept
    <3>1. UNCHANGED <<link, side, reset, failed>> /\ backlog /\ ~backlog'
      BY <2>3 DEF Accept
    <3>2. made'[x] = made[x] \/ x = "server"
      BY <1>3, <2>3 DEF Accept, Types, SocketTypes
    <3>3. x = "server" => ~Over(x)
      BY <2>1, <3>1 DEF SideInv, Over
    <3> QED BY <2>1, <3>1, <3>2, <3>3 DEF SideInv, Over
  <2>4. CASE Establish
    <3>1. link = "syn" /\ link' = "up" /\ side'[x] = "open" /\ reset' = reset
      BY <2>4 DEF Establish
    <3> QED BY <2>1, <3>1 DEF SideInv, Over
  <2>5. CASE Refuse
    <3>1. link = "syn" /\ UNCHANGED <<side, backlog, failed, made>>
      BY <2>5 DEF Refuse, socketVars
    <3>2. reset[x] => reset'[x]
      BY <1>3, <2>5 DEF Refuse, Types, KernelTypes
    <3> QED BY <2>1, <3>1, <3>2 DEF SideInv, Over
  <2> QED BY <2>2, <2>3, <2>4, <2>5
<1>5. ASSUME NEW x \in Ends
      PROVE  Opening(x)' /\ Numbered(x)' /\ Popped(x)' = Popped(x)
  BY <1>1, <1>2, NetworkKept
<1>6. ASSUME NEW x \in Ends PROVE StreamTo(x)'
  <2>1. Received(x)' = Received(x)
    BY <1>1 DEF Received, NetworkSame
  <2>2. StreamTo(x) /\ Peer(x) \in Ends
    BY Constants DEF StreamInv
  <2> QED BY <1>1, <1>4, <1>5, <2>1, <2>2, StreamSame DEF NetworkSame
<1> QED BY <1>4, <1>5, <1>6 DEF StreamInv

\* The server's side is gone before there is a connector for it.
LEMMA StreamNotAccepted ==
    ASSUME DataInv, DataInv', ControlInv, StreamInv, AcceptFails
    PROVE  StreamInv'
<1> DEFINE s == "server"
<1>1. s \in Ends /\ Peer("client") = s /\ "client" \in Ends /\ Peer(s) = "client"
      /\ \A x \in Ends : x = s \/ x = "client"
  BY DEF Ends, Peer
<1>2. NetworkSame /\ UNCHANGED <<link, unsent, fin, reset, made>> /\ backlog /\ ~backlog'
  BY DEF AcceptFails, ListenerError, NetworkSame, socketVars, moduleVars, buffVars, streamVars
<1>3. /\ side'[s] = "rst" /\ unread'[s] = <<>>
      /\ \A x \in Ends : x # s => side'[x] = side[x] /\ unread'[x] = unread[x]
  BY <1>1 DEF AcceptFails, ListenerError, DataInv, Types, KernelTypes
<1>4. ~made[s] /\ link = "up"
  BY <1>1, <1>2 DEF ControlInv, Control, LinkInv
<1>5. ASSUME NEW x \in Ends PROVE SideInv(x)'
  <2>1. SideInv(x)
    BY DEF StreamInv
  <2>2. CASE x = s
    BY <1>2, <1>4, <2>2 DEF SideInv, Over
  <2>3. CASE x # s
    BY <1>2, <1>3, <2>1, <2>3 DEF SideInv, Over, NetworkSame
  <2> QED BY <2>2, <2>3
<1>6. ASSUME NEW x \in Ends
      PROVE  Opening(x)' /\ Numbered(x)' /\ Popped(x)' = Popped(x)
  <2>1. unread'[x] # <<>> => unread[x] # <<>>
    BY <1>3
  <2> QED BY <1>2, <2>1, NetworkKept
<1>7. StreamTo(s)'
  <2>1. Received(s)' = Received(s)
    BY <1>1, <1>2, <1>3 DEF Received, NetworkSame
  <2>2. Over("client")' = Over("client") /\ StreamTo(s)
    BY <1>1, <1>3 DEF Over, StreamInv
  <2> HIDE DEF s
  <2> QED BY <1>1, <1>2, <1>6, <2>1, <2>2, StreamSame DEF NetworkSame
<1>8. StreamTo("client")'
  <2> DEFINE c == "client"
  <2>1. Over(s)' /\ StreamTo(c)
    BY <1>1, <1>3 DEF Over, StreamInv
  <2>2. /\ recvBuff[s] \in Seq(Valid(c)) /\ unread[s] \in Seq(Valid(c))
    BY <1>1, Segments
  <2>3. Received(c)' = recvBuff[s] /\ Received(c) = recvBuff[s] \o unread[s]
    BY <1>1, <1>2, <1>3, <2>2, ConcatEmptySeq DEF Received, NetworkSame
  <2> HIDE DEF s, c
  <2>4. Received(c) = Received(c)' \o unread[s]
    BY <2>3
  <2> QED BY <1>1, <1>2, <1>6, <2>1, <2>2, <2>4, StreamKept DEF NetworkSame, c
<1> QED BY <1>1, <1>5, <1>6, <1>7, <1>8 DEF StreamInv

\* A segment arrives: the units are the same.
LEMMA StreamArrives ==
    ASSUME DataInv, DataInv', ControlInv, StreamInv, NEW e \in Ends, Arrive(e)
    PROVE  StreamInv'
<1> DEFINE p == Peer(e)
           S == Valid(p)
           r == recvBuff[e]
           a == unread[e]
           b == unsent[p]
           c == sendBuff[p]
<1>1. p \in Ends /\ p # e /\ Peer(p) = e /\ \A x \in Ends : x = e \/ x = p
  BY Constants
<1>2. Types /\ StreamTo(p) /\ StreamTo(e) /\ Opening(e) /\ Opening(p) /\ SideInv(e)
  BY <1>1 DEF DataInv, StreamInv
<1>3. /\ NetworkSame /\ UNCHANGED <<link, listener, backlog, side, fin, reset, made>>
      /\ side[e] = "open"
  BY DEF Arrive, NetworkSame, socketVars, moduleVars, buffVars, streamVars
<1>4. PICK n \in 1 .. Least(Len(b), InSize - Len(a)) :
         /\ unread' = [unread EXCEPT ![e] = @ \o SubSeq(b, 1, n)]
         /\ unsent' = [unsent EXCEPT ![p] = Drop(@, n)]
  BY DEF Arrive
<1>5. r \in Seq(S) /\ a \in Seq(S) /\ b \in Seq(S) /\ c \in Seq(S) /\ Len(b) \in Nat
  <2>1. r \in Seq(S) /\ a \in Seq(S) /\ b \in Seq(S) /\ c \in Seq(S)
    <3> HIDE DEF p
    <3> QED BY <1>1, Segments
  <2> HIDE DEF S, b
  <2> QED BY <2>1, LenProperties
<1>6. n \in 1 .. Len(b) /\ n \in 0 .. Len(b) /\ b # <<>>
  <2>1. n <= Len(b) /\ n \in Nat /\ n >= 1
    <3>1. Len(a) \in Nat /\ InSize \in Nat
      BY <1>5, Constants, LenProperties
    <3> HIDE DEF a, b, p
    <3> QED BY <1>5, <3>1 DEF Least
  <2> HIDE DEF b
  <2> QED BY <1>5, <2>1, EmptySeq
<1>7. /\ unread'[e] = a \o SubSeq(b, 1, n) /\ unsent'[p] = Drop(b, n)
      /\ unread'[p] = unread[p] /\ unsent'[e] = unsent[e]
  BY <1>1, <1>2, <1>4 DEF Types, KernelTypes
<1>8. connected[p] /\ link = "up" /\ ~Over(e)
  BY <1>2, <1>3, <1>6 DEF Opening, SideInv, Over
<1>9. ASSUME NEW x \in Ends
      PROVE  /\ Opening(x)' /\ Numbered(x)' /\ Popped(x)' = Popped(x) /\ SideInv(x)'
             /\ Over(x)' = Over(x)
  <2>1. unsent'[x] = unsent[x] \/ connected[x]
    BY <1>1, <1>7, <1>8
  <2>2. Opening(x)' /\ Numbered(x)' /\ Popped(x)' = Popped(x)
    BY <1>3, <1>8, <2>1, NetworkKept
  <2>3. SideInv(x)
    BY DEF StreamInv
  <2> QED BY <1>3, <2>2, <2>3 DEF SideInv, Over, NetworkSame
<1>10. StreamTo(e)'
  <2>1. Received(e)' = Received(e)
    BY <1>3, <1>7 DEF Received, NetworkSame
  <2> QED BY <1>1, <1>2, <1>3, <1>7, <1>9, <2>1, StreamSame DEF NetworkSame
<1>11. /\ Received(p)' \in Seq(S) /\ Received(p)' = r \o (a \o SubSeq(b, 1, n))
       /\ Underway(p)' = Received(p)' \o Drop(b, n) /\ Drop(b, n) \in Seq(S)
       /\ Underway(p)' = Underway(p) /\ Outstanding(p)' = Outstanding(p)
  <2>1. Received(p)' = recvBuff'[e] \o unread'[e] /\ Received(p) = r \o a
    BY <1>1 DEF Received
  <2>2. Received(p)' = r \o (a \o SubSeq(b, 1, n))
    BY <1>3, <1>7, <2>1 DEF NetworkSame
  <2>3. Underway(p)' = Received(p)' \o Drop(b, n) /\ Underway(p) = Received(p) \o b
    BY <1>7 DEF Underway
  <2>4. Outstanding(p)' = Underway(p)' \o c /\ Outstanding(p) = Underway(p) \o c
    BY <1>3 DEF Outstanding, NetworkSame
  <2>5. /\ a \o SubSeq(b, 1, n) \in Seq(S) /\ Drop(b, n) \in Seq(S)
        /\ (a \o SubSeq(b, 1, n)) \o Drop(b, n) = a \o b
    <3> HIDE DEF S, a, b
    <3> QED BY <1>5, <1>6, Moved
  <2>6. /\ (r \o (a \o SubSeq(b, 1, n))) \o Drop(b, n) = (r \o a) \o b
        /\ r \o (a \o SubSeq(b, 1, n)) \in Seq(S)
    <3> DEFINE x == a \o SubSeq(b, 1, n)
               y == Drop(b, n)
    <3>1. r \in Seq(S) /\ x \in Seq(S) /\ y \in Seq(S)
      BY <1>5, <2>5
    <3>2. r \in Seq(S) /\ a \in Seq(S) /\ b \in Seq(S)
      BY <1>5
    <3>3. x \o y = a \o b
      BY <2>5
    <3> HIDE DEF S, r, a, b, x, y
    <3>4. (r \o x) \o y = r \o (x \o y)
      BY <3>1, ConcatAssociative
    <3>5. (r \o a) \o b = r \o (a \o b)
      BY <3>2, ConcatAssociative
    <3>6. r \o x \in Seq(S)
      BY <3>1, ConcatProperties
    <3> QED BY <3>3, <3>4, <3>5, <3>6 DEF x, y
  <2> HIDE DEF p, S, r, a, b, c
  <2> QED BY <2>1, <2>2, <2>3, <2>4, <2>5, <2>6
<1>12. StreamTo(p)'
  <2> DEFINE m == Popped(e) + 1
  <2>1. m' = m /\ Over(e)' = Over(e)
    BY <1>9
  <2>2. failed' = failed /\ reset' = reset /\ accepted' = accepted
    BY <1>3 DEF NetworkSame
  <2>3. ~failed[e] =>
           /\ From(p, Underway(p), m)
           /\ ~failed[p] /\ ~reset[p] =>
                 From(p, Outstanding(p), m) /\ UpTo(p, Outstanding(p), m, accepted[p])
    BY <1>1, <1>2, <1>8 DEF StreamTo
  <2> HIDE DEF m
  <2>4. ~failed[e] => From(p, Received(p)', m)
    <3>1. ~failed[e] => From(p, Received(p)' \o Drop(b, n), m)
      BY <1>11, <2>3
    <3> HIDE DEF p, b
    <3> QED BY <1>1, <1>11, <3>1, FromPrefix
  <2>5. ~failed'[e] =>
           /\ From(p, Received(p)', m')
           /\ From(p, Underway(p)', m')
           /\ ~failed'[p] /\ ~reset'[p] =>
                 From(p, Outstanding(p)', m') /\ UpTo(p, Outstanding(p)', m', accepted'[p])
    BY <1>11, <2>1, <2>2, <2>3, <2>4
  <2> HIDE DEF p
  <2> QED BY <1>1, <2>5 DEF StreamTo, From, InOrder, UpTo, Length, m
<1> QED BY <1>1, <1>9, <1>10, <1>12 DEF StreamInv

\* The other side's end, or its reset, arrives.
LEMMA StreamCloses ==
    ASSUME DataInv, DataInv', ControlInv, StreamInv, NEW e \in Ends, ArriveFin(e) \/ ArriveReset(e)
    PROVE  StreamInv'
<1> DEFINE p == Peer(e)
<1>1. p \in Ends /\ p # e /\ Peer(p) = e /\ \A x \in Ends : x = e \/ x = p
  BY Constants
<1>2. Types /\ StreamTo(p) /\ StreamTo(e) /\ Opening(p) /\ SideInv(e) /\ SideInv(p)
  BY <1>1 DEF DataInv, StreamInv
<1>3. /\ NetworkSame /\ UNCHANGED <<link, listener, backlog, side, unread, made>>
      /\ side[e] = "open"
  BY DEF ArriveFin, ArriveReset, NetworkSame, socketVars, moduleVars, buffVars, streamVars
<1>4. link = "up"
  BY <1>2, <1>3 DEF SideInv
<1>5. \A x \in Ends : reset[x] => reset'[x]
  BY <1>2 DEF ArriveFin, ArriveReset, Types, KernelTypes
<1>6. \A x \in Ends : unsent'[x] = unsent[x] \/ unsent'[x] = <<>>
  BY DEF ArriveFin, ArriveReset
<1>7. ASSUME NEW x \in Ends
      PROVE  /\ Opening(x)' /\ Numbered(x)' /\ Popped(x)' = Popped(x) /\ SideInv(x)'
             /\ Over(x)' = Over(x) /\ Received(x)' = Received(x)
  <2>1. Opening(x)' /\ Numbered(x)' /\ Popped(x)' = Popped(x)
    BY <1>3, <1>4, <1>6, NetworkKept
  <2>2. SideInv(x)
    BY DEF StreamInv
  <2> QED BY <1>3, <2>1, <2>2 DEF SideInv, Over, Received, NetworkSame
<1>8. ASSUME NEW x \in Ends, unsent'[x] = unsent[x] PROVE StreamTo(x)'
  <2>1. StreamTo(x) /\ Peer(x) \in Ends
    BY Constants DEF StreamInv
  <2> QED BY <1>3, <1>5, <1>7, <1>8, <2>1, StreamSame DEF NetworkSame
<1>9. ASSUME NEW x \in Ends, failed'[x] \/ reset'[x] PROVE StreamTo(x)'
  <2>1. StreamTo(x) /\ Peer(x) \in Ends
    BY Constants DEF StreamInv
  <2> QED BY <1>3, <1>5, <1>6, <1>7, <1>9, <2>1, StreamCut DEF NetworkSame
<1>10. ASSUME NEW x \in Ends PROVE StreamTo(x)'
  <2>1. CASE ArriveFin(e)
    BY <1>8, <2>1 DEF ArriveFin
  <2>2. CASE ArriveReset(e)
    <3>1. CASE x = e
      <4>1. reset'[e]
        BY <1>2, <2>2 DEF ArriveReset, Types, KernelTypes
      <4> QED BY <1>9, <3>1, <4>1
    <3>2. CASE x = p
      <4>1. Over(p)
        BY <2>2 DEF ArriveReset, Over
      <4>2. CASE failed[p]
        BY <1>3, <1>9, <3>2, <4>2 DEF NetworkSame
      <4>3. CASE ~made[p]
        <5>1. ~connected[p]
          BY <1>1, <4>3 DEF ControlInv, Control, Fresh, Blank
        <5>2. unsent[p] = <<>> /\ unsent'[p] = <<>>
          BY <1>1, <1>2, <1>6, <5>1 DEF Opening
        <5> QED BY <1>8, <3>2, <5>2
      <4> QED BY <1>2, <4>1, <4>2, <4>3 DEF SideInv
    <3> QED BY <1>1, <3>1, <3>2
  <2> QED BY <2>1, <2>2
<1> QED BY <1>7, <1>10 DEF StreamInv

-----------------------------------------------------------------------------
(* The third layer of the invariant *)

\* The streams are empty at the start.
LEMMA StreamInit == Init => StreamInv
<1> SUFFICES ASSUME Init, NEW e \in Ends PROVE Opening(e) /\ Numbered(e) /\ StreamTo(e) /\ SideInv(e)
  BY DEF StreamInv
<1>1. Peer(e) \in Ends /\ Len(<<>>) = 0
  BY Constants, EmptySeq
<1>2. \A x \in Ends :
         /\ messages[x] = <<>> /\ unsent[x] = <<>> /\ unread[x] = <<>> /\ recvBuff[x] = <<>>
         /\ sendBuff[x] = <<>> /\ ~connected[x] /\ ~writable[x] /\ ~fin[x] /\ side[x] = "none"
  BY DEF Init
<1>3. \A x \in Ends : ~opened[x] /\ output[x] = <<>> /\ accepted[x] = 0
  BY DEF Init, Stream!Init
<1>4. pc[e] = "deal" /\ reported[e].mask = {} /\ ~backlog
  BY DEF Init, Idle
<1>5. Opening(e)
  <2>1. {"in"} # {}
    OBVIOUS
  <2> QED BY <1>1, <1>2, <1>3, <1>4, <2>1 DEF Opening, Told
<1>6. Numbered(e) /\ SideInv(e)
  BY <1>1, <1>2, <1>4 DEF Numbered, SideInv, Over
<1>7. StreamTo(e)
  <2>1. Popped(Peer(e)) = 0
    <3> DEFINE q == Peer(e)
    <3>1. Len(output[q]) = 0 /\ Len(messages[q]) = 0
      BY <1>1, <1>2, <1>3
    <3>2. Offset(q) = 0
      BY <3>1 DEF Offset, Told
    <3> QED BY <3>1, <3>2 DEF Popped
  <2>2. Received(e) = <<>> /\ Underway(e) = <<>> /\ Outstanding(e) = <<>>
    BY <1>1, <1>2 DEF Received, Underway, Outstanding
  <2>3. From(e, <<>>, 0 + 1) /\ UpTo(e, <<>>, 0 + 1, 0)
    BY <1>1 DEF From, InOrder, UpTo
  <2> QED BY <1>3, <2>1, <2>2, <2>3 DEF StreamTo
<1> QED BY <1>5, <1>6, <1>7

\* Every step keeps the streams.
LEMMA StreamNext == DataInv /\ ControlInv /\ StreamInv /\ [Next]_vars => StreamInv'
<1> SUFFICES ASSUME DataInv, ControlInv, StreamInv, [Next]_vars PROVE StreamInv'
  OBVIOUS
<1>1. DataInv' /\ Types
  BY DataNext DEF DataInv
<1>2. CASE UNCHANGED vars
  <2>1. NetworkSame /\ UNCHANGED <<link, backlog, side, unsent, unread, fin, reset, made>>
    BY <1>2 DEF vars, kernelVars, socketVars, moduleVars, buffVars, streamVars, NetworkSame
  <2>2. ASSUME NEW x \in Ends
        PROVE  /\ Opening(x)' /\ Numbered(x)' /\ Popped(x)' = Popped(x) /\ SideInv(x)'
               /\ Over(x)' = Over(x) /\ Received(x)' = Received(x)
    <3>1. Opening(x)' /\ Numbered(x)' /\ Popped(x)' = Popped(x)
      BY <1>1, <2>1, NetworkKept
    <3>2. SideInv(x)
      BY DEF StreamInv
    <3> QED BY <2>1, <3>1, <3>2 DEF SideInv, Over, Received, NetworkSame
  <2>3. ASSUME NEW x \in Ends PROVE StreamTo(x)'
    <3>1. StreamTo(x) /\ Peer(x) \in Ends
      BY Constants DEF StreamInv
    <3> QED BY <1>1, <2>1, <2>2, <3>1, StreamSame DEF NetworkSame
  <2> QED BY <2>2, <2>3 DEF StreamInv
<1>3. CASE Next
  <2>1. ASSUME NEW e \in Ends, DealData(e) PROVE StreamInv'
    <3>1. CASE RunEvent(e)
      <4>1. OwnStep(e)
        BY <1>1, <3>1, EventOwn
      <4> QED BY <1>1, <3>1, <4>1, StreamConnect, StreamAccepted, StreamSends, StreamClose
              DEF RunEvent
    <3>2. CASE SendSome(e) \/ PopPackage(e) \/ Recv(e)
      <4>1. OwnStep(e)
        BY <1>1, <3>2, MoveOwn
      <4> QED BY <1>1, <3>2, <4>1, StreamSome, StreamPops, StreamRecv
    <3>3. CASE \/ WaitEvents(e) \/ TakePosted(e) \/ WriteOperation(e) \/ SendAgain(e)
               \/ SendError(e) \/ ReadOperation(e) \/ RecvEnds(e)
      <4>1. OwnStep(e)
        BY <1>1, <3>3, ServeOwn
      <4> QED BY <1>1, <3>3, <4>1, StreamWaits, StreamWrites, StreamErrors
    <3> QED BY <2>1, <3>1, <3>2, <3>3 DEF DealData, SendMessage, ReadLoop
  <2>2. ASSUME NEW e \in Ends, HandleMessage(e) \/ Send(e) \/ Close(e) PROVE StreamInv'
    <3>1. OwnStep(e)
      BY <1>1, <2>2, MoveOwn
    <3> QED BY <1>1, <2>2, <3>1, StreamHandles, StreamCalls
  <2>3. CASE Listen \/ Accept \/ Establish \/ Refuse
    BY <1>1, <2>3, StreamListens
  <2>4. CASE AcceptFails
    BY <1>1, <2>4, StreamNotAccepted
  <2>5. ASSUME NEW e \in Ends, Arrive(e) \/ ArriveFin(e) \/ ArriveReset(e) PROVE StreamInv'
    BY <1>1, <2>5, StreamArrives, StreamCloses
  <2> QED BY <1>3, <2>1, <2>2, <2>3, <2>4, <2>5 DEF Next, Progress, Network
<1> QED BY <1>2, <1>3

\* What the sessions have been told, what waits for them, and the units on their way
\* make up the messages that were accepted, in order.
THEOREM StreamInvariant == Spec => []StreamInv
<1>1. Init => DataInv /\ ControlInv /\ StreamInv
  BY DataInit, ControlInit, StreamInit
<1>2. DataInv /\ ControlInv /\ StreamInv /\ [Next]_vars => (DataInv /\ ControlInv /\ StreamInv)'
  BY DataNext, ControlNext, StreamNext
<1>3. Spec => [](DataInv /\ ControlInv /\ StreamInv)
  BY <1>1, <1>2, PTL DEF Spec
<1> QED BY <1>3, PTL

-----------------------------------------------------------------------------
(* The connection implements a pair of streams *)

\* Handling a message is opening the stream, getting the next message, or nothing.
LEMMA HandlesAbstractly ==
    ASSUME DataInv, StreamInv, NEW e \in Ends, HandleMessage(e)
    PROVE  [Stream!Next]_streamVars
<1> DEFINE f == messages[e][1]
<1>1. Types /\ Opening(e) /\ Numbered(e)
  BY DEF DataInv, StreamInv
<1>2. messages[e] \in Seq([kind : MessageKinds, number : Nat]) /\ messages[e] # <<>>
  BY <1>1 DEF HandleMessage, Types, MessageTypes
<1>3. /\ 1 \in 1 .. Len(messages[e]) /\ Len(messages[e]) > 0 /\ Head(messages[e]) = f
      /\ f.kind \in MessageKinds
  <2>1. 1 \in 1 .. Len(messages[e]) /\ Len(messages[e]) > 0 /\ Head(messages[e]) = f
    BY <1>2, EmptySeq, HeadTailProperties
  <2>2. f \in [kind : MessageKinds, number : Nat]
    BY <1>2, <2>1, ElementOfSeq
  <2> QED BY <2>1, <2>2
<1>4. /\ opened' = IF f.kind = "connected" THEN [opened EXCEPT ![e] = TRUE] ELSE opened
      /\ output' = IF f.kind = "recv" THEN [output EXCEPT ![e] = Append(@, f.number)] ELSE output
      /\ accepted' = accepted
  BY <1>3 DEF HandleMessage
<1>5. CASE f.kind = "connected"
  <2>1. ~opened[e]
    BY <1>1, <1>3, <1>5 DEF Opening, Told
  <2> QED BY <1>4, <1>5, <2>1 DEF Stream!Next, Stream!Open
<1>6. CASE f.kind = "recv"
  <2>1. connected[e] /\ ~Told(e) /\ Offset(e) = 0
    BY <1>1, <1>3, <1>6 DEF Opening, Told, Offset
  <2>2. opened[e]
    BY <1>1, <2>1 DEF Opening
  <2>3. Len(output[e]) \in Nat /\ accepted[Peer(e)] \in Nat
    BY <1>1, Constants, PoppedType DEF Types, StreamTypes
  <2>4. f.number = Len(output[e]) + 1 - Offset(e) /\ f.number <= accepted[Peer(e)]
    BY <1>1, <1>3, <1>6 DEF Numbered
  <2>5. f.number = Len(output[e]) + 1 /\ Len(output[e]) < accepted[Peer(e)]
    BY <2>1, <2>3, <2>4
  <2>6. Stream!Get(e)
    BY <1>4, <1>6, <2>2, <2>5 DEF Stream!Get
  <2> QED BY <2>6 DEF Stream!Next
<1>7. CASE f.kind = "close"
  BY <1>4, <1>7 DEF streamVars
<1> QED BY <1>3, <1>5, <1>6, <1>7 DEF MessageKinds

\* Putting a message into the send buffer is a Send of the abstract stream.
LEMMA SendsAbstractly ==
    ASSUME NEW e \in Ends, SendOperator(e)
    PROVE  [Stream!Next]_streamVars
<1>1. opened' = opened /\ output' = output
  BY DEF SendOperator
<1>2. CASE failed[e]
  BY <1>1, <1>2 DEF SendOperator, streamVars
<1>3. CASE ~failed[e]
  BY <1>1, <1>3 DEF SendOperator, Stream!Next, Stream!Put
<1> QED BY <1>2, <1>3

\* Every other step leaves the streams alone.
LEMMA StepsAbstractly == DataInv /\ StreamInv /\ [Next]_vars => [Stream!Next]_streamVars
<1> SUFFICES ASSUME DataInv, StreamInv, [Next]_vars PROVE [Stream!Next]_streamVars
  OBVIOUS
<1>1. CASE UNCHANGED vars
  BY <1>1 DEF vars
<1>2. ASSUME NEW e \in Ends, DealData(e) PROVE [Stream!Next]_streamVars
  <2>1. CASE SendOperator(e)
    BY <2>1, SendsAbstractly
  <2>2. CASE TcpConnect(e) \/ Accepted(e) \/ CloseOperator(e)
    BY <2>2 DEF TcpConnect, Accepted, CloseOperator
  <2>3. CASE WaitEvents(e) \/ TakePosted(e) \/ WriteOperation(e) \/ ReadOperation(e)
    BY <2>3 DEF WaitEvents, TakePosted, WriteOperation, ReadOperation
  <2>4. CASE SendMessage(e) \/ ReadLoop(e)
    BY <2>4 DEF SendMessage, SendSome, SendAgain, SendError, ReadLoop, PopPackage, Recv, RecvEnds
  <2> QED BY <1>2, <2>1, <2>2, <2>3, <2>4 DEF DealData, RunEvent
<1>3. ASSUME NEW e \in Ends, HandleMessage(e) PROVE [Stream!Next]_streamVars
  BY <1>3, HandlesAbstractly
<1>4. ASSUME NEW e \in Ends, Send(e) \/ Close(e) PROVE [Stream!Next]_streamVars
  BY <1>4 DEF Send, Close
<1>5. CASE Listen \/ Accept \/ AcceptFails \/ Network
  BY <1>5 DEF Listen, Accept, AcceptFails, Network, Establish, Refuse, Arrive, ArriveFin, ArriveReset
<1> QED BY <1>1, <1>2, <1>3, <1>4, <1>5 DEF Next, Progress

\* Two sessions see a stream of messages each way: none is lost, repeated, torn or
\* reordered before one that is delivered, and OnConnected comes before all.
THEOREM StreamRefinement == Spec => ImplementsStream
<1>1. Init => Stream!Init
  BY DEF Init
<1>2. DataInv /\ StreamInv /\ [Next]_vars => [Stream!Next]_(Stream!streamVars)
  BY StepsAbstractly DEF streamVars, Stream!streamVars
<1> QED BY <1>1, <1>2, DataInvariant, StreamInvariant, PTL DEF Spec, ImplementsStream, Stream!Spec
=============================================================================
