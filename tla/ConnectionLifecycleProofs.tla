--------------------- MODULE ConnectionLifecycleProofs ----------------------
(***************************************************************************)
(* Why nobody uses a session, a connector or a descriptor after its end,   *)
(* for any number of connections and descriptors and queues of any length: *)
(* what each queue says of a connection while it still holds something for *)
(* it, and what the objects say of each other.                             *)
(***************************************************************************)
EXTENDS ConnectionLifecycle, SequenceTheorems, FiniteSetTheorems, TLAPS

\* What an object's state says of the others of the same connection.
ObjectsInv == \A c \in Connections :
    /\ session[c] = "none" => connector[c] = "none"
    /\ connector[c] = "none" =>
          ~bound[c] /\ ~attached[c] /\ ~failed[c] /\ handle[c] = NoFd
    /\ bound[c] => session[c] = "alive" /\ connector[c] = "alive"
    /\ attached[c] => bound[c] /\ ~failed[c]
    /\ connector[c] = "alive" /\ ~failed[c] => attached[c]

\* An event that waits, and what it says of its connection.
EventState(e) ==
    /\ IF e.kind = "closeall" THEN e.conn = Nobody ELSE e.conn \in Connections
    /\ e.kind = "connect" => session[e.conn] = "alive" /\ connector[e.conn] = "none"
    /\ e.kind \notin {"connect", "closeall"} => connector[e.conn] = "alive"
    /\ e.kind = "accepted" =>
          /\ attached[e.conn] /\ handle[e.conn] = NoFd
          /\ e.fd \in Fds /\ owner[e.fd] = e.conn
    /\ e.kind = "onclose" => ~bound[e.conn]

\* Event d may wait before event e: "connect" is the connection's only event,
\* "accepted" its first and "onclose" its last.
Ordered(d, e) == d.conn = e.conn =>
    d.kind \notin {"connect", "onclose"} /\ e.kind \notin {"connect", "accepted"}

EventsInv ==
    /\ \A i \in 1 .. Len(Waiting) : EventState(Waiting[i])
    /\ \A i, j \in 1 .. Len(Waiting) : i < j => Ordered(Waiting[i], Waiting[j])

\* Messages are for sessions that still have their socket.
MessagesInv == \A i \in 1 .. Len(messages) : bound[messages[i].conn]

\* epoll's report is about connectors that exist and have not failed before the
\* posted events were taken; their deletion is not among the events taken.
ReadyInv ==
    /\ running # <<>> => EventFd \notin ready
    /\ \A c \in ready \ {EventFd} :
          /\ connector[c] = "alive" /\ handle[c] # NoFd
          /\ EventFd \in ready => attached[c]
          /\ \A i \in 1 .. Len(running) : running[i].kind = "onclose" => running[i].conn # c

LifecycleInv ==
    /\ TypeOK
    /\ ObjectsInv
    /\ EventsInv
    /\ MessagesInv
    /\ CloseIsLast
    /\ TablesAgree
    /\ DescriptorsOwned
    /\ ReadyInv

-----------------------------------------------------------------------------
(* The events that wait *)

\* The two vectors, one behind the other, are one queue of events.
LEMMA WaitingSeq ==
    ASSUME TypeOK
    PROVE  /\ Waiting \in Seq(Events)
           /\ Len(Waiting) = Len(running) + Len(posted)
           /\ \A i \in 1 .. Len(Waiting) :
                 Waiting[i] = IF i <= Len(running) THEN running[i]
                              ELSE posted[i - Len(running)]
<1>1. running \in Seq(Events) /\ posted \in Seq(Events)
  BY DEF TypeOK
<1> QED BY <1>1, ConcatProperties DEF Waiting

\* An event is posted: it waits behind the others.
LEMMA WaitingPosted ==
    ASSUME TypeOK, NEW e \in Events, Post(e)
    PROVE  /\ posted' \in Seq(Events) /\ running' \in Seq(Events)
           /\ Len(Waiting') = Len(Waiting) + 1
           /\ \A i \in 1 .. Len(Waiting) : Waiting'[i] = Waiting[i]
           /\ Waiting'[Len(Waiting) + 1] = e
<1>1. running \in Seq(Events) /\ posted \in Seq(Events) /\ Len(running) \in Nat /\ Len(posted) \in Nat
  BY DEF TypeOK
<1>2. /\ posted' \in Seq(Events) /\ Len(posted') = Len(posted) + 1
      /\ \A i \in 1 .. Len(posted) : posted'[i] = posted[i]
      /\ posted'[Len(posted) + 1] = e
  BY <1>1, AppendProperties DEF Post
<1>3. running' = running
  BY DEF Post
<1>4. /\ Len(Waiting') = Len(running) + Len(posted')
      /\ \A i \in 1 .. Len(Waiting') :
            Waiting'[i] = IF i <= Len(running) THEN running[i] ELSE posted'[i - Len(running)]
  <2>1. Waiting' = running \o posted'
    BY <1>3 DEF Waiting
  <2>2. Len(running \o posted') = Len(running) + Len(posted')
    BY <1>1, <1>2, ConcatProperties
  <2>3. \A i \in 1 .. Len(running) + Len(posted') : (running \o posted')[i] =
           IF i <= Len(running) THEN running[i] ELSE posted'[i - Len(running)]
    BY <1>1, <1>2, ConcatProperties
  <2> QED BY <2>1, <2>2, <2>3
<1>5. /\ Len(Waiting) = Len(running) + Len(posted)
      /\ \A i \in 1 .. Len(Waiting) :
            Waiting[i] = IF i <= Len(running) THEN running[i] ELSE posted[i - Len(running)]
  BY WaitingSeq
<1>6. ASSUME NEW i \in 1 .. Len(Waiting) PROVE Waiting'[i] = Waiting[i]
  <2>1. i \in 1 .. Len(Waiting')
    BY <1>1, <1>2, <1>4, <1>5, <1>6
  <2>2. CASE i <= Len(running)
    BY <2>1, <2>2, <1>4, <1>5
  <2>3. CASE i > Len(running)
    <3>1. i - Len(running) \in 1 .. Len(posted)
      BY <1>1, <1>5, <2>3
    <3> QED BY <2>1, <2>3, <3>1, <1>1, <1>2, <1>4, <1>5
  <2> QED BY <1>1, <1>5, <2>2, <2>3
<1>7. Waiting'[Len(Waiting) + 1] = e
  <2>1. Len(Waiting) + 1 \in 1 .. Len(Waiting') /\ ~(Len(Waiting) + 1 <= Len(running))
        /\ Len(Waiting) + 1 - Len(running) = Len(posted) + 1
    BY <1>1, <1>2, <1>4, <1>5
  <2> QED BY <2>1, <1>2, <1>4
<1> QED BY <1>1, <1>2, <1>3, <1>4, <1>5, <1>6, <1>7

\* The events are taken: nothing changes for them.
LEMMA WaitingTaken ==
    ASSUME TypeOK, TakeEvents
    PROVE  posted' \in Seq(Events) /\ running' \in Seq(Events) /\ Waiting' = Waiting
<1>1. running = <<>> /\ running' = posted /\ posted' = <<>> /\ posted \in Seq(Events)
  BY DEF TakeEvents, TypeOK
<1>2. posted \o <<>> = posted /\ <<>> \o posted = posted
  BY <1>1, ConcatEmptySeq
<1>3. Waiting = <<>> \o posted /\ Waiting' = posted \o <<>>
  BY <1>1 DEF Waiting
<1> QED BY <1>1, <1>2, <1>3, EmptySeq

\* The first event runs: it is gone, or CloseAllSockets goes on in its place.
LEMMA WaitingRun ==
    ASSUME TypeOK, running # <<>>, running' = Rest(Head(running)), posted' = posted
    PROVE  /\ running' \in Seq(Events)
           /\ Len(running) \in Nat \ {0} /\ Len(Waiting) \in Nat \ {0}
           /\ Waiting[1] = Head(running) /\ Head(running) = running[1]
           /\ \/ /\ Head(running).kind = "closeall"
                 /\ Len(Waiting') = Len(Waiting) /\ Len(running') = Len(running)
                 /\ Waiting'[1] = Event("closeall", Nobody, Head(running).fd + 1)
                 /\ running'[1] = Waiting'[1]
                 /\ \A i \in 2 .. Len(Waiting) : Waiting'[i] = Waiting[i]
                 /\ \A i \in 2 .. Len(running) : running'[i] = running[i]
              \/ /\ Len(Waiting') = Len(Waiting) - 1 /\ Len(running') = Len(running) - 1
                 /\ \A i \in 1 .. Len(Waiting') : Waiting'[i] = Waiting[i + 1]
                 /\ \A i \in 1 .. Len(running') : running'[i] = running[i + 1]
<1> DEFINE e == Head(running)
           next == Event("closeall", Nobody, e.fd + 1)
<1>1. /\ running \in Seq(Events) /\ posted \in Seq(Events)
      /\ Len(running) \in Nat \ {0} /\ Len(posted) \in Nat
  BY EmptySeq DEF TypeOK
<1>2. /\ e \in Events /\ e = running[1] /\ Tail(running) \in Seq(Events)
      /\ Len(Tail(running)) = Len(running) - 1
      /\ \A i \in 1 .. Len(Tail(running)) : Tail(running)[i] = running[i + 1]
  BY <1>1, HeadTailProperties
<1>3. /\ Len(Waiting) = Len(running) + Len(posted)
      /\ \A i \in 1 .. Len(Waiting) :
            Waiting[i] = IF i <= Len(running) THEN running[i] ELSE posted[i - Len(running)]
  BY WaitingSeq
<1>4. Waiting[1] = e
  BY <1>1, <1>2, <1>3
<1>5. ASSUME running' \in Seq(Events)
      PROVE  /\ Len(Waiting') = Len(running') + Len(posted)
             /\ \A i \in 1 .. Len(Waiting') :
                   Waiting'[i] = IF i <= Len(running') THEN running'[i]
                                 ELSE posted[i - Len(running')]
  BY <1>1, <1>5, ConcatProperties DEF Waiting
<1>6. CASE e.kind = "closeall" /\ e.fd < NumFds
  <2>1. next \in Events
    BY <1>2, <1>6, LifecycleAssumption DEF Events, Event, EventKinds
  <2>2. running' = <<next>> \o Tail(running)
    BY <1>6 DEF Rest
  <2>3. <<next>> \in Seq(Events) /\ Len(<<next>>) = 1 /\ <<next>>[1] = next
    BY <2>1
  <2>4. /\ running' \in Seq(Events) /\ Len(running') = Len(running)
        /\ running'[1] = next
        /\ \A i \in 2 .. Len(running) : running'[i] = running[i]
    <3>1. /\ running' \in Seq(Events) /\ Len(running') = 1 + Len(Tail(running))
          /\ \A i \in 1 .. 1 + Len(Tail(running)) :
                running'[i] = IF i <= 1 THEN <<next>>[i] ELSE Tail(running)[i - 1]
      BY <1>2, <2>2, <2>3, ConcatProperties
    <3>2. ASSUME NEW i \in 2 .. Len(running) PROVE running'[i] = running[i]
      <4>1. i - 1 \in 1 .. Len(Tail(running)) /\ i \in 1 .. 1 + Len(Tail(running)) /\ ~(i <= 1)
        BY <1>1, <1>2
      <4> QED BY <4>1, <3>1, <1>2
    <3> QED BY <3>1, <3>2, <2>3, <1>1, <1>2
  <2>5. ASSUME NEW i \in 2 .. Len(Waiting) PROVE Waiting'[i] = Waiting[i]
    <3>1. i \in 1 .. Len(Waiting) /\ i \in 1 .. Len(Waiting')
      BY <1>1, <1>3, <1>5, <2>4
    <3>2. CASE i <= Len(running)
      <4>1. i \in 2 .. Len(running)
        BY <1>1, <1>3, <3>2
      <4> QED BY <4>1, <3>1, <3>2, <1>3, <1>5, <2>4
    <3>3. CASE ~(i <= Len(running))
      BY <3>1, <3>3, <1>3, <1>5, <2>4
    <3> QED BY <3>2, <3>3
  <2>6. Waiting'[1] = next /\ Len(Waiting') = Len(Waiting)
    BY <1>1, <1>3, <1>5, <2>4
  <2>7. Len(Waiting) \in Nat \ {0}
    BY <1>1, <1>3
  <2> QED BY <1>1, <1>2, <1>4, <1>6, <2>4, <2>5, <2>6, <2>7
<1>7. CASE ~(e.kind = "closeall" /\ e.fd < NumFds)
  <2>1. running' = Tail(running)
    BY <1>7 DEF Rest
  <2>0. running' \in Seq(Events) /\ Len(running') = Len(running) - 1
    <3>1. Tail(running) \in Seq(Events) /\ Len(Tail(running)) = Len(running) - 1
      BY <1>2
    <3> QED BY <2>1, <3>1
  <2>2. Len(Waiting') = Len(Waiting) - 1
    <3>1. Len(Waiting') = Len(running') + Len(posted)
      BY <1>5, <2>0
    <3>2. Len(Waiting) = Len(running) + Len(posted)
      BY <1>3
    <3> HIDE DEF e, next
    <3> QED BY <1>1, <2>0, <3>1, <3>2
  <2>3. ASSUME NEW i \in 1 .. Len(Waiting') PROVE Waiting'[i] = Waiting[i + 1]
    <3>1. i + 1 \in 1 .. Len(Waiting) /\ i \in Nat
      BY <1>1, <1>3, <2>2
    <3>2. CASE i <= Len(running')
      <4>1. i \in 1 .. Len(Tail(running)) /\ i + 1 <= Len(running)
        BY <1>1, <1>2, <2>1, <3>1, <3>2
      <4> QED BY <4>1, <3>1, <3>2, <1>2, <1>3, <1>5, <2>1
    <3>3. CASE ~(i <= Len(running'))
      <4>1. ~(i + 1 <= Len(running)) /\ i - Len(running') = i + 1 - Len(running)
        BY <1>1, <2>0, <3>1, <3>3
      <4>2. Waiting[i + 1] = posted[i + 1 - Len(running)]
        BY <4>1, <3>1, <1>3
      <4>3. Waiting'[i] = posted[i - Len(running')]
        BY <3>3, <1>5, <2>0
      <4> QED BY <4>1, <4>2, <4>3
    <3> QED BY <3>2, <3>3
  <2>4. \A i \in 1 .. Len(running') : running'[i] = running[i + 1]
    BY <1>2, <2>1
  <2>5. Len(Waiting) \in Nat \ {0}
    BY <1>1, <1>3
  <2> QED BY <1>1, <1>2, <1>4, <2>0, <2>2, <2>3, <2>4, <2>5
<1> QED BY <1>6, <1>7

\* A posted event that goes with the events that wait, none of which is disturbed.
LEMMA EventsPosted ==
    ASSUME TypeOK, EventsInv, NEW e \in Events, Post(e), EventState(e)',
           \A i \in 1 .. Len(Waiting) : Ordered(Waiting[i], e),
           \A i \in 1 .. Len(Waiting) : \A d \in Events : d = Waiting[i] => EventState(d)'
    PROVE  EventsInv'
<1>1. /\ Len(Waiting) \in Nat /\ Len(Waiting') = Len(Waiting) + 1
      /\ \A i \in 1 .. Len(Waiting) : Waiting[i] \in Events
      /\ \A i \in 1 .. Len(Waiting) : Waiting'[i] = Waiting[i]
      /\ Waiting'[Len(Waiting) + 1] = e
  BY WaitingSeq, WaitingPosted
<1>2. \A i \in 1 .. Len(Waiting') : i \in 1 .. Len(Waiting) \/ i = Len(Waiting) + 1
  BY <1>1
<1>3. ASSUME NEW i \in 1 .. Len(Waiting') PROVE EventState(Waiting[i])'
  BY <1>1, <1>2
<1>4. ASSUME NEW i \in 1 .. Len(Waiting'), NEW j \in 1 .. Len(Waiting'), i < j
      PROVE  Ordered(Waiting[i], Waiting[j])'
  <2>1. i \in 1 .. Len(Waiting)
    BY <1>1, <1>4
  <2> QED BY <1>1, <1>2, <1>4, <2>1 DEF EventsInv, Ordered
<1> QED BY <1>3, <1>4 DEF EventsInv

\* No event comes or goes.
LEMMA EventsSame ==
    ASSUME TypeOK, EventsInv, Waiting' = Waiting,
           \A i \in 1 .. Len(Waiting) : \A d \in Events : d = Waiting[i] => EventState(d)'
    PROVE  EventsInv'
<1>1. \A i \in 1 .. Len(Waiting) : Waiting[i] \in Events
  BY WaitingSeq
<1>2. \A i \in 1 .. Len(Waiting') : EventState(Waiting[i])'
  BY <1>1
<1> QED BY <1>2 DEF EventsInv, Ordered

\* The first event runs, and disturbs none of the others.
LEMMA EventsRun ==
    ASSUME TypeOK, EventsInv, running # <<>>, running' = Rest(Head(running)), posted' = posted,
           \A i \in 2 .. Len(Waiting) : \A d \in Events : d = Waiting[i] => EventState(d)'
    PROVE  EventsInv'
<1> DEFINE e == Head(running)
           next == Event("closeall", Nobody, e.fd + 1)
<1>1. /\ Len(Waiting) \in Nat \ {0} /\ Waiting[1] = e
      /\ \A i \in 1 .. Len(Waiting) : Waiting[i] \in Events
      /\ \A i \in 2 .. Len(Waiting) : i \in 1 .. Len(Waiting)
  BY WaitingSeq, WaitingRun
<1>2. CASE /\ e.kind = "closeall"
           /\ Len(Waiting') = Len(Waiting) /\ Waiting'[1] = next
           /\ \A i \in 2 .. Len(Waiting) : Waiting'[i] = Waiting[i]
  <2>1. next.kind = "closeall" /\ next.conn = Nobody
    BY DEF Event
  <2> HIDE DEF next
  <2>2. e.conn = Nobody
    BY <1>1, <1>2 DEF EventsInv, EventState
  <2>3. \A i \in 1 .. Len(Waiting') : i = 1 \/ i \in 2 .. Len(Waiting)
    BY <1>1, <1>2
  <2>4. ASSUME NEW i \in 1 .. Len(Waiting') PROVE EventState(Waiting[i])'
    <3>1. CASE i = 1
      BY <1>2, <2>1, <3>1 DEF EventState
    <3> QED BY <1>1, <1>2, <2>3, <3>1
  <2>5. ASSUME NEW i \in 1 .. Len(Waiting'), NEW j \in 1 .. Len(Waiting'), i < j
        PROVE  Ordered(Waiting[i], Waiting[j])'
    <3>1. j \in 2 .. Len(Waiting) /\ Waiting'[j] = Waiting[j]
      BY <1>1, <1>2, <2>3, <2>5
    <3>2. Ordered(Waiting[i], Waiting[j])
      BY <1>1, <1>2, <2>5, <3>1 DEF EventsInv
    <3>3. Waiting'[i].kind = Waiting[i].kind /\ Waiting'[i].conn = Waiting[i].conn
      BY <1>1, <1>2, <2>1, <2>2, <2>3
    <3> QED BY <3>1, <3>2, <3>3 DEF Ordered
  <2> QED BY <2>4, <2>5 DEF EventsInv
<1>3. CASE /\ Len(Waiting') = Len(Waiting) - 1
           /\ \A i \in 1 .. Len(Waiting') : Waiting'[i] = Waiting[i + 1]
  <2>1. \A i \in 1 .. Len(Waiting') : i + 1 \in 2 .. Len(Waiting) /\ i + 1 \in 1 .. Len(Waiting)
    BY <1>1, <1>3
  <2>2. ASSUME NEW i \in 1 .. Len(Waiting') PROVE EventState(Waiting[i])'
    BY <1>1, <1>3, <2>1
  <2>3. ASSUME NEW i \in 1 .. Len(Waiting'), NEW j \in 1 .. Len(Waiting'), i < j
        PROVE  Ordered(Waiting[i], Waiting[j])'
    <3>1. Ordered(Waiting[i + 1], Waiting[j + 1])
      BY <2>1, <2>3 DEF EventsInv
    <3> QED BY <3>1, <1>3 DEF Ordered
  <2> QED BY <2>2, <2>3 DEF EventsInv
<1> HIDE DEF e, next
<1> QED BY <1>2, <1>3, WaitingRun DEF e, next

-----------------------------------------------------------------------------
(* The main thread *)

\* What is posted is an event, and names its connection.
LEMMA EventTypes ==
    ASSUME NEW c \in Connections, NEW f \in Fds \cup {NoFd}, NEW kind \in EventKinds
    PROVE  /\ Event(kind, c, f) \in Events
           /\ Event(kind, c, f).kind = kind /\ Event(kind, c, f).conn = c
           /\ Event(kind, c, f).fd = f
BY LifecycleAssumption DEF Event, Events, Fds, NoFd

\* The application connects a session.
LEMMA AppConnectStep ==
    ASSUME LifecycleInv, NEW c \in Connections, AppConnect(c)
    PROVE  LifecycleInv'
<1> DEFINE e == Event("connect", c, NoFd)
<1>1. e \in Events /\ e.kind = "connect" /\ e.conn = c
  BY EventTypes DEF EventKinds
<1>2. TypeOK /\ session[c] = "none" /\ connector[c] = "none" /\ Post(e)
  BY DEF LifecycleInv, AppConnect, ObjectsInv
<1> HIDE DEF e
<1>3. /\ posted' \in Seq(Events) /\ running' \in Seq(Events)
      /\ Len(Waiting') = Len(Waiting) + 1 /\ Len(Waiting) \in Nat
      /\ \A i \in 1 .. Len(Waiting) : Waiting'[i] = Waiting[i]
  BY <1>1, <1>2, WaitingPosted, WaitingSeq
<1>4. session' = [session EXCEPT ![c] = "alive"] /\ ready' = ready /\ running' = running
      /\ UNCHANGED <<bound, socketVars, kernelVars, messages>>
  BY DEF AppConnect, Post
<1>5. TypeOK'
  BY <1>2, <1>3, <1>4 DEF TypeOK, socketVars, kernelVars, ObjectStates
<1>6. ObjectsInv'
  BY <1>2, <1>4 DEF LifecycleInv, ObjectsInv, TypeOK, socketVars
<1>7. ASSUME NEW d \in Events, EventState(d) PROVE d.conn # c /\ EventState(d)'
  BY <1>2, <1>4, <1>7, LifecycleAssumption
     DEF EventState, LifecycleInv, ObjectsInv, TypeOK, socketVars, kernelVars
<1>8. EventsInv'
  <2>1. EventState(e)'
    BY <1>1, <1>2, <1>4 DEF EventState, TypeOK, socketVars
  <2>2. \A i \in 1 .. Len(Waiting) : Ordered(Waiting[i], e)
    BY <1>1, <1>2, <1>7, WaitingSeq DEF Ordered, LifecycleInv, EventsInv
  <2> QED BY <1>1, <1>2, <1>7, <2>1, <2>2, EventsPosted DEF LifecycleInv, EventsInv
<1>9. MessagesInv' /\ CloseIsLast' /\ ReadyInv'
  BY <1>2, <1>4 DEF LifecycleInv, MessagesInv, CloseIsLast, ReadyInv, socketVars
<1>10. TablesAgree' /\ DescriptorsOwned'
  BY <1>2, <1>3, <1>4 DEF LifecycleInv, TablesAgree, DescriptorsOwned, socketVars, kernelVars
<1> QED BY <1>5, <1>6, <1>8, <1>9, <1>10 DEF LifecycleInv

\* What every posted event leaves as it was.
LEMMA PostFrame ==
    ASSUME LifecycleInv, NEW e \in Events, Post(e), UNCHANGED messages
    PROVE  /\ posted' \in Seq(Events) /\ running' \in Seq(Events)
           /\ running' = running /\ ready' = ready
           /\ Len(Waiting) \in Nat /\ Len(Waiting') = Len(Waiting) + 1
           /\ \A i \in 1 .. Len(Waiting) : Waiting'[i] = Waiting[i]
BY WaitingPosted, WaitingSeq DEF LifecycleInv, Post

\* The application sends on a session or closes it.
LEMMA AppUsesStep ==
    ASSUME LifecycleInv, NEW c \in Connections, NEW kind \in {"send", "close"}, AppUses(c, kind)
    PROVE  LifecycleInv'
<1> DEFINE e == Event(kind, c, NoFd)
<1>1. e \in Events /\ e.kind = kind /\ e.conn = c
  BY EventTypes DEF EventKinds
<1>2. TypeOK /\ bound[c] /\ connector[c] = "alive" /\ Post(e)
  BY DEF LifecycleInv, AppUses, ObjectsInv
<1>3. UNCHANGED <<mainVars, socketVars, kernelVars, messages>>
  BY DEF AppUses
<1> HIDE DEF e
<1>4. /\ posted' \in Seq(Events) /\ running' \in Seq(Events)
      /\ running' = running /\ ready' = ready
      /\ Len(Waiting) \in Nat /\ Len(Waiting') = Len(Waiting) + 1
      /\ \A i \in 1 .. Len(Waiting) : Waiting'[i] = Waiting[i]
  BY <1>1, <1>2, <1>3, PostFrame
<1>5. TypeOK'
  BY <1>2, <1>3, <1>4 DEF TypeOK, mainVars, socketVars, kernelVars
<1>6. \A d \in Events : EventState(d) => EventState(d)'
  BY <1>3 DEF EventState, mainVars, socketVars, kernelVars
<1>7. EventsInv'
  <2>1. EventState(e)
    BY <1>1, <1>2 DEF EventState
  <2>2. \A i \in 1 .. Len(Waiting) : Ordered(Waiting[i], e)
    BY <1>1, <1>2, WaitingSeq DEF Ordered, LifecycleInv, EventsInv, EventState
  <2> QED BY <1>1, <1>2, <1>6, <2>1, <2>2, EventsPosted DEF LifecycleInv, EventsInv
<1>8. ObjectsInv' /\ MessagesInv' /\ CloseIsLast' /\ ReadyInv' /\ TablesAgree'
  BY <1>3, <1>4 DEF LifecycleInv, ObjectsInv, MessagesInv, CloseIsLast, ReadyInv, TablesAgree,
                    mainVars, socketVars, kernelVars
<1>9. DescriptorsOwned'
  BY <1>3, <1>4 DEF LifecycleInv, DescriptorsOwned, socketVars, kernelVars
<1> QED BY <1>5, <1>7, <1>8, <1>9 DEF LifecycleInv

\* The application closes all sockets.
LEMMA AppCloseAllStep ==
    ASSUME LifecycleInv, AppCloseAll
    PROVE  LifecycleInv'
<1> DEFINE e == Event("closeall", Nobody, 1)
<1>1. e \in Events /\ e.kind = "closeall" /\ e.conn = Nobody
  BY LifecycleAssumption DEF Event, Events, EventKinds
<1>2. TypeOK /\ Post(e)
  BY DEF LifecycleInv, AppCloseAll
<1>3. UNCHANGED <<mainVars, socketVars, kernelVars, messages>>
  BY DEF AppCloseAll
<1> HIDE DEF e
<1>4. /\ posted' \in Seq(Events) /\ running' \in Seq(Events)
      /\ running' = running /\ ready' = ready
      /\ Len(Waiting) \in Nat /\ Len(Waiting') = Len(Waiting) + 1
      /\ \A i \in 1 .. Len(Waiting) : Waiting'[i] = Waiting[i]
  BY <1>1, <1>2, <1>3, PostFrame
<1>5. TypeOK'
  BY <1>2, <1>3, <1>4 DEF TypeOK, mainVars, socketVars, kernelVars
<1>6. \A d \in Events : EventState(d) => EventState(d)'
  BY <1>3 DEF EventState, mainVars, socketVars, kernelVars
<1>7. EventsInv'
  <2>1. EventState(e)
    BY <1>1 DEF EventState
  <2>2. \A i \in 1 .. Len(Waiting) : Ordered(Waiting[i], e)
    BY <1>1, LifecycleAssumption DEF Ordered, LifecycleInv, EventsInv, EventState
  <2> QED BY <1>1, <1>2, <1>6, <2>1, <2>2, EventsPosted DEF LifecycleInv, EventsInv
<1>8. ObjectsInv' /\ MessagesInv' /\ CloseIsLast' /\ ReadyInv' /\ TablesAgree'
  BY <1>3, <1>4 DEF LifecycleInv, ObjectsInv, MessagesInv, CloseIsLast, ReadyInv, TablesAgree,
                    mainVars, socketVars, kernelVars
<1>9. DescriptorsOwned'
  BY <1>3, <1>4 DEF LifecycleInv, DescriptorsOwned, socketVars, kernelVars
<1> QED BY <1>5, <1>7, <1>8, <1>9 DEF LifecycleInv

\* A listener's client: nothing was known of its connection before.
LEMMA ListenerAcceptsStep ==
    ASSUME LifecycleInv, NEW c \in Connections, NEW f \in Fds, ListenerAccepts(c, f)
    PROVE  LifecycleInv'
<1> DEFINE e == Event("accepted", c, f)
<1>1. e \in Events /\ e.kind = "accepted" /\ e.conn = c /\ e.fd = f
  BY EventTypes DEF EventKinds
<1>2. /\ TypeOK /\ session[c] = "none" /\ connector[c] = "none" /\ Post(e)
      /\ handle[c] = NoFd /\ ~failed[c] /\ ~attached[c] /\ ~bound[c] /\ owner[f] = Nobody
      /\ NoFd \notin Fds /\ Nobody # c
  BY LifecycleAssumption DEF LifecycleInv, ListenerAccepts, ObjectsInv, NoFd, Fds
<1>3. /\ session' = [session EXCEPT ![c] = "alive"]
      /\ bound' = [bound EXCEPT ![c] = TRUE]
      /\ connector' = [connector EXCEPT ![c] = "alive"]
      /\ attached' = [attached EXCEPT ![c] = TRUE]
      /\ owner' = [owner EXCEPT ![f] = c]
      /\ UNCHANGED <<failed, handle, epoll, sockets, messages>>
  BY DEF ListenerAccepts
<1> HIDE DEF e
<1>4. /\ posted' \in Seq(Events) /\ running' \in Seq(Events)
      /\ running' = running /\ ready' = ready
      /\ Len(Waiting) \in Nat /\ Len(Waiting') = Len(Waiting) + 1
      /\ \A i \in 1 .. Len(Waiting) : Waiting'[i] = Waiting[i]
  BY <1>1, <1>2, <1>3, PostFrame
<1>5. Waiting'[Len(Waiting) + 1] = e
  BY <1>1, <1>2, WaitingPosted
<1>6. TypeOK'
  BY <1>2, <1>3, <1>4 DEF TypeOK, ObjectStates, Tables
<1>7. ObjectsInv'
  BY <1>2, <1>3 DEF LifecycleInv, ObjectsInv, TypeOK
<1>8. ASSUME NEW d \in Events, EventState(d) PROVE d.conn # c /\ EventState(d)'
  <2>1. d.conn # c
    BY <1>2, <1>8 DEF EventState
  <2> QED BY <2>1, <1>2, <1>3, <1>8, LifecycleAssumption DEF EventState, TypeOK, Tables
<1>9. EventsInv'
  <2>1. EventState(e)'
    BY <1>1, <1>2, <1>3 DEF EventState, TypeOK, Tables
  <2>2. \A i \in 1 .. Len(Waiting) : Ordered(Waiting[i], e)
    BY <1>1, <1>8, WaitingSeq, <1>2 DEF Ordered, LifecycleInv, EventsInv
  <2> QED BY <1>1, <1>2, <1>8, <2>1, <2>2, EventsPosted DEF LifecycleInv, EventsInv
<1>10. MessagesInv' /\ CloseIsLast' /\ ReadyInv'
  <2>1. \A i \in 1 .. Len(messages) : messages[i].conn # c
    BY <1>2 DEF LifecycleInv, MessagesInv
  <2>2. c \notin ready \ {EventFd}
    BY <1>2 DEF LifecycleInv, ReadyInv
  <2>3. ready \subseteq Connections \cup {EventFd} /\ messages \in Seq(Messages)
    BY <1>2 DEF TypeOK
  <2> QED BY <1>2, <1>3, <1>4, <2>1, <2>2, <2>3
          DEF LifecycleInv, MessagesInv, CloseIsLast, ReadyInv, TypeOK, Messages
<1>11. TablesAgree'
  BY <1>2, <1>3 DEF LifecycleInv, TablesAgree, TypeOK, Tables
<1>12. DescriptorsOwned'
  <2>1. ASSUME NEW d \in Connections, attached'[d], handle'[d] # NoFd
        PROVE  owner'[handle'[d]] = d
    BY <1>2, <1>3, <2>1, LifecycleAssumption DEF LifecycleInv, DescriptorsOwned, TypeOK, Tables
  <2>2. ASSUME NEW g \in Fds, owner'[g] # Nobody
        PROVE  /\ attached'[owner'[g]]
               /\ \/ handle'[owner'[g]] = g
                  \/ \E i \in 1 .. Len(Waiting') :
                        Waiting'[i] = Event("accepted", owner'[g], g)
    <3>1. CASE g = f
      BY <1>2, <1>3, <1>4, <1>5, <3>1 DEF e, TypeOK, Tables
    <3>2. CASE g # f
      <4>1. owner'[g] = owner[g] /\ attached[owner[g]] /\ owner[g] # c
        BY <1>2, <1>3, <2>2, <3>2 DEF TypeOK, Tables, LifecycleInv, DescriptorsOwned
      <4>2. owner[g] \in Connections
        BY <1>2, <2>2, <4>1 DEF TypeOK, Tables
      <4> QED BY <1>2, <1>3, <1>4, <2>2, <4>1, <4>2 DEF TypeOK, LifecycleInv, DescriptorsOwned
    <3> QED BY <3>1, <3>2
  <2> QED BY <2>1, <2>2 DEF DescriptorsOwned
<1> QED BY <1>6, <1>7, <1>9, <1>10, <1>11, <1>12 DEF LifecycleInv

\* A message is handled: the others follow each other as before.
LEMMA MessageTaken ==
    ASSUME LifecycleInv, messages # <<>>, messages' = Tail(messages), UNCHANGED attached
    PROVE  /\ messages' \in Seq(Messages) /\ Head(messages) \in Messages
           /\ Head(messages) = messages[1] /\ 1 \in 1 .. Len(messages)
           /\ \A i \in 1 .. Len(messages') :
                 i + 1 \in 2 .. Len(messages) /\ messages'[i] = messages[i + 1]
           /\ CloseIsLast'
<1>1. messages \in Seq(Messages) /\ Len(messages) \in Nat \ {0}
  BY EmptySeq DEF LifecycleInv, TypeOK
<1>2. /\ Head(messages) \in Messages /\ Head(messages) = messages[1]
      /\ messages' \in Seq(Messages) /\ Len(messages') = Len(messages) - 1
      /\ \A i \in 1 .. Len(messages') : messages'[i] = messages[i + 1]
  BY <1>1, HeadTailProperties
<1>3. \A i \in 1 .. Len(messages') : i + 1 \in 2 .. Len(messages) /\ i + 1 \in 1 .. Len(messages)
  BY <1>1, <1>2
<1>4. ASSUME NEW i \in 1 .. Len(messages'), messages'[i].kind = "close"
      PROVE  /\ ~attached'[messages'[i].conn]
             /\ \A j \in i + 1 .. Len(messages') : messages'[j].conn # messages'[i].conn
  <2>1. \A j \in i + 1 .. Len(messages') :
           j \in 1 .. Len(messages') /\ j + 1 \in (i + 1) + 1 .. Len(messages)
    BY <1>1, <1>2
  <2>2. /\ ~attached[messages[i + 1].conn]
        /\ \A j \in (i + 1) + 1 .. Len(messages) : messages[j].conn # messages[i + 1].conn
    BY <1>2, <1>3, <1>4 DEF LifecycleInv, CloseIsLast
  <2> QED BY <1>2, <2>1, <2>2
<1>5. ASSUME NEW i \in 1 .. Len(messages'), messages'[i].kind = "error"
      PROVE  /\ i < Len(messages')
             /\ messages'[i + 1] = Message("close", messages'[i].conn)
  <2>1. i + 1 < Len(messages) /\ messages[(i + 1) + 1] = Message("close", messages[i + 1].conn)
    BY <1>2, <1>3, <1>5 DEF LifecycleInv, CloseIsLast
  <2>2. i < Len(messages') /\ i + 1 \in 1 .. Len(messages')
    BY <1>1, <1>2, <2>1
  <2> QED BY <1>2, <2>1, <2>2
<1>6. CloseIsLast'
  BY <1>4, <1>5 DEF CloseIsLast
<1>7. 1 \in 1 .. Len(messages)
  BY <1>1
<1>8. \A i \in 1 .. Len(messages') :
         i + 1 \in 2 .. Len(messages) /\ messages'[i] = messages[i + 1]
  BY <1>2, <1>3
<1> QED BY <1>2, <1>6, <1>7, <1>8

\* A message that only the session reads.
LEMMA HandleDataStep ==
    ASSUME LifecycleInv, messages # <<>>, messages' = Tail(messages),
           UNCHANGED <<mainVars, queueVars, socketVars, kernelVars>>
    PROVE  LifecycleInv'
<1>1. /\ messages' \in Seq(Messages) /\ CloseIsLast'
      /\ \A i \in 1 .. Len(messages') :
            i + 1 \in 2 .. Len(messages) /\ messages'[i] = messages[i + 1]
  BY MessageTaken DEF socketVars
<1>2. Waiting' = Waiting
  BY DEF Waiting, queueVars
<1>3. TypeOK'
  BY <1>1 DEF LifecycleInv, TypeOK, mainVars, queueVars, socketVars, kernelVars
<1>4. MessagesInv'
  BY <1>1 DEF LifecycleInv, MessagesInv, mainVars
<1>5. EventsInv'
  BY <1>2, EventsSame DEF LifecycleInv, EventsInv, EventState, mainVars, socketVars, kernelVars
<1>6. ObjectsInv' /\ ReadyInv' /\ TablesAgree'
  BY DEF LifecycleInv, ObjectsInv, ReadyInv, TablesAgree,
         mainVars, queueVars, socketVars, kernelVars
<1>7. DescriptorsOwned'
  BY <1>2 DEF LifecycleInv, DescriptorsOwned, socketVars, kernelVars
<1> QED BY <1>1, <1>3, <1>4, <1>5, <1>6, <1>7 DEF LifecycleInv

\* The error message's event is not the connector's last.
LEMMA HandleErrorStep ==
    ASSUME LifecycleInv, messages # <<>>, messages' = Tail(messages),
           Head(messages).kind = "error",
           Post(Event("onerror", Head(messages).conn, NoFd)),
           UNCHANGED <<mainVars, socketVars, kernelVars>>
    PROVE  LifecycleInv'
<1> DEFINE c == Head(messages).conn
           e == Event("onerror", c, NoFd)
<1>1. /\ messages' \in Seq(Messages) /\ CloseIsLast'
      /\ Head(messages) \in Messages /\ Head(messages) = messages[1] /\ 1 \in 1 .. Len(messages)
      /\ \A i \in 1 .. Len(messages') :
            i + 1 \in 2 .. Len(messages) /\ messages'[i] = messages[i + 1]
  BY MessageTaken DEF socketVars
<1>2. c \in Connections /\ bound[c] /\ connector[c] = "alive" /\ TypeOK
  BY <1>1 DEF LifecycleInv, MessagesInv, ObjectsInv, Messages
<1>3. e \in Events /\ e.kind = "onerror" /\ e.conn = c /\ Post(e)
  BY <1>2, EventTypes DEF EventKinds
<1> HIDE DEF e, c
<1>4. /\ posted' \in Seq(Events) /\ running' \in Seq(Events)
      /\ Len(Waiting) \in Nat /\ Len(Waiting') = Len(Waiting) + 1
      /\ \A i \in 1 .. Len(Waiting) : Waiting'[i] = Waiting[i]
  BY <1>2, <1>3, WaitingPosted, WaitingSeq
<1>5. running' = running /\ ready' = ready
  BY <1>3 DEF Post
<1>6. TypeOK'
  BY <1>1, <1>2, <1>4, <1>5 DEF TypeOK, mainVars, socketVars, kernelVars
<1>7. EventsInv'
  <2>1. \A d \in Events : EventState(d) => EventState(d)'
    BY DEF EventState, mainVars, socketVars, kernelVars
  <2>2. EventState(e)
    BY <1>2, <1>3 DEF EventState
  <2>3. \A i \in 1 .. Len(Waiting) : Ordered(Waiting[i], e)
    BY <1>2, <1>3, WaitingSeq DEF Ordered, LifecycleInv, EventsInv, EventState
  <2> QED BY <1>2, <1>3, <2>1, <2>2, <2>3, EventsPosted DEF LifecycleInv, EventsInv
<1>8. MessagesInv'
  BY <1>1 DEF LifecycleInv, MessagesInv, mainVars
<1>9. ObjectsInv' /\ ReadyInv' /\ TablesAgree'
  BY <1>5 DEF LifecycleInv, ObjectsInv, ReadyInv, TablesAgree, mainVars, socketVars, kernelVars
<1>10. DescriptorsOwned'
  <2>1. \A i \in 1 .. Len(Waiting) : i \in 1 .. Len(Waiting') /\ Waiting'[i] = Waiting[i]
    BY <1>4
  <2>2. UNCHANGED <<attached, handle, owner>>
    BY DEF socketVars, kernelVars
  <2> QED BY <2>1, <2>2 DEF LifecycleInv, DescriptorsOwned
<1> QED BY <1>1, <1>6, <1>7, <1>8, <1>9, <1>10 DEF LifecycleInv

\* The close message is its session's last, and its event the connector's: the
\* session no longer names the connector.
LEMMA HandleCloseStep ==
    ASSUME LifecycleInv, NEW c \in Connections, messages # <<>>, messages' = Tail(messages),
           Head(messages).kind = "close", Head(messages).conn = c,
           Post(Event("onclose", c, NoFd)),
           bound' = [bound EXCEPT ![c] = FALSE],
           session' = [session EXCEPT ![c] = "deleted"],
           UNCHANGED <<socketVars, kernelVars>>
    PROVE  LifecycleInv'
<1> DEFINE e == Event("onclose", c, NoFd)
<1>1. /\ messages' \in Seq(Messages) /\ CloseIsLast'
      /\ Head(messages) \in Messages /\ Head(messages) = messages[1] /\ 1 \in 1 .. Len(messages)
      /\ \A i \in 1 .. Len(messages') :
            i + 1 \in 2 .. Len(messages) /\ messages'[i] = messages[i + 1]
  BY MessageTaken DEF socketVars
<1>2. /\ c \in Connections /\ bound[c] /\ connector[c] = "alive" /\ TypeOK /\ ~attached[c]
      /\ failed[c]
      /\ \A i \in 2 .. Len(messages) : messages[i].conn # c
  BY <1>1 DEF LifecycleInv, MessagesInv, ObjectsInv, Messages, CloseIsLast
<1>3. /\ e \in Events /\ e.kind = "onclose" /\ e.conn = c /\ Post(e)
      /\ bound' = [bound EXCEPT ![c] = FALSE] /\ session' = [session EXCEPT ![c] = "deleted"]
  BY <1>2, EventTypes DEF EventKinds
<1> HIDE DEF e
<1>4. /\ posted' \in Seq(Events) /\ running' \in Seq(Events)
      /\ Len(Waiting) \in Nat /\ Len(Waiting') = Len(Waiting) + 1
      /\ \A i \in 1 .. Len(Waiting) : Waiting'[i] = Waiting[i]
  BY <1>2, <1>3, WaitingPosted, WaitingSeq
<1>5. running' = running /\ ready' = ready
  BY <1>3 DEF Post
<1>6. TypeOK'
  BY <1>1, <1>2, <1>3, <1>4, <1>5 DEF TypeOK, ObjectStates, socketVars, kernelVars
<1>7. EventsInv'
  <2>1. ASSUME NEW d \in Events, EventState(d) PROVE EventState(d)'
    <3>1. UNCHANGED <<connector, attached, handle, owner>>
      BY DEF socketVars, kernelVars
    <3>2. d.kind = "connect" => d.conn # c /\ d.conn \in Connections
      BY <1>2, <2>1 DEF EventState
    <3>3. d.kind = "connect" => session'[d.conn] = "alive"
      BY <1>2, <1>3, <2>1, <3>2 DEF EventState, TypeOK
    <3>4. d.kind = "onclose" => d.conn \in Connections
      BY <2>1 DEF EventState
    <3>5. d.kind = "onclose" => ~bound'[d.conn]
      BY <1>2, <1>3, <2>1, <3>4 DEF EventState, TypeOK
    <3> QED BY <2>1, <3>1, <3>3, <3>5 DEF EventState
  <2>2. EventState(e)'
    <3>1. connector'[c] = "alive" /\ ~bound'[c]
      BY <1>2, <1>3 DEF TypeOK, socketVars
    <3> QED BY <1>3, <3>1 DEF EventState
  <2>3. \A i \in 1 .. Len(Waiting) : Ordered(Waiting[i], e)
    BY <1>2, <1>3, WaitingSeq DEF Ordered, LifecycleInv, EventsInv, EventState
  <2>4. \A i \in 1 .. Len(Waiting) : \A d \in Events : d = Waiting[i] => EventState(d)'
    BY <2>1 DEF LifecycleInv, EventsInv
  <2>5. EventsInv
    BY DEF LifecycleInv
  <2> QED BY <1>2, <1>3, <2>2, <2>3, <2>4, <2>5, EventsPosted
<1>8. MessagesInv'
  <2>1. ASSUME NEW i \in 1 .. Len(messages') PROVE bound'[messages'[i].conn]
    <3>1. i + 1 \in 2 .. Len(messages) /\ i + 1 \in 1 .. Len(messages)
          /\ messages'[i] = messages[i + 1]
      BY <1>1
    <3>2. messages[i + 1].conn # c /\ bound[messages[i + 1].conn]
      BY <1>2, <3>1 DEF LifecycleInv, MessagesInv
    <3>3. messages[i + 1].conn \in Connections
      <4>1. messages \in Seq(Messages)
        BY <1>2 DEF TypeOK
      <4>2. messages[i + 1] \in Messages
        BY <3>1, <4>1, ElementOfSeq
      <4> QED BY <4>2 DEF Messages
    <3> QED BY <1>2, <1>3, <3>1, <3>2, <3>3 DEF TypeOK
  <2> QED BY <2>1 DEF MessagesInv
<1>9. ObjectsInv'
  BY <1>2, <1>3 DEF LifecycleInv, ObjectsInv, TypeOK, socketVars
<1>10. ReadyInv' /\ TablesAgree'
  BY <1>5 DEF LifecycleInv, ReadyInv, TablesAgree, socketVars, kernelVars
<1>11. DescriptorsOwned'
  <2>1. \A i \in 1 .. Len(Waiting) : i \in 1 .. Len(Waiting') /\ Waiting'[i] = Waiting[i]
    BY <1>4
  <2>2. UNCHANGED <<attached, handle, owner>>
    BY DEF socketVars, kernelVars
  <2> QED BY <2>1, <2>2 DEF LifecycleInv, DescriptorsOwned
<1> QED BY <1>1, <1>6, <1>7, <1>8, <1>9, <1>10, <1>11 DEF LifecycleInv

\* The main thread handles a message.
LEMMA HandleMessageStep ==
    ASSUME LifecycleInv, HandleMessage
    PROVE  LifecycleInv'
<1>1. Head(messages).conn \in Connections
  <2>1. messages \in Seq(Messages) /\ messages # <<>>
    BY DEF HandleMessage, LifecycleInv, TypeOK
  <2>2. Head(messages) \in Messages
    BY <2>1, HeadTailProperties
  <2> QED BY <2>2 DEF Messages
<1> QED BY <1>1, HandleDataStep, HandleErrorStep, HandleCloseStep DEF HandleMessage

-----------------------------------------------------------------------------
(* What an operation of the I/O thread does to the messages and the objects *)

\* What is pushed is a message, and names its connection.
LEMMA MessageTypes ==
    ASSUME NEW c \in Connections, NEW kind \in {"data", "error", "close"}
    PROVE  /\ Message(kind, c) \in Messages
           /\ Message(kind, c).kind = kind /\ Message(kind, c).conn = c
BY DEF Message, Messages

\* A session with a connector gets a data message.
LEMMA DataPushed ==
    ASSUME LifecycleInv, NEW c \in Connections, attached[c],
           messages' = Append(messages, Message("data", c)), UNCHANGED <<bound, attached>>
    PROVE  messages' \in Seq(Messages) /\ MessagesInv' /\ CloseIsLast'
<1> DEFINE m == Message("data", c)
<1>1. m \in Messages /\ m.kind = "data" /\ m.conn = c
  BY MessageTypes
<1> HIDE DEF m
<1>2. messages \in Seq(Messages) /\ Len(messages) \in Nat /\ bound[c]
  BY DEF LifecycleInv, TypeOK, ObjectsInv
<1>3. /\ messages' \in Seq(Messages) /\ Len(messages') = Len(messages) + 1
      /\ \A i \in 1 .. Len(messages) : messages'[i] = messages[i]
      /\ messages'[Len(messages) + 1] = m
  BY <1>1, <1>2, AppendProperties DEF m
<1>4. \A i \in 1 .. Len(messages') : i \in 1 .. Len(messages) \/ i = Len(messages) + 1
  BY <1>2, <1>3
<1>5. MessagesInv'
  BY <1>1, <1>2, <1>3, <1>4 DEF LifecycleInv, MessagesInv
<1>6. ASSUME NEW i \in 1 .. Len(messages'), messages'[i].kind = "close"
      PROVE  /\ ~attached'[messages'[i].conn]
             /\ \A j \in i + 1 .. Len(messages') : messages'[j].conn # messages'[i].conn
  <2>1. i \in 1 .. Len(messages)
    BY <1>1, <1>3, <1>4, <1>6
  <2>2. /\ ~attached[messages[i].conn]
        /\ \A j \in i + 1 .. Len(messages) : messages[j].conn # messages[i].conn
    BY <1>3, <1>6, <2>1 DEF LifecycleInv, CloseIsLast
  <2>3. \A j \in i + 1 .. Len(messages') :
           \/ j \in i + 1 .. Len(messages) /\ j \in 1 .. Len(messages)
           \/ j = Len(messages) + 1
    BY <1>2, <1>3, <2>1
  <2>4. messages[i].conn # c
    BY <2>2
  <2> QED BY <1>1, <1>3, <2>1, <2>2, <2>3, <2>4
<1>7. ASSUME NEW i \in 1 .. Len(messages'), messages'[i].kind = "error"
      PROVE  /\ i < Len(messages')
             /\ messages'[i + 1] = Message("close", messages'[i].conn)
  <2>1. i \in 1 .. Len(messages)
    BY <1>1, <1>3, <1>4, <1>7
  <2>2. i < Len(messages) /\ messages[i + 1] = Message("close", messages[i].conn)
    BY <1>3, <1>7, <2>1 DEF LifecycleInv, CloseIsLast
  <2>3. i + 1 \in 1 .. Len(messages) /\ i < Len(messages')
    BY <1>2, <1>3, <2>1, <2>2
  <2> QED BY <1>3, <2>1, <2>2, <2>3
<1>8. CloseIsLast'
  BY <1>6, <1>7 DEF CloseIsLast
<1> QED BY <1>3, <1>5, <1>8

\* A session that has not been told is told of its end.
LEMMA ReportPushed ==
    ASSUME LifecycleInv, NEW c \in Connections, messages' = messages \o Report(c),
           \A i \in 1 .. Len(messages) : messages[i].kind = "close" => messages[i].conn # c,
           bound'[c], ~attached'[c],
           \A d \in Connections \ {c} : bound'[d] = bound[d] /\ attached'[d] = attached[d]
    PROVE  messages' \in Seq(Messages) /\ MessagesInv' /\ CloseIsLast'
<1> DEFINE m == Message("error", c)
           l == Message("close", c)
           n == Len(messages)
<1>1. /\ m \in Messages /\ m.kind = "error" /\ m.conn = c
      /\ l \in Messages /\ l.kind = "close" /\ l.conn = c
  BY MessageTypes
<1>2. messages \in Seq(Messages) /\ n \in Nat
  BY DEF LifecycleInv, TypeOK
<1>3. Report(c) = <<m, l>>
  BY DEF Report
<1> HIDE DEF m, l
<1>4. /\ Report(c) \in Seq(Messages) /\ Len(Report(c)) = 2
      /\ Report(c)[1] = m /\ Report(c)[2] = l
  BY <1>1, <1>3
<1>5. /\ messages' \in Seq(Messages) /\ Len(messages') = n + 2
      /\ \A i \in 1 .. n + 2 :
            messages'[i] = IF i <= n THEN messages[i] ELSE Report(c)[i - n]
  <2>1. /\ messages \o Report(c) \in Seq(Messages)
        /\ Len(messages \o Report(c)) = Len(messages) + Len(Report(c))
    BY <1>2, <1>4, ConcatProperties
  <2>2. \A i \in 1 .. Len(messages) + Len(Report(c)) : (messages \o Report(c))[i] =
           IF i <= Len(messages) THEN messages[i] ELSE Report(c)[i - Len(messages)]
    BY <1>2, <1>4, ConcatProperties
  <2> QED BY <1>4, <2>1, <2>2
<1> HIDE DEF n
<1>6. /\ \A i \in 1 .. n : messages'[i] = messages[i]
      /\ messages'[n + 1] = m /\ messages'[n + 2] = l
  <2>1. \A i \in 1 .. n : i \in 1 .. n + 2 /\ i <= n
    BY <1>2
  <2>3. \A i \in 1 .. n : messages'[i] = messages[i]
    BY <1>5, <2>1
  <2>4. ASSUME NEW i \in Nat, NEW k \in 1 .. 2, i = n + k PROVE messages'[i] = Report(c)[k]
    <3>1. i \in 1 .. n + 2 /\ ~(i <= n) /\ i - n = k
      BY <1>2, <2>4
    <3> QED BY <1>5, <3>1
  <2>5. n + 1 \in Nat /\ n + 2 \in Nat /\ 1 \in 1 .. 2 /\ 2 \in 1 .. 2
    BY <1>2
  <2>6. messages'[n + 1] = Report(c)[1] /\ messages'[n + 2] = Report(c)[2]
    BY <2>4, <2>5
  <2> QED BY <1>4, <2>3, <2>6
<1>7. \A i \in 1 .. Len(messages') : i \in 1 .. n \/ i = n + 1 \/ i = n + 2
  BY <1>2, <1>5
<1>8. \A i \in 1 .. n : messages[i].conn \in Connections
  <2>1. \A i \in 1 .. n : messages[i] \in Messages
    BY <1>2, ElementOfSeq DEF n
  <2> QED BY <2>1 DEF Messages
<1>9. \A i \in 1 .. n : bound[messages[i].conn]
  BY DEF LifecycleInv, MessagesInv, n
<1>10. MessagesInv'
  <2>1. ASSUME NEW i \in 1 .. n PROVE bound'[messages'[i].conn]
    <3>1. messages'[i].conn \in Connections /\ bound[messages'[i].conn]
      BY <1>6, <1>8, <1>9
    <3>2. CASE messages'[i].conn = c
      BY <3>2
    <3>3. CASE messages'[i].conn # c
      BY <3>1, <3>3
    <3> QED BY <3>2, <3>3
  <2>2. bound'[messages'[n + 1].conn] /\ bound'[messages'[n + 2].conn]
    BY <1>1, <1>6
  <2> QED BY <1>7, <2>1, <2>2 DEF MessagesInv
<1>11. ASSUME NEW i \in 1 .. Len(messages'), messages'[i].kind = "close"
       PROVE  /\ ~attached'[messages'[i].conn]
              /\ \A j \in i + 1 .. Len(messages') : messages'[j].conn # messages'[i].conn
  <2>1. CASE i \in 1 .. n
    <3>1. /\ messages'[i] = messages[i] /\ messages[i].conn # c
          /\ ~attached[messages[i].conn]
          /\ \A j \in i + 1 .. n : messages[j].conn # messages[i].conn
      BY <1>6, <1>11, <2>1 DEF LifecycleInv, CloseIsLast, n
    <3>2. \A j \in i + 1 .. Len(messages') :
             (j \in i + 1 .. n /\ j \in 1 .. n) \/ j = n + 1 \/ j = n + 2
      <4>1. Len(messages') = n + 2
        BY <1>5
      <4> QED BY <1>2, <2>1, <4>1
    <3> QED BY <1>1, <1>6, <1>8, <2>1, <3>1, <3>2
  <2>2. CASE i = n + 2
    BY <1>1, <1>2, <1>5, <1>6, <2>2
  <2> QED BY <1>1, <1>6, <1>7, <1>11, <2>1, <2>2
<1>12. ASSUME NEW i \in 1 .. Len(messages'), messages'[i].kind = "error"
       PROVE  /\ i < Len(messages')
              /\ messages'[i + 1] = Message("close", messages'[i].conn)
  <2>1. CASE i \in 1 .. n
    <3>1. i < n /\ messages[i + 1] = Message("close", messages[i].conn)
      BY <1>6, <1>12, <2>1 DEF LifecycleInv, CloseIsLast, n
    <3>2. i + 1 \in 1 .. n /\ i < Len(messages')
      BY <1>2, <1>5, <2>1, <3>1
    <3> QED BY <1>6, <2>1, <3>1, <3>2
  <2>2. CASE i = n + 1
    <3>1. i < Len(messages') /\ i + 1 = n + 2
      BY <1>2, <1>5, <2>2
    <3> QED BY <1>1, <1>6, <2>2, <3>1 DEF l
  <2> QED BY <1>1, <1>6, <1>7, <1>12, <2>1, <2>2
<1>13. CloseIsLast'
  BY <1>11, <1>12 DEF CloseIsLast
<1> QED BY <1>5, <1>10, <1>13

\* No socket is on its way to a connector.
NotAwaited(c) == \A i \in 1 .. Len(Waiting) :
    Waiting[i].kind = "accepted" => Waiting[i].conn # c

\* An operation has worked.
LEMMA WorksStep ==
    ASSUME LifecycleInv, NEW c \in Connections, attached[c], Works(c), UNCHANGED mainVars
    PROVE  /\ messages' \in Seq(Messages) /\ MessagesInv' /\ CloseIsLast'
           /\ ObjectsInv' /\ TablesAgree'
           /\ \A d \in Events : EventState(d) => EventState(d)'
<1>1. messages' \in Seq(Messages) /\ MessagesInv' /\ CloseIsLast'
  <2>1. CASE UNCHANGED messages
    BY <2>1 DEF LifecycleInv, TypeOK, MessagesInv, CloseIsLast, Works, mainVars, socketVars
  <2>2. CASE messages' = Append(messages, Message("data", c))
    BY <2>2, DataPushed DEF Works, mainVars, socketVars
  <2> QED BY <2>1, <2>2 DEF Works
<1>2. ObjectsInv' /\ TablesAgree'
  BY DEF LifecycleInv, ObjectsInv, TablesAgree, Works, mainVars, socketVars, kernelVars
<1>3. \A d \in Events : EventState(d) => EventState(d)'
  BY DEF EventState, Works, mainVars, socketVars, kernelVars
<1> QED BY <1>1, <1>2, <1>3

\* An operation has failed on a connector that no socket is on its way to: it
\* gives up the only descriptor it may own.
LEMMA FailStep ==
    ASSUME LifecycleInv, NEW c \in Connections, connector[c] = "alive", NotAwaited(c),
           Fail(c), UNCHANGED mainVars
    PROVE  /\ messages' \in Seq(Messages) /\ MessagesInv' /\ CloseIsLast'
           /\ owner' \in Tables /\ epoll' \in Tables /\ sockets' \in Tables
           /\ attached' \in [Connections -> BOOLEAN] /\ failed' \in [Connections -> BOOLEAN]
           /\ UNCHANGED <<connector, handle>>
           /\ ObjectsInv' /\ TablesAgree'
           /\ \A d \in Connections \ {c} : attached'[d] = attached[d]
           /\ \A d \in Connections :
                 attached'[d] /\ handle'[d] # NoFd => owner'[handle'[d]] = d
           /\ \A f \in Fds : owner'[f] # Nobody =>
                 /\ owner'[f] = owner[f] /\ owner[f] # c /\ attached'[owner'[f]]
           /\ \A d \in Events : EventState(d) /\ ~(d.kind = "accepted" /\ d.conn = c)
                 => EventState(d)'
<1> DEFINE h == handle[c]
           R == Removed(h)
<1>1. TypeOK /\ Nobody # c /\ UNCHANGED <<connector, handle, bound, session>>
  BY LifecycleAssumption DEF LifecycleInv, Fail, mainVars
<1>2. /\ sockets' = Without(sockets, R)
      /\ failed' = [failed EXCEPT ![c] = TRUE]
  BY DEF Fail, ErrorOperation
<1>3. /\ owner' = Without(owner, IF attached[c] THEN {h} ELSE {})
      /\ epoll' = Without(Without(epoll, R), IF attached[c] THEN {h} ELSE {})
      /\ attached' = [attached EXCEPT ![c] = FALSE]
  <2>1. CASE attached[c]
    BY <2>1 DEF Fail, ErrorOperation
  <2>2. CASE ~attached[c]
    <3>1. owner' = owner /\ epoll' = Without(epoll, R) /\ attached' = attached
      BY <2>2 DEF Fail, ErrorOperation
    <3>2. \A T \in Tables : Without(T, {}) = T
      BY DEF Without, Tables
    <3>3. Without(epoll, R) \in Tables
      BY <1>1 DEF TypeOK, Tables, Without
    <3> QED BY <1>1, <2>2, <3>1, <3>2, <3>3 DEF TypeOK
  <2> QED BY <2>1, <2>2
<1>4. messages' \in Seq(Messages) /\ MessagesInv' /\ CloseIsLast'
  <2>1. CASE attached[c]
    <3>1. messages' = messages \o Report(c)
      BY <2>1 DEF Fail, ErrorOperation
    <3>2. \A i \in 1 .. Len(messages) : messages[i].kind = "close" => messages[i].conn # c
      BY <2>1 DEF LifecycleInv, CloseIsLast
    <3>3. /\ bound'[c] /\ ~attached'[c]
          /\ \A d \in Connections \ {c} : bound'[d] = bound[d] /\ attached'[d] = attached[d]
      BY <1>1, <1>3, <2>1 DEF TypeOK, LifecycleInv, ObjectsInv
    <3> QED BY <3>1, <3>2, <3>3, ReportPushed
  <2>2. CASE ~attached[c]
    BY <1>1, <2>2 DEF Fail, ErrorOperation, LifecycleInv, TypeOK, MessagesInv, CloseIsLast
  <2> QED BY <2>1, <2>2
<1>5. /\ owner' \in Tables /\ epoll' \in Tables /\ sockets' \in Tables
      /\ attached' \in [Connections -> BOOLEAN] /\ failed' \in [Connections -> BOOLEAN]
  BY <1>1, <1>2, <1>3 DEF TypeOK, Tables, Without
<1>6. /\ ~attached'[c] /\ failed'[c]
      /\ \A d \in Connections \ {c} : attached'[d] = attached[d] /\ failed'[d] = failed[d]
  BY <1>1, <1>2, <1>3 DEF TypeOK
<1>7. ObjectsInv'
  BY <1>1, <1>6 DEF LifecycleInv, ObjectsInv
<1>8. R \subseteq {h} /\ (h \in Fds /\ epoll[h] # Nobody => h \in R)
  BY DEF Removed
<1>9. /\ attached[c] /\ h # NoFd => h \in Fds /\ owner[h] = c
      /\ \A g \in Fds : owner[g] = c => h = g /\ attached[c]
  <2>1. attached[c] /\ h # NoFd => h \in Fds /\ owner[h] = c
    BY <1>1 DEF LifecycleInv, DescriptorsOwned, TypeOK
  <2>2. ASSUME NEW g \in Fds, owner[g] = c PROVE h = g /\ attached[c]
    <3>1. ~\E i \in 1 .. Len(Waiting) : Waiting[i] = Event("accepted", c, g)
      BY EventTypes DEF NotAwaited, Event
    <3> QED BY <1>1, <2>2, <3>1 DEF LifecycleInv, DescriptorsOwned
  <2> QED BY <2>1, <2>2
<1>10. \A g \in Fds : /\ sockets[g] = epoll[g]
                      /\ epoll[g] # Nobody => owner[g] = epoll[g] /\ handle[epoll[g]] = g
  BY DEF LifecycleInv, TablesAgree
<1> HIDE DEF h, R
<1>11. /\ \A g \in Fds : owner'[g] = IF attached[c] /\ g = h THEN Nobody ELSE owner[g]
       /\ \A g \in Fds : sockets'[g] = IF g \in R THEN Nobody ELSE sockets[g]
       /\ \A g \in Fds :
             epoll'[g] = IF g \in R \/ (attached[c] /\ g = h) THEN Nobody ELSE epoll[g]
  BY <1>2, <1>3 DEF Without
<1>12. TablesAgree'
  <2>1. ASSUME NEW g \in Fds
        PROVE  /\ epoll'[g] = sockets'[g]
               /\ epoll'[g] # Nobody => owner'[g] = owner[g] /\ epoll'[g] = epoll[g]
    BY <1>8, <1>10, <1>11
  <2> QED BY <1>1, <1>10, <2>1 DEF TablesAgree
<1>13. ASSUME NEW d \in Connections, attached'[d], handle'[d] # NoFd
       PROVE  owner'[handle'[d]] = d
  <2>1. d # c /\ attached[d] /\ handle[d] \in Fds /\ handle[d] # NoFd /\ owner[handle[d]] = d
    BY <1>1, <1>6, <1>13 DEF LifecycleInv, DescriptorsOwned, TypeOK
  <2> QED BY <1>1, <1>9, <1>11, <2>1
<1>14. ASSUME NEW f \in Fds, owner'[f] # Nobody
       PROVE  owner'[f] = owner[f] /\ owner[f] # c /\ attached'[owner'[f]]
  <2>1. owner'[f] = owner[f] /\ owner[f] # c
    BY <1>9, <1>11, <1>14
  <2>2. owner[f] \in Connections /\ attached[owner[f]]
    BY <1>1, <1>14, <2>1 DEF TypeOK, Tables, LifecycleInv, DescriptorsOwned
  <2> QED BY <1>6, <2>1, <2>2
<1>15. ASSUME NEW d \in Events, EventState(d), ~(d.kind = "accepted" /\ d.conn = c)
       PROVE  EventState(d)'
  <2>1. CASE d.kind = "accepted"
    <3>1. /\ d.conn \in Connections \ {c} /\ attached[d.conn] /\ handle[d.conn] = NoFd
          /\ d.fd \in Fds /\ owner[d.fd] = d.conn /\ connector[d.conn] = "alive"
      BY <1>15, <2>1 DEF EventState
    <3>2. owner'[d.fd] = d.conn
      <4>1. d.fd # NoFd
        BY <3>1 DEF Fds, NoFd
      <4> QED BY <1>9, <1>11, <3>1, <4>1
    <3> QED BY <1>1, <1>6, <2>1, <3>1, <3>2 DEF EventState
  <2>2. CASE d.kind # "accepted"
    BY <1>1, <1>15, <2>2 DEF EventState
  <2> QED BY <2>1, <2>2
<1> QED BY <1>1, <1>4, <1>5, <1>6, <1>7, <1>12, <1>13, <1>14, <1>15

-----------------------------------------------------------------------------
(* The I/O thread *)

\* The module takes what is posted.
LEMMA TakeEventsStep ==
    ASSUME LifecycleInv, TakeEvents
    PROVE  LifecycleInv'
<1>1. TypeOK /\ posted' \in Seq(Events) /\ running' \in Seq(Events) /\ Waiting' = Waiting
  BY WaitingTaken DEF LifecycleInv
<1>2. /\ UNCHANGED <<mainVars, socketVars, kernelVars, messages>>
      /\ running = <<>> /\ EventFd \in ready /\ ready' = ready \ {EventFd} /\ running' = posted
  BY DEF TakeEvents
<1>3. TypeOK'
  BY <1>1, <1>2 DEF TypeOK, mainVars, socketVars, kernelVars
<1>4. EventsInv'
  BY <1>1, <1>2, EventsSame DEF LifecycleInv, EventsInv, EventState, mainVars, socketVars, kernelVars
<1>5. ObjectsInv' /\ MessagesInv' /\ CloseIsLast' /\ TablesAgree' /\ DescriptorsOwned'
  BY <1>1, <1>2 DEF LifecycleInv, ObjectsInv, MessagesInv, CloseIsLast, TablesAgree,
                    DescriptorsOwned, mainVars, socketVars, kernelVars
<1>6. ReadyInv'
  <2>1. ASSUME NEW c \in ready' \ {EventFd}, NEW i \in 1 .. Len(running'),
               running'[i].kind = "onclose"
        PROVE  running'[i].conn # c
    <3>1. c \in Connections /\ attached[c] /\ bound[c]
      BY <1>1, <1>2, <2>1 DEF LifecycleInv, ReadyInv, ObjectsInv, TypeOK
    <3>2. /\ Len(running) = 0 /\ running \in Seq(Events) /\ Len(posted) \in Nat
          /\ i \in 1 .. Len(posted)
      BY <1>1, <1>2, <2>1 DEF TypeOK
    <3>3. /\ i \in 1 .. Len(Waiting) /\ ~(i <= Len(running)) /\ i - Len(running) = i
      BY <1>1, <3>2, WaitingSeq
    <3>4. Waiting[i] = running'[i]
      BY <1>1, <1>2, <3>3, WaitingSeq
    <3>5. ~bound[running'[i].conn]
      BY <2>1, <3>3, <3>4 DEF LifecycleInv, EventsInv, EventState
    <3> QED BY <3>1, <3>5
  <2>2. \A c \in ready' \ {EventFd} : connector'[c] = "alive" /\ handle'[c] # NoFd
    BY <1>2 DEF LifecycleInv, ReadyInv, socketVars
  <2> QED BY <1>2, <2>1, <2>2 DEF ReadyInv
<1> QED BY <1>3, <1>4, <1>5, <1>6 DEF LifecycleInv

\* What epoll knows of is open, and its owner is alive.
LEMMA RegisteredAlive ==
    ASSUME LifecycleInv, NEW f \in Fds, epoll[f] # Nobody
    PROVE  /\ epoll[f] \in Connections /\ attached[epoll[f]] /\ bound[epoll[f]]
           /\ connector[epoll[f]] = "alive" /\ handle[epoll[f]] = f /\ sockets[f] = epoll[f]
<1>1. epoll[f] \in Connections
  BY DEF LifecycleInv, TypeOK, Tables
<1>2. owner[f] = epoll[f] /\ handle[epoll[f]] = f /\ sockets[f] = epoll[f]
  BY DEF LifecycleInv, TablesAgree
<1>3. attached[epoll[f]]
  BY <1>2 DEF LifecycleInv, DescriptorsOwned
<1> QED BY <1>1, <1>2, <1>3 DEF LifecycleInv, ObjectsInv

\* epoll_wait reports some of the registered sockets.
LEMMA WaitStep ==
    ASSUME LifecycleInv, Wait
    PROVE  LifecycleInv'
<1>1. PICK some \in SUBSET {epoll[f] : f \in Fds} :
         ready' = (some \ {Nobody}) \cup IF posted # <<>> THEN {EventFd} ELSE {}
  BY DEF Wait
<1>2. running = <<>> /\ UNCHANGED <<mainVars, socketVars, kernelVars, posted, running, messages>>
  BY DEF Wait, Idle
<1>3. ASSUME NEW c \in ready' \ {EventFd}
      PROVE  c \in Connections /\ connector[c] = "alive" /\ handle[c] # NoFd /\ attached[c]
  <2>1. PICK f \in Fds : epoll[f] = c /\ c # Nobody
    BY <1>1, <1>3
  <2>2. f # NoFd
    BY DEF Fds, NoFd
  <2> QED BY <2>1, <2>2, RegisteredAlive
<1>4. TypeOK'
  BY <1>2, <1>3 DEF LifecycleInv, TypeOK, mainVars, socketVars, kernelVars
<1>5. Waiting' = Waiting
  BY <1>2 DEF Waiting
<1>6. EventsInv'
  BY <1>2, <1>5, EventsSame
     DEF LifecycleInv, EventsInv, EventState, mainVars, socketVars, kernelVars
<1>7. ObjectsInv' /\ MessagesInv' /\ CloseIsLast' /\ TablesAgree' /\ DescriptorsOwned'
  BY <1>2, <1>5 DEF LifecycleInv, ObjectsInv, MessagesInv, CloseIsLast, TablesAgree,
                    DescriptorsOwned, mainVars, socketVars, kernelVars
<1>8. ReadyInv'
  <2>1. running' = <<>> /\ Len(running') = 0
    BY <1>2
  <2>2. \A i \in 1 .. Len(running') : FALSE
    BY <2>1
  <2>3. \A c \in ready' \ {EventFd} :
           connector'[c] = "alive" /\ handle'[c] # NoFd /\ attached'[c]
    BY <1>2, <1>3 DEF socketVars
  <2> QED BY <2>1, <2>2, <2>3 DEF ReadyInv
<1> QED BY <1>4, <1>6, <1>7, <1>8 DEF LifecycleInv

\* A connector that has a descriptor waits for none.
LEMMA HasDescriptor ==
    ASSUME LifecycleInv, NEW c \in Connections, handle[c] # NoFd
    PROVE  NotAwaited(c)
BY DEF LifecycleInv, EventsInv, EventState, NotAwaited

\* An operation that leaves the events that wait as they are.
LEMMA OperationStep ==
    ASSUME LifecycleInv, NEW c \in Connections, connector[c] = "alive", handle[c] # NoFd,
           (~failed[c] /\ Works(c)) \/ Fail(c), UNCHANGED mainVars,
           running = <<>>, UNCHANGED <<running, posted>>,
           ready' \subseteq ready, c \notin ready'
    PROVE  LifecycleInv'
<1>1. TypeOK /\ Waiting' = Waiting
  BY DEF LifecycleInv, Waiting
<1>2. ready' \subseteq Connections \cup {EventFd} /\ running' = <<>> /\ Len(running') = 0
  BY <1>1 DEF TypeOK
<1>3. CASE ~failed[c] /\ Works(c)
  <2>1. attached[c]
    BY <1>3 DEF LifecycleInv, ObjectsInv
  <2>2. /\ messages' \in Seq(Messages) /\ MessagesInv' /\ CloseIsLast'
        /\ ObjectsInv' /\ TablesAgree'
        /\ \A d \in Events : EventState(d) => EventState(d)'
    BY <1>3, <2>1, WorksStep
  <2>3. UNCHANGED <<mainVars, socketVars, kernelVars>>
    BY <1>3 DEF Works
  <2>4. TypeOK'
    BY <1>1, <1>2, <2>2, <2>3 DEF TypeOK, mainVars, socketVars, kernelVars
  <2>5. EventsInv'
    BY <1>1, <2>2, EventsSame DEF LifecycleInv, EventsInv
  <2>6. DescriptorsOwned'
    BY <1>1, <2>3 DEF LifecycleInv, DescriptorsOwned, socketVars, kernelVars
  <2>7. ReadyInv'
    BY <1>2, <2>3 DEF LifecycleInv, ReadyInv, socketVars
  <2> QED BY <2>2, <2>4, <2>5, <2>6, <2>7 DEF LifecycleInv
<1>4. CASE Fail(c)
  <2>0. NotAwaited(c)
    BY HasDescriptor
  <2>1. /\ messages' \in Seq(Messages) /\ MessagesInv' /\ CloseIsLast'
        /\ owner' \in Tables /\ epoll' \in Tables /\ sockets' \in Tables
        /\ attached' \in [Connections -> BOOLEAN] /\ failed' \in [Connections -> BOOLEAN]
        /\ UNCHANGED <<connector, handle>>
        /\ ObjectsInv' /\ TablesAgree'
        /\ \A d \in Connections \ {c} : attached'[d] = attached[d]
        /\ \A d \in Connections :
              attached'[d] /\ handle'[d] # NoFd => owner'[handle'[d]] = d
        /\ \A f \in Fds : owner'[f] # Nobody =>
              /\ owner'[f] = owner[f] /\ owner[f] # c /\ attached'[owner'[f]]
        /\ \A d \in Events : EventState(d) /\ ~(d.kind = "accepted" /\ d.conn = c)
              => EventState(d)'
    BY <1>4, <2>0, FailStep
  <2>2. TypeOK'
    BY <1>1, <1>2, <2>1 DEF TypeOK, mainVars
  <2>3. EventsInv'
    BY <1>1, <2>0, <2>1, EventsSame DEF LifecycleInv, EventsInv, NotAwaited
  <2>4. DescriptorsOwned'
    BY <1>1, <2>1 DEF LifecycleInv, DescriptorsOwned
  <2>5. ReadyInv'
    BY <1>2, <2>1 DEF LifecycleInv, ReadyInv
  <2> QED BY <2>1, <2>2, <2>3, <2>4, <2>5 DEF LifecycleInv
<1> QED BY <1>3, <1>4

\* A registered socket is updated.
LEMMA UpdateStep ==
    ASSUME LifecycleInv, NEW f \in Fds, Update(f)
    PROVE  LifecycleInv'
<1>1. epoll[f] # Nobody /\ epoll[f] = sockets[f]
  BY DEF Update, LifecycleInv, TablesAgree
<1>2. f # NoFd
  BY DEF Fds, NoFd
<1>3. PICK c \in Connections : c = sockets[f]
  BY <1>1, RegisteredAlive
<1>4. connector[c] = "alive" /\ handle[c] # NoFd
  BY <1>1, <1>2, <1>3, RegisteredAlive
<1>5. /\ ready' \subseteq ready /\ c \notin ready' /\ running = <<>>
      /\ UNCHANGED <<running, posted>> /\ UNCHANGED mainVars
  BY DEF Update, Idle, queueVars
<1>6. (~failed[c] /\ Works(c)) \/ Fail(c)
  BY <1>3 DEF Update
<1> QED BY <1>4, <1>5, <1>6, OperationStep

\* A reported socket is served.
LEMMA DispatchStep ==
    ASSUME LifecycleInv, NEW c \in Connections, Dispatch(c)
    PROVE  LifecycleInv'
<1>1. connector[c] = "alive" /\ handle[c] # NoFd
  BY LifecycleAssumption DEF Dispatch, LifecycleInv, ReadyInv
<1>2. /\ ready' \subseteq ready /\ c \notin ready' /\ running = <<>>
      /\ UNCHANGED <<running, posted>> /\ UNCHANGED mainVars
  BY DEF Dispatch
<1> QED BY <1>1, <1>2, OperationStep DEF Dispatch

\* The loop over the events taken runs its first event.
Runs == running # <<>> /\ running' = Rest(Head(running)) /\ UNCHANGED <<ready, posted>>

\* The first event, and the others that wait.
LEMMA FirstEvent ==
    ASSUME LifecycleInv, Runs
    PROVE  /\ Head(running) \in Events /\ EventState(Head(running))
           /\ posted' \in Seq(Events) /\ running' \in Seq(Events)
           /\ \A i \in 2 .. Len(Waiting) :
                 /\ i \in 1 .. Len(Waiting) /\ Waiting[i] \in Events
                 /\ EventState(Waiting[i]) /\ Ordered(Head(running), Waiting[i])
           /\ \A i \in 1 .. Len(Waiting) : i = 1 \/ i \in 2 .. Len(Waiting)
           /\ Waiting[1] = Head(running)
<1>1. TypeOK /\ Len(Waiting) \in Nat \ {0} /\ Waiting[1] = Head(running)
  BY WaitingRun DEF LifecycleInv, Runs
<1>2. posted' \in Seq(Events) /\ running' \in Seq(Events)
  BY <1>1, WaitingRun DEF Runs, TypeOK
<1>3. \A i \in 1 .. Len(Waiting) : Waiting[i] \in Events
  BY <1>1, WaitingSeq, ElementOfSeq
<1>4. /\ 1 \in 1 .. Len(Waiting)
      /\ \A i \in 2 .. Len(Waiting) : i \in 1 .. Len(Waiting) /\ 1 < i
      /\ \A i \in 1 .. Len(Waiting) : i = 1 \/ i \in 2 .. Len(Waiting)
  BY <1>1
<1>5. \A i \in 2 .. Len(Waiting) : Ordered(Head(running), Waiting[i])
  BY <1>1, <1>4 DEF LifecycleInv, EventsInv
<1> QED BY <1>1, <1>2, <1>3, <1>4, <1>5 DEF LifecycleInv, EventsInv

\* The parts of the invariant that an event's run disturbs are enough.
LEMMA RunStep ==
    ASSUME LifecycleInv, Runs,
           TypeOK', ObjectsInv', MessagesInv', CloseIsLast', TablesAgree',
           \A i \in 2 .. Len(Waiting) : \A d \in Events : d = Waiting[i] => EventState(d)',
           \A d \in Connections : attached'[d] /\ handle'[d] # NoFd => owner'[handle'[d]] = d,
           \A f \in Fds : owner'[f] # Nobody =>
              /\ attached'[owner'[f]]
              /\ \/ handle'[owner'[f]] = f
                 \/ \E i \in 2 .. Len(Waiting) : Waiting[i] = Event("accepted", owner'[f], f),
           \A c \in ready \ {EventFd} : connector'[c] = "alive" /\ handle'[c] # NoFd
    PROVE  LifecycleInv'
<1>1. TypeOK /\ Len(Waiting) \in Nat \ {0} /\ Len(running) \in Nat \ {0}
  BY WaitingRun DEF LifecycleInv, Runs
<1>2. EventsInv'
  BY EventsRun DEF LifecycleInv, Runs
<1>3. ASSUME NEW i \in 2 .. Len(Waiting)
      PROVE  \E j \in 1 .. Len(Waiting') : Waiting'[j] = Waiting[i]
  <2>1. CASE /\ Len(Waiting') = Len(Waiting)
             /\ \A k \in 2 .. Len(Waiting) : Waiting'[k] = Waiting[k]
    <3>1. i \in 1 .. Len(Waiting')
      BY <1>1, <2>1
    <3> QED BY <2>1, <3>1
  <2>2. CASE /\ Len(Waiting') = Len(Waiting) - 1
             /\ \A k \in 1 .. Len(Waiting') : Waiting'[k] = Waiting[k + 1]
    <3>1. i - 1 \in 1 .. Len(Waiting') /\ (i - 1) + 1 = i
      BY <1>1, <2>2
    <3>2. Waiting'[i - 1] = Waiting[(i - 1) + 1]
      BY <2>2, <3>1
    <3> QED BY <3>1, <3>2
  <2> QED BY <1>1, <2>1, <2>2, WaitingRun DEF Runs
<1>4. DescriptorsOwned'
  BY <1>3 DEF DescriptorsOwned
<1>5. ReadyInv'
  <2>1. EventFd \notin ready /\ ready' = ready
    BY DEF LifecycleInv, ReadyInv, Runs
  <2>2. ASSUME NEW c \in ready \ {EventFd}, NEW i \in 1 .. Len(running'),
               running'[i].kind = "onclose"
        PROVE  running'[i].conn # c
    <3>1. \A k \in 1 .. Len(running) : running[k].kind = "onclose" => running[k].conn # c
      BY DEF LifecycleInv, ReadyInv
    <3>2. CASE /\ Len(running') = Len(running)
               /\ running'[1] = Event("closeall", Nobody, Head(running).fd + 1)
               /\ \A k \in 2 .. Len(running) : running'[k] = running[k]
      <4>1. i \in 1 .. Len(running) /\ (i = 1 \/ i \in 2 .. Len(running))
        BY <1>1, <3>2
      <4>2. i # 1
        BY <2>2, <3>2 DEF Event
      <4> QED BY <2>2, <3>1, <3>2, <4>1, <4>2
    <3>3. CASE /\ Len(running') = Len(running) - 1
               /\ \A k \in 1 .. Len(running') : running'[k] = running[k + 1]
      <4>1. i + 1 \in 1 .. Len(running)
        BY <1>1, <3>3
      <4> QED BY <2>2, <3>1, <3>3, <4>1
    <3> QED BY <1>1, <3>2, <3>3, WaitingRun DEF Runs
  <2> QED BY <2>1, <2>2 DEF ReadyInv
<1> QED BY <1>2, <1>4, <1>5 DEF LifecycleInv

\* An event that changes nothing but the messages: nothing to do, or it worked.
LEMMA RunWorks ==
    ASSUME LifecycleInv, Runs, Head(running).kind # "accepted",
           UNCHANGED <<mainVars, socketVars, kernelVars>>,
           messages' \in Seq(Messages), MessagesInv', CloseIsLast'
    PROVE  LifecycleInv'
<1>1. posted' \in Seq(Events) /\ running' \in Seq(Events)
  BY FirstEvent
<1>2. TypeOK'
  BY <1>1 DEF LifecycleInv, TypeOK, Runs, mainVars, socketVars, kernelVars
<1>3. ObjectsInv' /\ TablesAgree'
  BY DEF LifecycleInv, ObjectsInv, TablesAgree, mainVars, socketVars, kernelVars
<1>4. \A d \in Events : EventState(d) => EventState(d)'
  BY DEF EventState, mainVars, socketVars, kernelVars
<1>5. \A i \in 2 .. Len(Waiting) : \A d \in Events : d = Waiting[i] => EventState(d)'
  BY <1>4, FirstEvent
<1>6. \A d \in Connections : attached'[d] /\ handle'[d] # NoFd => owner'[handle'[d]] = d
  BY DEF LifecycleInv, DescriptorsOwned, socketVars, kernelVars
<1>7. ASSUME NEW f \in Fds, owner[f] # Nobody
      PROVE  /\ attached[owner[f]]
             /\ \/ handle[owner[f]] = f
                \/ \E i \in 2 .. Len(Waiting) : Waiting[i] = Event("accepted", owner[f], f)
  <2>1. ASSUME Waiting[1] = Event("accepted", owner[f], f) PROVE FALSE
    BY <2>1, FirstEvent DEF Event
  <2> QED BY <1>7, <2>1, FirstEvent DEF LifecycleInv, DescriptorsOwned
<1>8. \A c \in ready \ {EventFd} : connector'[c] = "alive" /\ handle'[c] # NoFd
  BY DEF LifecycleInv, ReadyInv, socketVars
<1>9. UNCHANGED <<owner, attached, handle>>
  BY DEF socketVars, kernelVars
<1> QED BY <1>2, <1>3, <1>5, <1>6, <1>7, <1>8, <1>9, RunStep

\* A posted "send" runs.
LEMMA RunSend ==
    ASSUME LifecycleInv, Runs, Head(running).kind = "send", Sends(Head(running).conn),
           UNCHANGED mainVars
    PROVE  LifecycleInv'
<1>1. PICK c \in Connections : c = Head(running).conn /\ connector[c] = "alive"
  BY FirstEvent DEF EventState
<1>2. CASE failed[c]
  BY <1>1, <1>2, RunWorks
     DEF Sends, LifecycleInv, TypeOK, MessagesInv, CloseIsLast, mainVars, socketVars
<1>3. CASE ~failed[c]
  <2>1. attached[c] /\ Works(c)
    BY <1>1, <1>3 DEF Sends, LifecycleInv, ObjectsInv
  <2>2. messages' \in Seq(Messages) /\ MessagesInv' /\ CloseIsLast'
    BY <2>1, WorksStep
  <2>3. UNCHANGED <<mainVars, socketVars, kernelVars>>
    BY <2>1 DEF Works
  <2> QED BY <2>2, <2>3, RunWorks
<1> QED BY <1>2, <1>3

\* An event that does nothing.
LEMMA RunNothing ==
    ASSUME LifecycleInv, Runs, Head(running).kind # "accepted",
           UNCHANGED <<mainVars, socketVars, kernelVars, messages>>
    PROVE  LifecycleInv'
BY RunWorks DEF LifecycleInv, TypeOK, MessagesInv, CloseIsLast, mainVars, socketVars

\* An event that fails on a connector that no socket is on its way to.
LEMMA RunFail ==
    ASSUME LifecycleInv, Runs, NEW c \in Connections, connector[c] = "alive", NotAwaited(c),
           Fail(c), UNCHANGED mainVars, Head(running).kind # "accepted"
    PROVE  LifecycleInv'
<1>1. /\ messages' \in Seq(Messages) /\ MessagesInv' /\ CloseIsLast'
      /\ owner' \in Tables /\ epoll' \in Tables /\ sockets' \in Tables
      /\ attached' \in [Connections -> BOOLEAN] /\ failed' \in [Connections -> BOOLEAN]
      /\ UNCHANGED <<connector, handle>>
      /\ ObjectsInv' /\ TablesAgree'
      /\ \A d \in Connections \ {c} : attached'[d] = attached[d]
      /\ \A d \in Connections :
            attached'[d] /\ handle'[d] # NoFd => owner'[handle'[d]] = d
      /\ \A f \in Fds : owner'[f] # Nobody =>
            /\ owner'[f] = owner[f] /\ owner[f] # c /\ attached'[owner'[f]]
      /\ \A d \in Events : EventState(d) /\ ~(d.kind = "accepted" /\ d.conn = c)
            => EventState(d)'
  BY FailStep
<1>2. TypeOK'
  BY <1>1, FirstEvent DEF LifecycleInv, TypeOK, Runs, mainVars
<1>3. \A i \in 2 .. Len(Waiting) : \A d \in Events : d = Waiting[i] => EventState(d)'
  BY <1>1, FirstEvent DEF NotAwaited
<1>4. ASSUME NEW f \in Fds, owner'[f] # Nobody
      PROVE  /\ attached'[owner'[f]]
             /\ \/ handle'[owner'[f]] = f
                \/ \E i \in 2 .. Len(Waiting) : Waiting[i] = Event("accepted", owner'[f], f)
  <2>1. owner'[f] = owner[f] /\ attached'[owner'[f]]
    BY <1>1, <1>4
  <2>2. ASSUME Waiting[1] = Event("accepted", owner[f], f) PROVE FALSE
    BY <2>2, FirstEvent DEF Event
  <2>3. \/ handle[owner[f]] = f
        \/ \E i \in 2 .. Len(Waiting) : Waiting[i] = Event("accepted", owner[f], f)
    BY <1>4, <2>1, <2>2, FirstEvent DEF LifecycleInv, DescriptorsOwned
  <2> QED BY <1>1, <2>1, <2>3
<1>5. \A d \in ready \ {EventFd} : connector'[d] = "alive" /\ handle'[d] # NoFd
  BY <1>1 DEF LifecycleInv, ReadyInv
<1> QED BY <1>1, <1>2, <1>3, <1>4, <1>5, RunStep

\* A posted "close" runs.
LEMMA RunClose ==
    ASSUME LifecycleInv, Runs, Head(running).kind = "close", Fail(Head(running).conn),
           UNCHANGED mainVars
    PROVE  LifecycleInv'
<1>1. PICK c \in Connections : c = Head(running).conn /\ connector[c] = "alive"
  BY FirstEvent DEF EventState
<1>2. NotAwaited(c)
  BY <1>1, FirstEvent DEF NotAwaited, Ordered
<1> QED BY <1>1, <1>2, RunFail

\* A posted "closeall" runs for one descriptor.
LEMMA RunCloseAll ==
    ASSUME LifecycleInv, Runs, Head(running).kind = "closeall", ClosesAt(Head(running).fd),
           UNCHANGED mainVars
    PROVE  LifecycleInv'
<1> DEFINE f == Head(running).fd
<1>1. CASE f \in Fds /\ sockets[f] # Nobody
  <2>1. epoll[f] # Nobody /\ epoll[f] = sockets[f] /\ f # NoFd
    BY <1>1 DEF LifecycleInv, TablesAgree, Fds, NoFd
  <2>2. PICK c \in Connections : c = sockets[f] /\ connector[c] = "alive" /\ handle[c] # NoFd
    BY <1>1, <2>1, RegisteredAlive
  <2>3. Fail(c)
    BY <1>1, <2>2 DEF ClosesAt
  <2> QED BY <2>2, <2>3, HasDescriptor, RunFail
<1>2. CASE ~(f \in Fds /\ sockets[f] # Nobody)
  BY <1>2, RunNothing DEF ClosesAt
<1> QED BY <1>1, <1>2

\* The connector's last event.
LEMMA RunDelete ==
    ASSUME LifecycleInv, Runs, Head(running).kind = "onclose", Deletes(Head(running).conn),
           UNCHANGED mainVars
    PROVE  LifecycleInv'
<1>1. PICK c \in Connections : c = Head(running).conn /\ connector[c] = "alive" /\ ~bound[c]
  BY FirstEvent DEF EventState
<1>2. /\ connector' = [connector EXCEPT ![c] = "deleted"]
      /\ UNCHANGED <<mainVars, attached, failed, handle, kernelVars, messages>>
  BY <1>1 DEF Deletes
<1>3. TypeOK'
  BY <1>1, <1>2, FirstEvent DEF LifecycleInv, TypeOK, ObjectStates, Runs, mainVars, kernelVars
<1>4. ObjectsInv'
  BY <1>1, <1>2 DEF LifecycleInv, TypeOK, ObjectsInv, mainVars
<1>5. MessagesInv' /\ CloseIsLast' /\ TablesAgree'
  BY <1>2 DEF LifecycleInv, MessagesInv, CloseIsLast, TablesAgree, mainVars, kernelVars
<1>6. ASSUME NEW i \in 2 .. Len(Waiting), NEW d \in Events, d = Waiting[i]
      PROVE  EventState(d)'
  <2>1. EventState(d) /\ d.conn # c
    BY <1>1, <1>6, FirstEvent DEF Ordered
  <2>2. d.kind # "closeall" => d.conn \in Connections
    BY <2>1 DEF EventState
  <2>3. d.conn \in Connections => connector'[d.conn] = connector[d.conn]
    BY <1>2, <2>1 DEF LifecycleInv, TypeOK
  <2> QED BY <1>2, <2>1, <2>2, <2>3 DEF EventState, mainVars, kernelVars
<1>7. \A d \in Connections : attached'[d] /\ handle'[d] # NoFd => owner'[handle'[d]] = d
  BY <1>2 DEF LifecycleInv, DescriptorsOwned, kernelVars
<1>8. ASSUME NEW f \in Fds, owner[f] # Nobody
      PROVE  /\ attached[owner[f]]
             /\ \/ handle[owner[f]] = f
                \/ \E i \in 2 .. Len(Waiting) : Waiting[i] = Event("accepted", owner[f], f)
  <2>1. ASSUME Waiting[1] = Event("accepted", owner[f], f) PROVE FALSE
    BY <2>1, FirstEvent DEF Event
  <2> QED BY <1>8, <2>1, FirstEvent DEF LifecycleInv, DescriptorsOwned
<1>9. ASSUME NEW d \in ready \ {EventFd} PROVE connector'[d] = "alive" /\ handle'[d] # NoFd
  <2>1. running[1] = Head(running) /\ 1 \in 1 .. Len(running)
    BY WaitingRun DEF LifecycleInv, Runs
  <2>2. d # c
    BY <1>1, <2>1 DEF LifecycleInv, ReadyInv
  <2> QED BY <1>2, <2>2 DEF LifecycleInv, ReadyInv, TypeOK
<1>10. UNCHANGED <<owner, attached, handle>>
  BY <1>2 DEF kernelVars
<1> QED BY <1>3, <1>4, <1>5, <1>6, <1>7, <1>8, <1>9, <1>10, RunStep

\* The connection's only event: nothing else knows of the connector.
LEMMA RunConnect ==
    ASSUME LifecycleInv, Runs, Head(running).kind = "connect", Connects(Head(running).conn)
    PROVE  LifecycleInv'
<1>1. PICK c \in Connections :
         c = Head(running).conn /\ session[c] = "alive" /\ connector[c] = "none"
  BY FirstEvent DEF EventState
<1>2. /\ TypeOK /\ ~bound[c] /\ ~attached[c] /\ ~failed[c] /\ handle[c] = NoFd
      /\ NoFd \notin Fds /\ Nobody # c
  BY <1>1, LifecycleAssumption DEF LifecycleInv, ObjectsInv, Fds, NoFd
<1>3. /\ bound' = [bound EXCEPT ![c] = TRUE] /\ session' = session
      /\ connector' = [connector EXCEPT ![c] = "alive"]
  BY <1>1 DEF Connects
<1>4. \A i \in 1 .. Len(messages) : messages[i].conn # c
  BY <1>2 DEF LifecycleInv, MessagesInv
<1>5. \A i \in 2 .. Len(Waiting) : \A d \in Events : d = Waiting[i] =>
         EventState(d) /\ d.conn # c
  BY <1>1, FirstEvent DEF Ordered
<1>6. /\ c \notin ready \ {EventFd}
      /\ \A d \in ready \ {EventFd} : /\ connector[d] = "alive" /\ handle[d] # NoFd
                                     /\ d \in Connections
  BY <1>1, <1>2 DEF LifecycleInv, ReadyInv, TypeOK
<1>7. \A f \in Fds : owner[f] # c /\ epoll[f] # c
  BY <1>2 DEF LifecycleInv, DescriptorsOwned, TablesAgree
<1>8. ASSUME NEW f \in Fds, owner[f] # Nobody
      PROVE  /\ attached[owner[f]] /\ owner[f] \in Connections \ {c}
             /\ \/ handle[owner[f]] = f
                \/ \E i \in 2 .. Len(Waiting) : Waiting[i] = Event("accepted", owner[f], f)
  <2>1. ASSUME Waiting[1] = Event("accepted", owner[f], f) PROVE FALSE
    BY <2>1, FirstEvent DEF Event
  <2> QED BY <1>2, <1>7, <1>8, <2>1, FirstEvent DEF LifecycleInv, DescriptorsOwned, TypeOK, Tables
<1>9. CASE \E f \in Fds :
              /\ owner[f] = Nobody
              /\ Register(c, f)
              /\ attached' = [attached EXCEPT ![c] = TRUE]
              /\ UNCHANGED <<failed, messages>>
  <2>1. PICK f \in Fds : /\ owner[f] = Nobody
                         /\ handle' = [handle EXCEPT ![c] = f]
                         /\ owner' = [owner EXCEPT ![f] = c]
                         /\ epoll' = [epoll EXCEPT ![f] = c]
                         /\ sockets' = [sockets EXCEPT ![f] = c]
                         /\ attached' = [attached EXCEPT ![c] = TRUE]
                         /\ UNCHANGED <<failed, messages>>
    BY <1>9 DEF Register
  <2>2. TypeOK'
    BY <1>2, <1>3, <2>1, FirstEvent DEF TypeOK, Tables, ObjectStates, Runs
  <2>3. ObjectsInv'
    BY <1>1, <1>2, <1>3, <2>1 DEF LifecycleInv, TypeOK, ObjectsInv
  <2>4. MessagesInv' /\ CloseIsLast'
    <3>1. \A i \in 1 .. Len(messages) : messages[i].conn \in Connections
      <4>1. \A i \in 1 .. Len(messages) : messages[i] \in Messages
        BY <1>2, ElementOfSeq DEF TypeOK
      <4> QED BY <4>1 DEF Messages
    <3> QED BY <1>2, <1>3, <1>4, <2>1, <3>1 DEF LifecycleInv, TypeOK, MessagesInv, CloseIsLast
  <2>5. TablesAgree'
    BY <1>2, <1>7, <2>1 DEF LifecycleInv, TablesAgree, TypeOK, Tables
  <2>6. ASSUME NEW i \in 2 .. Len(Waiting), NEW d \in Events, d = Waiting[i]
        PROVE  EventState(d)'
    <3>1. EventState(d) /\ d.conn # c
      BY <1>5, <2>6
    <3>2. d.kind # "closeall" => d.conn \in Connections
      BY <3>1 DEF EventState
    <3>3. d.conn \in Connections =>
             /\ connector'[d.conn] = connector[d.conn] /\ bound'[d.conn] = bound[d.conn]
             /\ attached'[d.conn] = attached[d.conn] /\ handle'[d.conn] = handle[d.conn]
      BY <1>2, <1>3, <2>1, <3>1 DEF TypeOK
    <3>4. d.kind = "accepted" => owner'[d.fd] = owner[d.fd]
      BY <1>2, <2>1, <3>1, <3>2, LifecycleAssumption DEF EventState, TypeOK, Tables
    <3> QED BY <1>3, <3>1, <3>2, <3>3, <3>4 DEF EventState
  <2>7. ASSUME NEW d \in Connections, attached'[d], handle'[d] # NoFd
        PROVE  owner'[handle'[d]] = d
    <3>1. CASE d = c
      BY <1>2, <2>1, <3>1 DEF TypeOK, Tables
    <3>2. CASE d # c
      <4>1. attached[d] /\ handle'[d] = handle[d] /\ handle[d] \in Fds /\ owner[handle[d]] = d
        BY <1>2, <2>1, <2>7, <3>2 DEF LifecycleInv, DescriptorsOwned, TypeOK
      <4>2. handle[d] # f
        BY <2>1, <4>1, LifecycleAssumption
      <4> QED BY <1>2, <2>1, <4>1, <4>2 DEF TypeOK, Tables
    <3> QED BY <3>1, <3>2
  <2>8. ASSUME NEW g \in Fds, owner'[g] # Nobody
        PROVE  /\ attached'[owner'[g]]
               /\ \/ handle'[owner'[g]] = g
                  \/ \E i \in 2 .. Len(Waiting) : Waiting[i] = Event("accepted", owner'[g], g)
    <3>1. CASE g = f
      BY <1>2, <2>1, <3>1 DEF TypeOK, Tables
    <3>2. CASE g # f
      <4>1. owner'[g] = owner[g]
        BY <1>2, <2>1, <3>2 DEF TypeOK, Tables
      <4>2. owner[g] \in Connections \ {c}
        BY <1>8, <2>8, <4>1
      <4>3. /\ attached'[owner[g]] = attached[owner[g]]
            /\ handle'[owner[g]] = handle[owner[g]]
        BY <1>2, <2>1, <4>2 DEF TypeOK
      <4> QED BY <1>8, <2>8, <4>1, <4>3
    <3> QED BY <3>1, <3>2
  <2>9. \A d \in ready \ {EventFd} : connector'[d] = "alive" /\ handle'[d] # NoFd
    BY <1>2, <1>3, <1>6, <2>1 DEF TypeOK
  <2> QED BY <2>2, <2>3, <2>4, <2>5, <2>6, <2>7, <2>8, <2>9, RunStep
<1>10. CASE /\ failed' = [failed EXCEPT ![c] = TRUE]
            /\ messages' = messages \o Report(c)
            /\ UNCHANGED <<attached, handle, kernelVars>>
  <2>1. messages' \in Seq(Messages) /\ MessagesInv' /\ CloseIsLast'
    <3>1. /\ bound'[c] /\ ~attached'[c]
          /\ \A d \in Connections \ {c} : bound'[d] = bound[d] /\ attached'[d] = attached[d]
      BY <1>2, <1>3, <1>10 DEF TypeOK
    <3> QED BY <1>4, <1>10, <3>1, ReportPushed
  <2>2. TypeOK'
    BY <1>2, <1>3, <1>10, <2>1, FirstEvent DEF TypeOK, ObjectStates, Runs, kernelVars
  <2>3. ObjectsInv'
    BY <1>1, <1>2, <1>3, <1>10 DEF LifecycleInv, TypeOK, ObjectsInv
  <2>5. TablesAgree'
    BY <1>10 DEF LifecycleInv, TablesAgree, kernelVars
  <2>6. ASSUME NEW i \in 2 .. Len(Waiting), NEW d \in Events, d = Waiting[i]
        PROVE  EventState(d)'
    <3>1. EventState(d) /\ d.conn # c
      BY <1>5, <2>6
    <3>2. d.kind # "closeall" => d.conn \in Connections
      BY <3>1 DEF EventState
    <3>3. d.conn \in Connections =>
             connector'[d.conn] = connector[d.conn] /\ bound'[d.conn] = bound[d.conn]
      BY <1>2, <1>3, <3>1 DEF TypeOK
    <3> QED BY <1>3, <1>10, <3>1, <3>2, <3>3 DEF EventState, kernelVars
  <2>7. \A d \in Connections : attached'[d] /\ handle'[d] # NoFd => owner'[handle'[d]] = d
    BY <1>10 DEF LifecycleInv, DescriptorsOwned, kernelVars
  <2>8. UNCHANGED <<owner, attached, handle>>
    BY <1>10 DEF kernelVars
  <2>9. \A d \in ready \ {EventFd} : connector'[d] = "alive" /\ handle'[d] # NoFd
    BY <1>2, <1>3, <1>6, <1>10 DEF TypeOK
  <2> QED BY <1>8, <2>1, <2>2, <2>3, <2>5, <2>6, <2>7, <2>8, <2>9, RunStep
<1> QED BY <1>1, <1>9, <1>10 DEF Connects

\* The listener's socket reaches its connector, or is closed with it.
LEMMA RunAccepted ==
    ASSUME LifecycleInv, Runs, Head(running).kind = "accepted",
           Accepted(Head(running).conn, Head(running).fd)
    PROVE  LifecycleInv'
<1>1. PICK c \in Connections, f \in Fds :
         /\ c = Head(running).conn /\ f = Head(running).fd /\ connector[c] = "alive"
         /\ attached[c] /\ handle[c] = NoFd /\ owner[f] = c
  BY FirstEvent DEF EventState
<1>2. /\ TypeOK /\ bound[c] /\ ~failed[c] /\ NoFd \notin Fds /\ Nobody # c
      /\ UNCHANGED <<mainVars, connector>>
  BY <1>1, LifecycleAssumption DEF LifecycleInv, ObjectsInv, Fds, NoFd, Accepted
<1>3. \A i \in 2 .. Len(Waiting) : \A d \in Events : d = Waiting[i] =>
         EventState(d) /\ (d.conn = c => d.kind # "accepted")
  BY <1>1, FirstEvent DEF Ordered
<1>4. \A d \in ready \ {EventFd} : /\ connector[d] = "alive" /\ handle[d] # NoFd
                                 /\ d \in Connections
  BY <1>2 DEF LifecycleInv, ReadyInv, TypeOK
<1>5. \A g \in Fds : epoll[g] # c
  BY <1>1, <1>2 DEF LifecycleInv, TablesAgree
<1>6. ASSUME NEW g \in Fds, owner[g] # Nobody
      PROVE  /\ attached[owner[g]] /\ owner[g] \in Connections
             /\ owner[g] = c => g = f
             /\ \/ owner[g] = c
                \/ handle[owner[g]] = g
                \/ \E i \in 2 .. Len(Waiting) : Waiting[i] = Event("accepted", owner[g], g)
  <2>1. attached[owner[g]] /\ owner[g] \in Connections
    BY <1>2, <1>6 DEF LifecycleInv, DescriptorsOwned, TypeOK, Tables
  <2>2. \/ handle[owner[g]] = g
        \/ Waiting[1] = Event("accepted", owner[g], g)
        \/ \E i \in 2 .. Len(Waiting) : Waiting[i] = Event("accepted", owner[g], g)
    BY <1>6, FirstEvent DEF LifecycleInv, DescriptorsOwned
  <2>3. Waiting[1] = Event("accepted", owner[g], g) => owner[g] = c /\ g = f
    BY <1>1, FirstEvent DEF Event
  <2>4. ASSUME owner[g] = c PROVE g = f
    <3>1. ~\E i \in 2 .. Len(Waiting) : Waiting[i] = Event("accepted", c, g)
      BY <1>3, FirstEvent DEF Event
    <3> QED BY <1>1, <1>2, <2>2, <2>3, <2>4, <3>1
  <2> QED BY <2>1, <2>2, <2>3, <2>4
<1>7. CASE Register(c, f) /\ UNCHANGED <<attached, failed, messages>>
  <2>1. /\ handle' = [handle EXCEPT ![c] = f] /\ owner' = [owner EXCEPT ![f] = c]
        /\ epoll' = [epoll EXCEPT ![f] = c] /\ sockets' = [sockets EXCEPT ![f] = c]
        /\ UNCHANGED <<attached, failed, messages>>
    BY <1>7 DEF Register
  <2>2. owner' = owner
    BY <1>1, <1>2, <2>1 DEF TypeOK, Tables
  <2>3. TypeOK'
    BY <1>2, <2>1, FirstEvent DEF TypeOK, Tables, Runs, mainVars
  <2>4. ObjectsInv' /\ MessagesInv' /\ CloseIsLast'
    BY <1>1, <1>2, <2>1
       DEF LifecycleInv, TypeOK, ObjectsInv, MessagesInv, CloseIsLast, mainVars
  <2>5. TablesAgree'
    <3>1. ASSUME NEW g \in Fds
          PROVE  /\ epoll'[g] = sockets'[g]
                 /\ epoll'[g] # Nobody => owner'[g] = epoll'[g] /\ handle'[epoll'[g]] = g
      <4>1. CASE g = f
        BY <1>1, <1>2, <2>1, <2>2, <4>1 DEF TypeOK, Tables
      <4>2. CASE g # f
        <5>1. epoll'[g] = epoll[g] /\ sockets'[g] = sockets[g]
          BY <1>2, <2>1, <4>2 DEF TypeOK, Tables
        <5>2. epoll[g] = sockets[g] /\ (epoll[g] # Nobody =>
                 owner[g] = epoll[g] /\ handle[epoll[g]] = g /\ epoll[g] \in Connections \ {c})
          BY <1>2, <1>5 DEF LifecycleInv, TablesAgree, TypeOK, Tables
        <5> QED BY <1>2, <2>1, <2>2, <5>1, <5>2 DEF TypeOK
      <4> QED BY <4>1, <4>2
    <3> QED BY <3>1 DEF TablesAgree
  <2>6. ASSUME NEW i \in 2 .. Len(Waiting), NEW d \in Events, d = Waiting[i]
        PROVE  EventState(d)'
    <3>1. EventState(d) /\ (d.conn = c => d.kind # "accepted")
      BY <1>3, <2>6
    <3>2. d.kind = "accepted" => handle'[d.conn] = handle[d.conn]
      BY <1>2, <2>1, <3>1 DEF EventState, TypeOK
    <3> QED BY <1>2, <2>1, <2>2, <3>1, <3>2 DEF EventState, mainVars
  <2>7. ASSUME NEW d \in Connections, attached'[d], handle'[d] # NoFd
        PROVE  owner'[handle'[d]] = d
    <3>1. CASE d = c
      BY <1>1, <1>2, <2>1, <2>2, <3>1 DEF TypeOK
    <3>2. CASE d # c
      BY <1>2, <2>1, <2>2, <2>7, <3>2 DEF LifecycleInv, DescriptorsOwned, TypeOK
    <3> QED BY <3>1, <3>2
  <2>8. ASSUME NEW g \in Fds, owner'[g] # Nobody
        PROVE  /\ attached'[owner'[g]]
               /\ \/ handle'[owner'[g]] = g
                  \/ \E i \in 2 .. Len(Waiting) : Waiting[i] = Event("accepted", owner'[g], g)
    <3>1. CASE owner[g] = c
      BY <1>1, <1>2, <1>6, <2>1, <2>2, <2>8, <3>1 DEF TypeOK
    <3>2. CASE owner[g] # c
      <4>1. handle'[owner[g]] = handle[owner[g]]
        BY <1>2, <1>6, <2>1, <2>2, <2>8, <3>2 DEF TypeOK
      <4> QED BY <1>6, <2>1, <2>2, <2>8, <3>2, <4>1
    <3> QED BY <3>1, <3>2
  <2>9. \A d \in ready \ {EventFd} : connector'[d] = "alive" /\ handle'[d] # NoFd
    BY <1>2, <1>4, <2>1 DEF TypeOK
  <2> QED BY <2>3, <2>4, <2>5, <2>6, <2>7, <2>8, <2>9, RunStep
<1>8. CASE /\ owner' = Without(owner, {f})
           /\ failed' = [failed EXCEPT ![c] = TRUE]
           /\ messages' = messages \o Report(c)
           /\ attached' = [attached EXCEPT ![c] = FALSE]
           /\ UNCHANGED <<handle, epoll, sockets>>
  <2>1. messages' \in Seq(Messages) /\ MessagesInv' /\ CloseIsLast'
    <3>1. \A i \in 1 .. Len(messages) : messages[i].kind = "close" => messages[i].conn # c
      BY <1>1 DEF LifecycleInv, CloseIsLast
    <3>2. /\ bound'[c] /\ ~attached'[c]
          /\ \A d \in Connections \ {c} : bound'[d] = bound[d] /\ attached'[d] = attached[d]
      BY <1>2, <1>8 DEF TypeOK, mainVars
    <3> QED BY <1>8, <3>1, <3>2, ReportPushed
  <2>2. /\ owner' \in Tables
        /\ \A g \in Fds : owner'[g] = IF g = f THEN Nobody ELSE owner[g]
    BY <1>2, <1>8 DEF TypeOK, Tables, Without
  <2>3. TypeOK'
    BY <1>2, <1>8, <2>1, <2>2, FirstEvent DEF TypeOK, Runs, mainVars
  <2>4. ObjectsInv'
    BY <1>1, <1>2, <1>8 DEF LifecycleInv, TypeOK, ObjectsInv, mainVars
  <2>5. TablesAgree'
    <3>1. ASSUME NEW g \in Fds, epoll[g] # Nobody
          PROVE  g # f /\ owner'[g] = owner[g]
      BY <1>1, <1>5, <2>2, <3>1 DEF LifecycleInv, TablesAgree
    <3> QED BY <1>8, <3>1 DEF LifecycleInv, TablesAgree
  <2>6. ASSUME NEW i \in 2 .. Len(Waiting), NEW d \in Events, d = Waiting[i]
        PROVE  EventState(d)'
    <3>1. EventState(d) /\ (d.conn = c => d.kind # "accepted")
      BY <1>3, <2>6
    <3>2. d.kind = "accepted" => attached'[d.conn] = attached[d.conn] /\ owner'[d.fd] = owner[d.fd]
      BY <1>1, <1>2, <1>8, <2>2, <3>1 DEF EventState, TypeOK
    <3> QED BY <1>2, <1>8, <3>1, <3>2 DEF EventState, mainVars
  <2>7. ASSUME NEW d \in Connections, attached'[d], handle'[d] # NoFd
        PROVE  owner'[handle'[d]] = d
    <3>1. d # c /\ attached[d] /\ handle[d] \in Fds /\ owner[handle[d]] = d
      BY <1>2, <1>8, <2>7 DEF LifecycleInv, DescriptorsOwned, TypeOK
    <3> QED BY <1>1, <1>8, <2>2, <3>1
  <2>8. ASSUME NEW g \in Fds, owner'[g] # Nobody
        PROVE  /\ attached'[owner'[g]]
               /\ \/ handle'[owner'[g]] = g
                  \/ \E i \in 2 .. Len(Waiting) : Waiting[i] = Event("accepted", owner'[g], g)
    <3>1. g # f /\ owner'[g] = owner[g] /\ owner[g] # c
      BY <1>6, <2>2, <2>8
    <3>2. attached'[owner[g]] = attached[owner[g]]
      BY <1>2, <1>6, <1>8, <2>8, <3>1 DEF TypeOK
    <3> QED BY <1>6, <1>8, <2>8, <3>1, <3>2
  <2>9. \A d \in ready \ {EventFd} : connector'[d] = "alive" /\ handle'[d] # NoFd
    BY <1>2, <1>4, <1>8
  <2> QED BY <2>1, <2>3, <2>4, <2>5, <2>6, <2>7, <2>8, <2>9, RunStep
<1> QED BY <1>1, <1>7, <1>8 DEF Accepted

\* A posted event runs.
LEMMA RunEventStep ==
    ASSUME LifecycleInv, RunEvent
    PROVE  LifecycleInv'
<1> DEFINE e == Head(running)
<1>1. Runs
  BY DEF RunEvent, Runs
<1>2. CASE e.kind = "connect" /\ Connects(e.conn)
  BY <1>1, <1>2, RunConnect
<1>3. CASE e.kind = "accepted" /\ Accepted(e.conn, e.fd)
  BY <1>1, <1>3, RunAccepted
<1>4. CASE e.kind = "send" /\ Sends(e.conn) /\ UNCHANGED mainVars
  BY <1>1, <1>4, RunSend
<1>5. CASE e.kind = "close" /\ Fail(e.conn) /\ UNCHANGED mainVars
  BY <1>1, <1>5, RunClose
<1>6. CASE e.kind = "closeall" /\ ClosesAt(e.fd) /\ UNCHANGED mainVars
  BY <1>1, <1>6, RunCloseAll
<1>7. CASE e.kind = "onerror" /\ UNCHANGED <<mainVars, socketVars, kernelVars, messages>>
  BY <1>1, <1>7, RunNothing
<1>8. CASE e.kind = "onclose" /\ Deletes(e.conn) /\ UNCHANGED mainVars
  BY <1>1, <1>8, RunDelete
<1> QED BY <1>2, <1>3, <1>4, <1>5, <1>6, <1>7, <1>8 DEF RunEvent

-----------------------------------------------------------------------------
(* The invariant *)

\* The invariant holds at the start.
LEMMA LifecycleInit == Init => LifecycleInv
<1> SUFFICES ASSUME Init PROVE LifecycleInv
  OBVIOUS
<1>1. TypeOK
  BY DEF Init, TypeOK, ObjectStates, Tables, NoFd
<1>2. ObjectsInv /\ TablesAgree /\ ReadyInv
  BY DEF Init, ObjectsInv, TablesAgree, ReadyInv
<1>3. Waiting = <<>> /\ Len(Waiting) = 0 /\ Len(messages) = 0
  BY DEF Init, Waiting
<1>4. \A i \in 1 .. 0 : FALSE
  OBVIOUS
<1>5. EventsInv /\ MessagesInv /\ CloseIsLast
  BY <1>3, <1>4 DEF EventsInv, MessagesInv, CloseIsLast
<1>6. DescriptorsOwned
  BY DEF Init, DescriptorsOwned
<1> QED BY <1>1, <1>2, <1>5, <1>6 DEF LifecycleInv

\* Every step keeps the invariant.
LEMMA LifecycleNext == LifecycleInv /\ [Next]_vars => LifecycleInv'
<1> SUFFICES ASSUME LifecycleInv, [Next]_vars PROVE LifecycleInv'
  OBVIOUS
<1>1. ASSUME NEW c \in Connections, AppConnect(c) PROVE LifecycleInv'
  BY <1>1, AppConnectStep
<1>2. ASSUME NEW c \in Connections, AppUses(c, "send") \/ AppUses(c, "close") PROVE LifecycleInv'
  BY <1>2, AppUsesStep
<1>3. ASSUME NEW c \in Connections, NEW f \in Fds, ListenerAccepts(c, f) PROVE LifecycleInv'
  BY <1>3, ListenerAcceptsStep
<1>4. CASE AppCloseAll
  BY <1>4, AppCloseAllStep
<1>5. CASE HandleMessage
  BY <1>5, HandleMessageStep
<1>6. ASSUME NEW f \in Fds, Update(f) PROVE LifecycleInv'
  BY <1>6, UpdateStep
<1>7. CASE Wait
  BY <1>7, WaitStep
<1>8. CASE Serve
  BY <1>8, RunEventStep, TakeEventsStep, DispatchStep DEF Serve
<1>9. CASE UNCHANGED vars
  <2>1. UNCHANGED <<mainVars, socketVars, kernelVars, queueVars, messages>>
    BY <1>9 DEF vars
  <2>2. Waiting' = Waiting
    BY <2>1 DEF Waiting, queueVars
  <2> QED BY <2>1, <2>2 DEF LifecycleInv, TypeOK, ObjectsInv, EventsInv, EventState, Ordered,
             MessagesInv, CloseIsLast, TablesAgree, DescriptorsOwned, ReadyInv,
             mainVars, socketVars, kernelVars, queueVars
<1> QED BY <1>1, <1>2, <1>3, <1>4, <1>5, <1>6, <1>7, <1>8, <1>9 DEF Next

\* Every reachable state satisfies the invariant.
THEOREM LifecycleInvariant == Spec => []LifecycleInv
BY LifecycleInit, LifecycleNext, PTL DEF Spec

\* Types: every state has the types of the program's.
THEOREM TypeCorrect == Spec => []TypeOK
<1>1. LifecycleInv => TypeOK
  BY DEF LifecycleInv
<1> QED BY <1>1, LifecycleInvariant, PTL

\* No session and no connector is used after it has deleted itself.
THEOREM NoDeletedUse == Spec => []ReferencesAlive
<1> SUFFICES ASSUME LifecycleInv PROVE ReferencesAlive
  BY LifecycleInvariant, PTL
<1>1. ASSUME NEW f \in Fds, epoll[f] # Nobody \/ sockets[f] # Nobody
      PROVE  connector[epoll[f]] = "alive" /\ epoll[f] = sockets[f]
  BY <1>1, RegisteredAlive DEF LifecycleInv, TablesAgree
<1>2. MappedAlive
  BY <1>1 DEF MappedAlive
<1>3. \A c \in ready \ {EventFd} : connector[c] = "alive"
  BY DEF LifecycleInv, ReadyInv
<1>4. ASSUME NEW i \in 1 .. Len(Waiting), Waiting[i].conn # Nobody
      PROVE  IF Waiting[i].kind = "connect" THEN session[Waiting[i].conn] = "alive"
             ELSE connector[Waiting[i].conn] = "alive"
  BY <1>4 DEF LifecycleInv, EventsInv, EventState
<1>5. ASSUME NEW i \in 1 .. Len(messages) PROVE session[messages[i].conn] = "alive"
  <2>1. messages[i] \in Messages
    BY ElementOfSeq DEF LifecycleInv, TypeOK
  <2>2. messages[i].conn \in Connections /\ bound[messages[i].conn]
    BY <2>1 DEF LifecycleInv, MessagesInv, Messages
  <2> QED BY <2>2 DEF LifecycleInv, ObjectsInv
<1>6. \A c \in Connections :
         /\ bound[c] => connector[c] = "alive"
         /\ attached[c] => session[c] = "alive"
         /\ connector[c] = "alive" /\ ~failed[c] => attached[c]
  BY DEF LifecycleInv, ObjectsInv
<1> QED BY <1>1, <1>2, <1>3, <1>4, <1>5, <1>6 DEF ReferencesAlive

\* A connector's deletion is posted once, and nothing for it after that.
THEOREM DeletionIsLast == Spec => []DeletedLast
<1> SUFFICES ASSUME LifecycleInv PROVE DeletedLast
  BY LifecycleInvariant, PTL
<1> SUFFICES ASSUME NEW c \in Connections
    PROVE  LET D == Occurrences("onclose", c) IN
           /\ Cardinality(D) <= 1
           /\ \A i \in D : /\ ~bound[c]
                           /\ \A j \in i + 1 .. Len(Waiting) : Waiting[j].conn # c
  BY DEF DeletedLast
<1> DEFINE D == Occurrences("onclose", c)
<1>1. Len(Waiting) \in Nat
  BY WaitingSeq DEF LifecycleInv
<1>2. \A i \in D : i \in 1 .. Len(Waiting) /\ Waiting[i].kind = "onclose" /\ Waiting[i].conn = c
  BY DEF Occurrences
<1>3. ASSUME NEW i \in D PROVE ~bound[c]
  BY <1>2 DEF LifecycleInv, EventsInv, EventState
<1>4. ASSUME NEW i \in D, NEW j \in 1 .. Len(Waiting), i < j PROVE Waiting[j].conn # c
  BY <1>2, <1>4 DEF LifecycleInv, EventsInv, Ordered
<1>5. ASSUME NEW i \in D, NEW j \in i + 1 .. Len(Waiting) PROVE Waiting[j].conn # c
  <2>1. j \in 1 .. Len(Waiting) /\ i < j
    BY <1>1, <1>2
  <2> QED BY <1>4, <2>1
<1>6. \A i, j \in D : i = j
  <2>1. ASSUME NEW i \in D, NEW j \in D PROVE ~(i < j)
    BY <1>2, <1>4, <2>1
  <2> QED BY <1>1, <1>2, <2>1
<1> HIDE DEF D
<1>7. Cardinality(D) <= 1
  <2>1. CASE D = {}
    BY <2>1, FS_EmptySet
  <2>2. CASE D # {}
    <3>1. PICK i \in D : TRUE
      BY <2>2
    <3>2. D = {i}
      BY <1>6, <3>1
    <3>3. Cardinality({i}) = 1
      BY FS_Singleton
    <3> QED BY <3>2, <3>3
  <2> QED BY <2>1, <2>2
<1> QED BY <1>3, <1>5, <1>7 DEF D

\* A session's close message is its last, and its error message comes right before.
THEOREM ToldOnce == Spec => []CloseIsLast
<1>1. LifecycleInv => CloseIsLast
  BY DEF LifecycleInv
<1> QED BY <1>1, LifecycleInvariant, PTL

\* A connection ends once, and last, for both threads.
THEOREM OneEndEach == Spec => []EndsOnce
<1>1. CloseIsLast /\ DeletedLast => EndsOnce
  BY DEF EndsOnce
<1> QED BY <1>1, ToldOnce, DeletionIsLast, PTL

\* Nobody closes another's descriptor, and no open descriptor is forgotten.
THEOREM NoStrayDescriptor == Spec => []DescriptorsOwned
<1>1. LifecycleInv => DescriptorsOwned
  BY DEF LifecycleInv
<1> QED BY <1>1, LifecycleInvariant, PTL

\* epoll and m_mapSockets always agree, on open descriptors only.
THEOREM RegistrationAgrees == Spec => []TablesAgree
<1>1. LifecycleInv => TablesAgree
  BY DEF LifecycleInv
<1> QED BY <1>1, LifecycleInvariant, PTL

\* However descriptor numbers are reused, they are their owners'.
THEOREM DescriptorsKept == Spec => []DescriptorsInv
<1>1. DescriptorsOwned /\ TablesAgree => DescriptorsInv
  BY DEF DescriptorsInv
<1> QED BY <1>1, NoStrayDescriptor, RegistrationAgrees, PTL

=============================================================================
