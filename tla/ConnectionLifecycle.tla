------------------------ MODULE ConnectionLifecycle -------------------------
(***************************************************************************)
(* Who may still use what, when a UDP connection ends: the session on the  *)
(* application's main thread, the connector on an I/O module's thread, and *)
(* the descriptor, a number that the kernel gives out again once closed.   *)
(*                                                                         *)
(* The main thread names a connector in the events it posts, the I/O       *)
(* thread names a session in the messages it pushes, and each side deletes *)
(* its own object: after an error the connector tells its session, the     *)
(* session deletes itself and posts the deletion of the connector.         *)
(*                                                                         *)
(* Both queues are first in, first out and lose nothing (module IoModule   *)
(* shows it of posted events). A connection's traffic is left out: an      *)
(* operation either works, and may give the session a message, or fails.   *)
(***************************************************************************)
EXTENDS Naturals, Sequences, FiniteSets

CONSTANTS
    Connections,    \* sessions, each with the connector made for it
    NumFds,         \* descriptors are 1 .. NumFds; a new one is any closed one
    Nobody,         \* no connection
    EventFd,        \* the module's eventfd among what epoll reports
    EventCapacity,  \* bound: events posted and not yet taken
    MessageCapacity \* bound: messages waiting when another data message is pushed

ASSUME LifecycleAssumption ==
    /\ NumFds \in Nat \ {0}
    /\ Nobody \notin Connections
    /\ EventFd \notin Connections
    /\ EventCapacity \in Nat
    /\ MessageCapacity \in Nat

Fds == 1 .. NumFds
NoFd == 0               \* InvalidNativeHandle

VARIABLES
    session,    \* the session object: none yet, alive or deleted
    bound,      \* whether the session's m_opSock is set
    connector,  \* the connector object: none yet, alive or deleted
    attached,   \* whether the connector's m_pSession is set
    failed,     \* whether the connector's m_oError is set
    handle,     \* the connector's m_hNativeHandle, which closing does not reset
    owner,      \* kernel: whose socket an open descriptor is
    epoll,      \* kernel: the pointer registered with a descriptor
    sockets,    \* m_mapSockets
    ready,      \* what epoll_wait has reported and DealData has not served
    posted,     \* m_vecIOEvent
    running,    \* vecTmp: events taken, the one to run next first
    messages    \* the MessageEventQueue

mainVars == <<session, bound>>
socketVars == <<connector, attached, failed, handle>>
kernelVars == <<owner, epoll, sockets>>
queueVars == <<ready, posted, running>>
vars == <<mainVars, socketVars, kernelVars, queueVars, messages>>

Event(kind, c, f) == [kind |-> kind, conn |-> c, fd |-> f]
Message(kind, c) == [kind |-> kind, conn |-> c]

\* A table of descriptors without the entries of some of them.
Without(table, fds) == [f \in Fds |-> IF f \in fds THEN Nobody ELSE table[f]]

Init ==
    /\ session = [c \in Connections |-> "none"]
    /\ bound = [c \in Connections |-> FALSE]
    /\ connector = [c \in Connections |-> "none"]
    /\ attached = [c \in Connections |-> FALSE]
    /\ failed = [c \in Connections |-> FALSE]
    /\ handle = [c \in Connections |-> NoFd]
    /\ owner = [f \in Fds |-> Nobody]
    /\ epoll = [f \in Fds |-> Nobody]
    /\ sockets = [f \in Fds |-> Nobody]
    /\ ready = {}
    /\ posted = <<>>
    /\ running = <<>>
    /\ messages = <<>>

-----------------------------------------------------------------------------
(* The main thread *)

Post(e) ==
    /\ posted' = Append(posted, e)
    /\ UNCHANGED <<ready, running>>

\* The application makes a session and posts UDPConnect for it.
AppConnect(c) ==
    /\ session[c] = "none"
    /\ Len(posted) < EventCapacity
    /\ session' = [session EXCEPT ![c] = "alive"]
    /\ Post(Event("connect", c, NoFd))
    /\ UNCHANGED <<bound, socketVars, kernelVars, messages>>

\* The session's Send and Close, once it has a socket to name.
AppUses(c, kind) ==
    /\ session[c] = "alive"
    /\ bound[c]
    /\ Len(posted) < EventCapacity
    /\ Post(Event(kind, c, NoFd))
    /\ UNCHANGED <<mainVars, socketVars, kernelVars, messages>>

\* CloseAllSockets of the interface.
AppCloseAll ==
    /\ Len(posted) < EventCapacity
    /\ Post(Event("closeall", Nobody, 1))
    /\ UNCHANGED <<mainVars, socketVars, kernelVars, messages>>

\* The main loop runs one message. The error message posts ErrorOperator. The
\* close message posts OnCloseOperator, unbinds the session and deletes it.
HandleMessage ==
    /\ messages # <<>>
    /\ messages' = Tail(messages)
    /\ LET m == Head(messages) IN
       \/ /\ m.kind = "data"
          /\ UNCHANGED <<mainVars, queueVars>>
       \/ /\ m.kind = "error"
          /\ Post(Event("onerror", m.conn, NoFd))
          /\ UNCHANGED mainVars
       \/ /\ m.kind = "close"
          /\ Post(Event("onclose", m.conn, NoFd))
          /\ bound' = [bound EXCEPT ![m.conn] = FALSE]
          /\ session' = [session EXCEPT ![m.conn] = "deleted"]
    /\ UNCHANGED <<socketVars, kernelVars>>

-----------------------------------------------------------------------------
(* Operations of the I/O thread *)

\* What an error operation pushes for the session.
Report(c) == <<Message("error", c), Message("close", c)>>

\* A mistake: an error is reported however often it occurs.
ReportsAgain(c, registered) ==
    /\ failed' = [failed EXCEPT ![c] = TRUE]
    /\ owner' = Without(owner, {handle[c]})
    /\ epoll' = Without(registered, {handle[c]})
    /\ messages' = messages \o Report(c)
    /\ UNCHANGED attached

\* NewErrorOperation and the operation: the first time, the socket is closed,
\* the session is told, and the connector lets go of it. epoll forgets a closed
\* descriptor by itself; registered is what it still knows before that.
ErrorOperation(c, registered) ==
    /\ failed' = [failed EXCEPT ![c] = TRUE]
    /\ IF attached[c]
       THEN /\ owner' = Without(owner, {handle[c]})
            /\ epoll' = Without(registered, {handle[c]})
            /\ messages' = messages \o Report(c)
            /\ attached' = [attached EXCEPT ![c] = FALSE]
       ELSE /\ epoll' = registered
            /\ UNCHANGED <<owner, messages, attached>>

\* What DeregisterIO removes: epoll_ctl fails on a descriptor that epoll does
\* not know, and then the map is left as it is.
Removed(f) == {g \in {f} \cap Fds : epoll[g] # Nobody}

\* A mistake: the error operation runs first, and its close makes epoll_ctl fail.
FailThenDeregister(c) ==
    /\ sockets' = Without(sockets, IF attached[c] THEN {} ELSE Removed(handle[c]))
    /\ ErrorOperation(c, epoll)
    /\ UNCHANGED <<connector, handle>>

\* An operation has reported an error: deregister, then the error operation.
Fail(c) ==
    /\ sockets' = Without(sockets, Removed(handle[c]))
    /\ ErrorOperation(c, Without(epoll, Removed(handle[c])))
    /\ UNCHANGED <<connector, handle>>

\* An operation has worked, and may have a message for the session.
Works(c) ==
    /\ \/ UNCHANGED messages
       \/ /\ Len(messages) < MessageCapacity
          /\ messages' = Append(messages, Message("data", c))
    /\ UNCHANGED <<socketVars, kernelVars>>

\* A socket is open, and its connector is registered: RegisterIO.
Register(c, f) ==
    /\ handle' = [handle EXCEPT ![c] = f]
    /\ owner' = [owner EXCEPT ![f] = c]
    /\ epoll' = [epoll EXCEPT ![f] = c]
    /\ sockets' = [sockets EXCEPT ![f] = c]

-----------------------------------------------------------------------------
(* Posted events *)

\* UdpConnect, with a session that has no socket yet: the connector is made and
\* either gets a registered socket or fails at once, its socket closed again.
Connects(c) ==
    /\ bound' = [bound EXCEPT ![c] = TRUE]
    /\ connector' = [connector EXCEPT ![c] = "alive"]
    /\ \/ \E f \in Fds :
            /\ owner[f] = Nobody
            /\ Register(c, f)
            /\ attached' = [attached EXCEPT ![c] = TRUE]
            /\ UNCHANGED <<failed, messages>>
       \/ /\ failed' = [failed EXCEPT ![c] = TRUE]
          /\ messages' = messages \o Report(c)
          /\ UNCHANGED <<attached, handle, kernelVars>>
    /\ UNCHANGED session

\* A mistake: the listener's socket is left open when connecting it fails.
AcceptedLeaks(c, f) ==
    /\ \/ Register(c, f) /\ UNCHANGED <<attached, failed, messages>>
       \/ /\ failed' = [failed EXCEPT ![c] = TRUE]
          /\ messages' = messages \o Report(c)
          /\ attached' = [attached EXCEPT ![c] = FALSE]
          /\ UNCHANGED <<handle, kernelVars>>
    /\ UNCHANGED <<mainVars, connector>>

\* The listener's UdpConnect event, with the socket it has opened: as above, but
\* connector and session have known each other since the listener made them.
Accepted(c, f) ==
    /\ \/ Register(c, f) /\ UNCHANGED <<attached, failed, messages>>
       \/ /\ owner' = Without(owner, {f})
          /\ failed' = [failed EXCEPT ![c] = TRUE]
          /\ messages' = messages \o Report(c)
          /\ attached' = [attached EXCEPT ![c] = FALSE]
          /\ UNCHANGED <<handle, epoll, sockets>>
    /\ UNCHANGED <<mainVars, connector>>

\* A listener, on whatever thread it runs, takes a client: it opens a socket,
\* makes a session and a connector and posts the rest to the module.
ListenerAccepts(c, f) ==
    /\ session[c] = "none"
    /\ owner[f] = Nobody
    /\ Len(posted) < EventCapacity
    /\ session' = [session EXCEPT ![c] = "alive"]
    /\ bound' = [bound EXCEPT ![c] = TRUE]
    /\ connector' = [connector EXCEPT ![c] = "alive"]
    /\ attached' = [attached EXCEPT ![c] = TRUE]
    /\ owner' = [owner EXCEPT ![f] = c]
    /\ Post(Event("accepted", c, f))
    /\ UNCHANGED <<failed, handle, epoll, sockets, messages>>

\* SendOperator: nothing on a failed connector; what SendMessage reports is
\* dropped, so that the next operation finds it.
Sends(c) ==
    IF failed[c] THEN UNCHANGED <<socketVars, kernelVars, messages>> ELSE Works(c)

\* A mistake: OnClose does nothing, as a listener's does.
Keeps(c) == UNCHANGED <<socketVars, kernelVars, messages>>

\* OnCloseOperator: delete this.
Deletes(c) ==
    /\ connector' = [connector EXCEPT ![c] = "deleted"]
    /\ UNCHANGED <<attached, failed, handle, kernelVars, messages>>

\* CloseAllSockets goes through m_mapSockets by descriptor.
ClosesAt(f) ==
    IF f \in Fds /\ sockets[f] # Nobody
    THEN Fail(sockets[f])
    ELSE UNCHANGED <<socketVars, kernelVars, messages>>

\* A mistake: CloseAllSockets goes one past the last descriptor.
RestTooFar(e) ==
    IF e.kind = "closeall" /\ e.fd <= NumFds
    THEN <<Event("closeall", Nobody, e.fd + 1)>> \o Tail(running)
    ELSE Tail(running)

\* What is left to run after a step of the first event.
Rest(e) ==
    IF e.kind = "closeall" /\ e.fd < NumFds
    THEN <<Event("closeall", Nobody, e.fd + 1)>> \o Tail(running)
    ELSE Tail(running)

\* The loop over vecTmp runs its first event.
RunEvent ==
    /\ running # <<>>
    /\ LET e == Head(running) IN
       /\ running' = Rest(e)
       /\ \/ e.kind = "connect" /\ Connects(e.conn)
          \/ e.kind = "accepted" /\ Accepted(e.conn, e.fd)
          \/ e.kind = "send" /\ Sends(e.conn) /\ UNCHANGED mainVars
          \/ e.kind = "close" /\ Fail(e.conn) /\ UNCHANGED mainVars
          \/ e.kind = "closeall" /\ ClosesAt(e.fd) /\ UNCHANGED mainVars
          \/ e.kind = "onerror" /\ UNCHANGED <<mainVars, socketVars, kernelVars, messages>>
          \/ e.kind = "onclose" /\ Deletes(e.conn) /\ UNCHANGED mainVars
    /\ UNCHANGED <<ready, posted>>

-----------------------------------------------------------------------------
(* The loop of the I/O thread *)

Idle == ready = {} /\ running = <<>>

\* Update of the socket in one entry of the map: nothing on a failed connector.
Update(f) ==
    /\ Idle
    /\ sockets[f] # Nobody
    /\ ~failed[sockets[f]]
    /\ Works(sockets[f]) \/ Fail(sockets[f])
    /\ UNCHANGED <<mainVars, queueVars>>

\* epoll_wait: some registered sockets, and the eventfd if events are posted.
Wait ==
    /\ Idle
    /\ \E some \in SUBSET {epoll[f] : f \in Fds} :
          ready' = (some \ {Nobody}) \cup IF posted # <<>> THEN {EventFd} ELSE {}
    /\ ready' # {}
    /\ UNCHANGED <<mainVars, socketVars, kernelVars, posted, running, messages>>

\* The write and read operations of a socket; both report the error of a
\* connector that has failed since epoll_wait.
Dispatch(c) ==
    /\ running = <<>>
    /\ c \in ready
    /\ ready' = ready \ {c}
    /\ (~failed[c] /\ Works(c)) \/ Fail(c)
    /\ UNCHANGED <<mainVars, posted, running>>

\* The eventfd: all posted events are taken.
TakeEvents ==
    /\ running = <<>>
    /\ EventFd \in ready
    /\ ready' = ready \ {EventFd}
    /\ running' = posted
    /\ posted' = <<>>
    /\ UNCHANGED <<mainVars, socketVars, kernelVars, messages>>

Serve == RunEvent \/ TakeEvents \/ \E c \in Connections : Dispatch(c)

Next ==
    \/ \E c \in Connections :
          \/ AppConnect(c)
          \/ AppUses(c, "send")
          \/ AppUses(c, "close")
          \/ \E f \in Fds : ListenerAccepts(c, f)
    \/ AppCloseAll
    \/ HandleMessage
    \/ \E f \in Fds : Update(f)
    \/ Wait
    \/ Serve

Spec == Init /\ [][Next]_vars

\* Both threads' loops go on; updates do not keep the I/O thread from waiting,
\* as each turn of its loop makes at most one before epoll_wait.
FairSpec == Spec /\ WF_vars(HandleMessage) /\ WF_vars(Wait) /\ WF_vars(Serve)

-----------------------------------------------------------------------------
(* Properties *)

ObjectStates == {"none", "alive", "deleted"}
EventKinds == {"connect", "accepted", "send", "close", "closeall", "onerror", "onclose"}
Events == [kind : EventKinds, conn : Connections \cup {Nobody}, fd : 0 .. NumFds]
Messages == [kind : {"data", "error", "close"}, conn : Connections]
Tables == [Fds -> Connections \cup {Nobody}]

\* Types of all variables.
TypeOK ==
    /\ session \in [Connections -> ObjectStates]
    /\ bound \in [Connections -> BOOLEAN]
    /\ connector \in [Connections -> ObjectStates]
    /\ attached \in [Connections -> BOOLEAN]
    /\ failed \in [Connections -> BOOLEAN]
    /\ handle \in [Connections -> Fds \cup {NoFd}]
    /\ owner \in Tables /\ epoll \in Tables /\ sockets \in Tables
    /\ ready \subseteq Connections \cup {EventFd}
    /\ posted \in Seq(Events)
    /\ running \in Seq(Events)
    /\ messages \in Seq(Messages)

\* Events that wait, in the order in which they will run.
Waiting == running \o posted
Occurrences(kind, c) == {i \in 1 .. Len(Waiting) :
                            Waiting[i].kind = kind /\ Waiting[i].conn = c}

\* Every connector that m_mapSockets holds exists: Update is called on it.
MappedAlive == \A f \in Fds : sockets[f] # Nobody => connector[sockets[f]] = "alive"

\* No object is used after it was deleted: what the other references name is
\* alive. The session deletes itself while events for the connector still wait,
\* the connector is deleted by the last of them.
ReferencesAlive ==
    /\ MappedAlive
    /\ \A f \in Fds : epoll[f] # Nobody => connector[epoll[f]] = "alive"
    /\ \A c \in ready \ {EventFd} : connector[c] = "alive"
    /\ \A i \in 1 .. Len(Waiting) : LET e == Waiting[i] IN
          e.conn # Nobody =>
             IF e.kind = "connect" THEN session[e.conn] = "alive"
             ELSE connector[e.conn] = "alive"
    /\ \A i \in 1 .. Len(messages) : session[messages[i].conn] = "alive"
    /\ \A c \in Connections :
          /\ bound[c] => connector[c] = "alive"
          /\ attached[c] => session[c] = "alive"
          /\ connector[c] = "alive" /\ ~failed[c] => attached[c]

\* The deletion of a connector is posted once, after everything else for it.
DeletedLast == \A c \in Connections :
    LET D == Occurrences("onclose", c) IN
    /\ Cardinality(D) <= 1
    /\ \A i \in D : /\ ~bound[c]
                    /\ \A j \in i + 1 .. Len(Waiting) : Waiting[j].conn # c

\* A session hears of its end once: the close message is its last, the error
\* message comes right before it, and the connector has no session any more.
CloseIsLast == \A i \in 1 .. Len(messages) :
    /\ messages[i].kind = "close" =>
          /\ ~attached[messages[i].conn]
          /\ \A j \in i + 1 .. Len(messages) : messages[j].conn # messages[i].conn
    /\ messages[i].kind = "error" =>
          /\ i < Len(messages)
          /\ messages[i + 1] = Message("close", messages[i].conn)

\* Descriptors belong to those who will close them: a connector that will still
\* close its descriptor owns it, and an open descriptor belongs to a connector
\* that will close it, or is on its way to one in the listener's event.
DescriptorsOwned ==
    /\ \A c \in Connections : attached[c] /\ handle[c] # NoFd => owner[handle[c]] = c
    /\ \A f \in Fds : owner[f] # Nobody =>
          /\ attached[owner[f]]
          /\ \/ handle[owner[f]] = f
             \/ \E i \in 1 .. Len(Waiting) : Waiting[i] = Event("accepted", owner[f], f)

\* epoll and the map agree, and name an open descriptor's owner.
TablesAgree == \A f \in Fds :
    /\ epoll[f] = sockets[f]
    /\ epoll[f] # Nobody => owner[f] = epoll[f] /\ handle[epoll[f]] = f

\* What iothread.h says of m_mapSockets: the connectors are in it, to be
\* updated; so is every one that has a socket and has not failed.
LiveIsMapped == \A c \in Connections :
    connector[c] = "alive" /\ ~failed[c] /\ handle[c] # NoFd => sockets[handle[c]] = c

\* A connection ends once, and last, for each of its two threads.
EndsOnce == CloseIsLast /\ DeletedLast

\* Descriptors, registrations and connectors go together, however numbers are reused.
DescriptorsInv == DescriptorsOwned /\ TablesAgree

\* Once failed, a connector and its session are both deleted in the end.
FailedAreDeleted == \A c \in Connections :
    failed[c] ~> connector[c] = "deleted" /\ session[c] = "deleted"

\* A session that closes itself is deleted, connected or not.
CloseCompletes == \A c \in Connections :
    Occurrences("close", c) # {} ~> session[c] = "deleted"

\* However a connection ends, by an error or by the session's Close, nothing is left of it.
EndCompletes == FailedAreDeleted /\ CloseCompletes

=============================================================================
