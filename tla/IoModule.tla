------------------------------ MODULE IoModule ------------------------------
(***************************************************************************)
(* FxIoModule's queue of posted events (common/iothread.cpp): any thread   *)
(* appends to a vector under a CCasLock and then writes an eventfd; the    *)
(* module's thread is woken by epoll, reads the eventfd, takes the whole   *)
(* vector under the lock and runs the events in order.                     *)
(*                                                                         *)
(* The lock is the compare-and-swap it is in the code. Appending and       *)
(* swapping are two steps each, as std::vector is not safe for concurrent  *)
(* use: what the lock protects shows only when they can interleave.        *)
(***************************************************************************)
EXTENDS Naturals, Sequences

CONSTANTS Posters,      \* threads other than the module's own that post
          Io,           \* the module's thread, which posts as well (listeners do)
          MaxPosts      \* bound: how many events each thread posts

ASSUME PostAssumption == Io \notin Posters /\ MaxPosts \in [Posters \cup {Io} -> Nat]

Threads == Posters \cup {Io}

VARIABLES
    lock,       \* CCasLock's m_lLock: 0 or 1
    vec,        \* m_vecIOEvent
    vecTmp,     \* the local vecTmp: events taken and not yet run
    counter,    \* the eventfd's counter, m_hEvent
    copy,       \* what an unfinished push_back has read of the vector
    pc,         \* where each thread stands in PostEvent or DealData
    created,    \* history: how many events each thread has made
    ran         \* history: the events that have run

vars == <<lock, vec, vecTmp, counter, copy, pc, created, ran>>

\* The n-th event a thread makes.
Event(t) == <<t, created[t]>>

Goto(t, from, to) == pc[t] = from /\ pc' = [pc EXCEPT ![t] = to]

\* A module that FxIoModule::Init has started: an eventfd in epoll, and a thread.
Init ==
    /\ lock = 0
    /\ vec = <<>>
    /\ vecTmp = <<>>
    /\ counter = 0
    /\ copy = [t \in Threads |-> <<>>]
    /\ pc = [t \in Threads |-> "idle"]
    /\ created = [t \in Threads |-> 0]
    /\ ran = <<>>

-----------------------------------------------------------------------------
(* CCasLock: Lock spins until it swaps 0 for 1, Unlock until it swaps back. *)

\* A mistake: the flag is set without the comparison.
LockAnyway(t, from, to) ==
    /\ Goto(t, from, to)
    /\ lock' = 1
    /\ UNCHANGED <<vec, vecTmp, counter, copy, created, ran>>

\* A mistake: an atomic increment in place of the compare-and-swap.
LockCounts(t, from, to) ==
    /\ Goto(t, from, to)
    /\ lock' = lock + 1
    /\ UNCHANGED <<vec, vecTmp, counter, copy, created, ran>>

Lock(t, from, to) ==
    /\ Goto(t, from, to)
    /\ lock = 0
    /\ lock' = 1
    /\ UNCHANGED <<vec, vecTmp, counter, copy, created, ran>>

Unlock(t, from, to) ==
    /\ Goto(t, from, to)
    /\ lock = 1
    /\ lock' = 0
    /\ UNCHANGED <<vec, vecTmp, counter, copy, created, ran>>

-----------------------------------------------------------------------------
(* PostEvent *)

\* A thread has an event to post; the module's own thread when it serves a
\* socket, in between the events it runs.
Begin(t) ==
    /\ created[t] < MaxPosts[t]
    /\ Goto(t, "idle", "lock")
    /\ created' = [created EXCEPT ![t] = @ + 1]
    /\ UNCHANGED <<lock, vec, vecTmp, counter, copy, ran>>

\* push_back: reads the vector ...
PushRead(t) ==
    /\ Goto(t, "push", "store")
    /\ copy' = [copy EXCEPT ![t] = vec]
    /\ UNCHANGED <<lock, vec, vecTmp, counter, created, ran>>

\* ... and leaves it one longer.
PushStore(t) ==
    /\ Goto(t, "store", "unlock")
    /\ vec' = Append(copy[t], Event(t))
    /\ UNCHANGED <<lock, vecTmp, counter, copy, created, ran>>

\* write(m_hEvent, 1), after the lock's scope has ended.
Notify(t) ==
    /\ Goto(t, "write", "idle")
    /\ counter' = counter + 1
    /\ UNCHANGED <<lock, vec, vecTmp, copy, created, ran>>

PostEvent(t) ==
    \/ Begin(t)
    \/ Lock(t, "lock", "push")
    \/ PushRead(t)
    \/ PushStore(t)
    \/ Unlock(t, "unlock", "write")
    \/ Notify(t)

-----------------------------------------------------------------------------
(* DealData *)

\* epoll_wait reports the eventfd, which is level-triggered, and read sets its
\* counter to zero. While the counter is zero the thread serves its sockets.
ReadEventFd ==
    /\ Goto(Io, "idle", "swaplock")
    /\ counter > 0
    /\ counter' = 0
    /\ UNCHANGED <<lock, vec, vecTmp, copy, created, ran>>

\* vecTmp.swap(m_vecIOEvent), vecTmp being a new, empty vector.
SwapTake ==
    /\ Goto(Io, "swap", "clear")
    /\ vecTmp' = vec
    /\ UNCHANGED <<lock, vec, counter, copy, created, ran>>

SwapClear ==
    /\ Goto(Io, "clear", "swapunlock")
    /\ vec' = <<>>
    /\ UNCHANGED <<lock, vecTmp, counter, copy, created, ran>>

\* A mistake: one event for each notification, as if it were a semaphore.
RunFirstOnly ==
    /\ pc[Io] = "run"
    /\ vecTmp # <<>>
    /\ ran' = Append(ran, Head(vecTmp))
    /\ vecTmp' = <<>>
    /\ UNCHANGED <<lock, vec, counter, copy, pc, created>>

\* One turn of the loop over vecTmp.
RunEvent ==
    /\ pc[Io] = "run"
    /\ vecTmp # <<>>
    /\ ran' = Append(ran, Head(vecTmp))
    /\ vecTmp' = Tail(vecTmp)
    /\ UNCHANGED <<lock, vec, counter, copy, pc, created>>

\* A mistake: the eventfd is read after the events have run.
RunDoneThenRead ==
    /\ vecTmp = <<>>
    /\ Goto(Io, "run", "idle")
    /\ counter' = 0
    /\ UNCHANGED <<lock, vec, vecTmp, copy, created, ran>>

RunDone ==
    /\ vecTmp = <<>>
    /\ Goto(Io, "run", "idle")
    /\ UNCHANGED <<lock, vec, vecTmp, counter, copy, created, ran>>

DealData ==
    \/ ReadEventFd
    \/ Lock(Io, "swaplock", "swap")
    \/ SwapTake
    \/ SwapClear
    \/ Unlock(Io, "swapunlock", "run")
    \/ RunEvent
    \/ RunDone

\* Every thread has posted what the bound allows and nothing is left to run.
AllQuiet ==
    /\ \A t \in Threads : pc[t] = "idle" /\ created[t] = MaxPosts[t]
    /\ counter = 0
    /\ UNCHANGED vars

Next == DealData \/ AllQuiet \/ \E t \in Threads : PostEvent(t)

Spec == Init /\ [][Next]_vars

\* The scheduler runs every thread. A spinning Lock gets its turn when it finds
\* the lock free for good, which it does as each thread's posts are bounded.
FairSpec == Spec /\ WF_vars(DealData) /\ \A t \in Threads : WF_vars(PostEvent(t))

-----------------------------------------------------------------------------
(* Properties *)

Places == {"idle", "lock", "push", "store", "unlock", "write",
           "swaplock", "swap", "clear", "swapunlock", "run"}

\* Types of all variables.
TypeOK ==
    /\ lock \in {0, 1}
    /\ vec \in Seq(Threads \X Nat)
    /\ vecTmp \in Seq(Threads \X Nat)
    /\ counter \in Nat
    /\ copy \in [Threads -> Seq(Threads \X Nat)]
    /\ pc \in [Threads -> Places]
    /\ created \in [Threads -> Nat]
    /\ ran \in Seq(Threads \X Nat)

\* The places between Lock and Unlock.
Critical == {"push", "store", "unlock", "swap", "clear", "swapunlock"}

\* The compare-and-swap admits one thread, and the lock is free when nobody is
\* in: Unlock, which knows no owner, always ends its own thread's turn.
MutualExclusion ==
    /\ lock = 0 => \A t \in Threads : pc[t] \notin Critical
    /\ \A t, u \in Threads : pc[t] \in Critical /\ pc[u] \in Critical => t = u

\* No lost wake-up: while the vector holds an event, the eventfd is readable, or
\* a thread that has appended is about to write it, or the module's thread has
\* read it and is about to take the vector.
NoLostWakeup ==
    vec # <<>> =>
        \/ counter > 0
        \/ \E t \in Threads : pc[t] \in {"unlock", "write"}
        \/ pc[Io] \in {"swaplock", "swap", "clear"}

\* The copies made under the lock are exact, and vecTmp is empty when it swaps.
SwapInv ==
    /\ \A t \in Threads : pc[t] = "store" => copy[t] = vec
    /\ pc[Io] = "clear" => vecTmp = vec
    /\ pc[Io] \notin {"clear", "swapunlock", "run"} => vecTmp = <<>>

\* The parts of the inductive invariant.
QueueInv == MutualExclusion /\ NoLostWakeup /\ SwapInv

\* The abstract queue: what vecTmp still holds, then the vector. An event counts
\* as posted when push_back stores it.
Waiting == IF pc[Io] = "clear" THEN vec ELSE vecTmp \o vec
Stored == [t \in Threads |->
    IF pc[t] \in {"lock", "push", "store"} THEN created[t] - 1 ELSE created[t]]

Queue == INSTANCE EventQueue WITH posted <- Stored, queue <- Waiting

\* Posting and running through the vector, the lock and the eventfd is posting
\* to and running from one queue: nothing is lost, repeated or overtaken.
ImplementsQueue == Queue!Spec

\* Every event that is made is run.
EventsRun == \A t \in Threads : \A n \in 1 .. MaxPosts[t] :
    created[t] >= n ~> \E i \in 1 .. Len(ran) : ran[i] = <<t, n>>

=============================================================================
