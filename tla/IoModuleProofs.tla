--------------------------- MODULE IoModuleProofs ---------------------------
(***************************************************************************)
(* Proofs about IoModule, for any number of threads and posts: the         *)
(* CCasLock excludes, no wake-up is lost, and the whole is the queue that  *)
(* EventQueue describes.                                                   *)
(***************************************************************************)
EXTENDS IoModule, SequenceTheorems, TLAPS

\* Every variable keeps its type.
THEOREM TypeCorrect == Spec => []TypeOK
<1>1. Init => TypeOK
  BY DEF Init, TypeOK, Places
<1>2. TypeOK /\ [Next]_vars => TypeOK'
  <2> SUFFICES ASSUME TypeOK, [Next]_vars PROVE TypeOK'
    OBVIOUS
  <2> USE DEF TypeOK, Places, Goto
  <2>1. ASSUME NEW t \in Threads, PostEvent(t) PROVE TypeOK'
    <3>1. CASE Begin(t)
      BY <3>1 DEF Begin
    <3>2. CASE Lock(t, "lock", "push")
      BY <3>2 DEF Lock
    <3>3. CASE PushRead(t)
      BY <3>3 DEF PushRead
    <3>4. CASE PushStore(t)
      <4>1. Append(copy[t], Event(t)) \in Seq(Threads \X Nat)
        BY AppendProperties DEF Event
      <4>. QED BY <3>4, <4>1 DEF PushStore
    <3>5. CASE Unlock(t, "unlock", "write")
      BY <3>5 DEF Unlock
    <3>6. CASE Notify(t)
      BY <3>6 DEF Notify
    <3>. QED BY <2>1, <3>1, <3>2, <3>3, <3>4, <3>5, <3>6 DEF PostEvent
  <2>2. ASSUME DealData PROVE TypeOK'
    <3>0. Io \in Threads
      BY DEF Threads
    <3>1. CASE ReadEventFd
      BY <3>1, <3>0 DEF ReadEventFd
    <3>2. CASE Lock(Io, "swaplock", "swap")
      BY <3>2, <3>0 DEF Lock
    <3>3. CASE SwapTake
      BY <3>3, <3>0 DEF SwapTake
    <3>4. CASE SwapClear
      BY <3>4, <3>0 DEF SwapClear
    <3>5. CASE Unlock(Io, "swapunlock", "run")
      BY <3>5, <3>0 DEF Unlock
    <3>6. CASE RunEvent
      <4>1. /\ Head(vecTmp) \in Threads \X Nat
            /\ Tail(vecTmp) \in Seq(Threads \X Nat)
        BY <3>6, HeadTailProperties DEF RunEvent
      <4>2. Append(ran, Head(vecTmp)) \in Seq(Threads \X Nat)
        BY <4>1, AppendProperties
      <4>. QED BY <3>6, <4>1, <4>2 DEF RunEvent
    <3>7. CASE RunDone
      BY <3>7, <3>0 DEF RunDone
    <3>. QED BY <2>2, <3>1, <3>2, <3>3, <3>4, <3>5, <3>6, <3>7 DEF DealData
  <2>3. ASSUME AllQuiet \/ UNCHANGED vars PROVE TypeOK'
    BY <2>3 DEF AllQuiet, vars
  <2>. QED BY <2>1, <2>2, <2>3 DEF Next
<1>. QED BY <1>1, <1>2, PTL DEF Spec

\* The lock, the notifications and the swap, together inductive.
THEOREM QueueInvariant == Spec => []QueueInv
<1>1. Init => QueueInv
  BY DEF Init, QueueInv, MutualExclusion, NoLostWakeup, SwapInv, Critical, Threads
<1>2. TypeOK /\ TypeOK' /\ QueueInv /\ [Next]_vars => QueueInv'
  <2> SUFFICES ASSUME TypeOK, TypeOK', QueueInv, [Next]_vars PROVE QueueInv'
    OBVIOUS
  <2>0. Io \in Threads
    BY DEF Threads
  <2> USE <2>0 DEF TypeOK, Places, Goto, QueueInv, MutualExclusion, NoLostWakeup,
                   SwapInv, Critical
  <2>1. ASSUME NEW t \in Threads, PostEvent(t) PROVE QueueInv'
    <3>1. CASE Begin(t)
      BY <3>1 DEF Begin
    <3>2. CASE Lock(t, "lock", "push")
      <4>1. MutualExclusion'
        BY <3>2 DEF Lock
      <4>2. NoLostWakeup'
        BY <3>2 DEF Lock
      <4>3. SwapInv'
        BY <3>2 DEF Lock
      <4>. QED BY <4>1, <4>2, <4>3
    <3>3. CASE PushRead(t)
      BY <3>3 DEF PushRead
    <3>4. CASE PushStore(t)
      BY <3>4 DEF PushStore
    <3>5. CASE Unlock(t, "unlock", "write")
      BY <3>5 DEF Unlock
    <3>6. CASE Notify(t)
      <4>1. MutualExclusion'
        BY <3>6 DEF Notify
      <4>2. NoLostWakeup'
        BY <3>6 DEF Notify
      <4>3. SwapInv'
        BY <3>6 DEF Notify
      <4>. QED BY <4>1, <4>2, <4>3
    <3>. QED BY <2>1, <3>1, <3>2, <3>3, <3>4, <3>5, <3>6 DEF PostEvent
  <2>2. ASSUME DealData PROVE QueueInv'
    <3>1. CASE ReadEventFd
      BY <3>1 DEF ReadEventFd
    <3>2. CASE Lock(Io, "swaplock", "swap")
      BY <3>2 DEF Lock
    <3>3. CASE SwapTake
      BY <3>3 DEF SwapTake
    <3>4. CASE SwapClear
      BY <3>4 DEF SwapClear
    <3>5. CASE Unlock(Io, "swapunlock", "run")
      BY <3>5 DEF Unlock
    <3>6. CASE RunEvent
      BY <3>6 DEF RunEvent
    <3>7. CASE RunDone
      BY <3>7 DEF RunDone
    <3>. QED BY <2>2, <3>1, <3>2, <3>3, <3>4, <3>5, <3>6, <3>7 DEF DealData
  <2>3. ASSUME AllQuiet \/ UNCHANGED vars PROVE QueueInv'
    BY <2>3 DEF AllQuiet, vars
  <2>. QED BY <2>1, <2>2, <2>3 DEF Next
<1>. QED BY <1>1, <1>2, TypeCorrect, PTL DEF Spec

\* Storing an event appends it to what waits.
LEMMA StoreIsPost ==
    ASSUME TypeOK, TypeOK', QueueInv, NEW t \in Threads, PushStore(t)
    PROVE  Queue!Post(t)
<1>0. Io \in Threads
  BY DEF Threads
<1>1. /\ pc[t] = "store" /\ pc[Io] # "clear" /\ pc'[Io] # "clear"
      /\ copy[t] = vec
      /\ Event(t) \in Threads \X Nat
  BY <1>0 DEF PushStore, Goto, QueueInv, MutualExclusion, SwapInv, Critical, TypeOK, Event
<1>2. Waiting' = Append(Waiting, Event(t))
  <2>1. Waiting = vecTmp \o vec /\ Waiting' = vecTmp \o Append(vec, Event(t))
    BY <1>1 DEF Waiting, PushStore
  <2>2. /\ vecTmp \in Seq(Threads \X Nat) /\ vec \in Seq(Threads \X Nat)
        /\ <<Event(t)>> \in Seq(Threads \X Nat)
    BY <1>1 DEF TypeOK
  <2>3. Append(vec, Event(t)) = vec \o <<Event(t)>>
    BY <1>1, <2>2, AppendIsConcat
  <2>4. vecTmp \o (vec \o <<Event(t)>>) = (vecTmp \o vec) \o <<Event(t)>>
    BY <2>2, ConcatAssociative
  <2>5. Append(vecTmp \o vec, Event(t)) = (vecTmp \o vec) \o <<Event(t)>>
    BY <1>1, <2>2, ConcatProperties, AppendIsConcat
  <2>. QED BY <2>1, <2>3, <2>4, <2>5
<1>3. /\ Stored[t] + 1 = created[t]
      /\ Stored' = [Stored EXCEPT ![t] = @ + 1]
  <2>1. pc' = [pc EXCEPT ![t] = "unlock"] /\ created' = created
    BY DEF PushStore, Goto
  <2>2. Stored[t] = created[t] - 1 /\ Stored[t] + 1 = created[t]
    BY <1>1 DEF Stored, TypeOK
  <2>3. \A u \in Threads : Stored'[u] = IF u = t THEN created[t] ELSE Stored[u]
    BY <2>1 DEF Stored, TypeOK
  <2>4. Stored' = [u \in Threads |-> IF u = t THEN created[t] ELSE Stored[u]]
    BY <2>3 DEF Stored
  <2>5. [Stored EXCEPT ![t] = @ + 1] =
            [u \in Threads |-> IF u = t THEN Stored[t] + 1 ELSE Stored[u]]
    BY DEF Stored
  <2>. QED BY <2>2, <2>4, <2>5
<1>. QED BY <1>2, <1>3 DEF Queue!Post, Event, PushStore

\* Running an event takes the first of what waits.
LEMMA RunIsRun ==
    ASSUME TypeOK, RunEvent
    PROVE  Queue!Run
<1>1. /\ vecTmp \in Seq(Threads \X Nat) /\ vec \in Seq(Threads \X Nat)
      /\ vecTmp # <<>>
  BY DEF TypeOK, RunEvent
<1>2. /\ Waiting = vecTmp \o vec
      /\ Waiting' = Tail(vecTmp) \o vec
  BY DEF Waiting, RunEvent
<1>3. vecTmp \o vec # <<>>
  BY <1>1, ConcatEqualIffEmpty
<1>4. /\ vecTmp \o vec \in Seq(Threads \X Nat)
      /\ Len(vecTmp \o vec) = Len(vecTmp) + Len(vec)
      /\ \A i \in 1 .. Len(vecTmp) + Len(vec) : (vecTmp \o vec)[i] =
            IF i <= Len(vecTmp) THEN vecTmp[i] ELSE vec[i - Len(vecTmp)]
      /\ Len(vecTmp) \in Nat \ {0} /\ Len(vec) \in Nat
  BY <1>1, ConcatProperties, EmptySeq, LenProperties
<1>5. Head(vecTmp \o vec) = Head(vecTmp)
  BY <1>1, <1>3, <1>4
<1>6. Tail(vecTmp \o vec) = Tail(vecTmp) \o vec
  <2>1. /\ Tail(vecTmp) \in Seq(Threads \X Nat)
        /\ Len(Tail(vecTmp)) = Len(vecTmp) - 1
        /\ \A i \in 1 .. Len(Tail(vecTmp)) : Tail(vecTmp)[i] = vecTmp[i + 1]
    BY <1>1, HeadTailProperties
  <2>2. /\ Tail(vecTmp \o vec) \in Seq(Threads \X Nat)
        /\ Len(Tail(vecTmp \o vec)) = Len(vecTmp) + Len(vec) - 1
        /\ \A i \in 1 .. Len(Tail(vecTmp \o vec)) :
              Tail(vecTmp \o vec)[i] = (vecTmp \o vec)[i + 1]
    BY <1>3, <1>4, HeadTailProperties
  <2>3. /\ Tail(vecTmp) \o vec \in Seq(Threads \X Nat)
        /\ Len(Tail(vecTmp) \o vec) = Len(vecTmp) - 1 + Len(vec)
        /\ \A i \in 1 .. Len(vecTmp) - 1 + Len(vec) : (Tail(vecTmp) \o vec)[i] =
              IF i <= Len(vecTmp) - 1 THEN Tail(vecTmp)[i]
              ELSE vec[i - (Len(vecTmp) - 1)]
    BY <1>1, <2>1, ConcatProperties
  <2>4. ASSUME NEW i \in 1 .. Len(vecTmp) + Len(vec) - 1
        PROVE  Tail(vecTmp \o vec)[i] = (Tail(vecTmp) \o vec)[i]
    <3>1. Tail(vecTmp \o vec)[i] = (vecTmp \o vec)[i + 1]
      BY <1>4, <2>2
    <3>2. (vecTmp \o vec)[i + 1] =
            IF i + 1 <= Len(vecTmp) THEN vecTmp[i + 1] ELSE vec[i + 1 - Len(vecTmp)]
      BY <1>4
    <3>3. i - (Len(vecTmp) - 1) = i + 1 - Len(vecTmp)
      BY <1>4
    <3>4. i \in 1 .. Len(vecTmp) - 1 + Len(vec)
      BY <1>4
    <3>5. i <= Len(vecTmp) - 1 <=> i + 1 <= Len(vecTmp)
      BY <1>4
    <3>6. i <= Len(vecTmp) - 1 => Tail(vecTmp)[i] = vecTmp[i + 1]
      BY <1>4, <2>1
    <3>. QED BY <3>1, <3>2, <3>3, <3>4, <3>5, <3>6, <2>3
  <2>5. Len(Tail(vecTmp \o vec)) = Len(Tail(vecTmp) \o vec)
    BY <1>4, <2>2, <2>3
  <2>6. \A i \in 1 .. Len(Tail(vecTmp \o vec)) :
            Tail(vecTmp \o vec)[i] = (Tail(vecTmp) \o vec)[i]
    BY <2>2, <2>4
  <2>. QED BY <2>2, <2>3, <2>5, <2>6, SeqEqual
<1>. QED BY <1>2, <1>3, <1>5, <1>6 DEF Queue!Run, RunEvent, Stored

\* What leaves the waiting events and the count of stored ones alone is a stutter.
LEMMA OthersStutter ==
    ASSUME TypeOK, TypeOK', QueueInv, NEW t \in Threads,
           \/ Begin(t)
           \/ Lock(t, "lock", "push")
           \/ PushRead(t)
           \/ Unlock(t, "unlock", "write")
           \/ Notify(t)
           \/ ReadEventFd
           \/ Lock(Io, "swaplock", "swap")
           \/ SwapTake
           \/ SwapClear
           \/ Unlock(Io, "swapunlock", "run")
           \/ RunDone
    PROVE  UNCHANGED Queue!vars
<1>0. Io \in Threads
  BY DEF Threads
<1> USE <1>0 DEF TypeOK, Places, Goto, Queue!vars
<1>1. Stored' = Stored
  <2>1. CASE Begin(t)
    <3>1. \A u \in Threads : Stored'[u] = Stored[u]
      BY <2>1 DEF Begin, Stored
    <3>. QED BY <3>1 DEF Stored
  <2>2. CASE Lock(t, "lock", "push") \/ Lock(Io, "swaplock", "swap")
    BY <2>2 DEF Lock, Stored
  <2>3. CASE PushRead(t)
    BY <2>3 DEF PushRead, Stored
  <2>4. CASE Unlock(t, "unlock", "write") \/ Unlock(Io, "swapunlock", "run")
    BY <2>4 DEF Unlock, Stored
  <2>5. CASE Notify(t) \/ ReadEventFd
    BY <2>5 DEF Notify, ReadEventFd, Stored
  <2>6. CASE SwapTake \/ SwapClear \/ RunDone
    BY <2>6 DEF SwapTake, SwapClear, RunDone, Stored
  <2>. QED BY <2>1, <2>2, <2>3, <2>4, <2>5, <2>6
<1>2. ran' = ran
  BY DEF Begin, Lock, PushRead, Unlock, Notify, ReadEventFd, SwapTake, SwapClear, RunDone
<1>3. Waiting' = Waiting
  <2>1. CASE SwapTake
    <3>1. Waiting = <<>> \o vec /\ Waiting' = vec
      BY <2>1 DEF SwapTake, Waiting, QueueInv, SwapInv
    <3>. QED BY <3>1, ConcatEmptySeq
  <2>2. CASE SwapClear
    <3>1. Waiting = vec /\ vecTmp = vec /\ Waiting' = vecTmp \o <<>>
      BY <2>2 DEF SwapClear, Waiting, QueueInv, SwapInv
    <3>. QED BY <3>1, ConcatEmptySeq
  <2>3. CASE ~SwapTake /\ ~SwapClear
    BY <2>3 DEF Waiting, Begin, Lock, PushRead, Unlock, Notify, ReadEventFd, RunDone
  <2>. QED BY <2>1, <2>2, <2>3
<1>. QED BY <1>1, <1>2, <1>3

\* The vector, the lock and the eventfd implement one queue.
THEOREM QueueRefinement == Spec => ImplementsQueue
<1>1. Init => Queue!Init
  <2> SUFFICES ASSUME Init PROVE Queue!Init
    OBVIOUS
  <2>1. Stored = [t \in Threads |-> 0]
    BY DEF Init, Stored
  <2>2. Waiting = <<>>
    BY ConcatEmptySeq, EmptySeq DEF Init, Waiting, Threads
  <2>. QED BY <2>1, <2>2 DEF Init, Queue!Init
<1>2. TypeOK /\ TypeOK' /\ QueueInv /\ [Next]_vars => [Queue!Next]_Queue!vars
  <2> SUFFICES ASSUME TypeOK, TypeOK', QueueInv, [Next]_vars
               PROVE  [Queue!Next]_Queue!vars
    OBVIOUS
  <2>0. Io \in Threads
    BY DEF Threads
  <2>1. ASSUME NEW t \in Threads, PushStore(t) PROVE Queue!Next
    BY <2>1, StoreIsPost DEF Queue!Next
  <2>2. CASE RunEvent
    BY <2>2, RunIsRun DEF Queue!Next
  <2>3. CASE AllQuiet \/ UNCHANGED vars
    BY <2>3 DEF AllQuiet, vars, Queue!vars, Stored, Waiting
  <2>4. ASSUME NEW t \in Threads, PostEvent(t), ~PushStore(t) PROVE UNCHANGED Queue!vars
    BY <2>4, OthersStutter DEF PostEvent
  <2>5. CASE DealData /\ ~RunEvent
    BY <2>0, <2>5, OthersStutter DEF DealData
  <2>. QED BY <2>1, <2>2, <2>3, <2>4, <2>5 DEF Next
<1>. QED BY <1>1, <1>2, TypeCorrect, QueueInvariant, PTL
     DEF Spec, Queue!Spec, ImplementsQueue
=============================================================================
