------------------------- MODULE SendControlProofs -------------------------
(***************************************************************************)
(* Proofs about SendControl, for all windows, byte ranges and times: the   *)
(* bounds of the congestion window, the send buffers, what the ack time-out *)
(* promises of a silent peer (the number of intervals it has counted says  *)
(* between which bounds it has been silent), and what it promises of one   *)
(* that answers.                                                           *)
(***************************************************************************)
EXTENDS SendControl, SequenceTheorems, FiniteSetTheorems, TLAPS

-----------------------------------------------------------------------------
(* Numbers *)

\* Remainders and quotients of natural numbers are natural numbers.
LEMMA Division ==
    ASSUME NEW a \in Nat, NEW m \in Nat \ {0}
    PROVE  a % m \in 0 .. m - 1 /\ a \div m \in Nat
  BY SMTT(20)

\* Products are natural numbers, and grow with what is multiplied.
LEMMA Product ==
    ASSUME NEW a \in Nat, NEW b \in Nat
    PROVE  a * b \in Nat /\ (\A c \in Nat : c >= b => a * c >= a * b)
<1>1. a * b \in Nat
  BY SMTT(20)
<1>2. ASSUME NEW c \in Nat, c >= b PROVE a * c >= a * b
  BY <1>2, SMTT(20)
<1> QED BY <1>1, <1>2

\* So are powers of two: a set with n elements has 2^n subsets.
LEMMA PowerOfTwo ==
    ASSUME NEW n \in Nat
    PROVE  2 ^ n \in Nat
<1>1. IsFiniteSet(1 .. n) /\ Cardinality(1 .. n) = n
  BY FS_Interval
<1>2. Cardinality(SUBSET (1 .. n)) = 2 ^ n /\ IsFiniteSet(SUBSET (1 .. n))
  BY <1>1, FS_SUBSET
<1> QED BY <1>2, FS_CardinalityType

\* A set of numbers that is not empty has a least one.
LEMMA LeastNumber ==
    ASSUME NEW T, T \subseteq Nat, T # {}
    PROVE  \E n \in T : \A m \in T : n <= m
<1> DEFINE Below(n) == 0 .. n - 1
           S == {Below(n) : n \in T}
           R == StrictSubsetOrdering(Nat)
<1>1. S \subseteq FiniteSubsetsOf(Nat) /\ S # {}
  <2>1. ASSUME NEW n \in T PROVE Below(n) \in FiniteSubsetsOf(Nat)
    <3>1. IsFiniteSet(Below(n))
      BY FS_Interval
    <3> QED BY <3>1 DEF FiniteSubsetsOf
  <2> QED BY <2>1
<1>2. PICK s \in S : \A t \in S : <<t, s>> \notin R
  <2> HIDE DEF S, R
  <2>1. IsWellFoundedOn(StrictSubsetOrdering(Nat), FiniteSubsetsOf(Nat))
    BY FS_StrictSubsetOrderingWellFounded
  <2> QED BY <1>1, <2>1, WFMin DEF R
<1>3. PICK n \in T : s = Below(n)
  OBVIOUS
<1>4. ASSUME NEW m \in T, m < n PROVE FALSE
  <2>1. Below(m) \subseteq Below(n) /\ Below(m) # Below(n)
    <3>1. m \in Below(n) /\ m \notin Below(m)
      BY <1>4
    <3> QED BY <1>4, <3>1
  <2>2. <<Below(m), Below(n)>> \in R
    <3> DEFINE a == Below(m)
               b == Below(n)
    <3>1. a \in SUBSET Nat /\ b \in SUBSET Nat /\ a \subseteq b /\ a # b
      BY <2>1
    <3> HIDE DEF a, b
    <3>2. <<a, b>> \in StrictSubsetOrdering(Nat)
      BY <3>1 DEF StrictSubsetOrdering
    <3> QED BY <3>2 DEF a, b
  <2> QED BY <1>2, <1>3, <2>2
<1> QED BY <1>4

\* A set of numbers with 0 and every successor has all of them.
LEMMA AllNumbers ==
    ASSUME NEW S, 0 \in S, \A n \in Nat : n \in S => n + 1 \in S
    PROVE  Nat \subseteq S
<1> DEFINE T == Nat \ S
<1>1. SUFFICES ASSUME T # {} PROVE FALSE
  OBVIOUS
<1>2. PICK n \in T : \A m \in T : n <= m
  <2> HIDE DEF T
  <2>1. T \subseteq Nat
    BY DEF T
  <2> QED BY <1>1, <2>1, LeastNumber
<1>3. n \in Nat /\ n # 0
  OBVIOUS
<1>4. n - 1 \in Nat /\ n - 1 \notin T
  BY <1>2, <1>3
<1> QED BY <1>3, <1>4

-----------------------------------------------------------------------------
(* The congestion window *)

Windows == 2 * Scale .. Top
Congs == [window : Windows, threshold : Windows, same : 0 .. SameLimit, quick : BOOLEAN]

\* The sizes that bound it.
LEMMA Sizes ==
    /\ WindowSize \in Nat /\ WindowSize >= 2 /\ Scale \in Nat /\ Scale >= 1
    /\ SeqMod \in Nat \ {0} /\ SeqMod > WindowSize
    /\ Top \in Nat /\ 2 * Scale <= Top
    /\ SameLimit \in Nat /\ SameLimit >= 4 /\ SameLimit >= WindowSize
<1>1. /\ WindowSize \in Nat /\ WindowSize >= 2 /\ Scale \in Nat /\ Scale >= 1
      /\ SeqMod \in Nat \ {0} /\ SeqMod > WindowSize
  BY SizeAssumption
<1>2. Top \in Nat /\ Scale * 2 <= Top
  BY <1>1, Product DEF Top
<1>3. SameLimit \in Nat /\ SameLimit >= 4 /\ SameLimit >= WindowSize
  BY <1>1 DEF SameLimit, Greatest
<1> QED BY <1>1, <1>2, <1>3

\* Half a window is a window.
LEMMA HalvedRange ==
    ASSUME NEW w \in Windows
    PROVE  Halved(w) \in Windows
BY Sizes DEF Halved, Greatest, Windows

\* Equal acks leave the congestion window in its range.
LEMMA QuickRetryRange ==
    ASSUME NEW c \in Congs
    PROVE  QuickRetry(c) \in Congs
<1>1. /\ c.window \in Windows /\ c.threshold \in Windows /\ c.same \in 0 .. SameLimit
      /\ c.quick \in BOOLEAN
  BY DEF Congs
<1>2. Halved(c.window) \in Windows
  BY <1>1, HalvedRange
<1>3. CASE c.same > 3 /\ c.quick
  <2>1. Least(c.window + Scale, Top) \in Windows
    BY <1>1, Sizes DEF Windows, Least
  <2> QED BY <1>3, <2>1 DEF QuickRetry, Congs
<1>4. CASE c.same > 3 /\ ~c.quick
  <2>1. Scale * (c.same - 1) \in Nat
    BY <1>1, <1>4, Sizes, Product
  <2>2. Least(Halved(c.window) + Scale * (c.same - 1), Top) \in Windows
    <3> DEFINE more == Scale * (c.same - 1)
    <3> HIDE DEF more
    <3> QED BY <1>2, <2>1, Sizes DEF Windows, Least, more
  <2> QED BY <1>2, <1>4, <2>2 DEF QuickRetry, Congs
<1>5. CASE ~(c.same > 3)
  BY <1>1, <1>5 DEF QuickRetry, Congs
<1> QED BY <1>3, <1>4, <1>5

\* So does all of congestion control before sending.
LEMMA ControlledRange ==
    ASSUME cong \in Congs
    PROVE  Controlled \in Congs
<1>1. QuickRetry(cong) \in Congs
  BY QuickRetryRange
<1>2. ASSUME NEW c \in Congs PROVE SlowDown(c) \in Congs
  <2>1. Halved(c.window) \in Windows
    BY HalvedRange DEF Congs
  <2> DEFINE half == Halved(c.window)
  <2>2. SlowDown(c) = [c EXCEPT !.threshold = half, !.window = half, !.quick = FALSE, !.same = 0]
    BY DEF SlowDown
  <2>3. 0 \in 0 .. SameLimit
    BY Sizes
  <2> QED
    <3> HIDE DEF half
    <3> QED BY <2>1, <2>2, <2>3 DEF Congs, half
<1> QED BY <1>1, <1>2 DEF Controlled

\* An acknowledged packet makes the window no smaller, and not larger than most.
LEMMA GrowRange ==
    ASSUME NEW c \in Congs, NEW most \in Windows
    PROVE  Grow(c, most) \in Congs
<1> DEFINE more == IF c.window <= c.threshold THEN Scale
                   ELSE (Scale * Scale + c.window - 1) \div c.window
<1>1. c.window \in Windows /\ c.window \in Nat \ {0} /\ c.threshold \in Windows
  BY Sizes DEF Congs, Windows
<1>2. more \in Nat
  <2>1. Scale * Scale \in Nat
    BY Sizes, Product
  <2>2. Scale * Scale + c.window - 1 \in Nat
    BY <1>1, <2>1
  <2> QED BY <1>1, <2>2, Division, Sizes
<1>3. Least(c.window + more, most) \in Windows
  <2> HIDE DEF more
  <2> QED BY <1>1, <1>2, Sizes DEF Least, Windows
<1>4. Grow(c, most) = [c EXCEPT !.window = Least(@ + more, most)]
  BY DEF Grow
<1> QED
  <2> HIDE DEF more
  <2> QED BY <1>3, <1>4 DEF Congs

\* The recursion of Grown has a solution, so Grown is one.
LEMMA GrownDef ==
    \A k \in 0 .. WindowSize :
       Grown[k] = IF k = 0 THEN cong ELSE Grow(Grown[k - 1], Least(2 * cong.window, Top))
<1> DEFINE most == Least(2 * cong.window, Top)
           Step(f, n) == f = [k \in 0 .. n |-> IF k = 0 THEN cong ELSE Grow(f[k - 1], most)]
           S == {n \in Nat : \E f : Step(f, n)}
<1>1. 0 \in S
  <2> DEFINE f == [k \in 0 .. 0 |-> cong]
  <2>1. Step(f, 0)
    OBVIOUS
  <2> QED BY <2>1
<1>2. ASSUME NEW n \in Nat, n \in S PROVE n + 1 \in S
  <2>1. PICK f : Step(f, n)
    BY <1>2
  <2> DEFINE g == [k \in 0 .. n + 1 |-> IF k = n + 1 THEN Grow(f[n], most) ELSE f[k]]
  <2> HIDE DEF most
  <2>2. ASSUME NEW k \in 0 .. n + 1
        PROVE  g[k] = IF k = 0 THEN cong ELSE Grow(g[k - 1], most)
    <3>1. CASE k = 0
      BY <2>1, <3>1
    <3>2. CASE k = n + 1
      BY <3>2
    <3>3. CASE k # 0 /\ k # n + 1
      <4>1. k \in 0 .. n /\ k - 1 \in 0 .. n /\ g[k] = f[k] /\ g[k - 1] = f[k - 1]
        BY <3>3
      <4> QED BY <2>1, <3>3, <4>1
    <3> QED BY <3>1, <3>2, <3>3
  <2>3. Step(g, n + 1)
    BY <2>2
  <2>4. \E h : Step(h, n + 1)
    <3> HIDE DEF g, Step
    <3> QED BY <2>3
  <2> QED BY <2>4
<1>3. WindowSize \in S
  <2> HIDE DEF S
  <2>1. WindowSize \in Nat
    BY SizeAssumption
  <2> QED BY <1>1, <1>2, <2>1, AllNumbers
<1>4. \E f : Step(f, WindowSize)
  BY <1>3
<1>5. Step(Grown, WindowSize)
  <2> HIDE DEF most
  <2>1. Grown = CHOOSE f : f = [k \in 0 .. WindowSize |-> IF k = 0 THEN cong ELSE Grow(f[k - 1], Least(2 * cong.window, Top))]
    BY DEF Grown
  <2> QED BY <1>4, <2>1 DEF most
<1> QED BY <1>5

\* However many packets are acknowledged at once, the window stays in its range.
LEMMA GrownRange ==
    ASSUME cong \in Congs
    PROVE  \A k \in 0 .. WindowSize : Grown[k] \in Congs
<1> DEFINE most == Least(2 * cong.window, Top)
           S == {n \in Nat : n <= WindowSize => Grown[n] \in Congs}
<1>1. most \in Windows
  BY Sizes DEF Least, Windows, Congs
<1>2. 0 \in S
  BY GrownDef, Sizes
<1>3. ASSUME NEW n \in Nat, n \in S PROVE n + 1 \in S
  <2>1. ASSUME n + 1 <= WindowSize PROVE Grown[n + 1] \in Congs
    <3>1. Grown[n] \in Congs /\ n + 1 \in 0 .. WindowSize /\ n + 1 # 0 /\ (n + 1) - 1 = n
      BY <1>3, <2>1, Sizes
    <3>2. Grown[n + 1] = Grow(Grown[n], most)
      BY <3>1, GrownDef
    <3> QED BY <1>1, <3>1, <3>2, GrowRange
  <2> QED BY <2>1
<1>4. Nat \subseteq S
  <2> HIDE DEF S
  <2> QED BY <1>2, <1>3, AllNumbers
<1> QED BY <1>4, Sizes

-----------------------------------------------------------------------------
(* The send window and its buffers *)

\* Two sequences put together.
LEMMA Concatenation ==
    ASSUME NEW A, NEW s \in Seq(A), NEW t \in Seq(A)
    PROVE  /\ s \o t \in Seq(A) /\ Len(s \o t) = Len(s) + Len(t)
           /\ \A i \in 1 .. Len(s) : (s \o t)[i] = s[i]
           /\ \A i \in 1 .. Len(t) : (s \o t)[Len(s) + i] = t[i]
<1>1. Len(s) \in Nat /\ Len(t) \in Nat
  OBVIOUS
<1>2. /\ s \o t \in Seq(A) /\ Len(s \o t) = Len(s) + Len(t)
      /\ \A i \in 1 .. Len(s) + Len(t) : (s \o t)[i] = IF i <= Len(s) THEN s[i] ELSE t[i - Len(s)]
  BY ConcatProperties
<1>3. ASSUME NEW i \in 1 .. Len(t) PROVE (s \o t)[Len(s) + i] = t[i]
  <2>1. /\ Len(s) + i \in 1 .. Len(s) + Len(t) /\ ~(Len(s) + i <= Len(s))
        /\ (Len(s) + i) - Len(s) = i
    BY <1>1
  <2> QED BY <1>2, <2>1
<1> QED BY <1>1, <1>2, <1>3

\* What is left of a sequence without its first elements.
LEMMA Rest ==
    ASSUME NEW A, NEW s \in Seq(A), NEW d \in 0 .. Len(s)
    PROVE  /\ SubSeq(s, d + 1, Len(s)) \in Seq(A) /\ Len(SubSeq(s, d + 1, Len(s))) = Len(s) - d
           /\ \A i \in 1 .. Len(s) - d : SubSeq(s, d + 1, Len(s))[i] = s[i + d]
<1> DEFINE r == SubSeq(s, d + 1, Len(s))
<1>1. Len(s) \in Nat /\ d \in Nat /\ d <= Len(s)
  OBVIOUS
<1>2. r = [i \in 1 .. Len(s) - d |-> s[i + d]]
  <2>1. r = [i \in 1 .. (1 + Len(s) - (d + 1)) |-> s[i + (d + 1) - 1]]
    BY <1>1
  <2> QED BY <1>1, <2>1
<1>3. \A i \in 1 .. Len(s) - d : s[i + d] \in A
  BY <1>1
<1>4. r \in Seq(A) /\ Len(r) = Len(s) - d
  <2> HIDE DEF r
  <2> QED BY <1>1, <1>2, <1>3
<1> QED BY <1>2, <1>4

\* Whether buffer b is free or in a packet.
Held(b) == \/ \E i \in 1 .. Len(free) : free[i] = b
           \/ \E i \in 1 .. Len(packets) : packets[i].buffer = b

\* The inductive invariant of the send window: types, the range of the congestion
\* window, and every buffer in one place.
SendInv ==
    /\ {established, reading, responsive} \subseteq BOOLEAN /\ sendAck \in BOOLEAN
    /\ begin \in 0 .. SeqMod - 1 /\ ackLast \in 0 .. SeqMod - 1
    /\ packets \in Seq(Packets)
    /\ free \in Seq(0 .. WindowSize - 1)
    /\ Len(free) + Len(packets) = WindowSize
    /\ \A b \in 0 .. WindowSize - 1 : Held(b)
    /\ cong \in Congs
    /\ retryTime \in RetryTimes \cup {FirstRetryTime}
    /\ sendWait \in Nat /\ emptyWait \in Nat /\ factor \in Nat
    /\ failed \in {"no", "timeout", "socket"}
    /\ owed \in Nat

\* What the initial values say of the window.
LEMMA SendInit == Init => SendInv
<1> SUFFICES ASSUME Init PROVE SendInv
  OBVIOUS
<1>1. /\ packets \in Seq(Packets) /\ Len(packets) = 0
      /\ free \in Seq(0 .. WindowSize - 1) /\ Len(free) = WindowSize
  BY Sizes DEF Init
<1>2. ASSUME NEW b \in 0 .. WindowSize - 1 PROVE Held(b)
  <2>1. b + 1 \in 1 .. WindowSize /\ free[b + 1] = b
    BY Sizes DEF Init
  <2> QED BY <1>1, <2>1 DEF Held
<1>3. cong \in Congs
  <2>1. Top \in Windows /\ 0 \in 0 .. SameLimit
    BY Sizes DEF Windows
  <2> QED BY <2>1 DEF Init, Congs
<1>4. begin \in 0 .. SeqMod - 1 /\ ackLast \in 0 .. SeqMod - 1
  BY Sizes DEF Init
<1>5. /\ {established, reading, responsive} \subseteq BOOLEAN /\ sendAck \in BOOLEAN
      /\ retryTime \in RetryTimes \cup {FirstRetryTime}
      /\ sendWait \in Nat /\ emptyWait \in Nat /\ factor \in Nat
      /\ failed \in {"no", "timeout", "socket"} /\ owed \in Nat
  BY DEF Init
<1>6. Len(free) + Len(packets) = WindowSize
  BY <1>1, Sizes
<1> QED BY <1>1, <1>2, <1>3, <1>4, <1>5, <1>6 DEF SendInv

\* ps is the window with packets for the first d free buffers behind it.
Extended(ps, d) ==
    /\ ps \in Seq(Packets) /\ Len(ps) = Len(packets) + d
    /\ \A i \in 1 .. Len(packets) : ps[i] = packets[i]
    /\ \A i \in 1 .. d : /\ ps[Len(packets) + i].buffer = free[i]
                         /\ ps[Len(packets) + i].sends = 0
                         /\ ps[Len(packets) + i].due \in 0 .. ClockSkew
    /\ free' \in Seq(0 .. WindowSize - 1)
    /\ Len(free') = Len(free) - d
    /\ \A i \in 1 .. Len(free) - d : free'[i] = free[i + d]

\* The longest interval between two keep-alives.
LongestEmpty == Greatest(EmptyFrequency, MaxEmpty)

\* What a shift gives is a natural number.
LEMMA ShiftedRange ==
    ASSUME NEW f \in Nat
    PROVE  Shifted(f) \subseteq Nat
BY PowerOfTwo DEF Shifted

\* The interval of keep-alives is bounded.
LEMMA EmptyIntervalRange ==
    ASSUME NEW times \in Nat
    PROVE  EmptyInterval(times) \in 0 .. MaxEmpty
<1>1. EmptyFrequency * times \in Nat
  BY Product, TimeAssumption
<1> QED BY <1>1, TimeAssumption DEF EmptyInterval, Least

\* A keep-alive takes the first free buffer.
LEMMA KeepAliveExtends ==
    ASSUME SendInv, packets = <<>>, free' = Tail(free)
    PROVE  Extended(<<Packet("empty", Head(free), 0)>>, 1)
<1> DEFINE ps == <<Packet("empty", Head(free), 0)>>
<1>1. /\ free \in Seq(0 .. WindowSize - 1) /\ Len(free) = WindowSize /\ Len(packets) = 0
      /\ free # <<>>
  BY Sizes DEF SendInv
<1>2. Head(free) = free[1] /\ free[1] \in 0 .. WindowSize - 1
  BY <1>1, Sizes
<1>3. ps \in Seq(Packets) /\ Len(ps) = 1
  BY <1>2 DEF Packet, Packets
<1>4. /\ free' \in Seq(0 .. WindowSize - 1) /\ Len(free') = Len(free) - 1
      /\ \A i \in 1 .. Len(free) - 1 : free'[i] = free[i + 1]
  BY <1>1
<1>5. \A i \in 1 .. 1 : /\ ps[0 + i].buffer = free[i] /\ ps[0 + i].sends = 0
                        /\ ps[0 + i].due \in 0 .. ClockSkew
  BY <1>2, TimeAssumption DEF Packet
<1> QED BY <1>1, <1>3, <1>4, <1>5 DEF Extended

\* New data packets take as many free buffers.
LEMMA QueuedExtends ==
    ASSUME SendInv, NEW m \in Len(packets) .. WindowSize, NEW skew \in 0 .. ClockSkew,
           free' = SubSeq(free, m - Len(packets) + 1, Len(free))
    PROVE  Extended(Queued(m, skew), m - Len(packets))
<1> DEFINE d == m - Len(packets)
           new == [i \in 1 .. d |-> Packet("data", free[i], skew)]
<1>1. /\ free \in Seq(0 .. WindowSize - 1) /\ Len(free) + Len(packets) = WindowSize
      /\ packets \in Seq(Packets) /\ Len(packets) \in Nat /\ Len(free) \in Nat
      /\ WindowSize \in Nat
  BY Sizes DEF SendInv
<1>2. d \in 0 .. Len(free)
  BY <1>1
<1>3. \A i \in 1 .. d : Packet("data", free[i], skew) \in Packets
  BY <1>1, <1>2, TimeAssumption DEF Packet, Packets
<1>4. new \in Seq(Packets) /\ Len(new) = d
  <2> HIDE DEF d
  <2> QED BY <1>2, <1>3, <1>1
<1>5. Queued(m, skew) = packets \o new
  BY DEF Queued
<1>6. /\ packets \o new \in Seq(Packets) /\ Len(packets \o new) = Len(packets) + d
      /\ \A i \in 1 .. Len(packets) : (packets \o new)[i] = packets[i]
      /\ \A i \in 1 .. d : (packets \o new)[Len(packets) + i] = new[i]
  <2> HIDE DEF d, new
  <2>1. packets \in Seq(Packets) /\ new \in Seq(Packets)
    BY <1>1, <1>4
  <2>2. packets \o new \in Seq(Packets) /\ Len(packets \o new) = Len(packets) + Len(new)
    BY <2>1, Concatenation
  <2>3. \A i \in 1 .. Len(packets) : (packets \o new)[i] = packets[i]
    BY <2>1, Concatenation
  <2>4. \A i \in 1 .. Len(new) : (packets \o new)[Len(packets) + i] = new[i]
    BY <2>1, Concatenation
  <2> QED BY <1>4, <2>2, <2>3, <2>4, Zenon
<1>7. \A i \in 1 .. d : new[i].buffer = free[i] /\ new[i].sends = 0 /\ new[i].due \in 0 .. ClockSkew
  BY DEF Packet
<1>8. /\ free' \in Seq(0 .. WindowSize - 1) /\ Len(free') = Len(free) - d
      /\ \A i \in 1 .. Len(free) - d : free'[i] = free[i + d]
  <2>1. free' = SubSeq(free, d + 1, Len(free))
    OBVIOUS
  <2> HIDE DEF d
  <2> DEFINE r == SubSeq(free, d + 1, Len(free))
  <2>2. /\ r \in Seq(0 .. WindowSize - 1) /\ Len(r) = Len(free) - d
        /\ \A i \in 1 .. Len(free) - d : r[i] = free[i + d]
    BY <1>1, <1>2, Rest
  <2> QED BY <2>1, <2>2, Zenon
<1> QED
  <2> HIDE DEF new
  <2> QED BY <1>2, <1>5, <1>6, <1>7, <1>8 DEF Extended

\* SendMessages transmits the window with packets for some of the free buffers
\* behind it, at least one of them when the window is empty and a keep-alive is due.
LEMMA FillExtends ==
    ASSUME SendInv, NEW c, NEW full, Fill(c, full)
    PROVE  /\ \E d \in 0 .. Len(free), ps \in Seq(Packets) :
                 /\ Extended(ps, d) /\ Transmit(ps, c, full)
                 /\ packets = <<>> /\ d = 0 => emptyWait > 0 /\ emptyWait' = emptyWait
           /\ emptyWait' \in Nat /\ factor' \in Nat
           /\ emptyWait <= LongestEmpty => emptyWait' <= LongestEmpty
<1>1. /\ free \in Seq(0 .. WindowSize - 1) /\ Len(free) + Len(packets) = WindowSize
      /\ packets \in Seq(Packets) /\ Len(packets) \in Nat /\ Len(free) \in Nat
      /\ WindowSize \in Nat /\ WindowSize >= 2 /\ emptyWait \in Nat /\ factor \in Nat
      /\ EmptyFrequency \in Nat /\ LongestEmpty \in Nat
      /\ EmptyFrequency <= LongestEmpty /\ MaxEmpty <= LongestEmpty
  BY Sizes, TimeAssumption DEF SendInv, LongestEmpty, Greatest
<1>2. CASE packets = <<>> /\ emptyWait = 0 /\ KeepAlive(c, full)
  <2>1. /\ Transmit(<<Packet("empty", Head(free), 0)>>, c, full)
        /\ free' = Tail(free)
        /\ factor' \in Shifted(factor)
        /\ \E times \in Shifted(factor') : emptyWait' = EmptyInterval(times)
    BY <1>2 DEF KeepAlive
  <2>2. Extended(<<Packet("empty", Head(free), 0)>>, 1)
    BY <1>2, <2>1, KeepAliveExtends
  <2>3. factor' \in Nat /\ emptyWait' \in 0 .. MaxEmpty
    <3>1. factor' \in Nat
      BY <1>1, <2>1, ShiftedRange
    <3>2. PICK times \in Shifted(factor') : emptyWait' = EmptyInterval(times)
      BY <2>1
    <3>3. times \in Nat
      BY <3>1, ShiftedRange
    <3> QED BY <3>1, <3>2, <3>3, EmptyIntervalRange
  <2>4. 1 \in 0 .. Len(free) /\ <<Packet("empty", Head(free), 0)>> \in Seq(Packets)
    BY <1>1, <1>2, <2>2 DEF Extended
  <2>5. emptyWait' \in Nat /\ emptyWait' <= LongestEmpty
    BY <1>1, <2>3, TimeAssumption
  <2>6. \E d \in 0 .. Len(free), ps \in Seq(Packets) :
           /\ Extended(ps, d) /\ Transmit(ps, c, full)
           /\ packets = <<>> /\ d = 0 => emptyWait > 0 /\ emptyWait' = emptyWait
    <3>1. 1 # 0
      OBVIOUS
    <3> QED BY <2>1, <2>2, <2>4, <3>1, Zenon
  <2> QED BY <2>3, <2>5, <2>6
<1>3. CASE ~(packets = <<>> /\ emptyWait = 0) /\ KeepAlive(c, full)
  <2>1. Transmit(packets, c, full) /\ free' = free /\ emptyWait' \in Nat /\ factor' \in Nat
    BY <1>1, <1>3 DEF KeepAlive
  <2>2. Extended(packets, 0) /\ 0 \in 0 .. Len(free)
    BY <1>1, <2>1 DEF Extended
  <2>3. /\ packets = <<>> => emptyWait > 0 /\ emptyWait' = emptyWait
        /\ emptyWait <= LongestEmpty => emptyWait' <= LongestEmpty
    BY <1>1, <1>3 DEF KeepAlive
  <2> QED BY <1>1, <2>1, <2>2, <2>3
<1>4. CASE ~KeepAlive(c, full)
  <2>1. PICK m \in SendCounts(c), skew \in 0 .. ClockSkew :
             /\ m > Len(packets)
             /\ Transmit(Queued(m, skew), c, full)
             /\ free' = SubSeq(free, m - Len(packets) + 1, Len(free))
    BY <1>4 DEF Fill
  <2>2. emptyWait' = EmptyFrequency /\ factor' = 0
    BY <1>4 DEF Fill
  <2>3. m \in Len(packets) .. WindowSize
    BY DEF SendCounts
  <2>4. Extended(Queued(m, skew), m - Len(packets)) /\ m - Len(packets) \in 0 .. Len(free)
    BY <1>1, <2>1, <2>3, QueuedExtends
  <2>5. Queued(m, skew) \in Seq(Packets)
    BY <2>4 DEF Extended
  <2>6. m - Len(packets) # 0
    BY <1>1, <2>1, <2>3
  <2> QED BY <1>1, <2>1, <2>2, <2>4, <2>5, <2>6
<1> QED BY <1>2, <1>3, <1>4

\* Transmitting sets when packets are due and how often they were sent, and
\* leaves the rest of them.
LEMMA SentPackets ==
    ASSUME SendInv, NEW ps \in Seq(Packets), NEW S
    PROVE  /\ RetryIn \in Nat
           /\ Sent(ps, S) \in Seq(Packets) /\ Len(Sent(ps, S)) = Len(ps)
           /\ \A i \in 1 .. Len(ps) :
                 /\ Sent(ps, S)[i].buffer = ps[i].buffer
                 /\ i \in S => Sent(ps, S)[i].sends > 0
                 /\ i \notin S => Sent(ps, S)[i] = ps[i]
<1> DEFINE out == Sent(ps, S)
<1>1. RetryIn \in Nat
  <2>1. retryTime \in Nat /\ MaxRetryTime \in Nat
    BY TimeAssumption DEF SendInv
  <2> QED BY <2>1 DEF RetryIn, Least
<1>2. /\ DOMAIN ps = 1 .. Len(ps) /\ Len(ps) \in Nat
      /\ \A i \in 1 .. Len(ps) : ps[i] \in Packets
  OBVIOUS
<1>3. out = [i \in 1 .. Len(ps) |->
                IF i \in S THEN [ps[i] EXCEPT !.sends = Least(@ + 1, 2), !.due = RetryIn] ELSE ps[i]]
  BY <1>2 DEF Sent
<1>4. ASSUME NEW i \in 1 .. Len(ps)
      PROVE  /\ out[i] \in Packets
             /\ out[i].buffer = ps[i].buffer
             /\ i \in S => out[i].sends > 0
             /\ i \notin S => out[i] = ps[i]
  <2>1. ps[i] \in Packets
    BY <1>2
  <2>2. CASE i \in S
    <3>1. out[i] = [ps[i] EXCEPT !.sends = Least(@ + 1, 2), !.due = RetryIn]
      BY <1>3, <2>2
    <3>2. Least(ps[i].sends + 1, 2) \in 1 .. 2
      BY <2>1 DEF Packets, Least
    <3> DEFINE n == Least(ps[i].sends + 1, 2)
    <3>3. out[i] = [ps[i] EXCEPT !.sends = n, !.due = RetryIn] /\ n \in 0 .. 2 /\ n > 0
      BY <3>1, <3>2
    <3> QED
      <4> HIDE DEF out, n
      <4> QED BY <1>1, <2>1, <2>2, <3>3 DEF Packets
  <2>3. CASE i \notin S
    BY <1>3, <2>1, <2>3
  <2> QED BY <2>2, <2>3
<1>5. out \in Seq(Packets) /\ Len(out) = Len(ps)
  <2>1. \A i \in 1 .. Len(ps) : out[i] \in Packets
    BY <1>4
  <2>2. out \in [1 .. Len(ps) -> Packets]
    <3> HIDE DEF out
    <3>1. DOMAIN out = 1 .. Len(ps) /\ out = [i \in 1 .. Len(ps) |-> out[i]]
      BY <1>3
    <3> QED BY <2>1, <3>1
  <2> HIDE DEF out
  <2> QED BY <1>2, <2>2
<1> QED BY <1>1, <1>4, <1>5

\* A burst keeps the invariant.
LEMMA SendNowKeeps ==
    ASSUME SendInv, NEW full, SendNow(full)
    PROVE  SendInv'
<1>1. cong' \in Congs
  BY ControlledRange DEF SendNow, SendInv
<1>2. PICK d \in 0 .. Len(free), ps \in Seq(Packets) :
         Extended(ps, d) /\ Transmit(ps, Controlled, full)
  BY FillExtends DEF SendNow
<1>3. emptyWait' \in Nat /\ factor' \in Nat
  BY FillExtends DEF SendNow
<1>4. PICK S : packets' = Sent(ps, S)
  BY <1>2 DEF Transmit
<1>5. /\ packets' \in Seq(Packets) /\ Len(packets') = Len(packets) + d
      /\ \A i \in 1 .. Len(ps) : packets'[i].buffer = ps[i].buffer
  BY <1>2, <1>4, SentPackets DEF Extended
<1>6. /\ Len(free) \in Nat /\ Len(packets) \in Nat /\ Len(free) + Len(packets) = WindowSize
      /\ free' \in Seq(0 .. WindowSize - 1) /\ Len(free') = Len(free) - d
  BY <1>2 DEF SendInv, Extended
<1>7. ASSUME NEW b \in 0 .. WindowSize - 1 PROVE Held(b)'
  <2>1. Held(b)
    BY DEF SendInv
  <2>2. CASE \E i \in 1 .. Len(packets) : packets[i].buffer = b
    <3>1. PICK i \in 1 .. Len(packets) : packets[i].buffer = b
      BY <2>2
    <3>2. i \in 1 .. Len(ps) /\ i \in 1 .. Len(packets') /\ ps[i] = packets[i]
      BY <1>2, <1>5, <1>6 DEF Extended
    <3> QED BY <1>5, <3>1, <3>2 DEF Held
  <2>3. CASE \E i \in 1 .. Len(free) : free[i] = b
    <3>1. PICK i \in 1 .. Len(free) : free[i] = b
      BY <2>3
    <3>2. CASE i <= d
      <4>1. /\ i \in 1 .. d /\ Len(packets) + i \in 1 .. Len(ps)
            /\ Len(packets) + i \in 1 .. Len(packets')
        BY <1>2, <1>5, <1>6, <3>2 DEF Extended
      <4>2. ps[Len(packets) + i].buffer = b
        BY <1>2, <3>1, <4>1 DEF Extended
      <4> QED BY <1>5, <4>1, <4>2 DEF Held
    <3>3. CASE i > d
      <4>1. i - d \in 1 .. Len(free') /\ (i - d) + d = i /\ i - d \in 1 .. Len(free) - d
        BY <1>6, <3>3
      <4>2. free'[i - d] = b
        BY <1>2, <3>1, <4>1 DEF Extended
      <4> QED BY <4>1, <4>2 DEF Held
    <3> QED BY <1>6, <3>2, <3>3
  <2> QED BY <2>1, <2>2, <2>3 DEF Held
<1>8. /\ sendWait' \in Nat /\ sendAck' \in BOOLEAN /\ failed' \in {"no", "timeout", "socket"}
  BY <1>2, TimeAssumption DEF Transmit, SendInv
<1>9. /\ {established', reading', responsive'} \subseteq BOOLEAN
      /\ begin' \in 0 .. SeqMod - 1 /\ ackLast' \in 0 .. SeqMod - 1
      /\ retryTime' \in RetryTimes \cup {FirstRetryTime} /\ owed' \in Nat
  BY DEF SendNow, SendInv
<1>10. Len(free') + Len(packets') = WindowSize
  BY <1>5, <1>6
<1> QED BY <1>1, <1>3, <1>5, <1>6, <1>7, <1>8, <1>9, <1>10 DEF SendInv

\* An acknowledgement moves the buffers of its packets to the free list.
LEMMA AcknowledgeMoves ==
    ASSUME SendInv, NEW k \in 1 .. Len(packets), Acknowledge(k)
    PROVE  /\ packets' \in Seq(Packets) /\ Len(packets') = Len(packets) - k
           /\ \A i \in 1 .. Len(packets) - k : packets'[i] = packets[i + k]
           /\ free' \in Seq(0 .. WindowSize - 1) /\ Len(free') = Len(free) + k
           /\ \A i \in 1 .. k : free'[i] = packets[k + 1 - i].buffer
           /\ \A i \in 1 .. Len(free) : free'[k + i] = free[i]
<1> DEFINE first == [i \in 1 .. k |-> packets[k + 1 - i].buffer]
<1>1. /\ free \in Seq(0 .. WindowSize - 1) /\ packets \in Seq(Packets)
      /\ Len(packets) \in Nat /\ Len(free) \in Nat /\ k \in Nat
  BY DEF SendInv
<1>2. /\ packets' = SubSeq(packets, k + 1, Len(packets)) /\ free' = first \o free
  BY DEF Acknowledge, Freed
<1>3. /\ packets' \in Seq(Packets) /\ Len(packets') = Len(packets) - k
      /\ \A i \in 1 .. Len(packets) - k : packets'[i] = packets[i + k]
  BY <1>1, <1>2
<1>4. first \in Seq(0 .. WindowSize - 1) /\ Len(first) = k
  <2>1. ASSUME NEW i \in 1 .. k PROVE packets[k + 1 - i].buffer \in 0 .. WindowSize - 1
    <3>1. k + 1 - i \in 1 .. Len(packets)
      BY <1>1
    <3>2. packets[k + 1 - i] \in Packets
      BY <1>1, <3>1
    <3> QED BY <3>2 DEF Packets
  <2> QED BY <1>1, <2>1
<1>5. /\ free' \in Seq(0 .. WindowSize - 1) /\ Len(free') = k + Len(free)
      /\ \A i \in 1 .. k : free'[i] = first[i]
      /\ \A i \in 1 .. Len(free) : free'[k + i] = free[i]
  <2> HIDE DEF first
  <2>1. first \in Seq(0 .. WindowSize - 1) /\ free \in Seq(0 .. WindowSize - 1)
    BY <1>1, <1>4
  <2>2. first \o free \in Seq(0 .. WindowSize - 1) /\ Len(first \o free) = Len(first) + Len(free)
    BY <2>1, Concatenation
  <2>3. \A i \in 1 .. Len(first) : (first \o free)[i] = first[i]
    BY <2>1, Concatenation
  <2>4. \A i \in 1 .. Len(free) : (first \o free)[Len(first) + i] = free[i]
    BY <2>1, Concatenation
  <2> QED BY <1>2, <1>4, <2>2, <2>3, <2>4, Zenon
<1> QED BY <1>1, <1>3, <1>5

\* So a received packet keeps the invariant.
LEMMA RecvPacketKeeps ==
    ASSUME SendInv, NEW k \in 0 .. WindowSize, RecvPacket(k)
    PROVE  SendInv'
<1>1. cong' \in Congs
  <2>1. Grown[k] \in Congs
    BY GrownRange DEF SendInv
  <2>2. cong' = [Grown[k] EXCEPT !.same = IF SameAck THEN Least(@ + 1, SameLimit) ELSE 0]
    BY DEF RecvPacket
  <2>3. (IF SameAck THEN Least(Grown[k].same + 1, SameLimit) ELSE 0) \in 0 .. SameLimit
    BY <2>1, Sizes DEF Congs, Least
  <2> QED BY <2>1, <2>2, <2>3 DEF Congs
<1>2. /\ established' = TRUE /\ reading' = TRUE /\ responsive' = responsive /\ sendAck' = sendAck
      /\ ackLast' = ackLast /\ sendWait' = sendWait /\ emptyWait' = emptyWait /\ factor' = factor
      /\ failed' = failed
  BY DEF RecvPacket, paceVars
<1>3. CASE k = 0
  <2>1. UNCHANGED <<begin, packets, free, retryTime, owed>>
    BY <1>3 DEF RecvPacket
  <2> QED BY <1>1, <1>2, <2>1 DEF SendInv, Held
<1>4. CASE k # 0
  <2>1. Acknowledge(k) /\ owed' = 0 /\ k \in 1 .. Len(packets)
    BY <1>4 DEF RecvPacket, SendInv
  <2>2. /\ packets' \in Seq(Packets) /\ Len(packets') = Len(packets) - k
        /\ \A i \in 1 .. Len(packets) - k : packets'[i] = packets[i + k]
        /\ free' \in Seq(0 .. WindowSize - 1) /\ Len(free') = Len(free) + k
        /\ \A i \in 1 .. k : free'[i] = packets[k + 1 - i].buffer
        /\ \A i \in 1 .. Len(free) : free'[k + i] = free[i]
    BY <2>1, AcknowledgeMoves
  <2>3. /\ Len(free) \in Nat /\ Len(packets) \in Nat /\ Len(free) + Len(packets) = WindowSize
    BY DEF SendInv
  <2>4. ASSUME NEW b \in 0 .. WindowSize - 1 PROVE Held(b)'
    <3>1. Held(b)
      BY DEF SendInv
    <3>2. CASE \E i \in 1 .. Len(free) : free[i] = b
      <4>1. PICK i \in 1 .. Len(free) : free[i] = b
        BY <3>2
      <4>2. k + i \in 1 .. Len(free') /\ free'[k + i] = b
        <5>1. k + i \in 1 .. Len(free')
          BY <2>1, <2>2, <2>3
        <5>2. free'[k + i] = free[i]
          BY <2>2
        <5> QED BY <4>1, <5>1, <5>2
      <4> QED BY <4>2 DEF Held
    <3>3. CASE \E i \in 1 .. Len(packets) : packets[i].buffer = b
      <4>1. PICK i \in 1 .. Len(packets) : packets[i].buffer = b
        BY <3>3
      <4>2. CASE i <= k
        <5>1. /\ k + 1 - i \in 1 .. k /\ k + 1 - i \in 1 .. Len(free') /\ k + 1 - (k + 1 - i) = i
          BY <2>1, <2>2, <2>3, <4>2
        <5>2. free'[k + 1 - i] = packets[k + 1 - (k + 1 - i)].buffer
          BY <2>2, <5>1
        <5>3. free'[k + 1 - i] = b
          BY <4>1, <5>1, <5>2
        <5> QED BY <5>1, <5>3 DEF Held
      <4>3. CASE i > k
        <5>1. /\ i - k \in 1 .. Len(packets) - k /\ i - k \in 1 .. Len(packets') /\ (i - k) + k = i
          BY <2>1, <2>2, <2>3, <4>3
        <5>2. packets'[i - k] = packets[i]
          BY <2>2, <5>1
        <5> QED BY <4>1, <5>1, <5>2 DEF Held
      <4> QED BY <2>1, <2>3, <4>2, <4>3
    <3> QED BY <3>1, <3>2, <3>3 DEF Held
  <2>5. begin' \in 0 .. SeqMod - 1
    <3>1. begin' = (begin + k) % SeqMod /\ begin + k \in Nat
      BY <2>1 DEF Acknowledge, Byte, SendInv
    <3> QED BY <3>1, Sizes, Division
  <2>6. retryTime' \in RetryTimes \cup {FirstRetryTime}
    BY <2>1 DEF Acknowledge, SendInv
  <2>7. Len(free') + Len(packets') = WindowSize
    BY <2>1, <2>2, <2>3
  <2> QED BY <1>1, <1>2, <2>1, <2>2, <2>4, <2>5, <2>6, <2>7 DEF SendInv
<1> QED BY <1>3, <1>4

\* Time keeps the buffers where they are.
LEMMA TickKeeps ==
    ASSUME SendInv, Tick
    PROVE  /\ SendInv'
           /\ Len(packets') = Len(packets)
           /\ \A i \in 1 .. Len(packets) : packets'[i] = [packets[i] EXCEPT !.due = Sooner(@)]
<1>1. packets \in Seq(Packets) /\ Len(packets) \in Nat /\ DOMAIN packets = 1 .. Len(packets)
  BY DEF SendInv
<1>2. packets' = [i \in 1 .. Len(packets) |-> [packets[i] EXCEPT !.due = Sooner(@)]]
  BY <1>1 DEF Tick
<1>3. ASSUME NEW i \in 1 .. Len(packets)
      PROVE  /\ [packets[i] EXCEPT !.due = Sooner(@)] \in Packets
             /\ [packets[i] EXCEPT !.due = Sooner(@)].buffer = packets[i].buffer
  <2>1. packets[i] \in Packets
    BY <1>1
  <2>2. Sooner(packets[i].due) \in Nat
    BY <2>1 DEF Packets, Sooner, Greatest
  <2> QED BY <2>1, <2>2 DEF Packets
<1>4. /\ packets' \in Seq(Packets) /\ Len(packets') = Len(packets)
      /\ \A i \in 1 .. Len(packets) : packets'[i] = [packets[i] EXCEPT !.due = Sooner(@)]
  BY <1>1, <1>2, <1>3
<1>5. \A b : Held(b) => Held(b)'
  <2>1. free' = free
    BY DEF Tick
  <2> QED BY <1>3, <1>4, <2>1 DEF Held
<1>6. sendWait' \in Nat /\ emptyWait' \in Nat /\ owed' \in Nat
  BY DEF Tick, SendInv, Sooner, Greatest
<1>7. UNCHANGED <<established, begin, free, cong, retryTime, ackLast, factor, sendAck,
                  reading, responsive, failed>>
  BY DEF Tick
<1> QED BY <1>4, <1>5, <1>6, <1>7 DEF SendInv

\* Every step keeps the invariant.
LEMMA SendStep == SendInv /\ [Next]_vars => SendInv'
<1> SUFFICES ASSUME SendInv, [Next]_vars PROVE SendInv'
  OBVIOUS
<1>1. CASE SendTimesOut
  BY <1>1 DEF SendTimesOut, SendInv, Held, windowVars, paceVars
<1>2. CASE SendTooSoon
  BY <1>2 DEF SendTooSoon, SendInv, Held, windowVars, paceVars
<1>3. ASSUME NEW full \in 1 .. WindowSize + 1, SendNow(full) PROVE SendInv'
  BY <1>3, SendNowKeeps
<1>4. ASSUME NEW k \in 0 .. WindowSize, RecvPacket(k) PROVE SendInv'
  BY <1>4, RecvPacketKeeps
<1>5. CASE RecvEnd
  <2>1. ackLast' \in 0 .. SeqMod - 1
    <3>1. ackLast' = (begin + SeqMod - 1) % SeqMod
      BY <1>5 DEF RecvEnd, Byte
    <3>2. begin + SeqMod - 1 \in Nat
      BY Sizes DEF SendInv
    <3> QED BY <3>1, <3>2, Sizes, Division
  <2>2. cong' \in Congs
    <3>1. 0 \in 0 .. SameLimit
      BY Sizes
    <3> QED BY <1>5, <3>1 DEF RecvEnd, SendInv, Congs
  <2>3. reading' = FALSE /\ sendAck' \in BOOLEAN
    BY <1>5 DEF RecvEnd, SendInv
  <2>4. UNCHANGED <<established, begin, packets, free, retryTime, sendWait, emptyWait, factor,
                    responsive, failed, owed>>
    BY <1>5 DEF RecvEnd, paceVars
  <2> QED BY <2>1, <2>2, <2>3, <2>4 DEF SendInv, Held
<1>6. CASE RecvFails
  BY <1>6 DEF RecvFails, SendInv, Held, windowVars, paceVars
<1>7. CASE Tick
  BY <1>7, TickKeeps
<1>8. CASE UNCHANGED vars
  BY <1>8 DEF vars, SendInv, Held, windowVars, paceVars
<1> QED
  BY <1>1, <1>2, <1>3, <1>4, <1>5, <1>6, <1>7, <1>8 DEF Next, SendMessages

\* The inductive invariant holds throughout.
LEMMA SendInvariant == Spec => []SendInv
  BY SendInit, SendStep, PTL DEF Spec

\* However acks, equal acks, time-outs and quick retries follow each other, the
\* congestion window stays between two packets and the whole window.
THEOREM CongestionBounded == Spec => []CongestionInv
<1>1. SendInv => CongestionInv
  BY DEF SendInv, Congs, Windows, CongestionInv
<1> QED BY <1>1, SendInvariant, PTL

\* Every send buffer is on the free list or in one packet of the window.
THEOREM NoBufferLost == Spec => []SendBuffersConserved
<1>1. SendInv => SendBuffersConserved
  <2> SUFFICES ASSUME SendInv PROVE SendBuffersConserved
    OBVIOUS
  <2> DEFINE used == [i \in DOMAIN packets |-> packets[i].buffer]
  <2>1. /\ packets \in Seq(Packets) /\ Len(packets) \in Nat /\ DOMAIN packets = 1 .. Len(packets)
        /\ free \in Seq(0 .. WindowSize - 1) /\ Len(free) \in Nat
        /\ Len(free) + Len(packets) = WindowSize
    BY DEF SendInv
  <2>2. /\ used \in Seq(0 .. WindowSize - 1) /\ Len(used) = Len(packets)
        /\ \A i \in 1 .. Len(packets) : used[i] = packets[i].buffer
    <3>1. \A i \in 1 .. Len(packets) : packets[i] \in Packets
      BY <2>1
    <3>2. \A i \in 1 .. Len(packets) : packets[i].buffer \in 0 .. WindowSize - 1
      BY <3>1 DEF Packets
    <3> QED BY <2>1, <3>2
  <2>3. Buffers = free \o used
    BY DEF Buffers
  <2>4. /\ Len(Buffers) = WindowSize /\ DOMAIN Buffers = 1 .. WindowSize
        /\ \A i \in 1 .. Len(free) : Buffers[i] = free[i]
        /\ \A i \in 1 .. Len(packets) : Buffers[Len(free) + i] = used[i]
    <3> HIDE DEF used
    <3>1. free \in Seq(0 .. WindowSize - 1) /\ used \in Seq(0 .. WindowSize - 1)
      BY <2>1, <2>2
    <3>2. Buffers \in Seq(0 .. WindowSize - 1) /\ Len(Buffers) = Len(free) + Len(used)
      BY <2>3, <3>1, Concatenation
    <3>3. \A i \in 1 .. Len(free) : Buffers[i] = free[i]
      BY <2>3, <3>1, Concatenation
    <3>4. \A i \in 1 .. Len(used) : Buffers[Len(free) + i] = used[i]
      BY <2>3, <3>1, Concatenation
    <3> QED BY <2>1, <2>2, <3>2, <3>3, <3>4
  <2>5. ASSUME NEW b \in 0 .. WindowSize - 1 PROVE \E i \in DOMAIN Buffers : Buffers[i] = b
    <3>1. CASE \E i \in 1 .. Len(free) : free[i] = b
      <4>1. PICK i \in 1 .. Len(free) : free[i] = b
        BY <3>1
      <4>2. i \in DOMAIN Buffers /\ Buffers[i] = b
        BY <2>1, <2>4, <4>1
      <4> QED BY <4>2
    <3>2. CASE \E i \in 1 .. Len(packets) : packets[i].buffer = b
      <4>1. PICK i \in 1 .. Len(packets) : packets[i].buffer = b
        BY <3>2
      <4>2. Len(free) + i \in DOMAIN Buffers /\ Buffers[Len(free) + i] = b
        <5> HIDE DEF used
        <5> QED BY <2>1, <2>2, <2>4, <4>1
      <4> QED BY <4>2
    <3> QED BY <3>1, <3>2 DEF SendInv, Held
  <2> QED BY <2>4, <2>5 DEF SendBuffersConserved
<1> QED BY <1>1, SendInvariant, PTL

-----------------------------------------------------------------------------
(* The ack time-out *)

\* The types of what the time-out counts.
CounterTypes ==
    /\ silence \in Nat /\ quiet \in Nat /\ late \in 0 .. Lag
    /\ granted \in {1, 3}
    /\ ackRetry \in 0 .. granted

CounterInv == CounterTypes /\ TimeoutInv

\* Everything CounterInv is about.
counters == <<silence, quiet, late, granted, ackRetry, failed>>

-----------------------------------------------------------------------------

\* At the start nothing has been counted.
LEMMA CounterInit == Init => CounterInv
  BY TimeAssumption DEF Init, CounterInv, CounterTypes, TimeoutInv

\* One more interval, as products.
LEMMA OneMoreInterval ==
    ASSUME NEW c \in 0 .. 3, NEW a \in Nat
    PROVE  (c + 1) * a = c * a + a /\ c * a \in Nat
<1>1. c = 0 \/ c = 1 \/ c = 2 \/ c = 3
  OBVIOUS
<1> QED
  BY <1>1

\* The time-out check. An interval that has expired moves what silence has
\* counted to the intervals.
LEMMA CheckStep ==
    ASSUME CounterInv, failed = "no", CheckAckTimeout, late' = 0,
           IF TimesOut THEN failed' = "timeout" ELSE failed' \in {"no", "socket"}
    PROVE  CounterInv'
<1> USE TimeAssumption DEF CounterInv, CounterTypes, TimeoutInv
<1>1. CASE ~Expired
  <2>1. /\ silence' = silence /\ ackRetry' = ackRetry /\ granted' = granted
        /\ quiet' = quiet /\ failed' \in {"no", "socket"}
    BY <1>1 DEF CheckAckTimeout, TimesOut
  <2>2. silence <= AckOutTime
    BY <1>1 DEF Expired
  <2> QED
    BY <2>1, <2>2
<1>2. CASE Expired
  <2> DEFINE c == granted - ackRetry
             low == AckOutTime + 1
             high == AckOutTime + Lag
  <2>1. /\ silence > AckOutTime /\ silence' = 0 /\ ackRetry' = ackRetry - 1
        /\ granted' = granted /\ quiet' = quiet
    BY <1>2 DEF CheckAckTimeout, Expired
  <2>2. /\ silence \in Nat /\ quiet \in Nat /\ late \in 0 .. Lag /\ granted \in {1, 3}
        /\ ackRetry \in 0 .. granted /\ ackRetry # 0
        /\ AckOutTime \in Nat /\ Lag \in Nat \ {0}
    OBVIOUS
  <2>3. /\ quiet >= c * low + silence
        /\ quiet <= c * high + silence
        /\ silence <= AckOutTime + late
    OBVIOUS
  <2>4. c \in 0 .. 3 /\ low \in Nat /\ high \in Nat /\ granted' - ackRetry' = c + 1
    BY <2>1, <2>2
  <2>5. /\ (c + 1) * low = c * low + low /\ c * low \in Nat
        /\ (c + 1) * high = c * high + high /\ c * high \in Nat
    BY <2>4, OneMoreInterval
  <2>6. silence >= low /\ silence <= high
    BY <2>1, <2>2, <2>3
  <2>7. quiet >= c * low + low /\ quiet <= c * high + high
    <3> HIDE DEF c, low, high
    <3> QED
      BY <2>2, <2>3, <2>4, <2>5, <2>6
  <2>8. CounterTypes'
    BY <2>1, <2>2
  <2>9. ackRetry' \in 0 .. granted' /\ (ackRetry' = 0) = (failed' = "timeout")
    BY <1>2, <2>1, <2>2 DEF TimesOut
  <2>10. /\ quiet' >= (granted' - ackRetry') * low + silence'
         /\ quiet' <= (granted' - ackRetry') * high + silence'
         /\ silence' <= AckOutTime + late'
    BY <2>1, <2>2, <2>4, <2>5, <2>7
  <2> QED
    BY <2>8, <2>9, <2>10
<1> QED
  BY <1>1, <1>2

\* A step that changes none of the counters.
LEMMA CounterStutter == CounterInv /\ UNCHANGED counters => CounterInv'
  BY DEF CounterInv, CounterTypes, TimeoutInv, counters

\* Every step keeps the invariant.
LEMMA CounterStep == CounterInv /\ [Next]_vars => CounterInv'
<1> SUFFICES ASSUME CounterInv, [Next]_vars PROVE CounterInv'
  OBVIOUS
<1>1. CASE SendTimesOut
  BY <1>1, CheckStep DEF SendTimesOut, Idle
<1>2. CASE SendTooSoon
  BY <1>2, CheckStep DEF SendTooSoon, Idle
<1>3. ASSUME NEW full \in 1 .. WindowSize + 1, SendNow(full) PROVE CounterInv'
  <2>1. failed' = failed \/ failed' = "socket"
    BY <1>3 DEF SendNow, Fill, KeepAlive, Transmit
  <2> QED
    BY <1>3, <2>1, CheckStep DEF SendNow, Idle
<1>4. ASSUME NEW k \in 0 .. WindowSize, RecvPacket(k) PROVE CounterInv'
  <2>1. CASE k = 0
    BY <1>4, <2>1, CounterStutter DEF RecvPacket, timeoutVars, counters
  <2>2. CASE k # 0
    <3>1. silence' = 0 /\ ackRetry' = 3 /\ granted' = 3 /\ quiet' = 0
          /\ failed = "no" /\ failed' = failed /\ late' = late
      BY <1>4, <2>2 DEF RecvPacket, ValidAck
    <3> QED
      BY <3>1, TimeAssumption DEF CounterInv, CounterTypes, TimeoutInv
  <2> QED
    BY <2>1, <2>2
<1>5. CASE RecvEnd
  BY <1>5, CounterStutter DEF RecvEnd, timeoutVars, counters
<1>6. CASE RecvFails
  BY <1>6 DEF RecvFails, timeoutVars, CounterInv, CounterTypes, TimeoutInv
<1>7. CASE Tick
  <2> DEFINE c == granted - ackRetry
             low == c * (AckOutTime + 1)
             high == c * (AckOutTime + Lag)
  <2>1. /\ silence' = silence + 1 /\ quiet' = quiet + 1 /\ late' = late + 1 /\ late < Lag
        /\ ackRetry' = ackRetry /\ granted' = granted /\ failed' = failed
    BY <1>7 DEF Tick
  <2>2. /\ silence \in Nat /\ quiet \in Nat /\ late \in 0 .. Lag
        /\ AckOutTime \in Nat /\ Lag \in Nat
    BY TimeAssumption DEF CounterInv, CounterTypes
  <2>3. low \in Nat /\ high \in Nat
    <3>1. c \in 0 .. 3
      BY DEF CounterInv, CounterTypes
    <3> QED
      BY <2>2, <3>1, OneMoreInterval
  <2>4. quiet >= low + silence /\ quiet <= high + silence /\ silence <= AckOutTime + late
    BY DEF CounterInv, TimeoutInv
  <2>5. quiet' >= low + silence' /\ quiet' <= high + silence' /\ silence' <= AckOutTime + late'
    <3> HIDE DEF low, high
    <3> QED
      BY <2>1, <2>2, <2>3, <2>4
  <2> QED
    BY <2>1, <2>2, <2>5 DEF CounterInv, CounterTypes, TimeoutInv
<1>8. CASE UNCHANGED vars
  BY <1>8, CounterStutter DEF vars, timeoutVars, counters
<1> QED
  BY <1>1, <1>2, <1>3, <1>4, <1>5, <1>6, <1>7, <1>8 DEF Next, SendMessages

\* The inductive invariant holds throughout.
LEMMA CounterInvariant == Spec => []CounterInv
  BY CounterInit, CounterStep, PTL DEF Spec

-----------------------------------------------------------------------------

\* The intervals counted bound the time since the last valid ack.
THEOREM TimeoutCounts == Spec => []TimeoutInv
<1>1. CounterInv => TimeoutInv
  BY DEF CounterInv
<1> QED
  BY <1>1, CounterInvariant, PTL

\* A silent peer is noticed in time.
THEOREM SilentPeerNoticed == Spec => []SilenceNoticed
<1>1. CounterInv => SilenceNoticed
  <2> SUFFICES ASSUME CounterInv, failed = "no"
               PROVE  quiet <= granted * (AckOutTime + Lag)
    BY DEF SilenceNoticed
  <2> DEFINE high == AckOutTime + Lag
  <2>1. /\ silence \in Nat /\ quiet \in Nat /\ late \in 0 .. Lag
        /\ AckOutTime \in Nat /\ Lag \in Nat
        /\ granted \in {1, 3} /\ ackRetry \in 1 .. granted
    BY TimeAssumption DEF CounterInv, CounterTypes, TimeoutInv
  <2>2. quiet <= (granted - ackRetry) * high + silence /\ silence <= AckOutTime + late
    BY DEF CounterInv, TimeoutInv
  <2>3. silence <= high /\ high \in Nat
    BY <2>1, <2>2
  <2>4. (granted = 1 /\ ackRetry = 1) \/ (granted = 3 /\ (ackRetry = 1 \/ ackRetry = 2 \/ ackRetry = 3))
    BY <2>1
  <2>5. quiet <= granted * high
    <3> HIDE DEF high
    <3> QED
      BY <2>1, <2>2, <2>3, <2>4
  <2> QED
    BY <2>5
<1> QED
  BY <1>1, CounterInvariant, PTL

\* What the counters say when the ack time-out comes.
LEMMA NotEarly ==
    ASSUME CounterInv
    PROVE  NotTimedOutEarly
<1> SUFFICES ASSUME failed = "timeout"
             PROVE  quiet > granted * AckOutTime
  BY DEF NotTimedOutEarly
<1>1. /\ silence \in Nat /\ quiet \in Nat /\ AckOutTime \in Nat
      /\ granted \in {1, 3} /\ ackRetry = 0
  BY TimeAssumption DEF CounterInv, CounterTypes, TimeoutInv
<1>2. quiet >= granted * (AckOutTime + 1) + silence
  BY <1>1 DEF CounterInv, TimeoutInv
<1> QED
  BY <1>1, <1>2

\* The ack time-out never comes early.
THEOREM TimeoutNotEarly == Spec => []NotTimedOutEarly
  BY NotEarly, CounterInvariant, PTL

\* The time-out comes neither late nor early, for all intervals and delays.
THEOREM TimeoutComesInTime == Spec => []TimeoutInTime
<1>1. SilenceNoticed /\ NotTimedOutEarly => TimeoutInTime
  BY DEF TimeoutInTime
<1> QED
  BY <1>1, SilentPeerNoticed, TimeoutNotEarly, PTL

-----------------------------------------------------------------------------
(* Types *)

\* Types of all variables.
THEOREM TypeCorrect == Spec => []TypeOK
<1>1. SendInv /\ CounterInv => TypeOK
  <2>1. Congs \subseteq [window : Int, threshold : Int, same : 0 .. SameLimit, quick : BOOLEAN]
    BY Sizes DEF Congs, Windows
  <2> QED BY <2>1 DEF SendInv, CounterInv, CounterTypes, TypeOK
<1> QED BY <1>1, SendInvariant, CounterInvariant, PTL

\* A number that is smaller than the modulus is its own remainder.
LEMMA SmallRemainder ==
    ASSUME NEW m \in Nat \ {0}, NEW n \in 0 .. m - 1
    PROVE  n % m = n
  BY SMTT(20)

-----------------------------------------------------------------------------
(* A peer that answers *)

\* How much longer a packet waits that I/O module 0's clock has dated ahead.
Skewed == IF ClockSkew = 0 THEN 0 ELSE ClockSkew + SendFrequency + Lag

\* The time-out leaves a peer the time to answer: the first packet in one
\* interval, what follows a valid ack in three, the keep-alive's back-off included.
ResponsiveTimes ==
    /\ Lag + Skewed + PeerLag <= AckOutTime
    /\ LongestEmpty + SendFrequency + Lag + Skewed + PeerLag <= 3 * AckOutTime

\* How long a packet may have to wait for SendMessages that is due in w ticks, s
\* ticks before m_dSendTime and l ticks after the last Update.
UntilSent(w, s, l) ==
    IF w > 0 THEN w + SendFrequency + Lag ELSE IF s > 0 THEN s + Lag ELSE Lag - l

\* How long the window may be empty after a valid ack, or Init.
UntilMade == IF granted = 1 THEN Lag ELSE LongestEmpty + SendFrequency + Lag

HeadUnsent == packets # <<>> /\ packets[1].sends = 0

\* How far the times of the sender are ahead.
PaceInv ==
    /\ sendWait <= SendFrequency /\ emptyWait <= LongestEmpty /\ owed <= PeerLag
    /\ \A i \in 1 .. Len(packets) : packets[i].sends = 0 => packets[i].due <= ClockSkew
    /\ granted = 1 /\ packets = <<>> => sendWait = 0 /\ emptyWait = 0

\* The peer was heard so recently that the next packet comes in time.
AnsweredInv ==
    /\ packets = <<>> => quiet + UntilSent(emptyWait, sendWait, late) <= UntilMade
    /\ HeadUnsent => quiet + UntilSent(packets[1].due, sendWait, late) <= UntilMade + Skewed
    /\ Owing => quiet <= UntilMade + Skewed + owed

\* The inductive invariant of a connection whose peer and socket always answer.
KeptInv == responsive => failed = "no" /\ PaceInv /\ AnsweredInv

\* The types of all times.
TimeTypes ==
    /\ SendFrequency \in Nat /\ Lag \in Nat /\ Lag > 0 /\ ClockSkew \in Nat
    /\ PeerLag \in Nat /\ AckOutTime \in Nat /\ LongestEmpty \in Nat
    /\ Skewed \in Nat /\ UntilMade \in Nat /\ Lag <= UntilMade
    /\ sendWait \in Nat /\ emptyWait \in Nat /\ owed \in Nat
    /\ quiet \in Nat /\ late \in 0 .. Lag /\ granted \in {1, 3}
    /\ packets \in Seq(Packets) /\ Len(packets) \in Nat
    /\ (packets = <<>>) = (Len(packets) = 0)
    /\ \A i \in 1 .. Len(packets) : packets[i].sends \in 0 .. 2 /\ packets[i].due \in Nat

\* The invariants give them.
LEMMA Times ==
    ASSUME SendInv, CounterInv
    PROVE  TimeTypes
<1>1. /\ SendFrequency \in Nat /\ Lag \in Nat /\ Lag > 0 /\ ClockSkew \in Nat
      /\ PeerLag \in Nat /\ AckOutTime \in Nat /\ LongestEmpty \in Nat
  BY TimeAssumption DEF LongestEmpty, Greatest
<1>2. granted \in {1, 3} /\ quiet \in Nat /\ late \in 0 .. Lag
  BY DEF CounterInv, CounterTypes
<1>3. Skewed \in Nat /\ UntilMade \in Nat /\ Lag <= UntilMade
  BY <1>1 DEF Skewed, UntilMade
<1>4. /\ packets \in Seq(Packets) /\ Len(packets) \in Nat
      /\ (packets = <<>>) = (Len(packets) = 0)
      /\ \A i \in 1 .. Len(packets) : packets[i] \in Packets
  BY DEF SendInv
<1>5. \A i \in 1 .. Len(packets) : packets[i].sends \in 0 .. 2 /\ packets[i].due \in Nat
  BY <1>4 DEF Packets
<1> QED BY <1>1, <1>2, <1>3, <1>4, <1>5 DEF SendInv, TimeTypes

\* Every tick takes one off the wait.
LEMMA UntilSentTick ==
    ASSUME NEW w \in Nat, NEW s \in 0 .. SendFrequency, NEW l \in 0 .. Lag, l < Lag
    PROVE  /\ UntilSent(Sooner(w), Sooner(s), l + 1) + 1 <= UntilSent(w, s, l)
           /\ UntilSent(w, s, l) \in Nat
BY TimeAssumption DEF UntilSent, Sooner, Greatest

\* The first packet of the window is transmitted as soon as it is due.
LEMMA HeadTransmitted ==
    ASSUME SendInv, NEW full, full > WindowSize, full \in Nat,
           NEW ps \in Seq(Packets), Len(ps) >= 1, ps[1].due = 0
    PROVE  1 \in Transmitted(ps, Controlled, full)
<1>1. 1 \in DOMAIN ps /\ Taken(1, full) /\ Due(ps, 1)
  BY Sizes DEF Taken, Due
<1>2. Distance(0) = 0
  <2>1. begin \in 0 .. SeqMod - 1 /\ begin + 0 = begin
    BY DEF SendInv
  <2> QED BY <2>1, Sizes, SmallRemainder DEF Distance, Byte
<1>3. Controlled.window > 0 /\ Scale * 0 = 0
  <2>1. Controlled \in Congs
    BY ControlledRange DEF SendInv
  <2> QED BY <2>1, Sizes DEF Congs, Windows
<1>4. \A n \in 0 .. 1 - 1 : InWindow(n, Controlled)
  BY <1>2, <1>3 DEF InWindow
<1> QED BY <1>1, <1>4 DEF Transmitted

\* A burst to a socket that takes everything keeps the invariant.
LEMMA SendNowAnswered ==
    ASSUME SendInv, CounterInv, responsive, KeptInv,
           NEW full \in Nat, full > WindowSize, SendNow(full)
    PROVE  failed' = "no" /\ PaceInv' /\ AnsweredInv'
<1>0. TimeTypes
  BY Times
<1> USE <1>0 DEF TimeTypes
<1>1. failed = "no" /\ PaceInv /\ AnsweredInv
  BY DEF KeptInv
<1>2. PICK d \in 0 .. Len(free), ps \in Seq(Packets) :
         /\ Extended(ps, d) /\ Transmit(ps, Controlled, full)
         /\ packets = <<>> /\ d = 0 => emptyWait > 0 /\ emptyWait' = emptyWait
  BY FillExtends DEF SendNow
<1>3. emptyWait' \in Nat /\ emptyWait' <= LongestEmpty
  BY <1>1, FillExtends DEF SendNow, PaceInv
<1>4. /\ quiet' = quiet /\ granted' = granted /\ late' = 0 /\ owed' = owed /\ sendWait = 0
      /\ UntilMade' = UntilMade
  BY DEF SendNow, CheckAckTimeout, UntilMade
<1> DEFINE S == Transmitted(ps, Controlled, full)
<1>5. /\ packets' = Sent(ps, S) /\ failed' = "no"
      /\ sendWait' = SendFrequency \/ sendWait' = 0
  BY <1>1, <1>2, <1>4 DEF Transmit
<1>6. /\ packets' \in Seq(Packets) /\ Len(packets') = Len(ps)
      /\ \A i \in 1 .. Len(ps) : i \in S => packets'[i].sends > 0
      /\ \A i \in 1 .. Len(ps) : i \notin S => packets'[i] = ps[i]
  <2> HIDE DEF S
  <2> QED BY <1>5, SentPackets
<1>7. Len(ps) >= 1 /\ ps[1].due = 0 => 1 \in S
  BY HeadTransmitted
<1> HIDE DEF S
<1>8. /\ Len(packets) \in Nat /\ Len(free) \in Nat /\ d \in Nat /\ Len(ps) = Len(packets) + d
      /\ (packets' = <<>>) = (Len(ps) = 0)
  <2>1. Len(packets) \in Nat /\ Len(free) \in Nat /\ d \in Nat /\ Len(ps) = Len(packets) + d
    BY <1>2 DEF SendInv, Extended
  <2>2. (packets' = <<>>) = (Len(packets') = 0)
    BY <1>6
  <2> QED BY <1>6, <2>1, <2>2
<1>9. packets' = <<>> => packets = <<>> /\ emptyWait > 0 /\ emptyWait' = emptyWait
  BY <1>2, <1>8
<1>10. ASSUME NEW i \in 1 .. Len(packets'), packets'[i].sends = 0
       PROVE  /\ i \notin S /\ packets'[i] = ps[i]
              /\ i <= Len(packets) => packets'[i] = packets[i]
              /\ i > Len(packets) => packets'[i].due \in 0 .. ClockSkew
  <2>1. i \in 1 .. Len(ps) /\ i \notin S /\ packets'[i] = ps[i]
    BY <1>6, <1>10
  <2>2. ASSUME i <= Len(packets) PROVE ps[i] = packets[i]
    BY <1>2, <2>1, <2>2 DEF Extended
  <2>3. ASSUME i > Len(packets) PROVE ps[i].due \in 0 .. ClockSkew
    <3>1. i - Len(packets) \in 1 .. d /\ Len(packets) + (i - Len(packets)) = i
      BY <1>8, <2>1, <2>3
    <3> QED BY <1>2, <3>1 DEF Extended
  <2> QED BY <2>1, <2>2, <2>3
<1>11. PaceInv'
  <2>1. ASSUME NEW i \in 1 .. Len(packets'), packets'[i].sends = 0
        PROVE  packets'[i].due <= ClockSkew
    <3>1. CASE i <= Len(packets)
      BY <1>1, <1>10, <2>1, <3>1 DEF PaceInv
    <3>2. CASE i > Len(packets)
      BY <1>10, <2>1, <3>2
    <3> QED BY <1>6, <1>8, <3>1, <3>2
  <2>2. ~(granted' = 1 /\ packets' = <<>>)
    BY <1>1, <1>4, <1>9 DEF PaceInv
  <2> QED BY <1>1, <1>3, <1>4, <1>5, <2>1, <2>2 DEF PaceInv
<1>12. packets = <<>> => quiet <= UntilMade
  BY <1>1, <1>4 DEF AnsweredInv, UntilSent
<1>13. packets' = <<>> => quiet' + UntilSent(emptyWait', sendWait', late') <= UntilMade'
  BY <1>1, <1>4, <1>9 DEF AnsweredInv, UntilSent
<1>14. ASSUME HeadUnsent'
       PROVE  quiet' + UntilSent(packets'[1].due, sendWait', late') <= UntilMade' + Skewed
  <2>1. 1 \in 1 .. Len(packets') /\ packets'[1].sends = 0
    BY <1>6, <1>8, <1>14 DEF HeadUnsent
  <2>2. packets'[1] = ps[1] /\ 1 \notin S
    BY <1>10, <2>1
  <2>3. packets'[1].due > 0
    <3>1. packets'[1] \in Packets
      BY <1>6, <2>1
    <3>2. packets'[1].due \in Nat /\ packets'[1].due # 0
      BY <1>6, <1>7, <2>1, <2>2, <3>1 DEF Packets
    <3> QED BY <3>2
  <2>4. CASE packets = <<>>
    <3>1. packets'[1].due \in 0 .. ClockSkew
      BY <1>10, <2>1, <2>4
    <3>2. UntilSent(packets'[1].due, sendWait', late') <= Skewed
      BY <2>3, <3>1 DEF UntilSent, Skewed
    <3>3. UntilSent(packets'[1].due, sendWait', late') \in Nat
      BY <2>3, <3>1, SMTT(30) DEF UntilSent
    <3> QED BY <1>4, <1>12, <2>4, <3>2, <3>3
  <2>5. CASE packets # <<>>
    <3>1. packets'[1] = packets[1]
      BY <1>10, <2>1, <2>5
    <3>2. HeadUnsent
      BY <2>1, <2>5, <3>1 DEF HeadUnsent
    <3>3. UntilSent(packets'[1].due, sendWait', late') = UntilSent(packets[1].due, sendWait, late)
      BY <2>3, <3>1 DEF UntilSent
    <3> QED BY <1>1, <1>4, <3>2, <3>3 DEF AnsweredInv
  <2> QED BY <2>4, <2>5
<1>15. quiet' <= UntilMade' + Skewed + owed'
  <2>1. CASE packets = <<>>
    BY <1>4, <1>12, <2>1
  <2>2. CASE HeadUnsent
    <3>1. UntilSent(packets[1].due, sendWait, late) \in Nat
      BY <1>4, <2>2, SMTT(30) DEF UntilSent, HeadUnsent
    <3> QED BY <1>1, <1>4, <2>2, <3>1 DEF AnsweredInv
  <2>3. CASE Owing
    BY <1>1, <1>4, <2>3 DEF AnsweredInv
  <2>4. packets # <<>> => HeadUnsent \/ Owing
    BY DEF HeadUnsent, Owing
  <2> QED BY <2>1, <2>2, <2>3, <2>4
<1>16. Skewed' = Skewed
  BY DEF Skewed
<1> QED BY <1>5, <1>11, <1>13, <1>14, <1>15, <1>16 DEF AnsweredInv

\* A valid ack gives the peer three intervals.
LEMMA RecvPacketAnswered ==
    ASSUME SendInv, CounterInv, responsive, KeptInv,
           NEW k \in 0 .. WindowSize, RecvPacket(k)
    PROVE  failed' = "no" /\ PaceInv' /\ AnsweredInv'
<1>0. TimeTypes
  BY Times
<1> USE <1>0 DEF TimeTypes
<1>1. failed = "no" /\ PaceInv /\ AnsweredInv
  BY DEF KeptInv
<1>2. /\ failed' = failed /\ sendWait' = sendWait /\ emptyWait' = emptyWait /\ late' = late
      /\ Skewed' = Skewed
  BY DEF RecvPacket, paceVars, Skewed
<1>3. CASE k = 0
  <2>1. packets' = packets /\ quiet' = quiet /\ granted' = granted /\ owed' = owed
    BY <1>3 DEF RecvPacket, timeoutVars
  <2> QED BY <1>1, <1>2, <2>1 DEF PaceInv, AnsweredInv, HeadUnsent, Owing, UntilMade
<1>4. CASE k # 0
  <2>1. Acknowledge(k) /\ k \in 1 .. Len(packets) /\ quiet' = 0 /\ granted' = 3 /\ owed' = 0
    BY <1>4, SMTT(30) DEF RecvPacket, ValidAck
  <2>2. /\ packets' \in Seq(Packets) /\ Len(packets') = Len(packets) - k
        /\ \A i \in 1 .. Len(packets) - k : packets'[i] = packets[i + k]
    BY <2>1, AcknowledgeMoves
  <2>3. ASSUME NEW i \in 1 .. Len(packets'), packets'[i].sends = 0
        PROVE  packets'[i].due \in 0 .. ClockSkew
    <3>1. i + k \in 1 .. Len(packets) /\ packets'[i] = packets[i + k]
      BY <2>1, <2>2
    <3> QED BY <1>1, <2>3, <3>1 DEF PaceInv
  <2>4. PaceInv'
    BY <1>1, <1>2, <2>1, <2>3 DEF PaceInv
  <2>5. UntilMade' = LongestEmpty + SendFrequency + Lag
    BY <2>1 DEF UntilMade, LongestEmpty
  <2>6. UntilSent(emptyWait, sendWait, late) <= LongestEmpty + SendFrequency + Lag
    BY <1>1 DEF PaceInv, UntilSent
  <2>7. ASSUME HeadUnsent'
        PROVE  UntilSent(packets'[1].due, sendWait, late) <= LongestEmpty + SendFrequency + Lag + Skewed
    <3>1. packets'[1].due \in 0 .. ClockSkew
      BY <2>1, <2>2, <2>3, <2>7 DEF HeadUnsent
    <3> DEFINE due == packets'[1].due
    <3> HIDE DEF due
    <3>2. due \in 0 .. ClockSkew
      BY <3>1 DEF due
    <3>3. sendWait \in 0 .. SendFrequency
      BY <1>1 DEF PaceInv
    <3>4. CASE due > 0
      <4>1. Skewed = ClockSkew + SendFrequency + Lag
        BY <3>2, <3>4 DEF Skewed
      <4>2. UntilSent(due, sendWait, late) = due + SendFrequency + Lag
        BY <3>4 DEF UntilSent
      <4>3. UntilSent(due, sendWait, late) <= LongestEmpty + SendFrequency + Lag + Skewed
        BY <3>2, <4>1, <4>2
      <4> QED BY <4>3 DEF due
    <3>5. CASE due = 0
      <4>1. UntilSent(due, sendWait, late) <= SendFrequency + Lag
        BY <3>3, <3>5 DEF UntilSent
      <4>2. UntilSent(due, sendWait, late) \in Int
        BY <3>5 DEF UntilSent
      <4> QED BY <4>1, <4>2 DEF due
    <3> QED BY <3>2, <3>4, <3>5
  <2>8. /\ packets' = <<>> => quiet' + UntilSent(emptyWait', sendWait', late') <= UntilMade'
        /\ Owing' => quiet' <= UntilMade' + Skewed' + owed'
    <3>1. UntilSent(emptyWait, sendWait, late) \in Int
      BY DEF UntilSent
    <3> QED BY <1>2, <2>1, <2>5, <2>6, <3>1
  <2>9. HeadUnsent' => quiet' + UntilSent(packets'[1].due, sendWait', late') <= UntilMade' + Skewed'
    <3> SUFFICES ASSUME HeadUnsent'
                 PROVE  quiet' + UntilSent(packets'[1].due, sendWait', late') <= UntilMade' + Skewed'
      OBVIOUS
    <3>1. packets'[1].due \in 0 .. ClockSkew
      BY <2>1, <2>2, <2>3 DEF HeadUnsent
    <3>2. UntilSent(packets'[1].due, sendWait, late) \in Int
      BY <3>1 DEF UntilSent
    <3> QED BY <1>2, <2>1, <2>5, <2>7, <3>2
  <2> QED BY <1>1, <1>2, <2>4, <2>8, <2>9 DEF AnsweredInv
<1> QED BY <1>3, <1>4

\* Time passes, for the peer too.
LEMMA TickAnswered ==
    ASSUME SendInv, CounterInv, responsive, KeptInv, Tick
    PROVE  failed' = "no" /\ PaceInv' /\ AnsweredInv'
<1>0. TimeTypes
  BY Times
<1> USE <1>0 DEF TimeTypes
<1>1. failed = "no" /\ PaceInv /\ AnsweredInv
  BY DEF KeptInv
<1>2. /\ failed' = failed /\ granted' = granted /\ quiet' = quiet + 1
      /\ late < Lag /\ late' = late + 1
      /\ sendWait' = Sooner(sendWait) /\ emptyWait' = Sooner(emptyWait)
      /\ Owing => owed < PeerLag /\ owed' = owed + 1
      /\ ~Owing => owed' = 0
      /\ Skewed' = Skewed /\ UntilMade' = UntilMade
  BY DEF Tick, Skewed, UntilMade
<1>3. /\ Len(packets') = Len(packets) /\ packets' \in Seq(Packets)
      /\ \A i \in 1 .. Len(packets) : packets'[i] = [packets[i] EXCEPT !.due = Sooner(@)]
  BY TickKeeps DEF SendInv
<1>4. \A i \in 1 .. Len(packets) : /\ packets'[i].sends = packets[i].sends
                                   /\ packets'[i].due = Sooner(packets[i].due)
  <2>1. \A i \in 1 .. Len(packets) : packets[i] \in Packets
    OBVIOUS
  <2> QED BY <1>3, <2>1 DEF Packets
<1>5. (packets' = <<>>) = (packets = <<>>)
  BY <1>3
<1>6. packets # <<>> => 1 \in 1 .. Len(packets)
  OBVIOUS
<1>7. HeadUnsent' = HeadUnsent /\ Owing' = Owing
  BY <1>4, <1>5, <1>6 DEF HeadUnsent, Owing
<1>8. sendWait \in 0 .. SendFrequency
  BY <1>1 DEF PaceInv
<1>9. PaceInv'
  <2>1. ASSUME NEW i \in 1 .. Len(packets'), packets'[i].sends = 0
        PROVE  packets'[i].due <= ClockSkew
    <3>1. packets[i].due <= ClockSkew /\ packets[i].due \in Nat /\ packets'[i].due = Sooner(packets[i].due)
      BY <1>1, <1>3, <1>4, <2>1 DEF PaceInv
    <3> QED BY <3>1 DEF Sooner, Greatest
  <2>2. sendWait' <= SendFrequency /\ emptyWait' <= LongestEmpty /\ owed' <= PeerLag
    BY <1>1, <1>2 DEF PaceInv, Sooner, Greatest
  <2>3. granted' = 1 /\ packets' = <<>> => sendWait' = 0 /\ emptyWait' = 0
    BY <1>1, <1>2, <1>5 DEF PaceInv, Sooner, Greatest
  <2> QED BY <2>1, <2>2, <2>3 DEF PaceInv
<1>10. packets = <<>> => quiet + 1 + UntilSent(Sooner(emptyWait), Sooner(sendWait), late + 1) <= UntilMade
  <2>1. /\ UntilSent(Sooner(emptyWait), Sooner(sendWait), late + 1) + 1
             <= UntilSent(emptyWait, sendWait, late)
        /\ UntilSent(emptyWait, sendWait, late) \in Nat
        /\ UntilSent(Sooner(emptyWait), Sooner(sendWait), late + 1) \in Int
    BY <1>2, <1>8, UntilSentTick DEF UntilSent, Sooner, Greatest
  <2> QED BY <1>1, <2>1 DEF AnsweredInv
<1>11. HeadUnsent => quiet + 1 + UntilSent(Sooner(packets[1].due), Sooner(sendWait), late + 1)
                        <= UntilMade + Skewed
  <2> SUFFICES ASSUME HeadUnsent
               PROVE  quiet + 1 + UntilSent(Sooner(packets[1].due), Sooner(sendWait), late + 1)
                        <= UntilMade + Skewed
    OBVIOUS
  <2> DEFINE due == packets[1].due
  <2>1. due \in Nat
    BY <1>6 DEF HeadUnsent
  <2> HIDE DEF due
  <2>2. /\ UntilSent(Sooner(due), Sooner(sendWait), late + 1) + 1 <= UntilSent(due, sendWait, late)
        /\ UntilSent(due, sendWait, late) \in Nat
        /\ UntilSent(Sooner(due), Sooner(sendWait), late + 1) \in Int
    BY <1>2, <1>8, <2>1, UntilSentTick DEF UntilSent, Sooner, Greatest
  <2>3. quiet + UntilSent(due, sendWait, late) <= UntilMade + Skewed
    BY <1>1 DEF AnsweredInv, due
  <2>4. quiet + 1 + UntilSent(Sooner(due), Sooner(sendWait), late + 1) <= UntilMade + Skewed
    BY <2>2, <2>3
  <2> QED BY <2>4 DEF due
<1>12. Owing => quiet + 1 <= UntilMade + Skewed + (owed + 1)
  BY <1>1 DEF AnsweredInv
<1>13. HeadUnsent' => packets'[1].due = Sooner(packets[1].due)
  BY <1>4, <1>6, <1>7 DEF HeadUnsent
<1>14. packets' = <<>> => quiet' + UntilSent(emptyWait', sendWait', late') <= UntilMade'
  BY <1>2, <1>5, <1>10
<1>15. HeadUnsent' => quiet' + UntilSent(packets'[1].due, sendWait', late') <= UntilMade' + Skewed'
  BY <1>2, <1>7, <1>11, <1>13
<1>16. Owing' => quiet' <= UntilMade' + Skewed' + owed'
  BY <1>2, <1>7, <1>12
<1> QED BY <1>1, <1>2, <1>9, <1>14, <1>15, <1>16 DEF AnsweredInv

\* The last interval has not passed while the peer answers in time.
LEMMA AnsweredInTime ==
    ASSUME ResponsiveTimes, SendInv, CounterInv, PaceInv, AnsweredInv
    PROVE  quiet <= granted * AckOutTime
<1>0. TimeTypes
  BY Times
<1> USE <1>0 DEF TimeTypes
<1>1. UntilMade + Skewed + PeerLag <= granted * AckOutTime
  BY DEF ResponsiveTimes, UntilMade
<1>2. quiet <= UntilMade + Skewed + PeerLag
  <2>1. CASE packets = <<>>
    <3>1. UntilSent(emptyWait, sendWait, late) \in Nat
      BY DEF UntilSent
    <3> QED BY <2>1, <3>1 DEF AnsweredInv
  <2>2. CASE HeadUnsent
    <3>1. UntilSent(packets[1].due, sendWait, late) \in Nat
      BY <2>2 DEF UntilSent, HeadUnsent
    <3> QED BY <2>2, <3>1 DEF AnsweredInv
  <2>3. CASE Owing
    BY <2>3 DEF AnsweredInv, PaceInv
  <2>4. packets # <<>> => HeadUnsent \/ Owing
    BY DEF HeadUnsent, Owing
  <2> QED BY <2>1, <2>2, <2>3, <2>4
<1>3. granted * AckOutTime \in Nat
  BY Product
<1> QED BY <1>1, <1>2, <1>3

\* What the counters say after a step.
LEMMA NotEarlyNext == CounterInv' => NotTimedOutEarly'
<1>1. CounterInv => NotTimedOutEarly
  BY NotEarly
<1> QED BY <1>1, PTL

\* Every step keeps the invariant.
LEMMA KeptStep ==
    ASSUME ResponsiveTimes
    PROVE  SendInv /\ CounterInv /\ KeptInv /\ [Next]_vars => KeptInv'
<1> SUFFICES ASSUME SendInv, CounterInv, KeptInv, [Next]_vars, responsive'
             PROVE  failed' = "no" /\ PaceInv' /\ AnsweredInv'
  BY DEF KeptInv
<1>1. responsive
  BY DEF Next, SendMessages, SendTimesOut, SendTooSoon, SendNow, RecvPacket, RecvEnd,
         RecvFails, Tick, vars
<1>2. failed = "no" /\ PaceInv /\ AnsweredInv
  BY <1>1 DEF KeptInv
<1>3. CASE SendTimesOut
  <2>1. failed' = "timeout" /\ quiet' = quiet /\ granted' = granted
    BY <1>3 DEF SendTimesOut, CheckAckTimeout
  <2>2. NotTimedOutEarly'
    BY CounterStep, NotEarlyNext
  <2>3. quiet > granted * AckOutTime
    BY <2>1, <2>2 DEF NotTimedOutEarly
  <2>4. quiet <= granted * AckOutTime /\ granted * AckOutTime \in Nat /\ quiet \in Nat
    BY <1>2, AnsweredInTime, Times, Product DEF TimeTypes
  <2> QED BY <2>3, <2>4
<1>4. CASE SendTooSoon
  <2>1. /\ sendWait > 0 /\ late' = 0 /\ quiet' = quiet /\ granted' = granted /\ failed' = failed
        /\ sendWait' = sendWait /\ emptyWait' = emptyWait /\ packets' = packets /\ owed' = owed
    BY <1>4 DEF SendTooSoon, CheckAckTimeout, windowVars, paceVars
  <2>2. PaceInv'
    BY <1>2, <2>1 DEF PaceInv
  <2>3. AnsweredInv'
    BY <1>2, <2>1 DEF AnsweredInv, UntilSent, HeadUnsent, Owing, UntilMade, Skewed
  <2> QED BY <1>2, <2>1, <2>2, <2>3
<1>5. ASSUME NEW full \in 1 .. WindowSize + 1, responsive => full > WindowSize, SendNow(full)
      PROVE  failed' = "no" /\ PaceInv' /\ AnsweredInv'
  BY <1>1, <1>5, Sizes, SendNowAnswered
<1>6. ASSUME NEW k \in 0 .. WindowSize, RecvPacket(k)
      PROVE  failed' = "no" /\ PaceInv' /\ AnsweredInv'
  BY <1>1, <1>6, RecvPacketAnswered
<1>7. ASSUME UNCHANGED <<packets, sendWait, emptyWait, quiet, granted, failed, late, owed>>
      PROVE  failed' = "no" /\ PaceInv' /\ AnsweredInv'
  BY <1>2, <1>7 DEF PaceInv, AnsweredInv, UntilSent, HeadUnsent, Owing, UntilMade, Skewed
<1>8. CASE RecvEnd
  BY <1>7, <1>8 DEF RecvEnd, paceVars, timeoutVars
<1>9. CASE RecvFails
  BY <1>1, <1>9 DEF RecvFails
<1>10. CASE Tick
  BY <1>1, <1>10, TickAnswered
<1>11. CASE UNCHANGED vars
  BY <1>7, <1>11 DEF vars, windowVars, paceVars, timeoutVars
<1> QED
  BY <1>3, <1>4, <1>5, <1>6, <1>8, <1>9, <1>10, <1>11 DEF Next, SendMessages

\* A peer that answers is never timed out, however little the session sends, if
\* the time-out is long enough for what ResponsiveTimes counts.
THEOREM AnsweringPeerKept ==
    ASSUME ResponsiveTimes
    PROVE  Spec => []ResponsiveKept
<1>1. Init => KeptInv
  BY Sizes, TimeAssumption DEF Init, KeptInv, PaceInv, AnsweredInv, UntilSent, UntilMade,
     HeadUnsent, Owing, LongestEmpty, Greatest
<1>2. SendInv /\ CounterInv /\ KeptInv /\ [Next]_vars => KeptInv'
  BY KeptStep
<1>3. KeptInv => ResponsiveKept
  BY DEF KeptInv, ResponsiveKept
<1> QED BY <1>1, <1>2, <1>3, SendInvariant, CounterInvariant, PTL DEF Spec
=============================================================================
