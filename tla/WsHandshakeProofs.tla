------------------------- MODULE WsHandshakeProofs --------------------------
(***************************************************************************)
(* Proofs about WsHandshake, for requests, responses and payloads of every *)
(* length and any number of frames: what the client has sent, the packages *)
(* on their way through the two threads, and what it has received are one  *)
(* stream, which the inductive invariant follows unit by unit.             *)
(***************************************************************************)
EXTENDS WsHandshake, SequenceTheorems, FiniteSetTheorems, TLAPS

-----------------------------------------------------------------------------
(* Numbers and sequences *)

\* A set of numbers that is not empty has a least one.
LEMMA LeastNumber ==
    ASSUME NEW T, T \subseteq Nat, T # {}
    PROVE  \E n \in T : \A m \in T : n <= m
<1> DEFINE Below(n) == 0 .. n - 1
           S == {Below(n) : n \in T}
           R == StrictSubsetOrdering(Nat)
<1>1. S \subseteq FiniteSubsetsOf(Nat) /\ S # {}
  <2>1. ASSUME NEW n \in T PROVE Below(n) \in FiniteSubsetsOf(Nat)
    <3>1. IsFiniteSet(Below(n))
      BY FS_Interval
    <3> QED BY <3>1 DEF FiniteSubsetsOf
  <2> QED BY <2>1
<1>2. PICK s \in S : \A t \in S : <<t, s>> \notin R
  <2> HIDE DEF S, R
  <2>1. IsWellFoundedOn(StrictSubsetOrdering(Nat), FiniteSubsetsOf(Nat))
    BY FS_StrictSubsetOrderingWellFounded
  <2> QED BY <1>1, <2>1, WFMin DEF R
<1>3. PICK n \in T : s = Below(n)
  OBVIOUS
<1>4. ASSUME NEW m \in T, m < n PROVE FALSE
  <2>1. Below(m) \subseteq Below(n) /\ Below(m) # Below(n)
    <3>1. m \in Below(n) /\ m \notin Below(m)
      BY <1>4
    <3> QED BY <1>4, <3>1
  <2>2. <<Below(m), Below(n)>> \in R
    <3> DEFINE a == Below(m)
               b == Below(n)
    <3>1. a \in SUBSET Nat /\ b \in SUBSET Nat /\ a \subseteq b /\ a # b
      BY <2>1
    <3> HIDE DEF a, b
    <3>2. <<a, b>> \in StrictSubsetOrdering(Nat)
      BY <3>1 DEF StrictSubsetOrdering
    <3> QED BY <3>2 DEF a, b
  <2> QED BY <1>2, <1>3, <2>2
<1> QED BY <1>4

\* A set of numbers with 0 and every successor has all of them.
LEMMA AllNumbers ==
    ASSUME NEW S, 0 \in S, \A n \in Nat : n \in S => n + 1 \in S
    PROVE  Nat \subseteq S
<1> DEFINE T == Nat \ S
<1>1. SUFFICES ASSUME T # {} PROVE FALSE
  OBVIOUS
<1>2. PICK n \in T : \A m \in T : n <= m
  <2> HIDE DEF T
  <2>1. T \subseteq Nat
    BY DEF T
  <2> QED BY <1>1, <2>1, LeastNumber
<1>3. n \in Nat /\ n # 0
  OBVIOUS
<1>4. n - 1 \in Nat /\ n - 1 \notin T
  BY <1>2, <1>3
<1> QED BY <1>3, <1>4

\* Sequences of the same type put together again.
LEMMA Associate ==
    \A A : \A r, s, t \in Seq(A) : (r \o s) \o t = r \o (s \o t)
<1> TAKE A
<1> QED BY ConcatAssociative, SMTT(30)

\* Two sequences put together.
LEMMA Concatenation ==
    ASSUME NEW A, NEW s \in Seq(A), NEW t \in Seq(A)
    PROVE  /\ s \o t \in Seq(A) /\ Len(s \o t) = Len(s) + Len(t)
           /\ \A i \in 1 .. Len(s) : (s \o t)[i] = s[i]
           /\ \A i \in 1 .. Len(t) : (s \o t)[Len(s) + i] = t[i]
<1>1. Len(s) \in Nat /\ Len(t) \in Nat
  OBVIOUS
<1>2. /\ s \o t \in Seq(A) /\ Len(s \o t) = Len(s) + Len(t)
      /\ \A i \in 1 .. Len(s) + Len(t) : (s \o t)[i] = IF i <= Len(s) THEN s[i] ELSE t[i - Len(s)]
  BY ConcatProperties
<1>3. ASSUME NEW i \in 1 .. Len(t) PROVE (s \o t)[Len(s) + i] = t[i]
  <2>1. /\ Len(s) + i \in 1 .. Len(s) + Len(t) /\ ~(Len(s) + i <= Len(s))
        /\ (Len(s) + i) - Len(s) = i
    BY <1>1
  <2> QED BY <1>2, <2>1
<1> QED BY <1>1, <1>2, <1>3

\* What is left of a sequence without its first elements.
LEMMA Rest ==
    ASSUME NEW A, NEW s \in Seq(A), NEW d \in 0 .. Len(s)
    PROVE  /\ SubSeq(s, d + 1, Len(s)) \in Seq(A) /\ Len(SubSeq(s, d + 1, Len(s))) = Len(s) - d
           /\ \A i \in 1 .. Len(s) - d : SubSeq(s, d + 1, Len(s))[i] = s[i + d]
<1> DEFINE r == SubSeq(s, d + 1, Len(s))
<1>1. Len(s) \in Nat /\ d \in Nat /\ d <= Len(s)
  OBVIOUS
<1>2. r = [i \in 1 .. Len(s) - d |-> s[i + d]]
  <2>1. r = [i \in 1 .. (1 + Len(s) - (d + 1)) |-> s[i + (d + 1) - 1]]
    BY <1>1
  <2> QED BY <1>1, <2>1
<1>3. \A i \in 1 .. Len(s) - d : s[i + d] \in A
  BY <1>1
<1>4. r \in Seq(A) /\ Len(r) = Len(s) - d
  <2> HIDE DEF r
  <2> QED BY <1>1, <1>2, <1>3
<1> QED BY <1>2, <1>4

\* The first elements of a sequence.
LEMMA Beginning ==
    ASSUME NEW A, NEW s \in Seq(A), NEW d \in 0 .. Len(s)
    PROVE  /\ SubSeq(s, 1, d) \in Seq(A) /\ Len(SubSeq(s, 1, d)) = d
           /\ \A i \in 1 .. d : SubSeq(s, 1, d)[i] = s[i]
<1>1. Len(s) \in Nat /\ d \in Nat /\ d <= Len(s)
  OBVIOUS
<1>2. SubSeq(s, 1, d) = [i \in 1 .. d |-> s[i]]
  <2>1. SubSeq(s, 1, d) = [i \in 1 .. (1 + d - 1) |-> s[i + 1 - 1]]
    BY <1>1
  <2> QED BY <1>1, <2>1
<1>3. \A i \in 1 .. d : s[i] \in A
  BY <1>1
<1> QED BY <1>1, <1>2, <1>3

\* Some of the elements of a sequence.
LEMMA Part ==
    ASSUME NEW A, NEW s \in Seq(A), NEW d \in 0 .. Len(s), NEW e \in d .. Len(s)
    PROVE  /\ SubSeq(s, d + 1, e) \in Seq(A) /\ Len(SubSeq(s, d + 1, e)) = e - d
           /\ \A i \in 1 .. e - d : SubSeq(s, d + 1, e)[i] = s[d + i]
<1> DEFINE r == SubSeq(s, d + 1, e)
<1>1. Len(s) \in Nat /\ d \in Nat /\ e \in Nat /\ d <= e /\ e <= Len(s)
  OBVIOUS
<1>2. r = [i \in 1 .. e - d |-> s[d + i]]
  <2>1. r = [i \in 1 .. (1 + e - (d + 1)) |-> s[i + (d + 1) - 1]]
    BY <1>1
  <2> QED BY <1>1, <2>1
<1>3. \A i \in 1 .. e - d : s[d + i] \in A
  BY <1>1
<1>4. r \in Seq(A) /\ Len(r) = e - d
  <2> HIDE DEF r
  <2> QED BY <1>1, <1>2, <1>3
<1> QED BY <1>2, <1>4

\* A sequence with an element behind it.
LEMMA Appended ==
    ASSUME NEW A, NEW s \in Seq(A), NEW a \in A
    PROVE  /\ Append(s, a) \in Seq(A) /\ Len(Append(s, a)) = Len(s) + 1
           /\ \A i \in 1 .. Len(s) : Append(s, a)[i] = s[i]
           /\ Append(s, a)[Len(s) + 1] = a
OBVIOUS

\* A sequence without its first element.
LEMMA Shifted ==
    ASSUME NEW A, NEW s \in Seq(A), s # <<>>
    PROVE  /\ Len(s) >= 1 /\ Head(s) = s[1] /\ s[1] \in A
           /\ Tail(s) \in Seq(A) /\ Len(Tail(s)) = Len(s) - 1
           /\ \A i \in 1 .. Len(s) - 1 : Tail(s)[i] = s[i + 1]
OBVIOUS

\* Sequences with the same elements are the same.
LEMMA SameSequence ==
    ASSUME NEW A, NEW s \in Seq(A), NEW t \in Seq(A), Len(s) = Len(t),
           \A i \in 1 .. Len(s) : s[i] = t[i]
    PROVE  s = t
OBVIOUS

\* A prefix, element by element.
LEMMA PrefixElements ==
    ASSUME NEW A, NEW s \in Seq(A), NEW t \in Seq(A)
    PROVE  /\ IsPrefix(s, t) => Len(s) <= Len(t) /\ \A i \in 1 .. Len(s) : s[i] = t[i]
           /\ (Len(s) <= Len(t) /\ \A i \in 1 .. Len(s) : s[i] = t[i]) => IsPrefix(s, t)
<1>1. Len(s) \in Nat /\ Len(t) \in Nat
  OBVIOUS
<1>2. SubSeq(s, 1, Len(s)) = s
  OBVIOUS
<1>3. ASSUME IsPrefix(s, t) PROVE Len(s) <= Len(t) /\ \A i \in 1 .. Len(s) : s[i] = t[i]
  <2>1. Len(s) <= Len(t) /\ s = SubSeq(t, 1, Len(s))
    BY <1>2, <1>3 DEF IsPrefix
  <2>2. \A i \in 1 .. Len(s) : SubSeq(t, 1, Len(s))[i] = t[i]
    BY <1>1, <2>1
  <2> QED BY <2>1, <2>2
<1>4. ASSUME Len(s) <= Len(t), \A i \in 1 .. Len(s) : s[i] = t[i] PROVE IsPrefix(s, t)
  <2>1. SubSeq(t, 1, Len(s)) \in Seq(A) /\ Len(SubSeq(t, 1, Len(s))) = Len(s)
    BY <1>1, <1>4
  <2>2. \A i \in 1 .. Len(s) : SubSeq(t, 1, Len(s))[i] = t[i]
    BY <1>1, <1>4
  <2>3. s = SubSeq(t, 1, Len(s))
    BY <1>4, <2>1, <2>2, SameSequence
  <2> QED BY <1>2, <1>4, <2>3 DEF IsPrefix
<1> QED BY <1>3, <1>4

-----------------------------------------------------------------------------
(* Sequences of sequences *)

\* What FlattenSeq has put together after each of the sequences.
Joins(f, s) ==
    /\ DOMAIN f = 0 .. Len(s) /\ f[0] = <<>>
    /\ \A i \in 1 .. Len(s) : f[i] = f[i - 1] \o s[i]
    /\ f[Len(s)] = FlattenSeq(s)

Joined(s) == CHOOSE f : Joins(f, s)

\* The recursion of FlattenSeq has a solution.
LEMMA FlattenRecursion ==
    ASSUME NEW s, NEW m \in Nat
    PROVE  \E g : g = [i \in 1 .. m |-> IF i = 1 THEN s[i] ELSE g[i - 1] \o s[i]]
<1> DEFINE Step(g, n) == g = [i \in 1 .. n |-> IF i = 1 THEN s[i] ELSE g[i - 1] \o s[i]]
           S == {n \in Nat : \E g : Step(g, n)}
<1>1. 0 \in S
  <2> DEFINE g == [i \in 1 .. 0 |-> IF i = 1 THEN s[i] ELSE s[i - 1] \o s[i]]
  <2>1. Step(g, 0)
    OBVIOUS
  <2> QED BY <2>1
<1>2. ASSUME NEW n \in Nat, n \in S PROVE n + 1 \in S
  <2>1. PICK g : Step(g, n)
    BY <1>2
  <2> DEFINE last == IF n = 0 THEN s[1] ELSE g[n] \o s[n + 1]
             h == [i \in 1 .. n + 1 |-> IF i = n + 1 THEN last ELSE g[i]]
  <2>2. ASSUME NEW i \in 1 .. n + 1
        PROVE  h[i] = IF i = 1 THEN s[i] ELSE h[i - 1] \o s[i]
    <3>1. CASE i = n + 1 /\ i = 1
      BY <3>1
    <3>2. CASE i = n + 1 /\ i # 1
      <4>1. n # 0 /\ i - 1 = n /\ n \in 1 .. n + 1 /\ n # n + 1
        BY <3>2
      <4>2. h[i] = last /\ h[i - 1] = g[n]
        BY <3>2, <4>1
      <4>3. last = g[n] \o s[n + 1]
        BY <4>1
      <4> QED
        <5> HIDE DEF h, last
        <5> QED BY <3>2, <4>2, <4>3
    <3>3. CASE i # n + 1
      <4>1. i \in 1 .. n /\ h[i] = g[i]
        BY <3>3
      <4>2. i # 1 => i - 1 \in 1 .. n /\ h[i - 1] = g[i - 1]
        BY <3>3
      <4>3. g[i] = IF i = 1 THEN s[i] ELSE g[i - 1] \o s[i]
        BY <2>1, <4>1
      <4> QED
        <5> HIDE DEF h
        <5> QED BY <4>1, <4>2, <4>3
    <3> QED BY <3>1, <3>2, <3>3
  <2>3. Step(h, n + 1)
    <3>1. h = [i \in 1 .. n + 1 |-> h[i]]
      OBVIOUS
    <3> HIDE DEF h
    <3> QED BY <2>2, <3>1
  <2>4. \E k : Step(k, n + 1)
    <3> HIDE DEF h, Step
    <3> QED BY <2>3
  <2> QED
    <3> HIDE DEF Step
    <3> QED BY <2>4
<1>3. m \in S
  <2> HIDE DEF S
  <2> QED BY <1>1, <1>2, AllNumbers
<1> QED BY <1>3

\* So FlattenSeq puts one sequence behind the other.
LEMMA Joining ==
    ASSUME NEW A, NEW s \in Seq(Seq(A))
    PROVE  Joins(Joined(s), s) /\ \A i \in 0 .. Len(s) : Joined(s)[i] \in Seq(A)
<1> DEFINE m == Len(s)
<1>1. m \in Nat /\ \A i \in 1 .. m : s[i] \in Seq(A)
  OBVIOUS
<1>2. \E f : Joins(f, s)
  <2>1. CASE m = 0
    <3> DEFINE f == [i \in 0 .. 0 |-> <<>>]
    <3>1. s = <<>>
      BY <2>1
    <3>2. FlattenSeq(s) = <<>>
      BY <2>1, <3>1 DEF FlattenSeq
    <3>3. Joins(f, s)
      BY <2>1, <3>2 DEF Joins
    <3> QED BY <3>3
  <2>2. CASE m # 0
    <3> DEFINE flatten == CHOOSE g : g = [i \in 1 .. m |-> IF i = 1 THEN s[i] ELSE g[i - 1] \o s[i]]
               f == [i \in 0 .. m |-> IF i = 0 THEN <<>> ELSE flatten[i]]
    <3>1. FlattenSeq(s) = flatten[m]
      BY <2>2 DEF FlattenSeq
    <3>2. flatten = [i \in 1 .. m |-> IF i = 1 THEN s[i] ELSE flatten[i - 1] \o s[i]]
      BY <1>1, FlattenRecursion
    <3> HIDE DEF flatten
    <3>3. ASSUME NEW i \in 1 .. m PROVE f[i] = f[i - 1] \o s[i]
      <4>1. CASE i = 1
        <5>1. <<>> \o s[1] = s[1] /\ flatten[1] = s[1]
          BY <1>1, <2>2, <3>2, ConcatEmptySeq
        <5>2. f[1] = flatten[1] /\ f[0] = <<>>
          BY <1>1, <2>2
        <5>3. f[1] = f[0] \o s[1]
          BY <5>1, <5>2
        <5>4. i - 1 = 0
          BY <4>1
        <5> HIDE DEF f
        <5> QED BY <4>1, <5>3, <5>4
      <4>2. CASE i # 1
        <5>1. flatten[i] = flatten[i - 1] \o s[i]
          BY <3>2, <4>2
        <5>2. f[i] = flatten[i] /\ f[i - 1] = flatten[i - 1]
          BY <1>1, <4>2
        <5> QED BY <5>1, <5>2
      <4> QED BY <4>1, <4>2
    <3>4. DOMAIN f = 0 .. m /\ f[0] = <<>> /\ f[m] = flatten[m]
      BY <1>1, <2>2
    <3>5. Joins(f, s)
      <4> HIDE DEF f
      <4> QED BY <3>1, <3>3, <3>4 DEF Joins
    <3> QED BY <3>5
  <2> QED BY <2>1, <2>2
<1>3. Joins(Joined(s), s)
  BY <1>2 DEF Joined
<1>4. \A i \in 0 .. m : Joined(s)[i] \in Seq(A)
  <2> DEFINE S == {n \in Nat : n <= m => Joined(s)[n] \in Seq(A)}
  <2>1. 0 \in S
    <3>1. Joined(s)[0] = <<>>
      BY <1>3 DEF Joins
    <3>2. Joined(s)[0] \in Seq(A)
      BY <3>1
    <3> QED BY <3>2
  <2>2. ASSUME NEW n \in Nat, n \in S PROVE n + 1 \in S
    <3>1. ASSUME n + 1 <= m PROVE Joined(s)[n + 1] \in Seq(A)
      <4>1. n + 1 \in 1 .. m /\ (n + 1) - 1 = n /\ Joined(s)[n] \in Seq(A) /\ s[n + 1] \in Seq(A)
        BY <1>1, <2>2, <3>1
      <4>2. Joined(s)[n + 1] = Joined(s)[n] \o s[n + 1]
        BY <1>3, <4>1 DEF Joins
      <4> QED BY <4>1, <4>2, Concatenation
    <3> QED BY <3>1
  <2>3. Nat \subseteq S
    <3> HIDE DEF S
    <3> QED BY <2>1, <2>2, AllNumbers
  <2> QED BY <1>1, <2>3
<1> QED BY <1>3, <1>4

\* What is put together first stays in front.
LEMMA JoinedPrefix ==
    ASSUME NEW A, NEW s \in Seq(Seq(A)), NEW i \in 0 .. Len(s), NEW n \in i .. Len(s)
    PROVE  /\ Len(Joined(s)[i]) <= Len(Joined(s)[n])
           /\ \A j \in 1 .. Len(Joined(s)[i]) : Joined(s)[n][j] = Joined(s)[i][j]
<1> DEFINE f == Joined(s)
           m == Len(s)
           Holds(k) == /\ Len(f[i]) <= Len(f[k])
                       /\ \A j \in 1 .. Len(f[i]) : f[k][j] = f[i][j]
           S == {d \in Nat : i + d <= m => Holds(i + d)}
<1>1. /\ m \in Nat /\ \A k \in 1 .. m : s[k] \in Seq(A) /\ f[k] = f[k - 1] \o s[k]
      /\ \A k \in 0 .. m : f[k] \in Seq(A) /\ Len(f[k]) \in Nat
  <2>1. Joins(f, s) /\ \A k \in 0 .. m : f[k] \in Seq(A)
    BY Joining
  <2> HIDE DEF f
  <2>2. \A k \in 1 .. m : f[k] = f[k - 1] \o s[k]
    BY <2>1 DEF Joins
  <2>3. m \in Nat /\ \A k \in 1 .. m : s[k] \in Seq(A)
    OBVIOUS
  <2>4. \A k \in 0 .. m : Len(f[k]) \in Nat
    BY <2>1
  <2> QED BY <2>1, <2>2, <2>3, <2>4
<1> HIDE DEF f
<1>2. 0 \in S
  BY <1>1
<1>3. ASSUME NEW d \in Nat, d \in S PROVE d + 1 \in S
  <2>1. ASSUME i + (d + 1) <= m PROVE Holds(i + (d + 1))
    <3> DEFINE k == i + d
    <3>1. k \in 0 .. m /\ k + 1 \in 1 .. m /\ (k + 1) - 1 = k /\ i + (d + 1) = k + 1 /\ Holds(k)
      BY <1>1, <1>3, <2>1
    <3> HIDE DEF k
    <3>2. f[k] \in Seq(A) /\ s[k + 1] \in Seq(A) /\ f[k + 1] = f[k] \o s[k + 1]
      BY <1>1, <3>1
    <3> DEFINE t == s[k + 1]
               u == f[k]
    <3>3. u \in Seq(A) /\ t \in Seq(A) /\ f[k + 1] = u \o t
      BY <3>2
    <3> HIDE DEF t, u
    <3>4. Len(u \o t) = Len(u) + Len(t) /\ Len(t) \in Nat /\ Len(u) \in Nat
      BY <3>3, Concatenation
    <3>5. \A j \in 1 .. Len(u) : (u \o t)[j] = u[j]
      BY <3>3, Concatenation
    <3>6. Len(f[i]) \in Nat /\ Len(f[i]) <= Len(u) /\ \A j \in 1 .. Len(f[i]) : u[j] = f[i][j]
      BY <1>1, <3>1 DEF u
    <3>7. Holds(k + 1)
      BY <3>3, <3>4, <3>5, <3>6
    <3> QED BY <3>1, <3>7
  <2> QED BY <2>1
<1>4. Nat \subseteq S
  <2> HIDE DEF S
  <2> QED BY <1>2, <1>3, AllNumbers
<1>5. Holds(n)
  <2>1. n - i \in Nat /\ i + (n - i) = n /\ n <= m
    BY <1>1
  <2>2. n - i \in S
    BY <1>4, <2>1
  <2> QED BY <2>1, <2>2
<1> QED BY <1>5 DEF f

-----------------------------------------------------------------------------
(* What the two sides send *)

N == Len(Payloads)

Unit == {u \in {"request", "response", "frame", "zero", "head"} \X Nat \X Nat :
    u[1] = "frame" => u[2] \in 1 .. N}

FrameUnit == {u \in Unit : u[1] = "frame"}

FrameUnits(n) == <<FrameHead(n)>> \o Payload(n)
FrameSeqs == [n \in DOMAIN Payloads |-> FrameUnits(n)]
EchoSeqs == [n \in DOMAIN Payloads |-> Framed(Echo(Payload(n)))]

\* Where frame n + 1 starts in what the client sends.
FrameStart(n) == RequestSize + Len(Joined(FrameSeqs)[n])

\* What the client has received when the first n replies are out.
Said(n) == IF n = 0 THEN <<>> ELSE Response(KeyUnit) \o Joined(EchoSeqs)[n - 1]

\* The package that OnRecv sends back as its n-th.
Reply(n) == IF n = 1 THEN Response(KeyUnit) ELSE Echo(Payload(n - 1))

\* The sizes are numbers.
LEMMA WsSizes ==
    /\ RequestSize \in Nat /\ RequestSize >= 1 /\ MinRead \in Nat /\ MinRead >= 1
    /\ ResponseSize \in Nat /\ ResponseSize >= 1 /\ KeyUnit \in 1 .. RequestSize
    /\ Payloads \in Seq(Nat) /\ N \in Nat /\ DOMAIN Payloads = 1 .. N
    /\ \A n \in 1 .. N : Payloads[n] \in Nat
BY WsAssumption DEF N

\* The request and the response are units.
LEMMA RequestUnits ==
    /\ Request \in Seq(Unit) /\ Len(Request) = RequestSize
    /\ \A i \in 1 .. RequestSize : Request[i] = <<"request", 0, i>>
    /\ Last(Request) = <<"request", 0, RequestSize>>
<1>1. \A i \in 1 .. RequestSize : <<"request", 0, i>> \in Unit
  BY WsSizes DEF Unit
<1>2. Request \in Seq(Unit) /\ Len(Request) = RequestSize
  BY <1>1, WsSizes DEF Request
<1>3. \A i \in 1 .. RequestSize : Request[i] = <<"request", 0, i>>
  BY DEF Request
<1>4. RequestSize \in 1 .. RequestSize
  BY WsSizes
<1> QED BY <1>2, <1>3, <1>4 DEF Last

\* The response is as well, whatever key it holds.
LEMMA ResponseUnits ==
    ASSUME NEW key \in Nat
    PROVE  Response(key) \in Seq(Unit) /\ Len(Response(key)) = ResponseSize
<1>1. \A i \in 1 .. ResponseSize : <<"response", key, i>> \in Unit
  BY WsSizes DEF Unit
<1> QED BY <1>1, WsSizes DEF Response

\* A payload is a sequence of units of its frame.
LEMMA PayloadUnits ==
    ASSUME NEW n \in 1 .. N
    PROVE  /\ Payload(n) \in Seq(FrameUnit) /\ Len(Payload(n)) = Payloads[n]
           /\ Payload(n) \in Seq(Unit) /\ FrameHead(n) \in FrameUnit
           /\ \A i \in 1 .. Payloads[n] : Payload(n)[i] = <<"frame", n, i>>
<1>1. Payloads[n] \in Nat /\ n \in Nat
  BY WsSizes
<1>2. \A i \in Nat : <<"frame", n, i>> \in FrameUnit /\ <<"frame", n, i>> \in Unit
  BY <1>1 DEF FrameUnit, Unit
<1>3. /\ Payload(n) = [i \in 1 .. Payloads[n] |-> <<"frame", n, i>>]
      /\ FrameHead(n) \in FrameUnit
  BY <1>2 DEF Payload, FrameHead
<1>4. Payload(n) \in Seq(FrameUnit) /\ Payload(n) \in Seq(Unit) /\ Len(Payload(n)) = Payloads[n]
  BY <1>1, <1>2, <1>3
<1> QED BY <1>3, <1>4

\* A frame is its head and its payload.
LEMMA FrameUnitsOf ==
    ASSUME NEW n \in 1 .. N
    PROVE  /\ FrameUnits(n) \in Seq(FrameUnit) /\ Len(FrameUnits(n)) = 1 + Payloads[n]
           /\ FrameUnits(n)[1] = FrameHead(n)
           /\ \A i \in 1 .. Payloads[n] : FrameUnits(n)[1 + i] = <<"frame", n, i>>
<1> DEFINE h == <<FrameHead(n)>>
           p == Payload(n)
<1>1. h \in Seq(FrameUnit) /\ Len(h) = 1 /\ h[1] = FrameHead(n)
  BY PayloadUnits
<1>2. /\ p \in Seq(FrameUnit) /\ Len(p) = Payloads[n]
      /\ \A i \in 1 .. Payloads[n] : p[i] = <<"frame", n, i>>
  BY PayloadUnits
<1>3. FrameUnits(n) = h \o p
  BY DEF FrameUnits
<1> HIDE DEF h, p
<1>4. h \in Seq(FrameUnit) /\ p \in Seq(FrameUnit)
  BY <1>1, <1>2
<1>5. h \o p \in Seq(FrameUnit) /\ Len(h \o p) = Len(h) + Len(p)
  BY <1>4, Concatenation
<1>6. \A i \in 1 .. Len(h) : (h \o p)[i] = h[i]
  BY <1>4, Concatenation
<1>7. \A i \in 1 .. Len(p) : (h \o p)[Len(h) + i] = p[i]
  BY <1>4, Concatenation
<1> QED BY <1>1, <1>2, <1>3, <1>5, <1>6, <1>7

\* An echo and its frame are units.
LEMMA FramedUnits ==
    ASSUME NEW package \in Seq(Unit)
    PROVE  Framed(package) \in Seq(Unit) /\ Echo(package) \in Seq(Unit)
<1>1. <<"zero", 0, 0>> \in Unit /\ <<"head", 0, Len(package)>> \in Unit
  BY DEF Unit
<1> DEFINE z == <<<<"zero", 0, 0>>>>
           h == <<<<"head", 0, Len(package)>>>>
<1>2. z \in Seq(Unit) /\ h \in Seq(Unit)
  BY <1>1
<1>3. Framed(package) = h \o package /\ Echo(package) = package \o z
  BY DEF Framed, Echo
<1> HIDE DEF z, h
<1>4. h \o package \in Seq(Unit)
  BY <1>2, Concatenation
<1>5. package \o z \in Seq(Unit)
  BY <1>2, Concatenation
<1> QED BY <1>3, <1>4, <1>5

\* What the client sends: first the request, then frame by frame.
LEMMA ScriptUnits ==
    /\ Script \in Seq(Unit) /\ Len(Script) = FrameStart(N) /\ FrameStart(0) = RequestSize
    /\ \A n \in 0 .. N : FrameStart(n) \in Nat /\ FrameStart(n) <= Len(Script)
    /\ \A i \in 1 .. RequestSize : Script[i] = <<"request", 0, i>>
    /\ \A i \in RequestSize + 1 .. Len(Script) : Script[i][1] = "frame"
    /\ \A n \in 1 .. N :
          /\ FrameStart(n) = FrameStart(n - 1) + 1 + Payloads[n]
          /\ Script[FrameStart(n - 1) + 1] = FrameHead(n)
          /\ \A i \in 1 .. Payloads[n] : Script[FrameStart(n - 1) + 1 + i] = <<"frame", n, i>>
<1> DEFINE J == Joined(FrameSeqs)
           all == J[N]
<1>1. FrameSeqs \in Seq(Seq(FrameUnit)) /\ Len(FrameSeqs) = N /\ \A n \in 1 .. N : FrameSeqs[n] = FrameUnits(n)
  BY WsSizes, FrameUnitsOf DEF FrameSeqs
<1>2. /\ J[0] = <<>> /\ J[N] = FlattenSeq(FrameSeqs)
      /\ \A n \in 1 .. N : J[n] = J[n - 1] \o FrameUnits(n)
      /\ \A n \in 0 .. N : J[n] \in Seq(FrameUnit) /\ Len(J[n]) \in Nat
  <2>1. Joins(J, FrameSeqs) /\ \A n \in 0 .. N : J[n] \in Seq(FrameUnit)
    BY <1>1, Joining
  <2> HIDE DEF J
  <2>2. J[0] = <<>> /\ J[N] = FlattenSeq(FrameSeqs)
    BY <1>1, <2>1 DEF Joins
  <2>3. \A n \in 1 .. N : J[n] = J[n - 1] \o FrameUnits(n)
    BY <1>1, <2>1 DEF Joins
  <2>4. \A n \in 0 .. N : Len(J[n]) \in Nat
    BY <2>1
  <2> QED BY <2>1, <2>2, <2>3, <2>4
<1>3. \A n \in 0 .. N : /\ Len(J[n]) <= Len(all)
                        /\ \A j \in 1 .. Len(J[n]) : all[j] = J[n][j]
  <2>1. ASSUME NEW n \in 0 .. N
        PROVE  /\ Len(J[n]) <= Len(all)
               /\ \A j \in 1 .. Len(J[n]) : all[j] = J[n][j]
    <3>1. n \in 0 .. Len(FrameSeqs) /\ N \in n .. Len(FrameSeqs)
      BY <1>1, WsSizes
    <3> QED BY <1>1, <3>1, JoinedPrefix
  <2> QED BY <2>1
<1>4. Script = Request \o all
  BY <1>2 DEF Script, FrameSeqs, FrameUnits
<1>5. /\ all \in Seq(FrameUnit) /\ all \in Seq(Unit) /\ Len(all) \in Nat
      /\ \A j \in 1 .. Len(all) : all[j] \in FrameUnit
  <2>1. all \in Seq(FrameUnit)
    BY <1>2, WsSizes
  <2> HIDE DEF all
  <2>2. FrameUnit \subseteq Unit
    BY DEF FrameUnit
  <2> QED BY <2>1, <2>2
<1>6. \A n \in 0 .. N : FrameStart(n) = RequestSize + Len(J[n])
  BY DEF FrameStart
<1> HIDE DEF J, all
<1>7. /\ Script \in Seq(Unit) /\ Len(Script) = RequestSize + Len(all)
      /\ \A i \in 1 .. RequestSize : Script[i] = <<"request", 0, i>>
      /\ \A j \in 1 .. Len(all) : Script[RequestSize + j] = all[j]
  <2>1. Request \in Seq(Unit) /\ Len(Request) = RequestSize
    BY RequestUnits
  <2>2. Script \in Seq(Unit) /\ Len(Script) = RequestSize + Len(all)
    BY <1>4, <1>5, <2>1, Concatenation
  <2>3. \A i \in 1 .. Len(Request) : Script[i] = Request[i]
    BY <1>4, <1>5, <2>1, Concatenation
  <2>4. \A j \in 1 .. Len(all) : Script[Len(Request) + j] = all[j]
    BY <1>4, <1>5, <2>1, Concatenation
  <2> QED BY <2>1, <2>2, <2>3, <2>4, RequestUnits
<1>8. ASSUME NEW i \in RequestSize + 1 .. Len(Script) PROVE Script[i][1] = "frame"
  <2>1. i - RequestSize \in 1 .. Len(all) /\ RequestSize + (i - RequestSize) = i
    BY <1>5, <1>7, WsSizes
  <2>2. Script[i] = all[i - RequestSize] /\ all[i - RequestSize] \in FrameUnit
    BY <1>5, <1>7, <2>1
  <2> QED BY <2>2 DEF FrameUnit
<1>9. ASSUME NEW n \in 1 .. N
      PROVE  /\ FrameStart(n) = FrameStart(n - 1) + 1 + Payloads[n]
             /\ Script[FrameStart(n - 1) + 1] = FrameHead(n)
             /\ \A i \in 1 .. Payloads[n] : Script[FrameStart(n - 1) + 1 + i] = <<"frame", n, i>>
  <2> DEFINE u == J[n - 1]
             v == FrameUnits(n)
  <2>1. n - 1 \in 0 .. N /\ n \in 0 .. N /\ Payloads[n] \in Nat
    BY WsSizes
  <2>2. u \in Seq(FrameUnit) /\ Len(u) \in Nat /\ J[n] = u \o v
    BY <1>2, <2>1
  <2>3. /\ v \in Seq(FrameUnit) /\ Len(v) = 1 + Payloads[n] /\ v[1] = FrameHead(n)
        /\ \A i \in 1 .. Payloads[n] : v[1 + i] = <<"frame", n, i>>
    BY FrameUnitsOf
  <2>4. FrameStart(n) = RequestSize + Len(J[n]) /\ FrameStart(n - 1) = RequestSize + Len(u)
    BY <1>6, <2>1
  <2>5. Len(J[n]) <= Len(all) /\ \A j \in 1 .. Len(J[n]) : all[j] = J[n][j]
    BY <1>3, <2>1
  <2> HIDE DEF u, v
  <2>6. Len(u \o v) = Len(u) + Len(v)
    BY <2>2, <2>3, Concatenation
  <2>7. \A i \in 1 .. Len(v) : (u \o v)[Len(u) + i] = v[i]
    BY <2>2, <2>3, Concatenation
  <2>8. \A i \in 1 .. Len(v) : Script[RequestSize + (Len(u) + i)] = v[i]
    <3>1. ASSUME NEW i \in 1 .. Len(v) PROVE Script[RequestSize + (Len(u) + i)] = v[i]
      <4>1. Len(u) + i \in 1 .. Len(J[n]) /\ Len(u) + i \in 1 .. Len(all)
        <5>1. Len(J[n]) = Len(u) + Len(v) /\ Len(v) \in Nat
          BY <2>1, <2>2, <2>3, <2>6
        <5> QED BY <1>5, <2>2, <2>5, <5>1
      <4>2. Script[RequestSize + (Len(u) + i)] = all[Len(u) + i] /\ all[Len(u) + i] = J[n][Len(u) + i]
        BY <1>7, <2>5, <4>1
      <4> QED BY <2>2, <2>7, <4>2
    <3> QED BY <3>1
  <2>9. FrameStart(n) = FrameStart(n - 1) + 1 + Payloads[n]
    BY <2>1, <2>2, <2>3, <2>4, <2>6, WsSizes
  <2>10. Script[FrameStart(n - 1) + 1] = FrameHead(n)
    <3> DEFINE b == FrameStart(n - 1)
               k == Len(u)
               l == Len(v)
    <3>1. b = RequestSize + k /\ k \in Nat /\ l = 1 + Payloads[n] /\ Payloads[n] \in Nat
      BY <2>1, <2>2, <2>3, <2>4
    <3> HIDE DEF b, k, l
    <3>2. 1 \in 1 .. l /\ b + 1 = RequestSize + (k + 1)
      BY <3>1, WsSizes
    <3>3. Script[RequestSize + (k + 1)] = v[1]
      BY <2>8, <3>2 DEF k, l
    <3> QED BY <2>3, <3>2, <3>3 DEF b
  <2>11. ASSUME NEW i \in 1 .. Payloads[n]
         PROVE  Script[FrameStart(n - 1) + 1 + i] = <<"frame", n, i>>
    <3> DEFINE b == FrameStart(n - 1)
               k == Len(u)
               l == Len(v)
    <3>1. b = RequestSize + k /\ k \in Nat /\ l = 1 + Payloads[n] /\ Payloads[n] \in Nat
      BY <2>1, <2>2, <2>3, <2>4
    <3> HIDE DEF b, k, l
    <3>2. 1 + i \in 1 .. l /\ b + 1 + i = RequestSize + (k + (1 + i))
      BY <3>1, WsSizes
    <3>3. Script[RequestSize + (k + (1 + i))] = v[1 + i]
      BY <2>8, <3>2 DEF k, l
    <3> QED BY <2>3, <3>2, <3>3 DEF b
  <2> QED BY <2>9, <2>10, <2>11
<1>10. \A n \in 0 .. N : FrameStart(n) \in Nat /\ FrameStart(n) <= Len(Script)
  <2>1. ASSUME NEW n \in 0 .. N PROVE FrameStart(n) \in Nat /\ FrameStart(n) <= Len(Script)
    <3>1. FrameStart(n) = RequestSize + Len(J[n]) /\ Len(J[n]) \in Nat /\ Len(J[n]) <= Len(all)
      BY <1>2, <1>3, <1>6
    <3> QED BY <1>5, <1>7, <3>1, WsSizes
  <2> QED BY <2>1
<1>11. FrameStart(0) = RequestSize /\ Len(Script) = FrameStart(N)
  <2>1. 0 \in 0 .. N /\ N \in 0 .. N /\ Len(J[0]) = 0 /\ all = J[N]
    BY <1>2, WsSizes DEF all
  <2>2. Len(J[0]) = 0 => FrameStart(0) = RequestSize
    BY <1>6, <2>1, WsSizes
  <2>3. Len(Script) = FrameStart(N)
    BY <1>6, <1>7, <2>1
  <2> QED BY <2>1, <2>2, <2>3
<1> QED BY <1>7, <1>8, <1>9, <1>10, <1>11

\* What the client receives, reply by reply.
LEMMA SaidUnits ==
    /\ Said(0) = <<>> /\ Said(1) = Response(KeyUnit)
    /\ \A n \in 1 .. N : Said(n + 1) = Said(n) \o Framed(Echo(Payload(n)))
    /\ \A n \in 0 .. N + 1 : Said(n) \in Seq(Unit) /\ Len(Said(n)) <= Len(Answers)
                             /\ \A i \in 1 .. Len(Said(n)) : Said(n)[i] = Answers[i]
    /\ Answers \in Seq(Unit)
<1> DEFINE J == Joined(EchoSeqs)
           r == Response(KeyUnit)
           all == J[N]
<1>1. /\ EchoSeqs \in Seq(Seq(Unit)) /\ Len(EchoSeqs) = N
      /\ \A n \in 1 .. N : EchoSeqs[n] = Framed(Echo(Payload(n))) /\ EchoSeqs[n] \in Seq(Unit)
  <2>1. \A n \in 1 .. N : Framed(Echo(Payload(n))) \in Seq(Unit)
    BY PayloadUnits, FramedUnits
  <2> QED BY <2>1, WsSizes DEF EchoSeqs
<1>2. /\ J[0] = <<>> /\ J[N] = FlattenSeq(EchoSeqs)
      /\ \A n \in 1 .. N : J[n] = J[n - 1] \o EchoSeqs[n]
      /\ \A n \in 0 .. N : J[n] \in Seq(Unit) /\ Len(J[n]) \in Nat
  <2>1. Joins(J, EchoSeqs) /\ \A n \in 0 .. N : J[n] \in Seq(Unit)
    BY <1>1, Joining
  <2> HIDE DEF J
  <2>2. J[0] = <<>> /\ J[N] = FlattenSeq(EchoSeqs)
    BY <1>1, <2>1 DEF Joins
  <2>3. \A n \in 1 .. N : J[n] = J[n - 1] \o EchoSeqs[n]
    BY <1>1, <2>1 DEF Joins
  <2>4. \A n \in 0 .. N : Len(J[n]) \in Nat
    BY <2>1
  <2> QED BY <2>1, <2>2, <2>3, <2>4
<1>3. \A n \in 0 .. N : /\ Len(J[n]) <= Len(all)
                        /\ \A j \in 1 .. Len(J[n]) : all[j] = J[n][j]
  <2>1. ASSUME NEW n \in 0 .. N
        PROVE  /\ Len(J[n]) <= Len(all)
               /\ \A j \in 1 .. Len(J[n]) : all[j] = J[n][j]
    <3>1. n \in 0 .. Len(EchoSeqs) /\ N \in n .. Len(EchoSeqs)
      BY <1>1, WsSizes
    <3> QED BY <1>1, <3>1, JoinedPrefix
  <2> QED BY <2>1
<1>4. r \in Seq(Unit) /\ Len(r) \in Nat
  BY WsSizes, ResponseUnits
<1>5. Answers = r \o all
  BY <1>2 DEF Answers, EchoSeqs
<1>6. all \in Seq(Unit) /\ Len(all) \in Nat
  BY <1>2, WsSizes
<1>7. \A n \in 1 .. N + 1 : Said(n) = r \o J[n - 1]
  BY DEF Said
<1> HIDE DEF J, r, all
<1>8. Said(0) = <<>> /\ Said(1) = r
  <2>1. 1 \in 1 .. N + 1 /\ 1 - 1 = 0
    BY WsSizes
  <2>2. Said(1) = r \o <<>>
    BY <1>2, <1>7, <2>1
  <2>3. r \o <<>> = r
    BY <1>4, ConcatEmptySeq
  <2> QED BY <2>2, <2>3 DEF Said
<1>9. ASSUME NEW n \in 1 .. N PROVE Said(n + 1) = Said(n) \o EchoSeqs[n]
  <2>1. n + 1 \in 1 .. N + 1 /\ n \in 1 .. N + 1 /\ (n + 1) - 1 = n /\ n - 1 \in 0 .. N
    BY WsSizes
  <2> DEFINE u == J[n - 1]
             v == EchoSeqs[n]
  <2>2. Said(n + 1) = r \o (u \o v) /\ Said(n) = r \o u
    BY <1>2, <1>7, <2>1
  <2>3. u \in Seq(Unit) /\ v \in Seq(Unit)
    BY <1>1, <1>2, <2>1
  <2> HIDE DEF u, v
  <2>4. r \o (u \o v) = (r \o u) \o v
    BY <1>4, <2>3, Associate, SMTT(30)
  <2> QED BY <2>2, <2>4 DEF v
<1>10. ASSUME NEW n \in 0 .. N + 1
       PROVE  /\ Said(n) \in Seq(Unit) /\ Len(Said(n)) <= Len(Answers)
              /\ \A i \in 1 .. Len(Said(n)) : Said(n)[i] = Answers[i]
  <2>1. Answers \in Seq(Unit) /\ Len(Answers) = Len(r) + Len(all)
    BY <1>4, <1>5, <1>6, Concatenation
  <2>2. CASE n = 0
    <3>1. Said(n) = <<>> /\ <<>> \in Seq(Unit) /\ Len(<<>>) = 0 /\ Len(Answers) \in Nat
      BY <1>8, <2>1, <2>2
    <3> QED BY <3>1
  <2>3. CASE n # 0
    <3> DEFINE u == J[n - 1]
    <3>1. n \in 1 .. N + 1 /\ n - 1 \in 0 .. N
      BY <2>3, WsSizes
    <3>2. /\ Said(n) = r \o u /\ u \in Seq(Unit) /\ Len(u) \in Nat
          /\ Len(u) <= Len(all) /\ \A j \in 1 .. Len(u) : all[j] = u[j]
      BY <1>2, <1>3, <1>7, <3>1
    <3> HIDE DEF u
    <3>3. r \o u \in Seq(Unit) /\ Len(r \o u) = Len(r) + Len(u)
      BY <1>4, <3>2, Concatenation
    <3>4. \A i \in 1 .. Len(r) : (r \o u)[i] = r[i] /\ (r \o all)[i] = r[i]
      BY <1>4, <1>6, <3>2, Concatenation
    <3>5. \A j \in 1 .. Len(u) : (r \o u)[Len(r) + j] = u[j]
      BY <1>4, <3>2, Concatenation
    <3>6. \A j \in 1 .. Len(all) : (r \o all)[Len(r) + j] = all[j]
      BY <1>4, <1>6, Concatenation
    <3>7. ASSUME NEW i \in 1 .. Len(r \o u) PROVE (r \o u)[i] = (r \o all)[i]
      <4>1. CASE i <= Len(r)
        BY <1>4, <3>4, <4>1
      <4>2. CASE i > Len(r)
        <5>1. i - Len(r) \in 1 .. Len(u) /\ i - Len(r) \in 1 .. Len(all) /\ Len(r) + (i - Len(r)) = i
          BY <1>4, <1>6, <3>2, <3>3, <4>2
        <5>2. (r \o u)[i] = u[i - Len(r)] /\ (r \o all)[i] = all[i - Len(r)]
          BY <3>5, <3>6, <5>1
        <5> QED BY <3>2, <5>1, <5>2
      <4> QED BY <1>4, <3>2, <3>3, <4>1, <4>2
    <3>8. Len(r \o u) <= Len(Answers)
      BY <1>4, <1>6, <2>1, <3>2, <3>3
    <3> QED BY <1>5, <3>2, <3>3, <3>7, <3>8
  <2> QED BY <2>2, <2>3
<1>11. Answers \in Seq(Unit)
  BY <1>4, <1>5, <1>6, Concatenation
<1> QED BY <1>1, <1>8, <1>9, <1>10, <1>11 DEF r

\* A reply is a sequence of units.
LEMMA ReplyUnits ==
    ASSUME NEW n \in 1 .. N + 1
    PROVE  Reply(n) \in Seq(Unit)
<1>1. Response(KeyUnit) \in Seq(Unit)
  BY WsSizes, ResponseUnits
<1>2. CASE n # 1
  <2>1. n - 1 \in 1 .. N
    BY <1>2, WsSizes
  <2> QED BY <1>2, <2>1, PayloadUnits, FramedUnits DEF Reply
<1> QED BY <1>1, <1>2 DEF Reply

-----------------------------------------------------------------------------
(* Counting packages on their way to the main thread *)

Messages == [kind : {"connected", "recv", "onsend", "close"}, package : Seq(Unit)]

IsRecv(s, j) == s[j].kind = "recv"

\* How many of the first i messages carry a package.
Recvs(s, i) == Cardinality({j \in 1 .. i : IsRecv(s, j)})

\* They are counted one by one.
LEMMA RecvsCount ==
    ASSUME NEW s
    PROVE  /\ \A i \in Nat : Recvs(s, i) \in Nat
           /\ Recvs(s, 0) = 0
           /\ \A i \in Nat \ {0} : Recvs(s, i) = Recvs(s, i - 1) + (IF IsRecv(s, i) THEN 1 ELSE 0)
           /\ \A i \in Nat : \A j \in 0 .. i : Recvs(s, j) <= Recvs(s, i)
<1> DEFINE R(i) == {j \in 1 .. i : IsRecv(s, j)}
<1>1. \A i \in Nat : IsFiniteSet(R(i))
  <2>1. ASSUME NEW i \in Nat PROVE IsFiniteSet(R(i))
    <3>1. IsFiniteSet(1 .. i) /\ R(i) \subseteq 1 .. i
      BY FS_Interval
    <3> QED BY <3>1, FS_Subset
  <2> QED BY <2>1
<1>2. \A i \in Nat : Recvs(s, i) \in Nat
  BY <1>1, FS_CardinalityType DEF Recvs
<1>3. Recvs(s, 0) = 0
  <2>1. R(0) = {}
    OBVIOUS
  <2> QED BY <2>1, FS_EmptySet DEF Recvs
<1>4. ASSUME NEW i \in Nat \ {0}
      PROVE  Recvs(s, i) = Recvs(s, i - 1) + (IF IsRecv(s, i) THEN 1 ELSE 0)
  <2>1. i - 1 \in Nat /\ i \notin R(i - 1) /\ IsFiniteSet(R(i - 1))
    BY <1>1
  <2>2. CASE IsRecv(s, i)
    <3>1. R(i) = R(i - 1) \cup {i}
      BY <2>2
    <3>2. Cardinality(R(i - 1) \cup {i}) = Cardinality(R(i - 1)) + 1
      <4> HIDE DEF R
      <4> QED BY <2>1, FS_AddElement
    <3> QED BY <2>2, <3>1, <3>2 DEF Recvs
  <2>3. CASE ~IsRecv(s, i)
    <3>1. R(i) = R(i - 1)
      <4>1. \A j \in R(i) : j # i
        BY <2>3
      <4> QED BY <4>1
    <3>2. Recvs(s, i) = Recvs(s, i - 1) /\ Recvs(s, i - 1) \in Nat
      BY <1>2, <2>1, <3>1 DEF Recvs
    <3> QED BY <2>3, <3>2
  <2> QED BY <2>2, <2>3
<1>5. ASSUME NEW i \in Nat, NEW j \in 0 .. i PROVE Recvs(s, j) <= Recvs(s, i)
  <2>1. R(j) \subseteq R(i) /\ IsFiniteSet(R(i))
    BY <1>1
  <2>2. Cardinality(R(j)) <= Cardinality(R(i))
    <3> HIDE DEF R
    <3> QED BY <2>1, FS_Subset
  <2> QED BY <2>2 DEF Recvs
<1> QED BY <1>2, <1>3, <1>4, <1>5

\* A message more.
LEMMA RecvsAppend ==
    ASSUME NEW s \in Seq(Messages), NEW m \in Messages
    PROVE  /\ \A i \in 0 .. Len(s) : Recvs(Append(s, m), i) = Recvs(s, i)
           /\ Recvs(Append(s, m), Len(s) + 1) = Recvs(s, Len(s)) + (IF m.kind = "recv" THEN 1 ELSE 0)
<1> DEFINE t == Append(s, m)
<1>1. Len(s) \in Nat /\ \A j \in 1 .. Len(s) : t[j] = s[j]
  OBVIOUS
<1>2. t[Len(s) + 1] = m
  OBVIOUS
<1> HIDE DEF t
<1>3. ASSUME NEW i \in 0 .. Len(s) PROVE Recvs(t, i) = Recvs(s, i)
  <2>1. {j \in 1 .. i : IsRecv(t, j)} = {j \in 1 .. i : IsRecv(s, j)}
    BY <1>1 DEF IsRecv
  <2> QED BY <2>1 DEF Recvs
<1>4. Recvs(t, Len(s) + 1) = Recvs(s, Len(s)) + (IF m.kind = "recv" THEN 1 ELSE 0)
  <2>1. Len(s) + 1 \in Nat \ {0} /\ (Len(s) + 1) - 1 = Len(s) /\ Len(s) \in 0 .. Len(s)
    BY <1>1
  <2>2. Recvs(t, Len(s) + 1) = Recvs(t, Len(s)) + (IF IsRecv(t, Len(s) + 1) THEN 1 ELSE 0)
    BY <2>1, RecvsCount
  <2> QED BY <1>2, <1>3, <2>1, <2>2 DEF IsRecv
<1> QED BY <1>3, <1>4 DEF t

\* The first message is taken.
LEMMA RecvsTail ==
    ASSUME NEW s \in Seq(Messages), s # <<>>
    PROVE  \A i \in 0 .. Len(s) - 1 :
              Recvs(s, i + 1) = Recvs(Tail(s), i) + (IF IsRecv(s, 1) THEN 1 ELSE 0)
<1> DEFINE t == Tail(s)
           one == IF IsRecv(s, 1) THEN 1 ELSE 0
           S == {i \in Nat : i <= Len(s) - 1 => Recvs(s, i + 1) = Recvs(t, i) + one}
<1>1. Len(s) \in Nat /\ Len(s) >= 1 /\ \A j \in 1 .. Len(s) - 1 : t[j] = s[j + 1]
  BY Shifted
<1> HIDE DEF t
<1>2. one \in Nat
  OBVIOUS
<1>3. 0 \in S
  <2>1. Recvs(s, 0) = 0 /\ Recvs(t, 0) = 0
    BY RecvsCount
  <2>2. Recvs(s, 1) = Recvs(s, 1 - 1) + one
    BY RecvsCount
  <2> HIDE DEF one
  <2> QED BY <1>2, <2>1, <2>2
<1>4. ASSUME NEW i \in Nat, i \in S PROVE i + 1 \in S
  <2>1. ASSUME i + 1 <= Len(s) - 1 PROVE Recvs(s, (i + 1) + 1) = Recvs(t, i + 1) + one
    <3>1. Recvs(s, i + 1) = Recvs(t, i) + one
      BY <1>1, <1>4, <2>1
    <3>2. IsRecv(t, i + 1) = IsRecv(s, (i + 1) + 1)
      BY <1>1, <2>1 DEF IsRecv
    <3> DEFINE more == IF IsRecv(t, i + 1) THEN 1 ELSE 0
    <3> DEFINE k == i + 1
               l == k + 1
    <3>3. k \in Nat \ {0} /\ l \in Nat \ {0} /\ k - 1 = i /\ l - 1 = k
      OBVIOUS
    <3>4. Recvs(t, k) = Recvs(t, i) + more /\ Recvs(s, l) = Recvs(s, k) + more
      <4> DEFINE more2 == IF IsRecv(s, l) THEN 1 ELSE 0
      <4>1. more2 = more
        BY <3>2
      <4> HIDE DEF k, l
      <4>2. Recvs(t, k) = Recvs(t, k - 1) + (IF IsRecv(t, k) THEN 1 ELSE 0)
        BY <3>3, RecvsCount
      <4>3. Recvs(s, l) = Recvs(s, l - 1) + more2
        BY <3>3, RecvsCount
      <4> QED BY <3>3, <4>1, <4>2, <4>3 DEF k
    <3>5. Recvs(t, i) \in Nat /\ more \in Nat
      BY RecvsCount
    <3> HIDE DEF one, more
    <3> QED BY <1>2, <3>1, <3>4, <3>5
  <2> QED BY <2>1
<1>5. Nat \subseteq S
  <2> HIDE DEF S
  <2> QED BY <1>3, <1>4, AllNumbers
<1> QED BY <1>1, <1>5 DEF t

-----------------------------------------------------------------------------
(* The inductive invariant *)

Events == [kind : {"send", "close"}, package : Seq(Unit)]

\* Types of all variables.
TypesInv ==
    /\ sent \in 0 .. Len(Script) /\ pc \in {"deal", "check", "pop"}
    /\ left \in BOOLEAN /\ failed \in BOOLEAN /\ overrun \in BOOLEAN
    /\ refused \in BOOLEAN /\ early \in BOOLEAN
    /\ state \in {"none", "request", "response", "connected", "deleted"}
    /\ unread \in Seq(Unit) /\ recvBuff \in Seq(Unit)
    /\ sendBuff \in Seq(Unit) /\ received \in Seq(Unit)
    /\ messages \in Seq(Messages) /\ posted \in Seq(Events) /\ output \in Seq(Seq(Unit))
    /\ Len(unread) + Len(recvBuff) <= sent

\* The session's first and last message.
QueueInv ==
    /\ \A i \in 1 .. Len(messages) : messages[i].kind = "close" => i = Len(messages) /\ failed
    /\ state = "deleted" => failed /\ messages = <<>>
    /\ \A i \in 1 .. Len(messages) : messages[i].kind = "connected" => i = 1 /\ state = "none"
    /\ state = "none" => messages # <<>> /\ messages[1].kind = "connected"

\* What is not yet cut is the end of what the client has sent.
Contiguous ==
    /\ \A i \in 1 .. Len(recvBuff) : recvBuff[i] = Script[sent - Len(unread) - Len(recvBuff) + i]
    /\ \A i \in 1 .. Len(unread) : unread[i] = Script[sent - Len(unread) + i]

BasicInv ==
    /\ TypesInv /\ QueueInv
    /\ failed => pc = "deal"
    /\ pc = "pop" => recvBuff # <<>>
    /\ ~failed => Contiguous

Handshaking == state \in {"none", "request"}

\* Nothing of the request is left to be cut.
Drained == failed \/ (recvBuff = <<>> /\ unread = <<>>)

\* The beginning of the request.
Piece(p) == Len(p) \in 1 .. RequestSize /\ \A k \in 1 .. Len(p) : p[k] = <<"request", 0, k>>

\* A close that was posted is before all sends.
ClosesFirst == failed \/ \E c \in 1 .. Len(posted) :
    posted[c].kind = "close" /\ \A i \in 1 .. c - 1 : posted[i].kind # "send"

\* The request on its way to OnRecv, in one package or more.
PiecesInv ==
    /\ ~refused => posted = <<>>
    /\ ~refused /\ ~failed /\ (\A i \in 1 .. Len(messages) : ~IsRecv(messages, i))
         => Len(recvBuff) + Len(unread) = sent
    /\ ~refused => \A i \in 1 .. Len(messages) :
         IsRecv(messages, i) /\ (\A j \in 1 .. i - 1 : ~IsRecv(messages, j))
           => Piece(messages[i].package)
    /\ \A i \in 1 .. Len(messages) : IsRecv(messages, i) /\ EndsRequest(messages[i].package)
         => /\ Drained /\ sent = RequestSize
            /\ \A j \in i + 1 .. Len(messages) : ~IsRecv(messages, j)

\* A session that has not answered its request, or is closed for it.
UnansweredInv ==
    /\ ~early /\ ~overrun /\ sent <= RequestSize
    /\ received = <<>> /\ sendBuff = <<>> /\ output = <<>>
    /\ state # "connected"
    /\ \A i \in 1 .. Len(messages) : messages[i].kind # "onsend"
    /\ Handshaking => PiecesInv
    /\ ~Handshaking => /\ Drained /\ sent = RequestSize
                       /\ \A i \in 1 .. Len(messages) : ~IsRecv(messages, i)
    /\ refused => ClosesFirst

OutputsWhole == Len(output) <= N /\ \A i \in 1 .. Len(output) : output[i] = Payload(i)

\* How many frames have been cut, and how many replies put into the send buffer.
Popped == Len(output) + Recvs(messages, Len(messages))
Run == 1 + Len(output) - Len(posted)

\* A session that has: each frame is a package of its own, and each package a reply.
AnsweredInv ==
    /\ ~overrun
    /\ OutputsWhole
    /\ Popped <= N
    /\ \A i \in 1 .. Len(messages) : IsRecv(messages, i)
         => messages[i].package = Payload(Len(output) + Recvs(messages, i))
    /\ ~failed => sent = FrameStart(Popped) + Len(recvBuff) + Len(unread)
    /\ Len(posted) <= 1 + Len(output)
    /\ \A i \in 1 .. Len(posted) : posted[i] = Message("send", Reply(Run + i))
    /\ ~failed => received \o sendBuff = Said(Run)
    /\ state = "response" => Popped = 0
    /\ state = "connected" \/ (\E i \in 1 .. Len(messages) : messages[i].kind = "onsend")
         => received # <<>>
    /\ pc = "pop" => Header /\ Whole(recvBuff)
    /\ IsPrefix(received, Answers)

\* A session that is deleted.
DeletedInv ==
    /\ refused => received = <<>>
    /\ ~early => ~overrun /\ OutputsWhole /\ IsPrefix(received, Answers)

Unanswered == state # "deleted" /\ (Handshaking \/ refused)
Answering == state # "deleted" /\ ~Handshaking /\ ~refused /\ ~early

WsInv ==
    /\ BasicInv
    /\ state = "deleted" => DeletedInv
    /\ Unanswered => UnansweredInv
    /\ Answering => AnsweredInv

\* It says what the runs check.
LEMMA WsInvImplies ==
    ASSUME WsInv
    PROVE  /\ TypeOK /\ FramesWhole
           /\ ~early => IsPrefix(received, Answers)
           /\ refused => received = <<>>
<1>1. TypeOK
  <2>1. DOMAIN messages = 1 .. Len(messages) /\ DOMAIN posted = 1 .. Len(posted)
    BY DEF WsInv, BasicInv, TypesInv
  <2>2. /\ \A i \in 1 .. Len(messages) : messages[i] \in Messages
        /\ \A i \in 1 .. Len(posted) : posted[i] \in Events
    BY DEF WsInv, BasicInv, TypesInv
  <2>3. /\ \A i \in 1 .. Len(messages) : messages[i].kind \in {"connected", "recv", "onsend", "close"}
        /\ \A i \in 1 .. Len(posted) : posted[i].kind \in {"send", "close"}
    BY <2>2 DEF Messages, Events
  <2>4. {left, failed, overrun, refused, early} \subseteq BOOLEAN
    BY DEF WsInv, BasicInv, TypesInv
  <2>5. state = "deleted" => messages = <<>> /\ pc = "deal"
    BY DEF WsInv, BasicInv, QueueInv
  <2>6. \A i, j \in DOMAIN messages :
           messages[i].kind = "close" /\ messages[j].kind = "close" => i = j
    <3>1. \A i \in 1 .. Len(messages) : messages[i].kind = "close" => i = Len(messages)
      BY DEF WsInv, BasicInv, QueueInv
    <3> QED BY <2>1, <3>1
  <2>7. /\ sent \in 0 .. Len(Script) /\ pc \in {"deal", "check", "pop"}
        /\ state \in {"none", "request", "response", "connected", "deleted"}
        /\ Len(unread) + Len(recvBuff) <= sent
    BY DEF WsInv, BasicInv, TypesInv
  <2>8. /\ \A i \in DOMAIN messages : messages[i].kind \in {"connected", "recv", "onsend", "close"}
        /\ \A i \in DOMAIN posted : posted[i].kind \in {"send", "close"}
    BY <2>1, <2>3
  <2> QED BY <2>4, <2>5, <2>6, <2>7, <2>8 DEF TypeOK
<1>2. state = "deleted" \/ Unanswered \/ Answering \/ (early /\ ~refused)
  BY DEF Unanswered, Answering, WsInv, BasicInv, TypesInv
<1>3. DOMAIN output = 1 .. Len(output)
  BY DEF WsInv, BasicInv, TypesInv
<1>4. UnansweredInv => received = <<>> /\ ~overrun /\ output = <<>>
  BY DEF UnansweredInv
<1>5. IsPrefix(<<>>, Answers)
  <2>1. <<>> \in Seq(Unit) /\ Len(<<>>) = 0 /\ Answers \in Seq(Unit) /\ Len(Answers) \in Nat
    BY SaidUnits
  <2>2. Len(<<>>) <= Len(Answers) /\ \A i \in 1 .. Len(<<>>) : <<>>[i] = Answers[i]
    BY <2>1
  <2> QED BY <2>1, <2>2, PrefixElements
<1>6. FramesWhole
  BY <1>2, <1>3, <1>4 DEF WsInv, DeletedInv, AnsweredInv, OutputsWhole, FramesWhole
<1>7. /\ ~early => IsPrefix(received, Answers)
      /\ refused => received = <<>>
  BY <1>2, <1>4, <1>5 DEF WsInv, DeletedInv, AnsweredInv, Answering
<1> QED BY <1>1, <1>6, <1>7

\* At the start the session has one message, and nothing has been sent.
LEMMA WsInit == Init => WsInv
<1> SUFFICES ASSUME Init PROVE WsInv
  OBVIOUS
<1>1. /\ messages = <<Message("connected", <<>>)>> /\ Len(messages) = 1
      /\ messages[1].kind = "connected"
  BY DEF Init, Message
<1>2. TypesInv
  <2>1. messages \in Seq(Messages)
    BY <1>1 DEF Messages, Message
  <2>2. Len(Script) \in Nat
    BY ScriptUnits
  <2>3. /\ unread = <<>> /\ recvBuff = <<>> /\ sendBuff = <<>> /\ received = <<>>
        /\ posted = <<>> /\ output = <<>> /\ sent = 0
    BY DEF Init
  <2>4. /\ unread \in Seq(Unit) /\ recvBuff \in Seq(Unit)
        /\ sendBuff \in Seq(Unit) /\ received \in Seq(Unit)
        /\ posted \in Seq(Events) /\ output \in Seq(Seq(Unit))
    BY <2>3
  <2>5. Len(unread) + Len(recvBuff) <= sent /\ sent \in 0 .. Len(Script)
    BY <2>2, <2>3
  <2>6. /\ pc \in {"deal", "check", "pop"}
        /\ left \in BOOLEAN /\ failed \in BOOLEAN /\ overrun \in BOOLEAN
        /\ refused \in BOOLEAN /\ early \in BOOLEAN
        /\ state \in {"none", "request", "response", "connected", "deleted"}
    BY DEF Init
  <2> QED BY <2>1, <2>4, <2>5, <2>6 DEF TypesInv
<1>3. QueueInv
  <2>1. \A i \in 1 .. Len(messages) : i = 1
    BY <1>1
  <2> QED BY <1>1, <2>1 DEF Init, QueueInv
<1>4. BasicInv
  BY <1>2, <1>3 DEF Init, BasicInv, Contiguous
<1>5. PiecesInv
  <2>1. \A i \in 1 .. Len(messages) : ~IsRecv(messages, i)
    BY <1>1 DEF IsRecv
  <2> QED BY <2>1 DEF Init, PiecesInv
<1>6. UnansweredInv
  BY <1>1, <1>5, WsSizes DEF Init, UnansweredInv, Handshaking
<1> QED BY <1>4, <1>6 DEF Init, WsInv, Answering, Handshaking

-----------------------------------------------------------------------------
(* The client *)

\* Closing the connection disturbs nothing of it.
LEMMA LeaveKeeps ==
    ASSUME WsInv, Leave
    PROVE  WsInv'
<1>1. /\ left' = TRUE
      /\ UNCHANGED <<sent, unread, received, pc, failed, overrun, recvBuff, sendBuff, posted,
                     messages, state, refused, output, early>>
  BY DEF Leave, ioVars, sessionVars
<1>2. BasicInv'
  BY <1>1 DEF WsInv, BasicInv, TypesInv, QueueInv, Contiguous
<1>3. (Unanswered => UnansweredInv)'
  BY <1>1 DEF WsInv, Unanswered, Handshaking, UnansweredInv, PiecesInv, Drained, ClosesFirst,
      EndsRequest
<1>4. (Answering => AnsweredInv)'
  BY <1>1 DEF WsInv, Answering, Handshaking, AnsweredInv, OutputsWhole, Popped, Run, Header, Whole,
      FrameLength
<1>5. (state = "deleted" => DeletedInv)'
  BY <1>1 DEF WsInv, DeletedInv, OutputsWhole
<1> QED BY <1>2, <1>3, <1>4, <1>5 DEF WsInv

\* A segment is behind what arrived before, and a session that has not answered
\* gets no more than the request.
LEMMA SegmentKeeps ==
    ASSUME WsInv, Segment
    PROVE  WsInv'
<1>1. /\ UNCHANGED <<left, received, pc, failed, overrun, recvBuff, sendBuff, posted, messages,
                     state, refused, output, early>>
      /\ \E n \in sent + 1 .. Len(Script) :
          /\ sent < RequestSize => n <= RequestSize
          /\ n > RequestSize => IsPrefix(Response(KeyUnit), received)
          /\ sent' = n
          /\ unread' = IF failed THEN unread ELSE unread \o SubSeq(Script, sent + 1, n)
  BY DEF Segment, ioVars, sessionVars
<1>2. BasicInv
  BY DEF WsInv
<1>3. /\ Script \in Seq(Unit) /\ Len(Script) \in Nat /\ sent \in Nat /\ sent < sent'
      /\ sent' \in Nat /\ sent' <= Len(Script)
      /\ sent < RequestSize => sent' <= RequestSize
      /\ sent' > RequestSize => IsPrefix(Response(KeyUnit), received)
  BY <1>1, <1>2, ScriptUnits DEF BasicInv, TypesInv
<1> DEFINE d == SubSeq(Script, sent + 1, sent')
<1>4. d \in Seq(Unit) /\ Len(d) = sent' - sent /\ \A i \in 1 .. sent' - sent : d[i] = Script[sent + i]
  <2>1. sent \in 0 .. Len(Script) /\ sent' \in sent .. Len(Script)
    BY <1>3
  <2> QED BY <1>3, <2>1, Part
<1>5. unread' = IF failed THEN unread ELSE unread \o d
  BY <1>1
<1> HIDE DEF d
<1>6. unread \in Seq(Unit) /\ Len(unread) \in Nat /\ recvBuff \in Seq(Unit) /\ Len(recvBuff) \in Nat
      /\ Len(unread) + Len(recvBuff) <= sent
  BY <1>2 DEF BasicInv, TypesInv
<1>7. /\ unread' \in Seq(Unit)
      /\ ~failed => Len(unread') = Len(unread) + (sent' - sent)
      /\ ~failed => \A i \in 1 .. Len(unread) : unread'[i] = unread[i]
      /\ ~failed => \A i \in 1 .. sent' - sent : unread'[Len(unread) + i] = d[i]
  <2>1. /\ unread \o d \in Seq(Unit) /\ Len(unread \o d) = Len(unread) + (sent' - sent)
        /\ \A i \in 1 .. Len(unread) : (unread \o d)[i] = unread[i]
        /\ \A i \in 1 .. Len(d) : (unread \o d)[Len(unread) + i] = d[i]
    <3>1. d \in Seq(Unit) /\ unread \in Seq(Unit)
      BY <1>4, <1>6
    <3>2. unread \o d \in Seq(Unit) /\ Len(unread \o d) = Len(unread) + Len(d)
      BY <3>1, Concatenation
    <3>3. \A i \in 1 .. Len(unread) : (unread \o d)[i] = unread[i]
      BY <3>1, Concatenation
    <3>4. \A i \in 1 .. Len(d) : (unread \o d)[Len(unread) + i] = d[i]
      BY <3>1, Concatenation
    <3> QED BY <1>4, <3>2, <3>3, <3>4
  <2> QED BY <1>4, <1>5, <1>6, <2>1
<1>8. TypesInv'
  <2>1. Len(unread') + Len(recvBuff') <= sent'
    BY <1>1, <1>3, <1>5, <1>6, <1>7
  <2> QED BY <1>1, <1>2, <1>3, <1>7, <2>1 DEF BasicInv, TypesInv
<1>9. ~failed => Contiguous'
  <2> SUFFICES ASSUME ~failed PROVE Contiguous'
    OBVIOUS
  <2>1. ASSUME NEW i \in 1 .. Len(recvBuff)
        PROVE  recvBuff[i] = Script[sent' - Len(unread') - Len(recvBuff) + i]
    <3>1. sent' - Len(unread') - Len(recvBuff) + i = sent - Len(unread) - Len(recvBuff) + i
      <4> DEFINE u == Len(unread)
                 w == Len(unread')
                 r == Len(recvBuff)
                 z == sent'
      <4>1. /\ w = u + (z - sent) /\ u \in Nat /\ w \in Nat /\ r \in Nat /\ i \in Nat
            /\ z \in Nat /\ sent \in Nat
        BY <1>3, <1>6, <1>7
      <4> HIDE DEF u, w, r, z
      <4>2. z - w - r + i = sent - u - r + i
        BY <4>1
      <4> QED BY <4>2 DEF u, w, r, z
    <3> QED BY <1>2, <3>1 DEF BasicInv, Contiguous
  <2>2. ASSUME NEW i \in 1 .. Len(unread')
        PROVE  unread'[i] = Script[sent' - Len(unread') + i]
    <3>1. sent' - Len(unread') + i = sent - Len(unread) + i
      <4> DEFINE u == Len(unread)
                 w == Len(unread')
                 z == sent'
      <4>1. /\ w = u + (z - sent) /\ u \in Nat /\ w \in Nat /\ i \in Nat
            /\ z \in Nat /\ sent \in Nat
        BY <1>3, <1>6, <1>7
      <4> HIDE DEF u, w, z
      <4>2. z - w + i = sent - u + i
        BY <4>1
      <4> QED BY <4>2 DEF u, w, z
    <3>2. CASE i <= Len(unread)
      <4>1. i \in 1 .. Len(unread)
        BY <1>6, <3>2
      <4>2. unread[i] = Script[sent - Len(unread) + i]
        BY <1>2, <4>1 DEF BasicInv, Contiguous
      <4> QED BY <1>7, <3>1, <4>1, <4>2
    <3>3. CASE ~(i <= Len(unread))
      <4> DEFINE j == i - Len(unread)
      <4>1. j \in 1 .. sent' - sent /\ Len(unread) + j = i /\ sent - Len(unread) + i = sent + j
        BY <1>3, <1>6, <1>7, <3>3
      <4> HIDE DEF j
      <4>2. unread'[Len(unread) + j] = d[j] /\ d[j] = Script[sent + j]
        BY <1>4, <1>7, <4>1
      <4> QED BY <3>1, <4>1, <4>2
    <3> QED BY <3>2, <3>3
  <2> QED BY <1>1, <2>1, <2>2 DEF Contiguous
<1>10. BasicInv'
  BY <1>1, <1>2, <1>8, <1>9 DEF BasicInv, QueueInv
<1>11. (Unanswered => UnansweredInv)'
  <2> SUFFICES ASSUME Unanswered PROVE UnansweredInv'
    BY <1>1 DEF Unanswered, Handshaking
  <2>1. UnansweredInv
    BY DEF WsInv
  <2>2. ~IsPrefix(Response(KeyUnit), received)
    <3>1. received = <<>> /\ KeyUnit \in Nat
      BY <2>1, WsSizes DEF UnansweredInv
    <3>2. Len(Response(KeyUnit)) = ResponseSize /\ Response(KeyUnit) \in Seq(Unit)
      BY <3>1, ResponseUnits
    <3>3. received \in Seq(Unit) /\ Len(received) = 0
      BY <3>1
    <3>4. IsPrefix(Response(KeyUnit), received) => Len(Response(KeyUnit)) <= Len(received)
      BY <3>2, <3>3, PrefixElements
    <3> QED BY <3>2, <3>3, <3>4, WsSizes
  <2>3. sent' <= RequestSize /\ sent < RequestSize
    BY <1>3, <2>2, WsSizes
  <2>4. Handshaking /\ PiecesInv
    <3>1. sent # RequestSize
      BY <1>3, <2>3, WsSizes
    <3> QED BY <2>1, <3>1 DEF UnansweredInv
  <2>5. PiecesInv'
    <3>1. (~refused /\ ~failed /\ (\A i \in 1 .. Len(messages) : ~IsRecv(messages, i))
            => Len(recvBuff) + Len(unread) = sent)'
      <4> SUFFICES ASSUME ~refused, ~failed, \A i \in 1 .. Len(messages) : ~IsRecv(messages, i)
                   PROVE  Len(recvBuff) + Len(unread') = sent'
        BY <1>1 DEF IsRecv
      <4>1. Len(recvBuff) + Len(unread) = sent
        BY <2>4 DEF PiecesInv
      <4>2. Len(unread') = Len(unread) + (sent' - sent)
        BY <1>7
      <4> QED BY <1>3, <1>6, <4>1, <4>2
    <3>2. \A i \in 1 .. Len(messages) :
             IsRecv(messages, i) => ~EndsRequest(messages[i].package)
      <4>1. sent # RequestSize
        BY <1>3, <2>3, WsSizes
      <4> QED BY <2>4, <4>1 DEF PiecesInv
    <3> QED BY <1>1, <2>4, <3>1, <3>2 DEF PiecesInv, IsRecv, EndsRequest
  <2> QED BY <1>1, <2>1, <2>3, <2>4, <2>5 DEF UnansweredInv, Handshaking, ClosesFirst
<1>12. (Answering => AnsweredInv)'
  <2> SUFFICES ASSUME Answering PROVE AnsweredInv'
    BY <1>1 DEF Answering, Handshaking
  <2>1. AnsweredInv
    BY DEF WsInv
  <2>2. Popped' = Popped /\ Run' = Run
    BY <1>1 DEF Popped, Run, Recvs, IsRecv
  <2>3. ~failed => sent' = FrameStart(Popped) + Len(recvBuff) + Len(unread')
    <3>1. ~failed => sent = FrameStart(Popped) + Len(recvBuff) + Len(unread)
      BY <2>1 DEF AnsweredInv
    <3>2. Popped <= N /\ Popped \in Nat
      <4>1. Len(output) \in Nat /\ Len(messages) \in Nat
        BY <1>2 DEF BasicInv, TypesInv
      <4>2. Recvs(messages, Len(messages)) \in Nat
        BY <4>1, RecvsCount
      <4> QED BY <2>1, <4>1, <4>2 DEF AnsweredInv, Popped
    <3>3. FrameStart(Popped) \in Nat
      BY <3>2, ScriptUnits, WsSizes
    <3>4. ~failed => Len(unread') = Len(unread) + (sent' - sent)
      BY <1>7
    <3>5. Len(unread) \in Nat /\ Len(recvBuff) \in Nat /\ sent \in Nat /\ sent' \in Nat
      BY <1>3, <1>6
    <3> DEFINE f == FrameStart(Popped)
               r == Len(recvBuff)
               u == Len(unread)
               w == Len(unread')
               z == sent'
    <3>6. /\ ~failed => sent = f + r + u
          /\ ~failed => w = u + (z - sent)
          /\ f \in Nat /\ r \in Nat /\ u \in Nat /\ sent \in Nat /\ z \in Nat
      BY <3>1, <3>3, <3>4, <3>5
    <3> HIDE DEF f, r, u, w, z
    <3>7. ~failed => z = f + r + w
      BY <3>6
    <3> QED BY <3>7 DEF f, r, w, z
  <2> QED BY <1>1, <2>1, <2>2, <2>3 DEF AnsweredInv, OutputsWhole, Header, Whole, FrameLength,
      IsRecv, Recvs
<1>13. (state = "deleted" => DeletedInv)'
  BY <1>1 DEF WsInv, DeletedInv, OutputsWhole
<1> QED BY <1>10, <1>11, <1>12, <1>13 DEF WsInv

-----------------------------------------------------------------------------
(* The I/O thread *)

\* A message is behind the others, and those stay what they are.
LEMMA MessageAppended ==
    ASSUME NEW s \in Seq(Messages), NEW m \in Messages, NEW t, t = Append(s, m)
    PROVE  /\ t \in Seq(Messages) /\ Len(s) \in Nat /\ Len(t) = Len(s) + 1 /\ t[Len(s) + 1] = m
           /\ \A i \in 1 .. Len(s) : t[i] = s[i] /\ IsRecv(t, i) = IsRecv(s, i)
           /\ IsRecv(t, Len(s) + 1) = (m.kind = "recv")
           /\ \A i \in 0 .. Len(s) : Recvs(t, i) = Recvs(s, i)
           /\ Recvs(t, Len(t)) = Recvs(s, Len(s)) + (IF m.kind = "recv" THEN 1 ELSE 0)
<1>1. /\ t \in Seq(Messages) /\ Len(s) \in Nat /\ Len(t) = Len(s) + 1 /\ t[Len(s) + 1] = m
      /\ \A i \in 1 .. Len(s) : t[i] = s[i]
  BY Appended
<1>2. \A i \in 1 .. Len(s) : IsRecv(t, i) = IsRecv(s, i)
  BY <1>1 DEF IsRecv
<1>3. IsRecv(t, Len(s) + 1) = (m.kind = "recv")
  BY <1>1 DEF IsRecv
<1>4. /\ \A i \in 0 .. Len(s) : Recvs(t, i) = Recvs(s, i)
      /\ Recvs(t, Len(t)) = Recvs(s, Len(s)) + (IF m.kind = "recv" THEN 1 ELSE 0)
  BY <1>1, RecvsAppend
<1> QED BY <1>1, <1>2, <1>3, <1>4

\* The I/O thread sends its messages in order, and none after the last.
LEMMA QueueAppended ==
    ASSUME TypesInv, QueueInv, ~failed, NEW m \in Messages, m.kind # "connected",
           messages' = Append(messages, m), state' = state, failed' = (m.kind = "close")
    PROVE  QueueInv'
<1>1. /\ messages \in Seq(Messages) /\ Len(messages) \in Nat
      /\ Len(messages') = Len(messages) + 1 /\ messages'[Len(messages) + 1] = m
      /\ \A i \in 1 .. Len(messages) : messages'[i] = messages[i]
      /\ messages' \in Seq(Messages)
  <2>1. messages \in Seq(Messages)
    BY DEF TypesInv
  <2> QED BY <2>1, MessageAppended
<1>2. \A i \in 1 .. Len(messages') : i \in 1 .. Len(messages) \/ i = Len(messages) + 1
  BY <1>1
<1>3. \A i \in 1 .. Len(messages) : messages[i].kind # "close"
  BY DEF QueueInv
<1>4. \A i \in 1 .. Len(messages') : messages'[i].kind = "close" => i = Len(messages') /\ failed'
  BY <1>1, <1>2, <1>3
<1>5. state' # "deleted"
  BY DEF QueueInv
<1>6. \A i \in 1 .. Len(messages') : messages'[i].kind = "connected" => i = 1 /\ state' = "none"
  BY <1>1, <1>2 DEF QueueInv
<1>7. state' = "none" => messages' # <<>> /\ messages'[1].kind = "connected"
  <2> SUFFICES ASSUME state = "none" PROVE messages' # <<>> /\ messages'[1].kind = "connected"
    OBVIOUS
  <2>1. messages # <<>> /\ messages[1].kind = "connected"
    BY DEF QueueInv
  <2>2. 1 \in 1 .. Len(messages)
    BY <1>1, <2>1
  <2>3. messages' # <<>>
    BY <1>1
  <2> QED BY <1>1, <2>1, <2>2, <2>3
<1> QED BY <1>4, <1>5, <1>6, <1>7 DEF QueueInv

\* What is received moves from one end to the other.
LEMMA RecvKeeps ==
    ASSUME WsInv, Recv
    PROVE  WsInv'
<1>1. /\ pc = "deal" /\ ~failed /\ unread # <<>> /\ recvBuff' = recvBuff \o unread
      /\ unread' = <<>> /\ pc' = "check"
      /\ UNCHANGED <<sent, left, received, failed, overrun, sendBuff, posted, messages, state,
                     refused, output, early>>
  BY DEF Recv, sessionVars
<1>2. BasicInv /\ state # "deleted"
  BY <1>1 DEF WsInv, BasicInv, QueueInv
<1>3. /\ unread \in Seq(Unit) /\ Len(unread) \in Nat /\ recvBuff \in Seq(Unit)
      /\ Len(recvBuff) \in Nat /\ Len(unread) + Len(recvBuff) <= sent /\ sent \in Nat
  <2>1. Len(Script) \in Nat
    BY ScriptUnits
  <2> QED BY <1>2, <2>1 DEF BasicInv, TypesInv
<1>4. /\ recvBuff' \in Seq(Unit) /\ Len(recvBuff') = Len(recvBuff) + Len(unread)
      /\ \A i \in 1 .. Len(recvBuff) : recvBuff'[i] = recvBuff[i]
      /\ \A i \in 1 .. Len(unread) : recvBuff'[Len(recvBuff) + i] = unread[i]
  <2>1. unread \in Seq(Unit) /\ recvBuff \in Seq(Unit)
    BY <1>3
  <2>2. recvBuff \o unread \in Seq(Unit) /\ Len(recvBuff \o unread) = Len(recvBuff) + Len(unread)
    BY <2>1, Concatenation
  <2>3. \A i \in 1 .. Len(recvBuff) : (recvBuff \o unread)[i] = recvBuff[i]
    BY <2>1, Concatenation
  <2>4. \A i \in 1 .. Len(unread) : (recvBuff \o unread)[Len(recvBuff) + i] = unread[i]
    BY <2>1, Concatenation
  <2> QED BY <1>1, <2>2, <2>3, <2>4
<1>5. unread' \in Seq(Unit) /\ Len(unread') = 0
  BY <1>1
<1>6. Contiguous'
  <2>1. ASSUME NEW i \in 1 .. Len(recvBuff')
        PROVE  recvBuff'[i] = Script[sent - 0 - Len(recvBuff') + i]
    <3>1. CASE i <= Len(recvBuff)
      <4>1. i \in 1 .. Len(recvBuff)
            /\ sent - 0 - Len(recvBuff') + i = sent - Len(unread) - Len(recvBuff) + i
        BY <1>3, <1>4, <3>1
      <4> QED BY <1>1, <1>2, <1>4, <4>1 DEF BasicInv, Contiguous
    <3>2. CASE ~(i <= Len(recvBuff))
      <4> DEFINE j == i - Len(recvBuff)
      <4>1. j \in 1 .. Len(unread) /\ Len(recvBuff) + j = i
            /\ sent - 0 - Len(recvBuff') + i = sent - Len(unread) + j
        BY <1>3, <1>4, <3>2
      <4> HIDE DEF j
      <4>2. unread[j] = Script[sent - Len(unread) + j]
        BY <1>1, <1>2, <4>1 DEF BasicInv, Contiguous
      <4>3. recvBuff'[Len(recvBuff) + j] = unread[j]
        BY <1>4, <4>1
      <4> QED BY <4>1, <4>2, <4>3
    <3> QED BY <3>1, <3>2
  <2>2. \A i \in 1 .. Len(unread') : FALSE
    BY <1>5
  <2> QED BY <1>1, <1>5, <2>1, <2>2 DEF Contiguous
<1>7. BasicInv'
  <2>1. Len(unread') + Len(recvBuff') <= sent
    BY <1>3, <1>4, <1>5
  <2>2. TypesInv'
    BY <1>1, <1>2, <1>4, <1>5, <2>1 DEF BasicInv, TypesInv
  <2> QED BY <1>1, <1>2, <1>6, <2>2 DEF BasicInv, QueueInv
<1>8. ~Drained
  BY <1>1 DEF Drained
<1>9. (Unanswered => UnansweredInv)'
  <2> SUFFICES ASSUME Unanswered PROVE UnansweredInv'
    BY <1>1 DEF Unanswered, Handshaking
  <2>1. UnansweredInv /\ Handshaking /\ PiecesInv
    BY <1>8 DEF WsInv, UnansweredInv
  <2>2. Len(recvBuff') + Len(unread') = Len(recvBuff) + Len(unread)
    BY <1>3, <1>4, <1>5
  <2>3. PiecesInv'
    BY <1>1, <1>8, <2>1, <2>2 DEF PiecesInv, IsRecv, EndsRequest
  <2> QED BY <1>1, <2>1, <2>3 DEF UnansweredInv, Handshaking, ClosesFirst
<1>10. (Answering => AnsweredInv)'
  <2> SUFFICES ASSUME Answering PROVE AnsweredInv'
    BY <1>1 DEF Answering, Handshaking
  <2>1. AnsweredInv
    BY DEF WsInv
  <2>2. Popped' = Popped /\ Run' = Run
    BY <1>1 DEF Popped, Run, Recvs, IsRecv
  <2>3. sent = FrameStart(Popped) + Len(recvBuff') + Len(unread')
    <3>1. sent = FrameStart(Popped) + Len(recvBuff) + Len(unread)
      BY <1>1, <2>1 DEF AnsweredInv
    <3>2. Popped \in 0 .. N
      <4>1. Len(output) \in Nat /\ Len(messages) \in Nat
        BY <1>2 DEF BasicInv, TypesInv
      <4>2. Recvs(messages, Len(messages)) \in Nat
        BY <4>1, RecvsCount
      <4> QED BY <2>1, <4>1, <4>2, WsSizes DEF AnsweredInv, Popped
    <3>3. FrameStart(Popped) \in Nat
      BY <3>2, ScriptUnits
    <3> QED BY <1>3, <1>4, <1>5, <3>1, <3>3
  <2> QED BY <1>1, <2>1, <2>2, <2>3 DEF AnsweredInv, OutputsWhole, IsRecv, Recvs
<1> QED BY <1>1, <1>2, <1>7, <1>9, <1>10 DEF WsInv

\* The counts are numbers.
LEMMA Counts ==
    ASSUME TypesInv
    PROVE  /\ Len(output) \in Nat /\ Len(posted) \in Nat /\ Len(messages) \in Nat
           /\ Recvs(messages, Len(messages)) \in Nat /\ Popped \in Nat /\ Run \in Int
           /\ Len(recvBuff) \in Nat /\ Len(unread) \in Nat /\ sent \in Nat
           /\ Len(recvBuff) + Len(unread) <= sent
           /\ AnsweredInv => Popped \in 0 .. N /\ FrameStart(Popped) \in Nat
<1>1. Len(output) \in Nat /\ Len(posted) \in Nat /\ Len(messages) \in Nat
  BY DEF TypesInv
<1>2. Recvs(messages, Len(messages)) \in Nat
  BY <1>1, RecvsCount
<1>3. Popped \in Nat /\ Run \in Int
  BY <1>1, <1>2 DEF Popped, Run
<1>4. AnsweredInv => Popped \in 0 .. N /\ FrameStart(Popped) \in Nat
  <2>1. AnsweredInv => Popped \in 0 .. N
    BY <1>3, WsSizes DEF AnsweredInv
  <2> QED BY <2>1, ScriptUnits
<1>5. /\ Len(recvBuff) \in Nat /\ Len(unread) \in Nat /\ sent \in Nat
      /\ Len(recvBuff) + Len(unread) <= sent
  <2>1. Len(Script) \in Nat
    BY ScriptUnits
  <2> QED BY <2>1 DEF TypesInv
<1> QED BY <1>1, <1>2, <1>3, <1>4, <1>5

\* A message that carries no package changes no count.
LEMMA QuietMessage ==
    ASSUME TypesInv, NEW m \in Messages, m.kind # "recv", messages' = Append(messages, m),
           output' = output
    PROVE  /\ Popped' = Popped
           /\ \A i \in 1 .. Len(messages') : IsRecv(messages', i) =>
                 /\ i \in 1 .. Len(messages) /\ IsRecv(messages, i)
                 /\ messages'[i] = messages[i] /\ Recvs(messages', i) = Recvs(messages, i)
           /\ \A i \in 1 .. Len(messages) : IsRecv(messages', i) = IsRecv(messages, i)
<1>1. messages \in Seq(Messages)
  BY DEF TypesInv
<1>2. /\ Len(messages) \in Nat /\ Len(messages') = Len(messages) + 1
      /\ \A i \in 1 .. Len(messages) : messages'[i] = messages[i]
                                       /\ IsRecv(messages', i) = IsRecv(messages, i)
      /\ IsRecv(messages', Len(messages) + 1) = (m.kind = "recv")
  <2>1. Len(messages) \in Nat /\ Len(messages') = Len(messages) + 1
    BY <1>1, MessageAppended
  <2>2. \A i \in 1 .. Len(messages) : messages'[i] = messages[i]
                                      /\ IsRecv(messages', i) = IsRecv(messages, i)
    <3>1. \A i \in 1 .. Len(messages) : messages'[i] = messages[i]
      BY <1>1, MessageAppended
    <3> QED BY <3>1 DEF IsRecv
  <2>3. IsRecv(messages', Len(messages) + 1) = (m.kind = "recv")
    BY <1>1, MessageAppended
  <2> QED BY <2>1, <2>2, <2>3
<1>3. \A i \in 0 .. Len(messages) : Recvs(messages', i) = Recvs(messages, i)
  BY <1>1, MessageAppended
<1>4. Recvs(messages', Len(messages')) = Recvs(messages, Len(messages))
  <2>1. Recvs(messages, Len(messages)) \in Nat
    BY <1>2, RecvsCount
  <2>2. Recvs(messages', Len(messages')) = Recvs(messages, Len(messages)) + (IF m.kind = "recv" THEN 1 ELSE 0)
    BY <1>1, MessageAppended
  <2> QED BY <2>1, <2>2
<1>5. ASSUME NEW i \in 1 .. Len(messages'), IsRecv(messages', i)
      PROVE  i \in 1 .. Len(messages)
  <2>1. i # Len(messages) + 1
    BY <1>2, <1>5
  <2> QED BY <1>2, <1>5, <2>1
<1>6. ASSUME NEW i \in 1 .. Len(messages'), IsRecv(messages', i)
      PROVE  /\ i \in 1 .. Len(messages) /\ IsRecv(messages, i)
             /\ messages'[i] = messages[i] /\ Recvs(messages', i) = Recvs(messages, i)
  <2>1. i \in 1 .. Len(messages) /\ i \in 0 .. Len(messages)
    BY <1>2, <1>5, <1>6
  <2> QED BY <1>2, <1>3, <1>6, <2>1
<1> QED BY <1>2, <1>4, <1>6 DEF Popped

\* After the first error all that is left is in the messages.
LEMMA FailKeeps ==
    ASSUME WsInv, pc = "deal", ~failed, Fail, posted' \in Seq(Events),
           posted' = posted \/ refused \/ early,
           UNCHANGED <<netVars, pc, overrun, recvBuff, sendBuff, state, refused, output, early>>
    PROVE  WsInv'
<1> DEFINE m == Message("close", <<>>)
<1>1. m \in Messages /\ m.kind = "close"
  BY DEF Messages, Message
<1>2. /\ failed' = TRUE /\ messages' = Append(messages, m)
      /\ UNCHANGED <<sent, left, unread, received, pc, overrun, recvBuff, sendBuff, state, refused,
                     output, early>>
  BY DEF Fail, netVars
<1> HIDE DEF m
<1>3. BasicInv /\ state # "deleted" /\ TypesInv /\ QueueInv /\ messages \in Seq(Messages)
  BY DEF WsInv, BasicInv, QueueInv, TypesInv
<1>4. /\ messages' \in Seq(Messages) /\ Len(messages) \in Nat
      /\ Len(messages') = Len(messages) + 1 /\ messages'[Len(messages) + 1] = m
      /\ \A i \in 1 .. Len(messages) : messages'[i] = messages[i]
  BY <1>1, <1>2, <1>3, MessageAppended
<1>5. BasicInv'
  <2>1. QueueInv'
    BY <1>1, <1>2, <1>3, QueueAppended
  <2>2. TypesInv'
    BY <1>2, <1>3, <1>4 DEF TypesInv
  <2> QED BY <1>2, <1>3, <2>1, <2>2 DEF BasicInv
<1>6. /\ Popped' = Popped
      /\ \A i \in 1 .. Len(messages') : IsRecv(messages', i) =>
            /\ i \in 1 .. Len(messages) /\ IsRecv(messages, i)
            /\ messages'[i] = messages[i] /\ Recvs(messages', i) = Recvs(messages, i)
      /\ \A i \in 1 .. Len(messages) : IsRecv(messages', i) = IsRecv(messages, i)
  BY <1>1, <1>2, <1>3, QuietMessage
<1>7. \A i \in 1 .. Len(messages') : i \in 1 .. Len(messages) \/ messages'[i] = m
  BY <1>4
<1>8. (Unanswered => UnansweredInv)'
  <2> SUFFICES ASSUME Unanswered PROVE UnansweredInv'
    BY <1>2 DEF Unanswered, Handshaking
  <2>1. UnansweredInv /\ ~early
    BY DEF WsInv, UnansweredInv
  <2>2. \A i \in 1 .. Len(messages') : messages'[i].kind # "onsend"
    BY <1>1, <1>4, <1>7, <2>1 DEF UnansweredInv
  <2>3. Drained' /\ ClosesFirst'
    BY <1>2 DEF Drained, ClosesFirst
  <2>4. Handshaking => PiecesInv'
    <3> SUFFICES ASSUME Handshaking PROVE PiecesInv'
      OBVIOUS
    <3>1. PiecesInv
      BY <2>1 DEF UnansweredInv
    <3>2. ~refused => posted' = <<>>
      BY <2>1, <3>1 DEF PiecesInv
    <3>3. ASSUME ~refused, NEW i \in 1 .. Len(messages'), IsRecv(messages', i),
                 \A j \in 1 .. i - 1 : ~IsRecv(messages', j)
          PROVE  Piece(messages'[i].package)
      <4>1. i \in 1 .. Len(messages) /\ IsRecv(messages, i) /\ messages'[i] = messages[i]
        BY <1>6, <3>3
      <4>2. \A j \in 1 .. i - 1 : j \in 1 .. Len(messages)
        BY <1>4, <4>1
      <4>3. \A j \in 1 .. i - 1 : ~IsRecv(messages, j)
        BY <1>6, <3>3, <4>2
      <4> QED BY <3>1, <3>3, <4>1, <4>3 DEF PiecesInv
    <3>4. ASSUME NEW i \in 1 .. Len(messages'), IsRecv(messages', i),
                 EndsRequest(messages'[i].package)
          PROVE  sent = RequestSize /\ \A j \in i + 1 .. Len(messages') : ~IsRecv(messages', j)
      <4>1. i \in 1 .. Len(messages) /\ IsRecv(messages, i) /\ messages'[i] = messages[i]
        BY <1>6, <3>4
      <4>2. sent = RequestSize /\ \A j \in i + 1 .. Len(messages) : ~IsRecv(messages, j)
        BY <3>1, <3>4, <4>1 DEF PiecesInv
      <4>3. ASSUME NEW j \in i + 1 .. Len(messages'), IsRecv(messages', j) PROVE FALSE
        <5>1. j \in 1 .. Len(messages')
          BY <1>4, <4>1
        <5>2. j \in 1 .. Len(messages) /\ IsRecv(messages, j)
          BY <1>6, <4>3, <5>1
        <5>3. j \in i + 1 .. Len(messages)
          BY <1>4, <4>1, <5>2
        <5> QED BY <4>2, <5>2, <5>3
      <4> QED BY <4>2, <4>3
    <3>5. refused' = refused /\ failed' /\ sent' = sent
      BY <1>2
    <3> QED BY <2>3, <3>2, <3>3, <3>4, <3>5 DEF PiecesInv, EndsRequest
  <2>5. ~Handshaking => sent = RequestSize /\ \A i \in 1 .. Len(messages') : ~IsRecv(messages', i)
    BY <1>6, <2>1 DEF UnansweredInv
  <2> QED BY <1>2, <2>1, <2>2, <2>3, <2>4, <2>5 DEF UnansweredInv, Handshaking
<1>9. (Answering => AnsweredInv)'
  <2> SUFFICES ASSUME Answering PROVE AnsweredInv'
    BY <1>2 DEF Answering, Handshaking
  <2>1. AnsweredInv
    BY DEF WsInv
  <2>2. posted' = posted /\ Run' = Run
    BY <1>2 DEF Answering, Run
  <2>3. ASSUME NEW i \in 1 .. Len(messages'), messages'[i].kind = "onsend"
        PROVE  i \in 1 .. Len(messages) /\ messages[i].kind = "onsend"
    BY <1>1, <1>4, <1>7, <2>3
  <2>4. state = "connected" \/ (\E i \in 1 .. Len(messages') : messages'[i].kind = "onsend")
          => received # <<>>
    BY <2>1, <2>3 DEF AnsweredInv
  <2>5. \A i \in 1 .. Len(messages') : IsRecv(messages', i)
          => messages'[i].package = Payload(Len(output) + Recvs(messages', i))
    BY <1>6, <2>1 DEF AnsweredInv
  <2>6. OutputsWhole' /\ Popped' <= N /\ (state = "response" => Popped' = 0)
    BY <1>2, <1>6, <2>1 DEF AnsweredInv, OutputsWhole
  <2>7. IsPrefix(received, Answers) /\ ~overrun
    BY <2>1 DEF AnsweredInv
  <2>8. Len(posted) <= 1 + Len(output) /\ \A i \in 1 .. Len(posted) : posted[i] = Message("send", Reply(Run + i))
    BY <2>1 DEF AnsweredInv
  <2> QED BY <1>2, <2>2, <2>4, <2>5, <2>6, <2>7, <2>8 DEF AnsweredInv
<1> QED BY <1>2, <1>3, <1>5, <1>8, <1>9 DEF WsInv

\* The end of the stream.
LEMMA RecvEndsKeeps ==
    ASSUME WsInv, RecvEnds
    PROVE  WsInv'
<1>1. posted \in Seq(Events)
  BY DEF WsInv, BasicInv, TypesInv
<1> QED BY <1>1, FailKeeps DEF RecvEnds

\* The session's answer to what is in the buffer: nothing of frames is taken for a request.
LEMMA CheckKeeps ==
    ASSUME WsInv, Check
    PROVE  WsInv'
<1>1. /\ pc = "check" /\ pc' = IF CheckPackage(recvBuff) THEN "pop" ELSE "deal"
      /\ early' = (early \/ /\ ~Header /\ CheckPackage(recvBuff)
                            /\ \E i \in DOMAIN recvBuff : recvBuff[i][1] = "frame")
      /\ UNCHANGED <<sent, left, unread, received, failed, overrun, recvBuff, sendBuff, posted,
                     messages, state, refused, output>>
  BY DEF Check, netVars, sessionVars
<1>2. BasicInv /\ TypesInv /\ QueueInv /\ ~failed /\ Contiguous /\ state # "deleted"
  BY <1>1 DEF WsInv, BasicInv, QueueInv
<1>3. /\ recvBuff \in Seq(Unit) /\ Len(recvBuff) \in Nat /\ DOMAIN recvBuff = 1 .. Len(recvBuff)
      /\ Len(unread) \in Nat /\ sent \in Nat /\ Len(unread) + Len(recvBuff) <= sent
  BY <1>2, Counts DEF TypesInv
<1>4. CheckPackage(recvBuff) => recvBuff # <<>>
  <2>1. MinRead <= Len(recvBuff) => recvBuff # <<>>
    BY <1>3, WsSizes
  <2> QED BY <2>1 DEF CheckPackage
<1>5. BasicInv'
  <2>1. TypesInv'
    BY <1>1, <1>2 DEF TypesInv
  <2> QED BY <1>1, <1>2, <1>4, <2>1 DEF BasicInv, QueueInv, Contiguous
<1>6. (Unanswered => UnansweredInv)'
  <2> SUFFICES ASSUME Unanswered PROVE UnansweredInv'
    BY <1>1 DEF Unanswered, Handshaking
  <2>1. UnansweredInv /\ ~early /\ sent <= RequestSize
    BY DEF WsInv, UnansweredInv
  <2>2. ASSUME NEW i \in 1 .. Len(recvBuff) PROVE recvBuff[i][1] = "request"
    <3> DEFINE k == sent - Len(unread) - Len(recvBuff) + i
    <3>1. k \in 1 .. RequestSize
      BY <1>3, <2>1, WsSizes
    <3>2. recvBuff[i] = Script[k]
      BY <1>2 DEF Contiguous
    <3> HIDE DEF k
    <3> QED BY <3>1, <3>2, ScriptUnits
  <2>3. ~early'
    BY <1>1, <1>3, <2>1, <2>2
  <2>4. PiecesInv => PiecesInv'
    BY <1>1 DEF PiecesInv, IsRecv, EndsRequest, Drained
  <2> QED BY <1>1, <2>1, <2>3, <2>4 DEF UnansweredInv, Handshaking, ClosesFirst, Drained, IsRecv
<1>7. (Answering => AnsweredInv)'
  <2> SUFFICES ASSUME Answering, ~early' PROVE AnsweredInv'
    BY <1>1 DEF Answering, Handshaking
  <2>1. AnsweredInv
    BY DEF WsInv
  <2>2. Popped' = Popped /\ Run' = Run
    BY <1>1 DEF Popped, Run, Recvs, IsRecv
  <2>3. CASE Header
    <3>1. pc' = "pop" => Header' /\ Whole(recvBuff)'
      BY <1>1, <2>3 DEF CheckPackage, Header, Whole, FrameLength
    <3> QED BY <1>1, <2>1, <2>2, <3>1 DEF AnsweredInv, OutputsWhole, IsRecv, Recvs
  <2>4. CASE ~Header
    <3>1. state = "response" /\ Popped = 0
      BY <1>2, <2>1, <2>4 DEF Header, Answering, Handshaking, TypesInv, AnsweredInv
    <3>2. sent = RequestSize + Len(recvBuff) + Len(unread)
      BY <1>2, <2>1, <3>1, ScriptUnits DEF AnsweredInv
    <3>3. recvBuff = <<>> \/ ~CheckPackage(recvBuff)
      <4> SUFFICES ASSUME recvBuff # <<>>, CheckPackage(recvBuff) PROVE FALSE
        OBVIOUS
      <4> DEFINE k == sent - Len(unread) - Len(recvBuff) + 1
      <4>1. 1 \in 1 .. Len(recvBuff)
        BY <1>3
      <4>2. k \in RequestSize + 1 .. Len(Script)
        <5>1. Len(Script) \in Nat /\ sent <= Len(Script)
          BY <1>2, ScriptUnits DEF TypesInv
        <5> QED BY <1>3, <3>2, <4>1, <5>1, WsSizes
      <4>3. recvBuff[1] = Script[k]
        BY <1>2, <4>1 DEF Contiguous
      <4> HIDE DEF k
      <4>4. recvBuff[1][1] = "frame"
        BY <4>2, <4>3, ScriptUnits
      <4> QED BY <1>1, <1>3, <2>4, <4>1, <4>4
    <3>4. pc' = "deal"
      BY <1>1, <1>4, <3>3
    <3> QED BY <1>1, <2>1, <2>2, <3>4 DEF AnsweredInv, OutputsWhole, IsRecv, Recvs
  <2> QED BY <2>3, <2>4
<1> QED BY <1>1, <1>2, <1>5, <1>6, <1>7 DEF WsInv

\* The length of a frame, as long as there is something to read it from.
LEMMA FrameLengthRange ==
    ASSUME NEW buff \in Seq(Unit), buff # <<>>
    PROVE  FrameLength(buff) \in Nat \ {0}
<1>1. Head(buff) = buff[1] /\ buff[1] \in Unit
  BY Shifted
<1>2. buff[1][1] = "frame" => buff[1][2] \in 1 .. N
  BY <1>1 DEF Unit
<1> QED BY <1>1, <1>2, WsSizes DEF FrameLength

\* What is cut is a package of units, and there is something of it.
LEMMA CutRange ==
    ASSUME NEW buff \in Seq(Unit), buff # <<>>, Cut(buff) <= Len(buff)
    PROVE  Cut(buff) \in 1 .. Len(buff) /\ Content(buff) \in Seq(Unit)
<1>1. Len(buff) \in Nat /\ Len(buff) >= 1
  BY Shifted
<1>2. FrameLength(buff) \in Nat \ {0}
  BY FrameLengthRange
<1>3. Cut(buff) \in 1 .. Len(buff)
  BY <1>1, <1>2 DEF Cut
<1>4. CASE Header
  <2> DEFINE e == FrameLength(buff)
  <2>1. 1 \in 0 .. Len(buff) /\ e \in 1 .. Len(buff)
    BY <1>1, <1>3, <1>4 DEF Cut
  <2> HIDE DEF e
  <2>2. SubSeq(buff, 1 + 1, e) \in Seq(Unit)
    BY <2>1, Part
  <2> QED BY <1>3, <1>4, <2>2 DEF Content, e
<1>5. CASE ~Header
  BY <1>3, <1>5 DEF Content
<1> QED BY <1>4, <1>5

\* A frame that is whole is the next payload.
LEMMA NextFrame ==
    ASSUME TypesInv, Contiguous, AnsweredInv, ~failed, recvBuff # <<>>, Header, Whole(recvBuff)
    PROVE  /\ Popped + 1 \in 1 .. N
           /\ FrameLength(recvBuff) = 1 + Payloads[Popped + 1]
           /\ Content(recvBuff) = Payload(Popped + 1)
<1> DEFINE p == Popped + 1
<1>1. /\ recvBuff \in Seq(Unit) /\ Len(recvBuff) \in Nat /\ Len(unread) \in Nat /\ sent \in Nat
      /\ Popped \in 0 .. N /\ FrameStart(Popped) \in Nat /\ Len(recvBuff) >= 1
      /\ sent <= Len(Script) /\ Len(Script) \in Nat /\ N \in Nat
  <2>1. recvBuff \in Seq(Unit) /\ sent \in 0 .. Len(Script)
    BY DEF TypesInv
  <2>2. Len(recvBuff) >= 1
    BY <2>1, Shifted
  <2> QED BY <2>1, <2>2, Counts, ScriptUnits, WsSizes
<1>2. sent = FrameStart(Popped) + Len(recvBuff) + Len(unread)
  BY DEF AnsweredInv
<1>3. p \in 1 .. N
  <2>1. Popped # N
    <3> SUFFICES ASSUME Popped = N PROVE FALSE
      OBVIOUS
    <3>1. sent = Len(Script) + Len(recvBuff) + Len(unread)
      BY <1>2, ScriptUnits
    <3> QED BY <1>1, <3>1
  <2> QED BY <1>1, <2>1
<1>4. \A i \in 1 .. Len(recvBuff) : recvBuff[i] = Script[FrameStart(Popped) + i]
  <2> SUFFICES ASSUME NEW i \in 1 .. Len(recvBuff)
               PROVE  recvBuff[i] = Script[FrameStart(Popped) + i]
    OBVIOUS
  <2>1. sent - Len(unread) - Len(recvBuff) + i = FrameStart(Popped) + i
    BY <1>1, <1>2
  <2> QED BY <2>1 DEF Contiguous
<1>5. p - 1 = Popped /\ p \in Nat
  BY <1>1
<1> HIDE DEF p
<1>6. /\ Script[FrameStart(Popped) + 1] = FrameHead(p)
      /\ \A i \in 1 .. Payloads[p] : Script[FrameStart(Popped) + 1 + i] = <<"frame", p, i>>
  BY <1>3, <1>5, ScriptUnits
<1>7. Head(recvBuff) = <<"frame", p, 0>>
  <2>1. Head(recvBuff) = recvBuff[1] /\ 1 \in 1 .. Len(recvBuff)
    BY <1>1
  <2> QED BY <1>4, <1>6, <2>1 DEF FrameHead
<1>8. FrameLength(recvBuff) = 1 + Payloads[p]
  BY <1>7 DEF FrameLength
<1>9. Content(recvBuff) = Payload(p)
  <2> DEFINE e == FrameLength(recvBuff)
             c == SubSeq(recvBuff, 1 + 1, e)
  <2>1. Payloads[p] \in Nat /\ e = 1 + Payloads[p] /\ e <= Len(recvBuff)
    BY <1>3, <1>8, WsSizes DEF Whole
  <2>2. 1 \in 0 .. Len(recvBuff) /\ e \in 1 .. Len(recvBuff) /\ e - 1 = Payloads[p]
    BY <1>1, <2>1
  <2>3. Content(recvBuff) = c
    <3>1. 1 + 1 = 2
      OBVIOUS
    <3> QED BY <3>1 DEF Content
  <2> HIDE DEF e
  <2>4. c \in Seq(Unit) /\ Len(c) = Payloads[p] /\ \A i \in 1 .. Payloads[p] : c[i] = recvBuff[1 + i]
    BY <1>1, <2>2, Part
  <2> HIDE DEF c
  <2>5. ASSUME NEW i \in 1 .. Payloads[p] PROVE c[i] = Payload(p)[i]
    <3>1. 1 + i \in 1 .. Len(recvBuff) /\ FrameStart(Popped) + (1 + i) = FrameStart(Popped) + 1 + i
      BY <1>1, <2>1
    <3>2. recvBuff[1 + i] = Script[FrameStart(Popped) + 1 + i]
      BY <1>4, <3>1
    <3>3. c[i] = <<"frame", p, i>>
      BY <1>6, <2>4, <3>2
    <3>4. Payload(p)[i] = <<"frame", p, i>>
      BY <1>3, PayloadUnits
    <3> QED BY <3>3, <3>4
  <2>6. Payload(p) \in Seq(Unit) /\ Len(Payload(p)) = Payloads[p]
    BY <1>3, PayloadUnits
  <2>7. c = Payload(p)
    BY <2>4, <2>5, <2>6, SameSequence
  <2> QED BY <2>3, <2>7
<1> QED BY <1>3, <1>8, <1>9 DEF p

\* A package is what the session is to get: some of the request, or the next payload.
LEMMA PopKeeps ==
    ASSUME WsInv, Pop
    PROVE  WsInv'
<1>1. /\ pc = "pop"
      /\ UNCHANGED <<sent, left, unread, received, failed, sendBuff, posted, state, refused, output,
                     early>>
      /\ \/ /\ Cut(recvBuff) > Len(recvBuff)
            /\ overrun' = TRUE /\ UNCHANGED <<pc, recvBuff, messages>>
         \/ /\ ~(Cut(recvBuff) > Len(recvBuff))
            /\ messages' = Append(messages, Message("recv", Content(recvBuff)))
            /\ recvBuff' = SubSeq(recvBuff, Cut(recvBuff) + 1, Len(recvBuff))
            /\ pc' = "check" /\ UNCHANGED overrun
  BY DEF Pop, netVars
<1>2. /\ BasicInv /\ TypesInv /\ QueueInv /\ ~failed /\ Contiguous /\ state # "deleted"
      /\ recvBuff # <<>>
  BY <1>1 DEF WsInv, BasicInv, QueueInv
<1>3. /\ recvBuff \in Seq(Unit) /\ Len(recvBuff) \in Nat /\ Len(recvBuff) >= 1
      /\ Len(unread) \in Nat /\ sent \in Nat /\ Len(unread) + Len(recvBuff) <= sent
      /\ messages \in Seq(Messages) /\ Len(messages) \in Nat
  <2>1. recvBuff \in Seq(Unit) /\ messages \in Seq(Messages)
    BY <1>2 DEF TypesInv
  <2>2. Len(recvBuff) >= 1
    BY <1>2, <2>1, Shifted
  <2> QED BY <1>2, <2>1, <2>2, Counts
<1>4. ~Drained
  BY <1>2 DEF Drained
<1>5. Unanswered => UnansweredInv /\ Handshaking /\ PiecesInv
  BY <1>4 DEF WsInv, UnansweredInv
<1>6. Answering => AnsweredInv /\ Header /\ Whole(recvBuff)
  BY <1>1 DEF WsInv, AnsweredInv
<1>7. Unanswered => ~Header
  BY <1>5 DEF Header, Handshaking
<1>8. CASE Cut(recvBuff) > Len(recvBuff)
  <2>1. ~Unanswered
    BY <1>3, <1>7, <1>8 DEF Cut
  <2>2. ~Answering
    <3>1. FrameLength(recvBuff) \in Nat
      BY <1>2, <1>3, FrameLengthRange
    <3> QED BY <1>3, <1>6, <1>8, <3>1 DEF Cut, Whole
  <2>3. UNCHANGED <<pc, recvBuff, messages>> /\ overrun' = TRUE
    BY <1>1, <1>8
  <2>4. BasicInv'
    <3>1. TypesInv'
      BY <1>1, <1>2, <2>3 DEF TypesInv
    <3> QED BY <1>1, <1>2, <2>3, <3>1 DEF BasicInv, QueueInv, Contiguous
  <2> QED BY <1>1, <1>2, <2>1, <2>2, <2>4 DEF WsInv, Unanswered, Answering, Handshaking
<1>9. CASE ~(Cut(recvBuff) > Len(recvBuff))
  <2> DEFINE c == Cut(recvBuff)
             m == Message("recv", Content(recvBuff))
  <2>1. /\ messages' = Append(messages, m) /\ recvBuff' = SubSeq(recvBuff, c + 1, Len(recvBuff))
        /\ pc' = "check" /\ UNCHANGED overrun
    BY <1>1, <1>9
  <2>2. c \in 1 .. Len(recvBuff) /\ Content(recvBuff) \in Seq(Unit)
    <3>1. Cut(recvBuff) <= Len(recvBuff)
      <4>1. FrameLength(recvBuff) \in Nat
        BY <1>2, <1>3, FrameLengthRange
      <4>2. Cut(recvBuff) \in Nat
        BY <1>3, <4>1 DEF Cut
      <4> QED BY <1>3, <1>9, <4>2
    <3> QED BY <1>2, <1>3, <3>1, CutRange
  <2>3. m \in Messages /\ m.kind = "recv" /\ m.package = Content(recvBuff)
    BY <2>2 DEF Messages, Message
  <2> HIDE DEF c, m
  <2>4. /\ recvBuff' \in Seq(Unit) /\ Len(recvBuff') = Len(recvBuff) - c
        /\ \A i \in 1 .. Len(recvBuff) - c : recvBuff'[i] = recvBuff[i + c]
    <3>1. c \in 0 .. Len(recvBuff)
      BY <1>3, <2>2
    <3> QED BY <1>3, <2>1, <3>1, Rest
  <2>5. /\ messages' \in Seq(Messages) /\ Len(messages') = Len(messages) + 1
        /\ messages'[Len(messages) + 1] = m
    BY <1>3, <2>1, <2>3, MessageAppended
  <2>6. \A i \in 1 .. Len(messages) : messages'[i] = messages[i]
    BY <1>3, <2>1, <2>3, MessageAppended
  <2>7. \A i \in 1 .. Len(messages') : i \in 1 .. Len(messages) \/ i = Len(messages) + 1
    BY <1>3, <2>5
  <2>8. /\ \A i \in 1 .. Len(messages) : IsRecv(messages', i) <=> IsRecv(messages, i)
        /\ IsRecv(messages', Len(messages) + 1)
    BY <2>3, <2>5, <2>6 DEF IsRecv
  <2>9. BasicInv'
    <3>1. QueueInv'
      <4>1. failed' = (m.kind = "close") /\ m.kind # "connected" /\ m \in Messages
        BY <1>1, <1>2, <2>3 DEF TypesInv
      <4> QED BY <1>1, <1>2, <2>1, <4>1, QueueAppended
    <3>2. Len(unread) + Len(recvBuff') <= sent
      BY <1>3, <2>2, <2>4
    <3>3. TypesInv'
      BY <1>1, <1>2, <2>1, <2>4, <2>5, <3>2 DEF TypesInv
    <3>4. \A i \in 1 .. Len(recvBuff') :
             recvBuff'[i] = Script[sent - Len(unread) - Len(recvBuff') + i]
      <4> SUFFICES ASSUME NEW i \in 1 .. Len(recvBuff')
                   PROVE  recvBuff'[i] = Script[sent - Len(unread) - Len(recvBuff') + i]
        OBVIOUS
      <4>1. /\ i + c \in 1 .. Len(recvBuff) /\ i \in 1 .. Len(recvBuff) - c
            /\ sent - Len(unread) - Len(recvBuff') + i = sent - Len(unread) - Len(recvBuff) + (i + c)
        BY <1>3, <2>2, <2>4
      <4>2. recvBuff[i + c] = Script[sent - Len(unread) - Len(recvBuff) + (i + c)]
        BY <1>2, <4>1 DEF Contiguous
      <4> QED BY <2>4, <4>1, <4>2
    <3>5. Contiguous'
      BY <1>1, <1>2, <3>4 DEF Contiguous
    <3> QED BY <1>1, <1>2, <2>1, <3>1, <3>3, <3>5 DEF BasicInv
  <2>10. (Unanswered => UnansweredInv)'
    <3> SUFFICES ASSUME Unanswered PROVE UnansweredInv'
      BY <1>1 DEF Unanswered, Handshaking
    <3>1. UnansweredInv /\ Handshaking /\ PiecesInv /\ ~Header
      BY <1>5, <1>7
    <3>2. c = Len(recvBuff) /\ m.package = recvBuff /\ recvBuff' = <<>>
      <4>1. c = Len(recvBuff) /\ m.package = recvBuff
        BY <2>3, <3>1 DEF c, Cut, Content
      <4>2. Len(recvBuff') = 0
        BY <1>3, <2>4, <4>1
      <4> QED BY <2>4, <4>1, <4>2
    <3>3. sent <= RequestSize /\ \A i \in 1 .. Len(messages) : messages[i].kind # "onsend"
      BY <3>1 DEF UnansweredInv
    <3>4. \A i \in 1 .. Len(messages') : messages'[i].kind # "onsend"
      BY <2>3, <2>5, <2>6, <2>7, <3>3
    <3>5. PiecesInv'
      <4>1. ASSUME ~refused, \A i \in 1 .. Len(messages) : ~IsRecv(messages, i)
            PROVE  Piece(m.package)
        <5>1. Len(recvBuff) + Len(unread) = sent
          BY <1>2, <3>1, <4>1 DEF PiecesInv
        <5>2. ASSUME NEW k \in 1 .. Len(recvBuff) PROVE recvBuff[k] = <<"request", 0, k>>
          <6>1. sent - Len(unread) - Len(recvBuff) + k = k /\ k \in 1 .. RequestSize
            <7>1. k \in Nat /\ k >= 1 /\ k <= Len(recvBuff) /\ RequestSize \in Nat
              BY <1>3, WsSizes
            <7>2. sent - Len(unread) - Len(recvBuff) = 0 /\ Len(recvBuff) <= sent
              BY <1>3, <5>1
            <7> QED BY <1>3, <3>3, <7>1, <7>2
          <6>2. recvBuff[k] = Script[sent - Len(unread) - Len(recvBuff) + k]
            BY <1>2, <5>2 DEF Contiguous
          <6> QED BY <6>1, <6>2, ScriptUnits
        <5>3. Len(recvBuff) \in 1 .. RequestSize
          BY <1>3, <3>3, WsSizes
        <5> QED BY <3>2, <5>2, <5>3 DEF Piece
      <4>2. ASSUME EndsRequest(m.package) PROVE sent = RequestSize /\ unread = <<>>
        <5> DEFINE k == sent - Len(unread) - Len(recvBuff) + Len(recvBuff)
        <5>1. Len(recvBuff) \in 1 .. Len(recvBuff) /\ k = sent - Len(unread) /\ k \in 1 .. RequestSize
          BY <1>3, <3>3, WsSizes
        <5>2. recvBuff[Len(recvBuff)] = Script[k]
          BY <1>2, <5>1 DEF Contiguous
        <5> HIDE DEF k
        <5>3. recvBuff[Len(recvBuff)] = <<"request", 0, k>>
          BY <5>1, <5>2, ScriptUnits
        <5>4. Last(recvBuff) = <<"request", 0, RequestSize>>
          BY <3>2, <4>2, RequestUnits DEF EndsRequest
        <5>5. Last(recvBuff) = recvBuff[Len(recvBuff)]
          BY DEF Last
        <5>6. k = RequestSize
          BY <5>3, <5>4, <5>5
        <5>7. sent = RequestSize /\ Len(unread) = 0
          BY <1>3, <3>3, <5>1, <5>6, WsSizes
        <5>8. unread \in Seq(Unit)
          BY <1>2 DEF TypesInv
        <5> QED BY <5>7, <5>8
      <4>3. ASSUME ~refused, NEW i \in 1 .. Len(messages'), IsRecv(messages', i),
                   \A j \in 1 .. i - 1 : ~IsRecv(messages', j)
            PROVE  Piece(messages'[i].package)
        <5>1. CASE i \in 1 .. Len(messages)
          <6>1. \A j \in 1 .. i - 1 : j \in 1 .. Len(messages)
            BY <1>3, <5>1
          <6>2. IsRecv(messages, i) /\ \A j \in 1 .. i - 1 : ~IsRecv(messages, j)
            BY <2>8, <4>3, <5>1, <6>1
          <6> QED BY <2>6, <3>1, <4>3, <5>1, <6>2 DEF PiecesInv
        <5>2. CASE i = Len(messages) + 1
          <6>1. \A j \in 1 .. Len(messages) : j \in 1 .. i - 1
            BY <1>3, <5>2
          <6>2. \A j \in 1 .. Len(messages) : ~IsRecv(messages, j)
            BY <2>8, <4>3, <6>1
          <6> QED BY <2>5, <4>1, <4>3, <5>2, <6>2
        <5> QED BY <2>7, <5>1, <5>2
      <4>4. ASSUME NEW i \in 1 .. Len(messages'), IsRecv(messages', i),
                   EndsRequest(messages'[i].package)
            PROVE  /\ recvBuff' = <<>> /\ unread = <<>> /\ sent = RequestSize
                   /\ \A j \in i + 1 .. Len(messages') : ~IsRecv(messages', j)
        <5>1. i = Len(messages) + 1
          <6>1. i \notin 1 .. Len(messages)
            BY <1>4, <2>6, <2>8, <3>1, <4>4 DEF PiecesInv
          <6> QED BY <2>7, <6>1
        <5>2. EndsRequest(m.package)
          BY <2>5, <4>4, <5>1
        <5>3. \A j \in i + 1 .. Len(messages') : FALSE
          BY <1>3, <2>5, <5>1
        <5> QED BY <3>2, <4>2, <5>2, <5>3
      <4>5. (~refused => posted = <<>>)'
        BY <1>1, <3>1 DEF PiecesInv
      <4>6. \E i \in 1 .. Len(messages') : IsRecv(messages', i)
        <5>1. Len(messages) + 1 \in 1 .. Len(messages')
          BY <1>3, <2>5
        <5> QED BY <2>8, <5>1
      <4>7. \A i \in 1 .. Len(messages') : IsRecv(messages', i) /\ EndsRequest(messages'[i].package)
               => Drained' /\ sent' = RequestSize
                  /\ \A j \in i + 1 .. Len(messages') : ~IsRecv(messages', j)
        BY <1>1, <4>4 DEF Drained
      <4> QED BY <1>1, <4>3, <4>5, <4>6, <4>7 DEF PiecesInv, EndsRequest
    <3> QED BY <1>1, <2>1, <3>1, <3>4, <3>5 DEF UnansweredInv, Handshaking, ClosesFirst
  <2>11. (Answering => AnsweredInv)'
    <3> SUFFICES ASSUME Answering PROVE AnsweredInv'
      BY <1>1 DEF Answering, Handshaking
    <3>1. AnsweredInv /\ Header /\ Whole(recvBuff)
      BY <1>6
    <3> DEFINE p == Popped + 1
    <3>2. p \in 1 .. N /\ FrameLength(recvBuff) = 1 + Payloads[p] /\ Content(recvBuff) = Payload(p)
      BY <1>2, <3>1, NextFrame
    <3>3. c = 1 + Payloads[p] /\ m.package = Payload(p)
      BY <2>3, <3>1, <3>2 DEF Cut, c
    <3>4. p - 1 = Popped /\ Popped \in Nat /\ Len(output) \in Nat
      BY <1>2, Counts
    <3> HIDE DEF p
    <3>5. \A i \in 0 .. Len(messages) : Recvs(messages', i) = Recvs(messages, i)
      <4>1. messages \in Seq(Messages) /\ m \in Messages
        BY <1>3, <2>3
      <4> QED BY <2>1, <4>1, MessageAppended
    <3>6. Recvs(messages', Len(messages')) = Recvs(messages, Len(messages)) + 1
      <4>1. Recvs(messages', Len(messages')) =
               Recvs(messages, Len(messages)) + (IF m.kind = "recv" THEN 1 ELSE 0)
        <5>1. messages \in Seq(Messages) /\ m \in Messages
          BY <1>3, <2>3
        <5> QED BY <2>1, <5>1, MessageAppended
      <4> QED BY <2>3, <4>1
    <3>7. Popped' = p /\ Len(output) + Recvs(messages', Len(messages')) = p
      <4>1. Recvs(messages, Len(messages)) \in Nat
        BY <1>2, Counts
      <4> QED BY <1>1, <3>4, <3>6, <4>1 DEF Popped, p
    <3>8. sent = FrameStart(p) + Len(recvBuff') + Len(unread)
      <4>1. sent = FrameStart(Popped) + Len(recvBuff) + Len(unread)
        BY <1>2, <3>1 DEF AnsweredInv
      <4>2. FrameStart(p) = FrameStart(Popped) + 1 + Payloads[p]
        BY <3>2, <3>4, ScriptUnits
      <4>3. FrameStart(Popped) \in Nat /\ Payloads[p] \in Nat
        BY <1>2, <3>1, <3>2, Counts, WsSizes
      <4>4. Len(recvBuff') = Len(recvBuff) - (1 + Payloads[p])
        BY <2>4, <3>3
      <4> DEFINE f == FrameStart(Popped)
                 g == FrameStart(p)
                 l == Len(recvBuff)
                 r == Len(recvBuff')
                 u == Len(unread)
                 y == Payloads[p]
      <4>5. l \in Nat /\ u \in Nat
        BY <1>3
      <4>6. f \in Nat /\ y \in Nat /\ sent = f + l + u /\ g = f + 1 + y /\ r = l - (1 + y)
        BY <4>1, <4>2, <4>3, <4>4
      <4> HIDE DEF f, g, l, r, u, y
      <4>7. sent = g + r + u
        BY <4>5, <4>6
      <4> QED BY <4>7 DEF f, g, l, r, u, y
    <3>9. \A i \in 1 .. Len(messages') : IsRecv(messages', i)
            => messages'[i].package = Payload(Len(output) + Recvs(messages', i))
      <4> SUFFICES ASSUME NEW i \in 1 .. Len(messages'), IsRecv(messages', i)
                   PROVE  messages'[i].package = Payload(Len(output) + Recvs(messages', i))
        OBVIOUS
      <4>1. CASE i \in 1 .. Len(messages)
        <5>1. messages[i].package = Payload(Len(output) + Recvs(messages, i))
          BY <2>8, <3>1, <4>1 DEF AnsweredInv
        <5>2. i \in 0 .. Len(messages)
          BY <1>3, <4>1
        <5> QED BY <2>6, <3>5, <4>1, <5>1, <5>2
      <4>2. CASE i = Len(messages) + 1
        <5>1. Len(output) + Recvs(messages', i) = p
          BY <2>5, <3>7, <4>2
        <5> QED BY <2>5, <3>3, <4>2, <5>1
      <4> QED BY <2>7, <4>1, <4>2
    <3>10. state = "connected" \/ (\E i \in 1 .. Len(messages') : messages'[i].kind = "onsend")
            => received # <<>>
      BY <3>1 DEF AnsweredInv, Header
    <3>11. state # "response" /\ Run' = Run /\ OutputsWhole' /\ Popped' <= N
      BY <1>1, <3>1, <3>2, <3>7, WsSizes DEF Header, Run, AnsweredInv, OutputsWhole
    <3>12. /\ ~overrun /\ IsPrefix(received, Answers) /\ Len(posted) <= 1 + Len(output)
           /\ \A i \in 1 .. Len(posted) : posted[i] = Message("send", Reply(Run + i))
           /\ ~failed => received \o sendBuff = Said(Run)
      BY <3>1 DEF AnsweredInv
    <3> QED BY <1>1, <2>1, <3>7, <3>8, <3>9, <3>10, <3>11, <3>12 DEF AnsweredInv
  <2> QED BY <1>1, <1>2, <2>9, <2>10, <2>11 DEF WsInv
<1> QED BY <1>8, <1>9

\* The next reply goes out raw if it is the response, and in a frame if it is an echo.
LEMMA NextReply ==
    ASSUME TypesInv, AnsweredInv, Answering, ~failed, posted # <<>>
    PROVE  /\ Run \in 0 .. N /\ posted[1] = Message("send", Reply(Run + 1))
           /\ Said(Run) \o Pushed(Reply(Run + 1)) = Said(Run + 1)
           /\ Pushed(Reply(Run + 1)) \in Seq(Unit)
<1>1. posted \in Seq(Events) /\ Len(posted) \in Nat /\ Len(posted) >= 1 /\ Len(output) \in Nat
  <2>1. posted \in Seq(Events)
    BY DEF TypesInv
  <2>2. Len(posted) >= 1
    BY <2>1, Shifted
  <2> QED BY <2>1, <2>2, Counts
<1>2. Run = 1 + Len(output) - Len(posted) /\ Len(posted) <= 1 + Len(output) /\ Len(output) <= N
      /\ N \in Nat
  BY WsSizes DEF Run, AnsweredInv, OutputsWhole
<1>3. Run \in 0 .. N
  BY <1>1, <1>2
<1>4. posted[1] = Message("send", Reply(Run + 1))
  <2>1. 1 \in 1 .. Len(posted)
    BY <1>1
  <2> QED BY <2>1 DEF AnsweredInv
<1>5. state \in {"response", "connected"}
  BY DEF TypesInv, Answering, Handshaking
<1>6. CASE Run = 0
  <2>1. received \o sendBuff = <<>>
    BY <1>6, SaidUnits DEF AnsweredInv
  <2>2. received = <<>>
    <3>1. received \in Seq(Unit) /\ sendBuff \in Seq(Unit)
      BY DEF TypesInv
    <3>2. Len(received \o sendBuff) = Len(received) + Len(sendBuff)
      BY <3>1, Concatenation
    <3>3. Len(received) = 0
      BY <2>1, <3>1, <3>2
    <3> QED BY <3>1, <3>3
  <2>3. ~Header
    BY <2>2 DEF Header, AnsweredInv
  <2>4. Run + 1 = 1 /\ KeyUnit \in Nat
    BY <1>6, WsSizes
  <2>5. Pushed(Reply(Run + 1)) = Response(KeyUnit)
    BY <2>3, <2>4 DEF Pushed, Reply
  <2>6. Response(KeyUnit) \in Seq(Unit)
    BY <2>4, ResponseUnits
  <2>7. <<>> \o Response(KeyUnit) = Response(KeyUnit)
    BY <2>6
  <2>8. Said(Run) = <<>> /\ Said(Run + 1) = Response(KeyUnit)
    BY <1>6, <2>4, SaidUnits
  <2> QED BY <1>3, <1>4, <2>5, <2>6, <2>7, <2>8
<1>7. CASE Run # 0
  <2>1. Run \in 1 .. N /\ Len(output) >= 1
    BY <1>1, <1>2, <1>3, <1>7
  <2>2. Header
    <3>1. Popped # 0
      <4>1. Recvs(messages, Len(messages)) \in Nat
        BY Counts
      <4> QED BY <1>1, <2>1, <4>1 DEF Popped
    <3> QED BY <1>5, <3>1 DEF Header, AnsweredInv
  <2>3. Run + 1 # 1 /\ (Run + 1) - 1 = Run
    BY <1>3, <1>7
  <2>4. Pushed(Reply(Run + 1)) = Framed(Echo(Payload(Run)))
    BY <2>2, <2>3 DEF Pushed, Reply
  <2>5. Framed(Echo(Payload(Run))) \in Seq(Unit)
    <3>1. Payload(Run) \in Seq(Unit)
      BY <2>1, PayloadUnits
    <3>2. Echo(Payload(Run)) \in Seq(Unit)
      BY <3>1, FramedUnits
    <3> QED BY <3>2, FramedUnits
  <2>6. Said(Run + 1) = Said(Run) \o Framed(Echo(Payload(Run)))
    BY <2>1, SaidUnits
  <2> QED BY <1>3, <1>4, <2>4, <2>5, <2>6
<1> QED BY <1>6, <1>7

\* What is pushed are units.
LEMMA PushedUnits ==
    ASSUME NEW package \in Seq(Unit)
    PROVE  Pushed(package) \in Seq(Unit)
BY FramedUnits DEF Pushed

\* A reply is put behind the others in the send buffer; a close is the end of them.
LEMMA RunEventKeeps ==
    ASSUME WsInv, RunEvent
    PROVE  WsInv'
<1>1. /\ pc = "deal" /\ posted # <<>> /\ posted' = Tail(posted)
      /\ UNCHANGED <<sent, left, unread, received, pc, overrun, recvBuff, state, refused, output,
                     early>>
      /\ \/ /\ Head(posted).kind = "send"
            /\ sendBuff' = IF failed THEN sendBuff ELSE sendBuff \o Pushed(Head(posted).package)
            /\ UNCHANGED <<failed, messages>>
         \/ /\ Head(posted).kind = "close" /\ ~failed /\ Fail /\ UNCHANGED sendBuff
         \/ /\ Head(posted).kind = "close" /\ failed /\ UNCHANGED <<failed, messages, sendBuff>>
  BY DEF RunEvent, netVars, Closes
<1>2. BasicInv /\ TypesInv /\ QueueInv /\ posted \in Seq(Events)
  BY DEF WsInv, BasicInv, TypesInv
<1>3. /\ Head(posted) = posted[1] /\ posted[1] \in Events /\ posted' \in Seq(Events)
      /\ Len(posted) \in Nat /\ Len(posted) >= 1 /\ Len(posted') = Len(posted) - 1
      /\ \A i \in 1 .. Len(posted) - 1 : posted'[i] = posted[i + 1]
  BY <1>1, <1>2, Shifted
<1>4. Unanswered => UnansweredInv /\ refused
  <2>1. Unanswered => UnansweredInv
    BY DEF WsInv
  <2>2. UnansweredInv /\ Handshaking => refused
    BY <1>1 DEF UnansweredInv, PiecesInv
  <2> QED BY <2>1, <2>2 DEF Unanswered
<1>5. Answering => AnsweredInv
  BY DEF WsInv
<1>6. Answering => posted[1].kind = "send"
  <2>1. 1 \in 1 .. Len(posted)
    BY <1>3
  <2>2. Answering => posted[1] = Message("send", Reply(Run + 1))
    BY <1>5, <2>1 DEF AnsweredInv
  <2>3. Message("send", Reply(Run + 1)).kind = "send"
    BY DEF Message
  <2> QED BY <2>2, <2>3
<1>7. CASE /\ Head(posted).kind = "close" /\ ~failed /\ Fail /\ UNCHANGED sendBuff
  <2>1. state # "deleted"
    BY <1>2, <1>7 DEF QueueInv
  <2>2. refused \/ early
    BY <1>3, <1>4, <1>6, <1>7, <2>1 DEF Unanswered, Answering
  <2> QED BY <1>1, <1>3, <1>7, <2>2, FailKeeps DEF netVars
<1>8. CASE /\ sendBuff' \in Seq(Unit) /\ UNCHANGED <<failed, messages>>
           /\ failed => sendBuff' = sendBuff
           /\ Head(posted).kind = "close" => failed
           /\ ~failed => sendBuff' = sendBuff \o Pushed(Head(posted).package)
  <2>1. BasicInv'
    <3>1. TypesInv'
      BY <1>1, <1>2, <1>3, <1>8 DEF TypesInv
    <3> QED BY <1>1, <1>2, <1>8, <3>1 DEF BasicInv, QueueInv, Contiguous
  <2>2. (Unanswered => UnansweredInv)'
    <3> SUFFICES ASSUME Unanswered PROVE UnansweredInv'
      BY <1>1 DEF Unanswered, Handshaking
    <3>1. UnansweredInv /\ refused
      BY <1>4
    <3>2. failed
      <4> SUFFICES ASSUME ~failed PROVE FALSE
        OBVIOUS
      <4>1. PICK c \in 1 .. Len(posted) :
               posted[c].kind = "close" /\ \A i \in 1 .. c - 1 : posted[i].kind # "send"
        BY <3>1 DEF UnansweredInv, ClosesFirst
      <4>2. posted[1].kind = "send"
        BY <1>3, <1>8 DEF Events
      <4>3. c # 1
        BY <4>1, <4>2
      <4>4. 1 \in 1 .. c - 1
        BY <1>3, <4>3
      <4> QED BY <4>1, <4>2, <4>4
    <3>3. PiecesInv => PiecesInv'
      BY <1>1, <1>8, <3>1, <3>2 DEF PiecesInv, Drained, EndsRequest, IsRecv
    <3> QED BY <1>1, <1>8, <3>1, <3>2, <3>3 DEF UnansweredInv, Handshaking, ClosesFirst, Drained,
          IsRecv
  <2>3. (Answering => AnsweredInv)'
    <3> SUFFICES ASSUME Answering PROVE AnsweredInv'
      BY <1>1 DEF Answering, Handshaking
    <3>1. AnsweredInv
      BY <1>5
    <3>2. Popped' = Popped /\ Run' = Run + 1 /\ Len(posted') <= 1 + Len(output')
      <4>1. Popped' = Popped
        BY <1>1, <1>8 DEF Popped, Recvs, IsRecv
      <4>2. Len(output) \in Nat /\ Len(posted) <= 1 + Len(output)
        BY <1>2, <3>1, Counts DEF AnsweredInv
      <4>3. Run' = 1 + Len(output) - Len(posted') /\ Run = 1 + Len(output) - Len(posted)
        BY <1>1 DEF Run
      <4>4. Run' = Run + 1 /\ Len(posted') <= 1 + Len(output)
        BY <1>3, <4>2, <4>3
      <4> QED BY <1>1, <4>1, <4>4
    <3>3. \A i \in 1 .. Len(posted') : posted'[i] = Message("send", Reply((Run + 1) + i))
      <4> SUFFICES ASSUME NEW i \in 1 .. Len(posted')
                   PROVE  posted'[i] = Message("send", Reply((Run + 1) + i))
        OBVIOUS
      <4>1. i + 1 \in 1 .. Len(posted) /\ i \in 1 .. Len(posted) - 1 /\ i \in Nat
        BY <1>3
      <4>2. posted[i + 1] = Message("send", Reply(Run + (i + 1)))
        BY <3>1, <4>1 DEF AnsweredInv
      <4>3. Run + (i + 1) = (Run + 1) + i
        BY <1>2, <4>1, Counts
      <4> QED BY <1>3, <4>1, <4>2, <4>3
    <3>4. ~failed => received \o sendBuff' = Said(Run + 1)
      <4> SUFFICES ASSUME ~failed PROVE received \o sendBuff' = Said(Run + 1)
        OBVIOUS
      <4>1. /\ posted[1] = Message("send", Reply(Run + 1))
            /\ Said(Run) \o Pushed(Reply(Run + 1)) = Said(Run + 1)
            /\ Pushed(Reply(Run + 1)) \in Seq(Unit)
        BY <1>1, <1>2, <3>1, NextReply
      <4> DEFINE x == Pushed(Reply(Run + 1))
      <4>2. sendBuff' = sendBuff \o x
        <5>1. Message("send", Reply(Run + 1)).package = Reply(Run + 1)
          BY DEF Message
        <5>2. Head(posted).package = Reply(Run + 1)
          BY <1>3, <4>1, <5>1
        <5> QED BY <1>8, <5>2
      <4>3. received \in Seq(Unit) /\ sendBuff \in Seq(Unit)
        BY <1>2 DEF TypesInv
      <4>4. received \o sendBuff = Said(Run)
        BY <3>1 DEF AnsweredInv
      <4>5. (received \o sendBuff) \o x = received \o (sendBuff \o x)
        BY <4>1, <4>3, Associate, SMTT(30)
      <4> QED BY <4>1, <4>2, <4>4, <4>5
    <3>5. \A i \in 1 .. Len(messages) : IsRecv(messages, i)
            => messages[i].package = Payload(Len(output) + Recvs(messages, i))
      BY <3>1 DEF AnsweredInv
    <3>6. state = "connected" \/ (\E i \in 1 .. Len(messages) : messages[i].kind = "onsend")
            => received # <<>>
      BY <3>1 DEF AnsweredInv
    <3>7. /\ ~overrun /\ OutputsWhole /\ Popped <= N /\ IsPrefix(received, Answers)
          /\ ~failed => sent = FrameStart(Popped) + Len(recvBuff) + Len(unread)
          /\ state = "response" => Popped = 0
          /\ pc = "pop" => Header /\ Whole(recvBuff)
      BY <3>1 DEF AnsweredInv
    <3>8. OutputsWhole'
      BY <1>1, <3>7 DEF OutputsWhole
    <3> QED BY <1>1, <1>8, <3>2, <3>3, <3>4, <3>5, <3>6, <3>7, <3>8 DEF AnsweredInv, IsRecv, Recvs
  <2>4. (state = "deleted" => DeletedInv)'
    BY <1>1 DEF WsInv, DeletedInv, OutputsWhole
  <2> QED BY <2>1, <2>2, <2>3, <2>4 DEF WsInv
<1>9. sendBuff \in Seq(Unit) /\ Pushed(Head(posted).package) \in Seq(Unit)
  <2>1. sendBuff \in Seq(Unit) /\ Head(posted).package \in Seq(Unit)
    BY <1>2, <1>3 DEF TypesInv, Events
  <2> QED BY <2>1, PushedUnits
<1>10. sendBuff \o Pushed(Head(posted).package) \in Seq(Unit)
  BY <1>9
<1>11. "send" # "close"
  OBVIOUS
<1> QED BY <1>1, <1>7, <1>8, <1>9, <1>10, <1>11

\* What the kernel takes of the send buffer is behind what the client has received.
LEMMA SendMessageKeeps ==
    ASSUME WsInv, SendMessage
    PROVE  WsInv'
<1> DEFINE m == Message("onsend", <<>>)
<1>1. /\ pc = "deal" /\ ~failed /\ sendBuff # <<>> /\ messages' = Append(messages, m)
      /\ UNCHANGED <<sent, left, unread, pc, failed, overrun, recvBuff, posted, state, refused,
                     output, early>>
      /\ \E n \in 1 .. Len(sendBuff) :
            /\ received' = received \o SubSeq(sendBuff, 1, n)
            /\ sendBuff' = SubSeq(sendBuff, n + 1, Len(sendBuff))
  BY DEF SendMessage
<1>2. m \in Messages /\ m.kind = "onsend"
  BY DEF Messages, Message
<1> HIDE DEF m
<1>3. BasicInv /\ state # "deleted" /\ TypesInv /\ QueueInv /\ messages \in Seq(Messages)
  BY <1>1 DEF WsInv, BasicInv, QueueInv, TypesInv
<1>4. PICK n \in 1 .. Len(sendBuff) :
            /\ received' = received \o SubSeq(sendBuff, 1, n)
            /\ sendBuff' = SubSeq(sendBuff, n + 1, Len(sendBuff))
  BY <1>1
<1> DEFINE x == SubSeq(sendBuff, 1, n)
<1>5. received \in Seq(Unit) /\ sendBuff \in Seq(Unit) /\ Len(sendBuff) \in Nat /\ Len(received) \in Nat
  BY <1>3 DEF TypesInv
<1>6. n \in 0 .. Len(sendBuff) /\ n \in Nat /\ n >= 1 /\ n <= Len(sendBuff)
  BY <1>5
<1>7. x \in Seq(Unit) /\ Len(x) = n /\ \A i \in 1 .. n : x[i] = sendBuff[i]
  <2>1. sendBuff \in Seq(Unit) /\ n \in 0 .. Len(sendBuff)
    BY <1>5, <1>6
  <2>2. x \in Seq(Unit) /\ Len(x) = n
    BY <2>1, Beginning
  <2>3. \A i \in 1 .. n : x[i] = sendBuff[i]
    BY <2>1, Beginning
  <2> QED BY <2>2, <2>3
<1>8. /\ sendBuff' \in Seq(Unit) /\ Len(sendBuff') = Len(sendBuff) - n
      /\ \A i \in 1 .. Len(sendBuff) - n : sendBuff'[i] = sendBuff[i + n]
  BY <1>4, <1>5, <1>6, Rest
<1>9. received' = received \o x
  BY <1>4
<1> HIDE DEF x
<1>10. received' \in Seq(Unit) /\ Len(received') = Len(received) + n
  <2>1. Len(received \o x) = Len(received) + Len(x) /\ received \o x \in Seq(Unit)
    BY <1>5, <1>7, Concatenation
  <2> QED BY <1>7, <1>9, <2>1
<1>11. sendBuff = x \o sendBuff'
  <2> DEFINE y == x \o sendBuff'
  <2>1. x \in Seq(Unit) /\ sendBuff' \in Seq(Unit)
    BY <1>7, <1>8
  <2>2. y \in Seq(Unit) /\ Len(y) = Len(x) + Len(sendBuff')
    BY <2>1, Concatenation
  <2>3. \A i \in 1 .. Len(x) : y[i] = x[i]
    BY <2>1, Concatenation
  <2>4. \A i \in 1 .. Len(sendBuff') : y[Len(x) + i] = sendBuff'[i]
    BY <2>1, Concatenation
  <2> HIDE DEF y
  <2>5. Len(y) = Len(sendBuff)
    BY <1>5, <1>6, <1>7, <1>8, <2>2
  <2>6. ASSUME NEW i \in 1 .. Len(sendBuff) PROVE sendBuff[i] = y[i]
    <3>1. CASE i <= n
      <4>1. i \in 1 .. n
        BY <1>5, <3>1
      <4> QED BY <1>7, <2>3, <4>1
    <3>2. CASE ~(i <= n)
      <4> DEFINE j == i - n
      <4>1. j \in 1 .. Len(sendBuff) - n /\ n + j = i /\ j + n = i
        BY <1>5, <1>6, <3>2
      <4> HIDE DEF j
      <4>2. y[n + j] = sendBuff'[j] /\ sendBuff'[j] = sendBuff[j + n]
        BY <1>7, <1>8, <2>4, <4>1
      <4> QED BY <4>1, <4>2
    <3> QED BY <3>1, <3>2
  <2>7. sendBuff = y
    BY <1>5, <2>2, <2>5, <2>6, SameSequence
  <2> QED BY <2>7 DEF y
<1>12. received' \o sendBuff' = received \o sendBuff
  <2>1. x \in Seq(Unit) /\ sendBuff' \in Seq(Unit) /\ received \in Seq(Unit)
    BY <1>5, <1>7, <1>8
  <2> DEFINE y == sendBuff'
             r == received
  <2> HIDE DEF y, r
  <2>2. x \in Seq(Unit) /\ y \in Seq(Unit) /\ r \in Seq(Unit)
    BY <2>1 DEF y, r
  <2>3. (r \o x) \o y = r \o (x \o y)
    BY <2>2, Associate, SMTT(30)
  <2> QED BY <1>9, <1>11, <2>3 DEF y, r
<1>13. /\ messages' \in Seq(Messages) /\ Len(messages) \in Nat
       /\ Len(messages') = Len(messages) + 1 /\ messages'[Len(messages) + 1] = m
  BY <1>1, <1>2, <1>3, MessageAppended
<1>14. BasicInv'
  <2>1. failed' = (m.kind = "close") /\ m.kind # "connected"
    BY <1>1, <1>2, <1>3 DEF TypesInv
  <2>2. QueueInv'
    BY <1>1, <1>2, <1>3, <2>1, QueueAppended
  <2>3. TypesInv'
    BY <1>1, <1>3, <1>8, <1>10, <1>13 DEF TypesInv
  <2> QED BY <1>1, <1>3, <2>2, <2>3 DEF BasicInv, Contiguous
<1>15. ~Unanswered
  BY <1>1 DEF WsInv, UnansweredInv
<1>16. (Answering => AnsweredInv)'
  <2> SUFFICES ASSUME Answering PROVE AnsweredInv'
    BY <1>1 DEF Answering, Handshaking
  <2>1. AnsweredInv
    BY DEF WsInv
  <2>2. /\ Popped' = Popped
        /\ \A i \in 1 .. Len(messages') : IsRecv(messages', i) =>
              /\ i \in 1 .. Len(messages) /\ IsRecv(messages, i)
              /\ messages'[i] = messages[i] /\ Recvs(messages', i) = Recvs(messages, i)
    BY <1>1, <1>2, <1>3, QuietMessage
  <2>3. \A i \in 1 .. Len(messages') : IsRecv(messages', i)
          => messages'[i].package = Payload(Len(output) + Recvs(messages', i))
    BY <2>1, <2>2 DEF AnsweredInv
  <2>4. received' # <<>>
    BY <1>5, <1>6, <1>10
  <2>5. received \o sendBuff = Said(Run)
    BY <1>1, <2>1 DEF AnsweredInv
  <2>6. IsPrefix(received', Answers)
    <3> DEFINE r == received'
               s == sendBuff'
               all == Said(Run)
    <3>1. r \in Seq(Unit) /\ s \in Seq(Unit) /\ r \o s = all
      BY <1>8, <1>10, <1>12, <2>5
    <3>2. Run \in 0 .. N + 1
      <4>1. Len(posted) \in Nat /\ Len(output) \in Nat /\ Len(output) <= N
            /\ Len(posted) <= 1 + Len(output) /\ N \in Nat
        BY <1>3, <2>1, Counts, WsSizes DEF AnsweredInv, OutputsWhole
      <4> QED BY <4>1 DEF Run
    <3>3. all \in Seq(Unit) /\ Len(all) <= Len(Answers) /\ \A i \in 1 .. Len(all) : all[i] = Answers[i]
      BY <3>2, SaidUnits
    <3> HIDE DEF r, s, all
    <3>4. Len(all) = Len(r) + Len(s)
      BY <3>1, Concatenation
    <3>5. \A i \in 1 .. Len(r) : all[i] = r[i]
      BY <3>1, Concatenation
    <3>6. Len(r) \in Nat /\ Len(s) \in Nat /\ Len(Answers) \in Nat /\ Answers \in Seq(Unit)
      BY <3>1, SaidUnits
    <3>7. Len(r) <= Len(Answers) /\ \A i \in 1 .. Len(r) : i \in 1 .. Len(all)
      BY <3>3, <3>4, <3>6
    <3>8. \A i \in 1 .. Len(r) : r[i] = Answers[i]
      BY <3>3, <3>5, <3>7
    <3>9. IsPrefix(r, Answers)
      BY <3>1, <3>6, <3>7, <3>8, PrefixElements
    <3> QED BY <3>9 DEF r
  <2>7. Run' = Run /\ OutputsWhole' /\ Popped' <= N
    BY <1>1, <2>1, <2>2 DEF Run, AnsweredInv, OutputsWhole
  <2>8. /\ ~overrun /\ Len(posted) <= 1 + Len(output)
        /\ \A i \in 1 .. Len(posted) : posted[i] = Message("send", Reply(Run + i))
        /\ ~failed => sent = FrameStart(Popped) + Len(recvBuff) + Len(unread)
        /\ state = "response" => Popped = 0
    BY <2>1 DEF AnsweredInv
  <2> QED BY <1>1, <1>12, <2>2, <2>3, <2>4, <2>5, <2>6, <2>7, <2>8 DEF AnsweredInv
<1> QED BY <1>1, <1>3, <1>14, <1>15, <1>16 DEF WsInv, Unanswered, Handshaking

-----------------------------------------------------------------------------
(* The main thread *)

\* The message at the head is handled, the others move up.
LEMMA MessageHandled ==
    ASSUME TypesInv, messages # <<>>, messages' = Tail(messages)
    PROVE  /\ messages' \in Seq(Messages) /\ Len(messages') = Len(messages) - 1
           /\ Len(messages) \in Nat /\ Len(messages) >= 1
           /\ Head(messages) = messages[1] /\ messages[1] \in Messages
           /\ \A i \in 1 .. Len(messages') :
                 /\ i + 1 \in 1 .. Len(messages) /\ messages'[i] = messages[i + 1]
                 /\ IsRecv(messages', i) = IsRecv(messages, i + 1)
           /\ \A i \in 0 .. Len(messages') : Recvs(messages, i + 1) =
                 Recvs(messages', i) + (IF IsRecv(messages, 1) THEN 1 ELSE 0)
<1>1. messages \in Seq(Messages)
  BY DEF TypesInv
<1>2. /\ messages' \in Seq(Messages) /\ Len(messages') = Len(messages) - 1
      /\ Len(messages) \in Nat /\ Len(messages) >= 1
      /\ Head(messages) = messages[1] /\ messages[1] \in Messages
      /\ \A i \in 1 .. Len(messages) - 1 : messages'[i] = messages[i + 1]
  BY <1>1, Shifted
<1>3. ASSUME NEW i \in 1 .. Len(messages')
      PROVE  /\ i + 1 \in 1 .. Len(messages) /\ messages'[i] = messages[i + 1]
             /\ IsRecv(messages', i) = IsRecv(messages, i + 1)
  <2>1. i + 1 \in 1 .. Len(messages) /\ messages'[i] = messages[i + 1]
    BY <1>2
  <2> QED BY <2>1 DEF IsRecv
<1>4. \A i \in 0 .. Len(messages) - 1 : Recvs(messages, i + 1) =
         Recvs(Tail(messages), i) + (IF IsRecv(messages, 1) THEN 1 ELSE 0)
  BY <1>1, RecvsTail
<1> QED BY <1>2, <1>3, <1>4

\* The order of the messages stays, whatever the session is told.
LEMMA QueueHandled ==
    ASSUME TypesInv, QueueInv, HandleMessage
    PROVE  QueueInv'
<1>1. /\ messages # <<>> /\ messages' = Tail(messages) /\ failed' = failed
      /\ state' = "none" => state = "none" /\ messages[1].kind = "recv"
      /\ state' = "deleted" => messages[1].kind = "close" \/ state = "deleted"
  <2>1. messages # <<>> /\ messages' = Tail(messages) /\ failed' = failed
    BY DEF HandleMessage
  <2>2. Head(messages) = messages[1]
    BY <2>1, MessageHandled
  <2> QED BY <2>1, <2>2 DEF HandleMessage, OnConnected, OnRecv, OnSend, OnClose
<1>2. /\ Len(messages') = Len(messages) - 1 /\ messages' \in Seq(Messages)
      /\ Len(messages) \in Nat /\ Len(messages) >= 1
  BY <1>1, MessageHandled
<1>3. \A i \in 1 .. Len(messages') : i + 1 \in 1 .. Len(messages) /\ messages'[i] = messages[i + 1]
  BY <1>1, MessageHandled
<1>4. ASSUME NEW i \in 1 .. Len(messages')
      PROVE  /\ messages'[i].kind = "close" => i = Len(messages') /\ failed'
             /\ messages'[i].kind # "connected"
  <2>1. i + 1 \in 1 .. Len(messages) /\ messages'[i] = messages[i + 1] /\ i + 1 # 1
    BY <1>2, <1>3
  <2>2. messages[i + 1].kind # "connected"
    BY <2>1 DEF QueueInv
  <2>3. messages[i + 1].kind = "close" => i + 1 = Len(messages) /\ failed
    BY <2>1 DEF QueueInv
  <2>4. i + 1 = Len(messages) => i = Len(messages')
    BY <1>2
  <2> QED BY <1>1, <2>1, <2>2, <2>3, <2>4
<1>5. state' = "deleted" => failed' /\ messages' = <<>>
  <2>1. state # "deleted"
    BY <1>1 DEF QueueInv
  <2>2. 1 \in 1 .. Len(messages)
    BY <1>2
  <2>3. messages[1].kind = "close" => 1 = Len(messages) /\ failed
    BY <2>2 DEF QueueInv
  <2>4. Len(messages') = 0 => messages' = <<>>
    BY <1>2
  <2>5. Len(messages) = 1 => messages' = <<>>
    BY <1>2, <2>4
  <2> QED BY <1>1, <2>1, <2>3, <2>5
<1>6. state' # "none"
  <2>1. state = "none" => messages[1].kind = "connected"
    BY DEF QueueInv
  <2> QED BY <1>1, <2>1
<1> QED BY <1>4, <1>5, <1>6 DEF QueueInv

\* The rest of a request after the session has seen the beginning of it.
LEMMA PiecesHandled ==
    ASSUME TypesInv, PiecesInv, messages # <<>>, messages' = Tail(messages),
           UNCHANGED <<sent, unread, recvBuff, failed>>,
           refused => refused', ~refused' => posted' = <<>>, IsRecv(messages, 1) => refused'
    PROVE  PiecesInv'
<1>1. /\ Len(messages') = Len(messages) - 1 /\ Len(messages) \in Nat /\ Len(messages) >= 1
      /\ \A i \in 1 .. Len(messages') :
            /\ i + 1 \in 1 .. Len(messages) /\ messages'[i] = messages[i + 1]
            /\ IsRecv(messages', i) = IsRecv(messages, i + 1)
  BY MessageHandled
<1>2. \A j \in 1 .. Len(messages) : j = 1 \/ (j - 1 \in 1 .. Len(messages') /\ (j - 1) + 1 = j)
  BY <1>1
<1>3. (~refused /\ ~failed /\ (\A i \in 1 .. Len(messages) : ~IsRecv(messages, i))
        => Len(recvBuff) + Len(unread) = sent)'
  <2> SUFFICES ASSUME ~refused', ~failed, \A i \in 1 .. Len(messages') : ~IsRecv(messages', i)
               PROVE  Len(recvBuff) + Len(unread) = sent
    OBVIOUS
  <2>1. \A j \in 1 .. Len(messages) : ~IsRecv(messages, j)
    BY <1>1, <1>2
  <2> QED BY <2>1 DEF PiecesInv
<1>4. ASSUME ~refused', NEW i \in 1 .. Len(messages'), IsRecv(messages', i),
             \A j \in 1 .. i - 1 : ~IsRecv(messages', j)
      PROVE  Piece(messages'[i].package)
  <2>1. i + 1 \in 1 .. Len(messages) /\ messages'[i] = messages[i + 1] /\ IsRecv(messages, i + 1)
    BY <1>1, <1>4
  <2>2. ASSUME NEW j \in 1 .. (i + 1) - 1 PROVE ~IsRecv(messages, j)
    <3>1. CASE j = 1
      BY <1>4, <3>1
    <3>2. CASE j # 1
      <4>1. j - 1 \in 1 .. i - 1 /\ j - 1 \in 1 .. Len(messages') /\ (j - 1) + 1 = j
        BY <1>1, <3>2
      <4> QED BY <1>1, <1>4, <4>1
    <3> QED BY <3>1, <3>2
  <2> QED BY <1>4, <2>1, <2>2 DEF PiecesInv
<1>5. ASSUME NEW i \in 1 .. Len(messages'), IsRecv(messages', i),
             EndsRequest(messages'[i].package)
      PROVE  Drained /\ sent = RequestSize /\ \A j \in i + 1 .. Len(messages') : ~IsRecv(messages', j)
  <2>1. i + 1 \in 1 .. Len(messages) /\ messages'[i] = messages[i + 1] /\ IsRecv(messages, i + 1)
    BY <1>1, <1>5
  <2>2. /\ Drained /\ sent = RequestSize
        /\ \A j \in (i + 1) + 1 .. Len(messages) : ~IsRecv(messages, j)
    BY <1>5, <2>1 DEF PiecesInv
  <2>3. ASSUME NEW j \in i + 1 .. Len(messages') PROVE ~IsRecv(messages', j)
    <3>1. j + 1 \in (i + 1) + 1 .. Len(messages) /\ j \in 1 .. Len(messages')
      BY <1>1
    <3> QED BY <1>1, <2>2, <3>1
  <2> QED BY <2>2, <2>3
<1>6. Drained' = Drained /\ sent' = sent
  BY DEF Drained
<1>7. \A i \in 1 .. Len(messages') : IsRecv(messages', i) /\ EndsRequest(messages'[i].package)
         => /\ Drained' /\ sent' = RequestSize
            /\ \A j \in i + 1 .. Len(messages') : ~IsRecv(messages', j)
  BY <1>5, <1>6
<1> QED BY <1>3, <1>4, <1>7 DEF PiecesInv, EndsRequest

\* A close that is before all sends stays there as events are added.
LEMMA ClosesStay ==
    ASSUME NEW e \in Events, TypesInv, posted' = Append(posted, e), failed' = failed, ClosesFirst
    PROVE  ClosesFirst'
<1>1. /\ Len(posted) \in Nat /\ Len(posted') = Len(posted) + 1
      /\ \A i \in 1 .. Len(posted) : posted'[i] = posted[i]
  <2>1. posted \in Seq(Events)
    BY DEF TypesInv
  <2> QED BY <2>1, Appended
<1>2. CASE failed
  BY <1>2 DEF ClosesFirst
<1>3. ASSUME NEW c \in 1 .. Len(posted), posted[c].kind = "close",
             \A i \in 1 .. c - 1 : posted[i].kind # "send"
      PROVE  ClosesFirst'
  <2>1. c \in 1 .. Len(posted') /\ posted'[c].kind = "close"
    BY <1>1, <1>3
  <2>2. \A i \in 1 .. c - 1 : i \in 1 .. Len(posted)
    BY <1>1
  <2>3. \A i \in 1 .. c - 1 : posted'[i].kind # "send"
    BY <1>1, <1>3, <2>2
  <2> QED BY <2>1, <2>3 DEF ClosesFirst
<1> QED BY <1>2, <1>3 DEF ClosesFirst

\* The session's answer is an event of units.
LEMMA HandledBasic ==
    ASSUME WsInv, HandleMessage
    PROVE  BasicInv'
<1>1. /\ messages # <<>> /\ messages' = Tail(messages)
      /\ UNCHANGED <<sent, left, unread, received, pc, failed, overrun, recvBuff, sendBuff, early>>
      /\ \/ OnConnected
         \/ Head(messages).kind = "recv" /\ OnRecv(Head(messages).package)
         \/ OnSend
         \/ OnClose
  BY DEF HandleMessage, netVars
<1>2. BasicInv /\ TypesInv /\ QueueInv
  BY DEF WsInv, BasicInv
<1>3. messages' \in Seq(Messages) /\ Head(messages) \in Messages
  BY <1>1, <1>2, MessageHandled
<1>4. /\ posted' \in Seq(Events) /\ output' \in Seq(Seq(Unit)) /\ refused' \in BOOLEAN
      /\ state' \in {"none", "request", "response", "connected", "deleted"}
  <2>1. /\ posted \in Seq(Events) /\ output \in Seq(Seq(Unit)) /\ refused \in BOOLEAN
        /\ state \in {"none", "request", "response", "connected", "deleted"}
    BY <1>2 DEF TypesInv
  <2>2. CASE OnConnected \/ OnSend \/ OnClose
    BY <2>1, <2>2 DEF OnConnected, OnSend, OnClose
  <2>3. CASE OnRecv(Head(messages).package)
    <3> DEFINE p == Head(messages).package
    <3>1. p \in Seq(Unit)
      BY <1>3 DEF Messages
    <3> HIDE DEF p
    <3>2. Response(ResponseKey(p)) \in Seq(Unit)
      <4>1. ResponseKey(p) \in Nat
        BY WsSizes DEF ResponseKey
      <4> QED BY <4>1, ResponseUnits
    <3>3. Echo(p) \in Seq(Unit)
      BY <3>1, FramedUnits
    <3>4. /\ Message("send", Response(ResponseKey(p))) \in Events
          /\ Message("send", Echo(p)) \in Events /\ Message("close", <<>>) \in Events
      BY <3>2, <3>3 DEF Events, Message
    <3>5. /\ Append(posted, Message("send", Response(ResponseKey(p)))) \in Seq(Events)
          /\ Append(posted, Message("send", Echo(p))) \in Seq(Events)
          /\ Append(posted, Message("close", <<>>)) \in Seq(Events)
          /\ Append(output, p) \in Seq(Seq(Unit))
      BY <2>1, <3>1, <3>4
    <3>6. OnRecv(p)
      BY <2>3 DEF p
    <3> QED BY <2>1, <3>5, <3>6 DEF OnRecv, PostedClose
  <2> QED BY <1>1, <2>2, <2>3
<1>5. TypesInv'
  BY <1>1, <1>2, <1>3, <1>4 DEF TypesInv
<1>6. QueueInv'
  BY <1>2, QueueHandled
<1> QED BY <1>1, <1>2, <1>5, <1>6 DEF BasicInv, Contiguous

\* The session waits for the request.
LEMMA OnConnectedKeeps ==
    ASSUME WsInv, HandleMessage, messages[1].kind = "connected", OnConnected
    PROVE  WsInv'
<1>1. /\ messages # <<>> /\ messages' = Tail(messages)
      /\ UNCHANGED <<sent, left, unread, received, pc, failed, overrun, recvBuff, sendBuff, early>>
      /\ state' = "request" /\ UNCHANGED <<posted, refused, output>>
  BY DEF HandleMessage, netVars, OnConnected
<1>2. TypesInv /\ QueueInv
  BY DEF WsInv, BasicInv
<1>3. /\ Len(messages) \in Nat /\ Len(messages) >= 1
      /\ \A i \in 1 .. Len(messages') : i + 1 \in 1 .. Len(messages) /\ messages'[i] = messages[i + 1]
  BY <1>1, <1>2, MessageHandled
<1>4. state = "none"
  <2>1. 1 \in 1 .. Len(messages)
    BY <1>3
  <2> QED BY <1>2, <2>1 DEF QueueInv
<1>5. UnansweredInv /\ PiecesInv
  BY <1>4 DEF WsInv, Unanswered, Handshaking, UnansweredInv
<1>6. PiecesInv'
  <2>1. ~IsRecv(messages, 1)
    BY DEF IsRecv
  <2>2. ~refused' => posted' = <<>>
    BY <1>1, <1>5 DEF PiecesInv
  <2> QED BY <1>1, <1>2, <1>5, <2>1, <2>2, PiecesHandled
<1>7. \A i \in 1 .. Len(messages') : messages'[i].kind # "onsend"
  BY <1>3, <1>5 DEF UnansweredInv
<1>8. UnansweredInv'
  BY <1>1, <1>5, <1>6, <1>7 DEF UnansweredInv, Handshaking, ClosesFirst
<1> QED BY <1>1, <1>8, HandledBasic DEF WsInv, Answering, Handshaking

\* Something of the response is out.
LEMMA OnSendKeeps ==
    ASSUME WsInv, HandleMessage, messages[1].kind = "onsend", OnSend
    PROVE  WsInv'
<1>1. /\ messages # <<>> /\ messages' = Tail(messages)
      /\ UNCHANGED <<sent, left, unread, received, pc, failed, overrun, recvBuff, sendBuff, early>>
      /\ state' = "connected" /\ UNCHANGED <<posted, refused, output>>
  BY DEF HandleMessage, netVars, OnSend
<1>2. TypesInv /\ QueueInv /\ state # "deleted"
  BY <1>1 DEF WsInv, BasicInv, QueueInv
<1>3. /\ Len(messages) \in Nat /\ Len(messages) >= 1 /\ Len(messages') = Len(messages) - 1
      /\ \A i \in 1 .. Len(messages') :
            /\ i + 1 \in 1 .. Len(messages) /\ messages'[i] = messages[i + 1]
            /\ IsRecv(messages', i) = IsRecv(messages, i + 1)
  BY <1>1, <1>2, MessageHandled
<1>4. 1 \in 1 .. Len(messages)
  BY <1>3
<1>5. ~Unanswered
  BY <1>4 DEF WsInv, UnansweredInv
<1>6. ~refused /\ ~Handshaking
  BY <1>2, <1>5 DEF Unanswered
<1>7. (Answering => AnsweredInv)'
  <2> SUFFICES ASSUME ~early PROVE AnsweredInv'
    BY <1>1 DEF Answering
  <2>1. AnsweredInv
    BY <1>2, <1>6 DEF WsInv, Answering
  <2>2. \A i \in 0 .. Len(messages') : Recvs(messages, i + 1) = Recvs(messages', i)
    <3>1. \A i \in 0 .. Len(messages') : Recvs(messages, i + 1) =
             Recvs(messages', i) + (IF IsRecv(messages, 1) THEN 1 ELSE 0)
      BY <1>1, <1>2, MessageHandled
    <3>2. ~IsRecv(messages, 1)
      BY DEF IsRecv
    <3>3. \A i \in 0 .. Len(messages') : Recvs(messages', i) \in Nat
      <4>1. \A i \in 0 .. Len(messages') : i \in Nat
        OBVIOUS
      <4> QED BY <4>1, RecvsCount
    <3> QED BY <3>1, <3>2, <3>3
  <2>3. Popped' = Popped
    <3>1. Len(messages') \in 0 .. Len(messages') /\ Len(messages') + 1 = Len(messages)
      BY <1>3
    <3>2. Recvs(messages, Len(messages)) = Recvs(messages', Len(messages'))
      BY <2>2, <3>1
    <3> QED BY <1>1, <3>2 DEF Popped
  <2>4. \A i \in 1 .. Len(messages') : IsRecv(messages', i)
          => messages'[i].package = Payload(Len(output) + Recvs(messages', i))
    <3> SUFFICES ASSUME NEW i \in 1 .. Len(messages'), IsRecv(messages', i)
                 PROVE  messages'[i].package = Payload(Len(output) + Recvs(messages', i))
      OBVIOUS
    <3>1. i + 1 \in 1 .. Len(messages) /\ messages'[i] = messages[i + 1] /\ IsRecv(messages, i + 1)
      BY <1>3
    <3>2. messages[i + 1].package = Payload(Len(output) + Recvs(messages, i + 1))
      BY <2>1, <3>1 DEF AnsweredInv
    <3>3. i \in 0 .. Len(messages')
      BY <1>3
    <3> QED BY <2>2, <3>1, <3>2, <3>3
  <2>5. received # <<>>
    BY <1>4, <2>1 DEF AnsweredInv
  <2>6. Run' = Run /\ OutputsWhole' /\ Popped' <= N
    BY <1>1, <2>1, <2>3 DEF Run, AnsweredInv, OutputsWhole
  <2>7. (pc = "pop" => Header /\ Whole(recvBuff))'
    <3>1. pc = "pop" => Whole(recvBuff)
      BY <2>1 DEF AnsweredInv
    <3> QED BY <1>1, <3>1 DEF Header, Whole, FrameLength
  <2>8. /\ ~overrun /\ Len(posted) <= 1 + Len(output)
        /\ \A i \in 1 .. Len(posted) : posted[i] = Message("send", Reply(Run + i))
        /\ ~failed => received \o sendBuff = Said(Run)
        /\ ~failed => sent = FrameStart(Popped) + Len(recvBuff) + Len(unread)
        /\ IsPrefix(received, Answers)
    BY <2>1 DEF AnsweredInv
  <2> QED BY <1>1, <2>3, <2>4, <2>5, <2>6, <2>7, <2>8 DEF AnsweredInv
<1> QED BY <1>1, <1>6, <1>7, HandledBasic DEF WsInv, Unanswered, Handshaking

\* What holds of a session still holds once it is deleted.
LEMMA OnCloseKeeps ==
    ASSUME WsInv, HandleMessage, OnClose
    PROVE  WsInv'
<1>1. /\ messages # <<>>
      /\ UNCHANGED <<received, overrun, early, refused, output>> /\ state' = "deleted"
  BY DEF HandleMessage, netVars, OnClose
<1>2. state # "deleted" /\ TypesInv
  BY <1>1 DEF WsInv, BasicInv, QueueInv
<1>3. IsPrefix(<<>>, Answers)
  <2>1. <<>> \in Seq(Unit) /\ Len(<<>>) = 0 /\ Answers \in Seq(Unit) /\ Len(Answers) \in Nat
    BY SaidUnits
  <2>2. Len(<<>>) <= Len(Answers) /\ \A i \in 1 .. Len(<<>>) : <<>>[i] = Answers[i]
    BY <2>1
  <2> QED BY <2>1, <2>2, PrefixElements
<1>4. DeletedInv
  <2>1. CASE Unanswered
    <3>1. received = <<>> /\ ~overrun /\ output = <<>>
      BY <2>1 DEF WsInv, UnansweredInv
    <3>2. OutputsWhole
      BY <3>1, WsSizes DEF OutputsWhole
    <3> QED BY <1>3, <3>1, <3>2 DEF DeletedInv
  <2>2. CASE Answering
    BY <2>2 DEF WsInv, AnsweredInv, DeletedInv, Answering
  <2>3. CASE early /\ ~refused
    BY <2>3 DEF DeletedInv
  <2> QED BY <1>2, <2>1, <2>2, <2>3 DEF Unanswered, Answering, TypesInv
<1>5. DeletedInv'
  BY <1>1, <1>4 DEF DeletedInv, OutputsWhole
<1> QED BY <1>1, <1>5, HandledBasic DEF WsInv, Unanswered, Answering

\* A package of the request: the response is for its key, or the session is closed.
LEMMA RequestKeeps ==
    ASSUME WsInv, HandleMessage, messages[1].kind = "recv", state = "request",
           OnRecv(messages[1].package)
    PROVE  WsInv'
<1> DEFINE p == messages[1].package
<1>1. /\ messages # <<>> /\ messages' = Tail(messages)
      /\ UNCHANGED <<sent, left, unread, received, pc, failed, overrun, recvBuff, sendBuff, early,
                     output>>
      /\ IF EndsRequest(p)
         THEN /\ state' = "response" /\ refused' = refused
              /\ posted' = Append(posted, Message("send", Response(ResponseKey(p))))
         ELSE /\ refused' = TRUE /\ state' = state
              /\ posted' = Append(posted, Message("close", <<>>))
  BY DEF HandleMessage, netVars, OnRecv, PostedClose
<1>2. BasicInv /\ TypesInv /\ QueueInv
  BY DEF WsInv, BasicInv
<1>3. /\ Len(messages) \in Nat /\ Len(messages) >= 1 /\ Len(messages') = Len(messages) - 1
      /\ messages[1] \in Messages
      /\ \A i \in 1 .. Len(messages') :
            /\ i + 1 \in 1 .. Len(messages) /\ messages'[i] = messages[i + 1]
            /\ IsRecv(messages', i) = IsRecv(messages, i + 1)
  BY <1>1, <1>2, MessageHandled
<1>4. UnansweredInv /\ PiecesInv
  BY DEF WsInv, Unanswered, Handshaking, UnansweredInv
<1>5. IsRecv(messages, 1) /\ 1 \in 1 .. Len(messages)
  BY <1>3 DEF IsRecv
<1>6. p \in Seq(Unit) /\ posted \in Seq(Events) /\ Len(posted) \in Nat
  BY <1>2, <1>3 DEF Messages, TypesInv
<1>7. \A i \in 1 .. Len(messages') : messages'[i].kind # "onsend"
  BY <1>3, <1>4 DEF UnansweredInv
<1>8. CASE EndsRequest(p)
  <2> DEFINE e == Message("send", Response(ResponseKey(p)))
  <2>1. state' = "response" /\ refused' = refused /\ posted' = Append(posted, e)
    BY <1>1, <1>8
  <2>2. Drained /\ sent = RequestSize /\ \A j \in 1 + 1 .. Len(messages) : ~IsRecv(messages, j)
    BY <1>4, <1>5, <1>8 DEF PiecesInv
  <2>3. \A i \in 1 .. Len(messages') : ~IsRecv(messages', i)
    <3>1. \A i \in 1 .. Len(messages') : i + 1 \in 1 + 1 .. Len(messages)
      BY <1>3
    <3> QED BY <1>3, <2>2, <3>1
  <2>4. CASE refused
    <3>1. e \in Events
      <4>1. ResponseKey(p) \in Nat
        BY WsSizes DEF ResponseKey
      <4>2. Response(ResponseKey(p)) \in Seq(Unit)
        BY <4>1, ResponseUnits
      <4> QED BY <4>2 DEF Events, Message
    <3>2. ClosesFirst'
      <4> HIDE DEF e
      <4>1. ClosesFirst
        BY <1>4, <2>4 DEF UnansweredInv
      <4> QED BY <1>1, <1>2, <2>1, <3>1, <4>1, ClosesStay
    <3>3. UnansweredInv'
      BY <1>1, <1>4, <1>7, <2>1, <2>2, <2>3, <3>2 DEF UnansweredInv, Handshaking, Drained
    <3> QED BY <2>1, <2>4, <3>3, HandledBasic DEF WsInv, Answering
  <2>5. CASE ~refused
    <3>1. Piece(p) /\ posted = <<>>
      <4>1. \A j \in 1 .. 1 - 1 : ~IsRecv(messages, j)
        OBVIOUS
      <4> QED BY <1>4, <1>5, <2>5, <4>1 DEF PiecesInv
    <3>2. ResponseKey(p) = KeyUnit
      <4>1. /\ Len(p) \in 1 .. RequestSize
            /\ \A k \in 1 .. Len(p) : p[k] = <<"request", 0, k>>
        BY <3>1 DEF Piece
      <4>2. Len(p) \in 1 .. Len(p)
        BY <4>1, WsSizes
      <4>3. Last(p) = <<"request", 0, Len(p)>>
        BY <4>1, <4>2 DEF Last
      <4>4. Last(p) = <<"request", 0, RequestSize>>
        BY <1>8, RequestUnits DEF EndsRequest
      <4>5. Len(p) = RequestSize
        BY <4>3, <4>4
      <4>6. KeyUnit \in 1 .. Len(p)
        BY <4>5, WsSizes
      <4>7. p[KeyUnit] = <<"request", 0, KeyUnit>> /\ Request[KeyUnit] = <<"request", 0, KeyUnit>>
        BY <4>1, <4>5, <4>6, RequestUnits
      <4>8. KeyUnit \in DOMAIN p
        BY <1>6, <4>6
      <4>9. Request[KeyUnit] \in Range(p)
        BY <4>7, <4>8 DEF Range
      <4> QED BY <4>9 DEF ResponseKey
    <3>3. posted' = <<Message("send", Reply(1))>>
      BY <2>1, <3>1, <3>2 DEF Reply
    <3>4. Len(posted') = 1 /\ posted'[1] = Message("send", Reply(1))
      BY <3>3
    <3>5. /\ ~early /\ ~overrun /\ received = <<>> /\ sendBuff = <<>> /\ output = <<>>
      BY <1>4 DEF UnansweredInv
    <3>6. Run' = 0
      <4>1. Len(output') = 0
        BY <1>1, <3>5
      <4> QED BY <3>4, <4>1 DEF Run
    <3>7. Recvs(messages', Len(messages')) = 0
      <4> DEFINE S == {j \in 1 .. Len(messages') : IsRecv(messages', j)}
      <4>1. S = {}
        BY <2>3
      <4> HIDE DEF S
      <4>2. Cardinality(S) = 0
        BY <4>1, FS_EmptySet
      <4> QED BY <4>2 DEF Recvs, S
    <3>8. Popped' = 0
      <4>1. Len(output') = 0
        BY <1>1, <3>5
      <4> QED BY <3>7, <4>1 DEF Popped
    <3>9. ~failed => sent = FrameStart(0) + Len(recvBuff) + Len(unread)
      <4>1. ~failed => Len(recvBuff) = 0 /\ Len(unread) = 0
        BY <2>2 DEF Drained
      <4>2. FrameStart(0) = RequestSize /\ RequestSize \in Nat
        BY ScriptUnits, WsSizes
      <4> QED BY <2>2, <4>1, <4>2
    <3>10. received \o sendBuff = Said(0)
      BY <3>5, SaidUnits
    <3>11. pc # "pop"
      BY <1>2, <2>2 DEF BasicInv, Drained
    <3>12. IsPrefix(received, Answers)
      <4>1. <<>> \in Seq(Unit) /\ Len(<<>>) = 0 /\ Answers \in Seq(Unit) /\ Len(Answers) \in Nat
        BY SaidUnits
      <4>2. Len(<<>>) <= Len(Answers) /\ \A i \in 1 .. Len(<<>>) : <<>>[i] = Answers[i]
        BY <4>1
      <4> QED BY <3>5, <4>1, <4>2, PrefixElements
    <3>13. \A i \in 1 .. Len(posted') : posted'[i] = Message("send", Reply(0 + i))
      <4>1. \A i \in 1 .. Len(posted') : i = 1
        BY <3>4
      <4>2. 0 + 1 = 1
        OBVIOUS
      <4> QED BY <3>4, <4>1, <4>2
    <3>14. OutputsWhole' /\ Len(posted') <= 1 + Len(output')
      <4>1. Len(output') = 0 /\ N \in Nat
        BY <1>1, <3>5, WsSizes
      <4> QED BY <3>4, <4>1 DEF OutputsWhole
    <3>15. 0 <= N
      BY WsSizes
    <3>16. AnsweredInv'
      BY <1>1, <1>7, <2>1, <2>3, <3>5, <3>6, <3>8, <3>9, <3>10, <3>11, <3>12, <3>13, <3>14, <3>15
         DEF AnsweredInv
    <3> QED BY <2>1, <2>5, <3>16, HandledBasic DEF WsInv, Unanswered, Handshaking
  <2> QED BY <2>4, <2>5
<1>9. CASE ~EndsRequest(p)
  <2> DEFINE e == Message("close", <<>>)
  <2>1. refused' = TRUE /\ state' = "request" /\ posted' = Append(posted, e)
    BY <1>1, <1>9
  <2>2. e \in Events /\ e.kind = "close"
    BY DEF Events, Message
  <2> HIDE DEF e
  <2>3. ClosesFirst'
    <3>1. CASE refused
      <4>1. ClosesFirst
        BY <1>4, <3>1 DEF UnansweredInv
      <4> QED BY <1>1, <1>2, <2>1, <2>2, <4>1, ClosesStay
    <3>2. CASE ~refused
      <4>1. posted' = <<e>>
        BY <1>4, <2>1, <3>2 DEF PiecesInv
      <4>2. 1 \in 1 .. Len(posted') /\ posted'[1].kind = "close" /\ \A i \in 1 .. 1 - 1 : FALSE
        BY <2>2, <4>1
      <4> QED BY <4>2 DEF ClosesFirst
    <3> QED BY <3>1, <3>2
  <2>4. PiecesInv'
    BY <1>1, <1>2, <1>4, <2>1, PiecesHandled
  <2>5. UnansweredInv'
    BY <1>1, <1>4, <1>7, <2>1, <2>3, <2>4 DEF UnansweredInv, Handshaking
  <2> QED BY <2>1, <2>5, HandledBasic DEF WsInv, Answering
<1> QED BY <1>8, <1>9

\* A package after the request is the payload of the next frame, and is sent back.
LEMMA EchoKeeps ==
    ASSUME WsInv, HandleMessage, messages[1].kind = "recv", state # "request",
           OnRecv(messages[1].package)
    PROVE  WsInv'
<1> DEFINE p == messages[1].package
           e == Message("send", Echo(p))
<1>1. /\ messages # <<>> /\ messages' = Tail(messages)
      /\ UNCHANGED <<sent, left, unread, received, pc, failed, overrun, recvBuff, sendBuff, early,
                     state, refused>>
      /\ output' = Append(output, p) /\ posted' = Append(posted, e)
  BY DEF HandleMessage, netVars, OnRecv
<1>2. TypesInv /\ QueueInv /\ state # "deleted"
  BY <1>1 DEF WsInv, BasicInv, QueueInv
<1>3. /\ Len(messages) \in Nat /\ Len(messages) >= 1 /\ Len(messages') = Len(messages) - 1
      /\ messages[1] \in Messages
      /\ \A i \in 1 .. Len(messages') :
            /\ i + 1 \in 1 .. Len(messages) /\ messages'[i] = messages[i + 1]
            /\ IsRecv(messages', i) = IsRecv(messages, i + 1)
  BY <1>1, <1>2, MessageHandled
<1>4. IsRecv(messages, 1) /\ 1 \in 1 .. Len(messages)
  BY <1>3 DEF IsRecv
<1>5. ~Handshaking
  BY <1>2, <1>4 DEF QueueInv, IsRecv, Handshaking
<1>6. ~Unanswered
  BY <1>4, <1>5 DEF WsInv, UnansweredInv
<1>7. (Answering => AnsweredInv)'
  <2> SUFFICES ASSUME Answering PROVE AnsweredInv'
    BY <1>1 DEF Answering, Handshaking
  <2>1. AnsweredInv
    BY DEF WsInv
  <2>2. output \in Seq(Seq(Unit)) /\ p \in Seq(Unit) /\ posted \in Seq(Events) /\ e \in Events
    <3>1. p \in Seq(Unit)
      BY <1>3 DEF Messages
    <3>2. Echo(p) \in Seq(Unit)
      BY <3>1, FramedUnits
    <3> QED BY <1>2, <3>1, <3>2 DEF TypesInv, Events, Message
  <2>3. \A i \in 0 .. Len(messages') : Recvs(messages, i + 1) = Recvs(messages', i) + 1
                                       /\ Recvs(messages', i) \in Nat
    <3>1. \A i \in 0 .. Len(messages') : Recvs(messages, i + 1) =
             Recvs(messages', i) + (IF IsRecv(messages, 1) THEN 1 ELSE 0)
      BY <1>1, <1>2, MessageHandled
    <3>2. \A i \in 0 .. Len(messages') : i \in Nat
      OBVIOUS
    <3>3. \A i \in 0 .. Len(messages') : Recvs(messages', i) \in Nat
      BY <3>2, RecvsCount
    <3> QED BY <1>4, <3>1, <3>3
  <2> DEFINE o == Len(output)
             l == Len(posted)
             k == o + 1
  <2>4. o \in Nat /\ l \in Nat /\ l <= 1 + o /\ k \in Nat
    BY <1>2, <2>1, Counts DEF AnsweredInv
  <2>5. Recvs(messages, 1) = 1
    <3>1. Recvs(messages, 0) = 0
      BY RecvsCount
    <3>2. Recvs(messages, 1) = Recvs(messages, 1 - 1) + (IF IsRecv(messages, 1) THEN 1 ELSE 0)
      BY RecvsCount
    <3> QED BY <1>4, <3>1, <3>2
  <2>6. p = Payload(k)
    BY <1>4, <2>1, <2>5 DEF AnsweredInv
  <2> HIDE DEF p, e
  <2>7. /\ Len(output') = k /\ output'[k] = p
        /\ \A i \in 1 .. o : output'[i] = output[i]
    BY <1>1, <2>2, Appended
  <2>8. Len(posted') = l + 1 /\ posted'[l + 1] = e
    BY <1>1, <2>2, Appended
  <2>9. \A i \in 1 .. l : posted'[i] = posted[i]
    BY <1>1, <2>2, Appended
  <2>10. Popped' = Popped /\ k <= Popped
    <3>1. Len(messages') \in 0 .. Len(messages') /\ Len(messages') + 1 = Len(messages)
      BY <1>3
    <3> DEFINE r == Recvs(messages', Len(messages'))
    <3>2. Recvs(messages, Len(messages)) = r + 1 /\ r \in Nat
      BY <2>3, <3>1
    <3>3. Popped' = k + r /\ Popped = o + (r + 1)
      BY <2>7, <3>2 DEF Popped
    <3> HIDE DEF r
    <3> QED BY <2>4, <3>2, <3>3
  <2>11. k <= N /\ Popped <= N
    BY <1>2, <2>1, <2>4, <2>10, Counts, WsSizes DEF AnsweredInv
  <2>12. OutputsWhole'
    <3>1. ASSUME NEW i \in 1 .. k PROVE output'[i] = Payload(i)
      <4>1. CASE i = k
        BY <2>6, <2>7, <4>1
      <4>2. CASE i # k
        <5>1. i \in 1 .. o
          BY <2>4, <4>2
        <5> QED BY <2>1, <2>7, <5>1 DEF AnsweredInv, OutputsWhole
      <4> QED BY <4>1, <4>2
    <3> HIDE DEF k
    <3> QED BY <2>7, <2>11, <3>1 DEF OutputsWhole
  <2>13. Run' = Run /\ Run = 1 + o - l /\ Len(posted') <= 1 + Len(output')
    <3>1. Run' = 1 + Len(output') - Len(posted') /\ Run = 1 + o - l
      BY DEF Run
    <3> QED BY <2>4, <2>7, <2>8, <3>1
  <2>14. e = Message("send", Reply(Run + (l + 1)))
    <3>1. Run + (l + 1) = k + 1 /\ k + 1 # 1 /\ (k + 1) - 1 = k
      BY <2>4, <2>13
    <3>2. Reply(k + 1) = Echo(Payload(k))
      <4> HIDE DEF k
      <4> QED BY <3>1 DEF Reply
    <3> QED BY <2>6, <3>1, <3>2 DEF e
  <2>15. \A i \in 1 .. Len(posted') : posted'[i] = Message("send", Reply(Run + i))
    <3> SUFFICES ASSUME NEW i \in 1 .. Len(posted')
                 PROVE  posted'[i] = Message("send", Reply(Run + i))
      OBVIOUS
    <3>1. CASE i = l + 1
      BY <2>8, <2>14, <3>1
    <3>2. CASE i # l + 1
      <4>1. i \in 1 .. l
        BY <2>4, <2>8, <3>2
      <4> QED BY <2>1, <2>9, <4>1 DEF AnsweredInv
    <3> QED BY <3>1, <3>2
  <2>16. \A i \in 1 .. Len(messages') : IsRecv(messages', i)
          => messages'[i].package = Payload(Len(output') + Recvs(messages', i))
    <3> SUFFICES ASSUME NEW i \in 1 .. Len(messages'), IsRecv(messages', i)
                 PROVE  messages'[i].package = Payload(Len(output') + Recvs(messages', i))
      OBVIOUS
    <3>1. i + 1 \in 1 .. Len(messages) /\ messages'[i] = messages[i + 1] /\ IsRecv(messages, i + 1)
      BY <1>3
    <3>2. messages[i + 1].package = Payload(o + Recvs(messages, i + 1))
      BY <2>1, <3>1 DEF AnsweredInv
    <3>3. i \in 0 .. Len(messages')
      BY <1>3
    <3>4. o + Recvs(messages, i + 1) = Len(output') + Recvs(messages', i)
      BY <2>3, <2>4, <2>7, <3>3
    <3> QED BY <3>1, <3>2, <3>4
  <2>17. state = "response" => Popped' = 0
    BY <2>1, <2>10 DEF AnsweredInv
  <2>18. state = "connected" \/ (\E i \in 1 .. Len(messages') : messages'[i].kind = "onsend")
          => received # <<>>
    <3>1. state = "connected" \/ (\E i \in 1 .. Len(messages) : messages[i].kind = "onsend")
            => received # <<>>
      BY <2>1 DEF AnsweredInv
    <3> QED BY <1>3, <3>1
  <2>19. /\ ~overrun /\ IsPrefix(received, Answers)
         /\ ~failed => received \o sendBuff = Said(Run)
         /\ ~failed => sent = FrameStart(Popped) + Len(recvBuff) + Len(unread)
         /\ pc = "pop" => Header /\ Whole(recvBuff)
    BY <2>1 DEF AnsweredInv
  <2>20. (pc = "pop" => Header /\ Whole(recvBuff))'
    BY <1>1, <2>19 DEF Header, Whole, FrameLength
  <2>21. ~overrun' /\ Popped' <= N
    BY <1>1, <2>10, <2>11, <2>19
  <2>22. /\ IsPrefix(received', Answers)
         /\ ~failed' => received' \o sendBuff' = Said(Run')
         /\ ~failed' => sent' = FrameStart(Popped') + Len(recvBuff') + Len(unread')
    BY <1>1, <2>10, <2>13, <2>19
  <2> QED BY <1>1, <2>12, <2>13, <2>15, <2>16, <2>17, <2>18, <2>20, <2>21, <2>22 DEF AnsweredInv
<1> QED BY <1>1, <1>2, <1>6, <1>7, HandledBasic DEF WsInv, Unanswered, Handshaking

\* Every message of the session is one of these.
LEMMA HandleKeeps ==
    ASSUME WsInv, HandleMessage
    PROVE  WsInv'
<1>1. messages # <<>> /\ messages' = Tail(messages)
  BY DEF HandleMessage
<1>2. Head(messages) = messages[1]
  <2>1. TypesInv
    BY DEF WsInv, BasicInv
  <2> QED BY <1>1, <2>1, MessageHandled
<1>3. \/ messages[1].kind = "connected" /\ OnConnected
      \/ messages[1].kind = "recv" /\ OnRecv(messages[1].package)
      \/ messages[1].kind = "onsend" /\ OnSend
      \/ messages[1].kind = "close" /\ OnClose
  BY <1>2 DEF HandleMessage
<1>4. CASE messages[1].kind = "connected" /\ OnConnected
  BY <1>4, OnConnectedKeeps
<1>5. CASE messages[1].kind = "recv" /\ OnRecv(messages[1].package)
  BY <1>5, RequestKeeps, EchoKeeps
<1>6. CASE messages[1].kind = "onsend" /\ OnSend
  BY <1>6, OnSendKeeps
<1>7. CASE messages[1].kind = "close" /\ OnClose
  BY <1>7, OnCloseKeeps
<1> QED BY <1>3, <1>4, <1>5, <1>6, <1>7

-----------------------------------------------------------------------------
(* The theorems *)

\* Every step keeps the invariant, and so does a stutter.
LEMMA WsStep ==
    ASSUME WsInv, [Next]_vars
    PROVE  WsInv'
<1>1. CASE Recv
  BY <1>1, RecvKeeps
<1>2. CASE RecvEnds
  BY <1>2, RecvEndsKeeps
<1>3. CASE Check
  BY <1>3, CheckKeeps
<1>4. CASE Pop
  BY <1>4, PopKeeps
<1>5. CASE RunEvent
  BY <1>5, RunEventKeeps
<1>6. CASE SendMessage
  BY <1>6, SendMessageKeeps
<1>7. CASE HandleMessage
  BY <1>7, HandleKeeps
<1>8. CASE Segment
  BY <1>8, SegmentKeeps
<1>9. CASE Leave
  BY <1>9, LeaveKeeps
<1>10. CASE UNCHANGED vars
  <2>1. UNCHANGED <<sent, left, unread, received, pc, failed, overrun, recvBuff, sendBuff, posted,
                    messages, state, refused, output, early>>
    BY <1>10 DEF vars, netVars, ioVars, sessionVars
  <2>2. BasicInv'
    BY <2>1 DEF WsInv, BasicInv, TypesInv, QueueInv, Contiguous
  <2>3. (Unanswered => UnansweredInv)'
    BY <2>1 DEF WsInv, Unanswered, Handshaking, UnansweredInv, PiecesInv, Drained, ClosesFirst,
        EndsRequest
  <2>4. (Answering => AnsweredInv)'
    BY <2>1 DEF WsInv, Answering, Handshaking, AnsweredInv, OutputsWhole, Popped, Run, Header, Whole,
        FrameLength
  <2>5. (state = "deleted" => DeletedInv)'
    BY <2>1 DEF WsInv, DeletedInv, OutputsWhole
  <2> QED BY <2>2, <2>3, <2>4, <2>5 DEF WsInv
<1> QED BY <1>1, <1>2, <1>3, <1>4, <1>5, <1>6, <1>7, <1>8, <1>9, <1>10 DEF Next, Progress

\* The invariant holds in every state of every behaviour.
THEOREM WsInductive == Spec => []WsInv
<1>1. Init => WsInv
  BY WsInit
<1>2. WsInv /\ [Next]_vars => WsInv'
  BY WsStep
<1> QED BY <1>1, <1>2, PTL DEF Spec

\* The session is told of its end once, and nothing is asked of it once it is deleted: the I/O
\* thread is out of its read loop and the queue is empty.
THEOREM TypeCorrect == Spec => []TypeOK
<1>1. WsInv => TypeOK
  BY WsInvImplies
<1> QED BY <1>1, WsInductive, PTL

\* However the frames are cut into segments, OnRecv gets each payload whole and in order, and
\* PopData never cuts more than there is, unless CheckPackage has accepted units of frames before
\* the session is connected: that race is the only way to spoil a frame.
THEOREM FramesArriveWhole == Spec => []FramesWhole
<1>1. WsInv => FramesWhole
  BY WsInvImplies
<1> QED BY <1>1, WsInductive, PTL

-----------------------------------------------------------------------------
(* The response, whatever races with it *)

\* There are frames only once the client has the whole response.
ResponseFirst ==
    /\ sent > RequestSize => IsPrefix(Response(KeyUnit), received)
    /\ early => sent > RequestSize

\* What the client receives later leaves a prefix as it is.
LEMMA PrefixStays ==
    ASSUME NEW A, NEW r \in Seq(A), NEW s \in Seq(A), NEW t \in Seq(A), IsPrefix(r, s)
    PROVE  IsPrefix(r, s \o t)
<1>1. Len(r) \in Nat /\ Len(s) \in Nat /\ Len(t) \in Nat
  OBVIOUS
<1>2. Len(r) <= Len(s) /\ \A i \in 1 .. Len(r) : r[i] = s[i]
  BY PrefixElements
<1>3. /\ s \o t \in Seq(A) /\ Len(s \o t) = Len(s) + Len(t)
      /\ \A i \in 1 .. Len(s) : (s \o t)[i] = s[i]
  BY Concatenation
<1>4. Len(r) <= Len(s \o t) /\ \A i \in 1 .. Len(r) : r[i] = (s \o t)[i]
  BY <1>1, <1>2, <1>3
<1> QED BY <1>3, <1>4, PrefixElements

\* Every step keeps it.
LEMMA ResponseFirstStep ==
    ASSUME WsInv, ResponseFirst, [Next]_vars
    PROVE  ResponseFirst'
<1> DEFINE r == Response(KeyUnit)
<1>1. r \in Seq(Unit) /\ received \in Seq(Unit) /\ sent \in Nat /\ RequestSize \in Nat
  <2>1. KeyUnit \in Nat /\ RequestSize \in Nat
    BY WsSizes
  <2>2. r \in Seq(Unit)
    BY <2>1, ResponseUnits
  <2>3. received \in Seq(Unit) /\ sent \in Nat
    BY ScriptUnits DEF WsInv, BasicInv, TypesInv
  <2> QED BY <2>1, <2>2, <2>3
<1> HIDE DEF r
<1>2. /\ sent > RequestSize => IsPrefix(r, received)
      /\ early => sent > RequestSize
  BY DEF ResponseFirst, r
<1>3. ASSUME sent' = sent, received' = received, early' => early \/ sent > RequestSize
      PROVE  ResponseFirst'
  BY <1>2, <1>3 DEF ResponseFirst, r
<1>4. CASE Check
  <2>1. /\ pc = "check" /\ sent' = sent /\ received' = received
        /\ early' => early \/ \E i \in DOMAIN recvBuff : recvBuff[i][1] = "frame"
    BY <1>4 DEF Check, netVars
  <2>2. Contiguous /\ recvBuff \in Seq(Unit) /\ Len(unread) \in Nat /\ Len(recvBuff) \in Nat
        /\ Len(unread) + Len(recvBuff) <= sent
    BY <2>1 DEF WsInv, BasicInv, TypesInv
  <2>3. ASSUME NEW i \in DOMAIN recvBuff, recvBuff[i][1] = "frame" PROVE sent > RequestSize
    <3> DEFINE k == sent - Len(unread) - Len(recvBuff) + i
    <3>1. i \in 1 .. Len(recvBuff)
      BY <2>2, <2>3
    <3>2. k \in 1 .. sent
      BY <1>1, <2>2, <3>1
    <3>3. recvBuff[i] = Script[k]
      BY <2>2, <3>1 DEF Contiguous
    <3> HIDE DEF k
    <3>4. k \notin 1 .. RequestSize
      <4> SUFFICES ASSUME k \in 1 .. RequestSize PROVE FALSE
        OBVIOUS
      <4>1. Script[k] = <<"request", 0, k>>
        BY ScriptUnits
      <4> QED BY <2>3, <3>3, <4>1
    <3> QED BY <1>1, <3>2, <3>4
  <2> QED BY <1>3, <2>1, <2>3
<1>5. CASE SendMessage
  <2>1. PICK n \in 1 .. Len(sendBuff) : received' = received \o SubSeq(sendBuff, 1, n)
    BY <1>5 DEF SendMessage
  <2>2. sendBuff \in Seq(Unit) /\ Len(sendBuff) \in Nat
    BY DEF WsInv, BasicInv, TypesInv
  <2>3. SubSeq(sendBuff, 1, n) \in Seq(Unit)
    BY <2>2, Beginning
  <2>4. IsPrefix(r, received) => IsPrefix(r, received')
    BY <1>1, <2>1, <2>3, PrefixStays
  <2>5. sent' = sent /\ early' = early
    BY <1>5 DEF SendMessage
  <2> QED BY <1>2, <2>4, <2>5 DEF ResponseFirst, r
<1>6. CASE Segment
  <2>1. PICK n \in sent + 1 .. Len(Script) :
           /\ n > RequestSize => IsPrefix(r, received)
           /\ sent' = n
    BY <1>6 DEF Segment, r
  <2>2. received' = received /\ early' = early
    BY <1>6 DEF Segment
  <2>3. Len(Script) \in Nat
    BY ScriptUnits
  <2>4. n > sent /\ n \in Nat
    BY <1>1, <2>1, <2>3
  <2>5. early => n > RequestSize
    BY <1>1, <1>2, <2>4
  <2> QED BY <2>1, <2>2, <2>5 DEF ResponseFirst, r
<1>7. CASE Recv \/ RecvEnds \/ Pop \/ RunEvent \/ HandleMessage \/ Leave \/ UNCHANGED vars
  <2>1. sent' = sent /\ received' = received /\ early' = early
    BY <1>7 DEF Recv, RecvEnds, Pop, RunEvent, HandleMessage, Leave, vars, netVars
  <2> QED BY <1>3, <2>1
<1> QED BY <1>4, <1>5, <1>6, <1>7 DEF Next, Progress

\* The client receives the response to its key raw and once before anything else, whatever
\* races; then each echo in a frame, unless CheckPackage has accepted units of frames too early.
\* A session that is closed for its request has answered nothing.
THEOREM AnswersComeInOrder == Spec => []AnswersInOrder
<1>1. Init => ResponseFirst
  <2> SUFFICES ASSUME Init PROVE ResponseFirst
    OBVIOUS
  <2>1. sent = 0 /\ early = FALSE
    BY DEF Init
  <2> QED BY <2>1, WsSizes DEF ResponseFirst
<1>2. WsInv /\ ResponseFirst /\ [Next]_vars => ResponseFirst'
  BY ResponseFirstStep
<1>3. WsInv /\ ResponseFirst => AnswersInOrder
  <2> SUFFICES ASSUME WsInv, ResponseFirst PROVE AnswersInOrder
    OBVIOUS
  <2>1. /\ ~early => IsPrefix(received, Answers)
        /\ refused => received = <<>>
    BY WsInvImplies
  <2> QED BY <2>1 DEF ResponseFirst, AnswersInOrder
<1> QED BY <1>1, <1>2, <1>3, WsInductive, PTL DEF Spec

=============================================================================
