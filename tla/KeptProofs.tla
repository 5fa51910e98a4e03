------------------------------ MODULE KeptProofs ------------------------------
(* What the loop Kept of LogChunks computes, for any lines: the provers know *)
(* a recursive function by its CHOOSE only, so that there is one, and what   *)
(* follows about it, is shown here by least counterexamples.                 *)
EXTENDS LogChunks, SequenceTheorems, WellFoundedInduction, TLAPS

\* A set of numbers has a least one.
LEMMA LeastNat ==
  ASSUME NEW T, T \subseteq Nat, T # {}
  PROVE  \E m \in T : \A k \in T : m <= k
<1> DEFINE R == OpToRel(<, Nat)
<1>1. IsWellFoundedOn(R, Nat)
  BY NatLessThanWellFounded
<1>2. \A x, y \in Nat : <<y, x>> \in R <=> y < x
  BY DEF OpToRel
<1> HIDE DEF R
<1>3. PICK m \in T : \A k \in T : ~ (<<k, m>> \in R)
  BY <1>1, WFMin
<1>4. m \in Nat /\ \A k \in T : k \in Nat /\ ~ (k < m)
  BY <1>2, <1>3
<1>5. \A k \in T : m <= k
  BY <1>4
<1>6. QED
  BY <1>5

\* g is the loop over the first n of the lines ls.
IsLoop(g, ls, S, n) ==
  g = [i \in 0..n |->
         IF i = 0 THEN <<>>
         ELSE IF ls[i] \in S THEN Append(g[i - 1], ls[i]) ELSE g[i - 1]]

\* Where the loop starts.
LEMMA LoopStart ==
  ASSUME NEW S, NEW ls, NEW n \in Nat, NEW g, IsLoop(g, ls, S, n)
  PROVE  g[0] = <<>>
<1>1. \A i \in 0..n : g[i] = IF i = 0 THEN <<>>
                             ELSE IF ls[i] \in S THEN Append(g[i - 1], ls[i]) ELSE g[i - 1]
  BY DEF IsLoop
<1>2. QED
  BY <1>1

\* From one line to the next.
LEMMA LoopStep ==
  ASSUME NEW S, NEW ls, NEW n \in Nat, NEW g, IsLoop(g, ls, S, n), NEW i \in 1..n
  PROVE  g[i] = IF ls[i] \in S THEN Append(g[i - 1], ls[i]) ELSE g[i - 1]
<1>1. \A j \in 0..n : g[j] = IF j = 0 THEN <<>>
                             ELSE IF ls[j] \in S THEN Append(g[j - 1], ls[j]) ELSE g[j - 1]
  BY DEF IsLoop
<1>2. i \in 0..n /\ i # 0
  OBVIOUS
<1>3. QED
  BY <1>1, <1>2

LEMMA LoopExists ==
  ASSUME NEW S, NEW ls, NEW n \in Nat
  PROVE  \E g : IsLoop(g, ls, S, n)
<1> DEFINE T == {k \in Nat : ~ \E g : IsLoop(g, ls, S, k)}
<1>1. SUFFICES ASSUME T # {} PROVE FALSE
  OBVIOUS
<1>2. PICK m \in T : \A k \in T : m <= k
  BY <1>1, LeastNat
<1>3. m \in Nat /\ ~ \E g : IsLoop(g, ls, S, m)
  BY <1>2
<1>4. CASE m = 0
  <2>1. IsLoop([i \in 0..0 |-> <<>>], ls, S, 0)
    BY DEF IsLoop
  <2>2. QED
    BY <1>3, <1>4, <2>1
<1>5. CASE m # 0
  <2>1. m - 1 \in Nat /\ m - 1 \notin T
    BY <1>2, <1>3, <1>5
  <2>2. PICK g : IsLoop(g, ls, S, m - 1)
    BY <2>1
  <2> DEFINE next == IF ls[m] \in S THEN Append(g[m - 1], ls[m]) ELSE g[m - 1]
             h == [i \in 0..m |-> IF i = m THEN next ELSE g[i]]
  <2>3. \A i \in 0..m : h[i] = IF i = m THEN next ELSE g[i]
    OBVIOUS
  <2>4. \A i \in 0..m : h[i] = IF i = 0 THEN <<>>
                               ELSE IF ls[i] \in S THEN Append(h[i - 1], ls[i]) ELSE h[i - 1]
    <3> SUFFICES ASSUME NEW i \in 0..m
                 PROVE  h[i] = IF i = 0 THEN <<>>
                               ELSE IF ls[i] \in S THEN Append(h[i - 1], ls[i]) ELSE h[i - 1]
      OBVIOUS
    <3>a. i \in Int /\ 0 <= i /\ i <= m
      BY <1>3
    <3> HIDE DEF h, next
    <3>1. CASE i = 0
      <4>1. h[0] = g[0]
        BY <1>3, <1>5, <2>3
      <4>2. g[0] = <<>>
        BY <2>1, <2>2, LoopStart
      <4>3. QED
        BY <3>1, <4>1, <4>2
    <3>2. CASE i # 0 /\ i # m
      <4>1. i \in 1..(m - 1) /\ i - 1 \in 0..m /\ i - 1 # m /\ i \in 0..m
        BY <1>3, <3>a, <3>2
      <4>2. h[i] = g[i] /\ h[i - 1] = g[i - 1]
        BY <2>3, <3>2, <4>1
      <4>3. g[i] = IF ls[i] \in S THEN Append(g[i - 1], ls[i]) ELSE g[i - 1]
        BY <2>1, <2>2, <4>1, LoopStep
      <4>4. h[i] = IF ls[i] \in S THEN Append(h[i - 1], ls[i]) ELSE h[i - 1]
        BY <4>2, <4>3
      <4>5. QED
        BY <3>2, <4>4
    <3>3. CASE i = m
      <4>1. m - 1 \in 0..m /\ m - 1 # m
        BY <1>3, <1>5
      <4>2. h[i] = next /\ h[i - 1] = g[i - 1]
        BY <2>3, <3>3, <4>1
      <4>3. QED
        BY <1>5, <3>3, <4>2 DEF next
    <3>4. QED
      BY <3>1, <3>2, <3>3
  <2>5. IsLoop(h, ls, S, m)
    <3>1. h = [i \in 0..m |-> h[i]]
      OBVIOUS
    <3> HIDE DEF h
    <3>2. QED
      BY <2>4, <3>1 DEF IsLoop
  <2>6. QED
    BY <1>3, <2>5
<1>6. QED
  BY <1>4, <1>5

\* Kept is the last value of such a loop.
LEMMA KeptLoop ==
  ASSUME NEW S, NEW A, NEW ls \in Seq(A)
  PROVE  \E g : IsLoop(g, ls, S, Len(ls)) /\ Kept(ls, S) = g[Len(ls)]
<1> DEFINE f == CHOOSE g : IsLoop(g, ls, S, Len(ls))
<1>1. Len(ls) \in Nat
  OBVIOUS
<1>2. IsLoop(f, ls, S, Len(ls))
  BY <1>1, LoopExists
<1>3. Kept(ls, S) = f[Len(ls)]
  BY DEF Kept, IsLoop
<1>4. QED
  BY <1>2, <1>3

\* The loop over a longer sequence passes through the same values.
LEMMA LoopPrefix ==
  ASSUME NEW S, NEW ls, NEW ks, NEW n \in Nat, NEW g, IsLoop(g, ls, S, n),
         NEW k \in 0..n, NEW h, IsLoop(h, ks, S, k), \A i \in 1..k : ks[i] = ls[i]
  PROVE  g[k] = h[k]
<1> DEFINE T == {i \in 0..k : g[i] # h[i]}
<1>1. SUFFICES ASSUME T # {} PROVE FALSE
  <2>1. k \in 0..k
    OBVIOUS
  <2>2. QED
    BY <2>1
<1>2. T \subseteq Nat
  OBVIOUS
<1>3. PICK m \in T : \A i \in T : m <= i
  BY <1>1, <1>2, LeastNat
<1>4. m \in 0..k /\ g[m] # h[m]
  BY <1>3
<1>5. CASE m = 0
  <2>1. g[0] = <<>>
    BY LoopStart
  <2>2. k \in Nat
    OBVIOUS
  <2>3. h[0] = <<>>
    BY <2>2, LoopStart
  <2>4. QED
    BY <1>4, <1>5, <2>1, <2>3
<1>6. CASE m # 0
  <2>1. m \in 1..k /\ m \in 1..n /\ m - 1 \in 0..k /\ ~ (m <= m - 1) /\ k \in Nat
    BY <1>4, <1>6
  <2>2. m - 1 \notin T
    BY <1>3, <2>1
  <2>3. g[m - 1] = h[m - 1]
    BY <2>1, <2>2
  <2>4. g[m] = IF ls[m] \in S THEN Append(g[m - 1], ls[m]) ELSE g[m - 1]
    BY <2>1, LoopStep
  <2>5. h[m] = IF ks[m] \in S THEN Append(h[m - 1], ks[m]) ELSE h[m - 1]
    BY <2>1, LoopStep
  <2>6. g[m] = h[m]
    BY <2>1, <2>3, <2>4, <2>5
  <2>7. QED
    BY <1>4, <2>6
<1>7. QED
  BY <1>5, <1>6

\* What is kept of the first k lines is where the loop stands after them.
LEMMA KeptPrefix ==
  ASSUME NEW S, NEW A, NEW ls \in Seq(A), NEW g, IsLoop(g, ls, S, Len(ls))
  PROVE  \A k \in 0..Len(ls) : Kept(SubSeq(ls, 1, k), S) = g[k]
<1> SUFFICES ASSUME NEW k \in 0..Len(ls) PROVE Kept(SubSeq(ls, 1, k), S) = g[k]
  OBVIOUS
<1> DEFINE ks == SubSeq(ls, 1, k)
<1>1. ks \in Seq(A) /\ Len(ks) = k /\ \A i \in 1..k : ks[i] = ls[i]
  OBVIOUS
<1> HIDE DEF ks
<1>2. PICK h : IsLoop(h, ks, S, k) /\ Kept(ks, S) = h[k]
  BY <1>1, KeptLoop
<1>3. Len(ls) \in Nat
  OBVIOUS
<1>4. g[k] = h[k]
  BY <1>1, <1>2, <1>3, LoopPrefix
<1>5. QED
  BY <1>2, <1>4 DEF ks

\* One line more.
LEMMA KeptNext ==
  ASSUME NEW S, NEW A, NEW ls \in Seq(A), NEW k \in 1..Len(ls)
  PROVE  Kept(SubSeq(ls, 1, k), S) =
           IF ls[k] \in S THEN Append(Kept(SubSeq(ls, 1, k - 1), S), ls[k])
                          ELSE Kept(SubSeq(ls, 1, k - 1), S)
<1>1. PICK g : IsLoop(g, ls, S, Len(ls))
  <2>1. Len(ls) \in Nat
    OBVIOUS
  <2>2. QED
    BY <2>1, LoopExists
<1>2. k \in 0..Len(ls) /\ k - 1 \in 0..Len(ls) /\ Len(ls) \in Nat
  OBVIOUS
<1>3. g[k] = IF ls[k] \in S THEN Append(g[k - 1], ls[k]) ELSE g[k - 1]
  BY <1>1, <1>2, LoopStep
<1>4. Kept(SubSeq(ls, 1, k), S) = g[k] /\ Kept(SubSeq(ls, 1, k - 1), S) = g[k - 1]
  BY <1>1, <1>2, KeptPrefix
<1>5. QED
  BY <1>3, <1>4

LEMMA KeptEmpty == \A S : Kept(<<>>, S) = <<>>
<1> SUFFICES ASSUME NEW S PROVE Kept(<<>>, S) = <<>>
  OBVIOUS
<1>1. <<>> \in Seq({}) /\ Len(<<>>) = 0
  OBVIOUS
<1>2. PICK g : IsLoop(g, <<>>, S, Len(<<>>)) /\ Kept(<<>>, S) = g[Len(<<>>)]
  BY <1>1, KeptLoop
<1>3. IsLoop(g, <<>>, S, 0) /\ Kept(<<>>, S) = g[0]
  BY <1>1, <1>2
<1>4. g[0] = <<>>
  <2>1. 0 \in Nat
    OBVIOUS
  <2>2. QED
    BY <1>3, <2>1, LoopStart
<1>5. QED
  BY <1>3, <1>4

-----------------------------------------------------------------------------
(* What the log parser relies on.                                          *)

LEMMA WholeSeq ==
  ASSUME NEW A, NEW ls \in Seq(A)
  PROVE  SubSeq(ls, 1, Len(ls)) = ls
  OBVIOUS

LEMMA ConcatAppend ==
  ASSUME NEW A, NEW s \in Seq(A), NEW t \in Seq(A), NEW e \in A
  PROVE  s \o Append(t, e) = Append(s \o t, e)
<1>1. Append(t, e) = t \o <<e>> /\ <<e>> \in Seq(A) /\ s \o t \in Seq(A)
  BY AppendIsConcat
<1>2. s \o (t \o <<e>>) = (s \o t) \o <<e>>
  BY <1>1, ConcatAssociative
<1>3. Append(s \o t, e) = (s \o t) \o <<e>>
  BY <1>1, AppendIsConcat
<1>4. QED
  BY <1>1, <1>2, <1>3

\* What is kept of lines are lines.
LEMMA KeptType ==
  ASSUME NEW S, NEW A, NEW ls \in Seq(A)
  PROVE  Kept(ls, S) \in Seq(A)
<1> DEFINE T == {k \in 0..Len(ls) : Kept(SubSeq(ls, 1, k), S) \notin Seq(A)}
<1>1. SUFFICES ASSUME T # {} PROVE FALSE
  <2>1. Len(ls) \in 0..Len(ls)
    OBVIOUS
  <2>2. QED
    BY <2>1, WholeSeq
<1>2. T \subseteq Nat
  OBVIOUS
<1>3. PICK m \in T : \A i \in T : m <= i
  BY <1>1, <1>2, LeastNat
<1>4. m \in 0..Len(ls) /\ Kept(SubSeq(ls, 1, m), S) \notin Seq(A)
  BY <1>3
<1>5. CASE m = 0
  <2>1. SubSeq(ls, 1, m) = <<>>
    BY <1>5
  <2>2. Kept(SubSeq(ls, 1, m), S) = <<>>
    BY <2>1, KeptEmpty
  <2>3. <<>> \in Seq(A)
    OBVIOUS
  <2>4. QED
    BY <1>4, <2>2, <2>3
<1>6. CASE m # 0
  <2>1. m \in 1..Len(ls) /\ m - 1 \in 0..Len(ls) /\ ~ (m <= m - 1)
    BY <1>4, <1>6
  <2>2. Kept(SubSeq(ls, 1, m - 1), S) \in Seq(A)
    BY <1>3, <2>1
  <2>3. ls[m] \in A
    BY <2>1
  <2>4. Append(Kept(SubSeq(ls, 1, m - 1), S), ls[m]) \in Seq(A)
    BY <2>2, <2>3
  <2>5. Kept(SubSeq(ls, 1, m), S) =
          IF ls[m] \in S THEN Append(Kept(SubSeq(ls, 1, m - 1), S), ls[m])
                         ELSE Kept(SubSeq(ls, 1, m - 1), S)
    BY <2>1, KeptNext
  <2>6. QED
    BY <1>4, <2>2, <2>4, <2>5
<1>7. QED
  BY <1>5, <1>6

\* The last of some lines from the middle.
LEMMA KeptLast ==
  ASSUME NEW S, NEW A, NEW ls \in Seq(A), NEW a \in 0..Len(ls), NEW b \in (a + 1)..Len(ls)
  PROVE  Kept(SubSeq(ls, a + 1, b), S) =
           IF ls[b] \in S THEN Append(Kept(SubSeq(ls, a + 1, b - 1), S), ls[b])
                          ELSE Kept(SubSeq(ls, a + 1, b - 1), S)
<1> DEFINE ms == SubSeq(ls, a + 1, b)
<1>1. ms \in Seq(A) /\ Len(ms) = b - a
  OBVIOUS
<1>2. ms[b - a] = ls[b]
  OBVIOUS
<1>3. SubSeq(ms, 1, b - a) = ms /\ SubSeq(ms, 1, b - a - 1) = SubSeq(ls, a + 1, b - 1)
  OBVIOUS
<1>4. b - a \in 1..Len(ms)
  BY <1>1
<1> HIDE DEF ms
<1>5. Kept(SubSeq(ms, 1, b - a), S) =
        IF ms[b - a] \in S THEN Append(Kept(SubSeq(ms, 1, b - a - 1), S), ms[b - a])
                           ELSE Kept(SubSeq(ms, 1, b - a - 1), S)
  BY <1>1, <1>4, KeptNext
<1>6. QED
  BY <1>2, <1>3, <1>5 DEF ms

\* What is kept of two stretches of lines, one behind the other, is what is kept of
\* both.
LEMMA KeptSplit ==
  ASSUME NEW S, NEW A, NEW ls \in Seq(A), NEW a \in 0..Len(ls), NEW b \in a..Len(ls)
  PROVE  Kept(SubSeq(ls, 1, a), S) \o Kept(SubSeq(ls, a + 1, b), S)
           = Kept(SubSeq(ls, 1, b), S)
<1>1. PICK front \in Seq(A) : front = Kept(SubSeq(ls, 1, a), S)
  <2>1. SubSeq(ls, 1, a) \in Seq(A)
    OBVIOUS
  <2>2. QED
    BY <2>1, KeptType
<1> DEFINE T == {k \in a..Len(ls) :
                   front \o Kept(SubSeq(ls, a + 1, k), S) # Kept(SubSeq(ls, 1, k), S)}
<1>2. SUFFICES ASSUME T # {} PROVE FALSE
  BY <1>1
<1>3. T \subseteq Nat
  OBVIOUS
<1>4. PICK m \in T : \A i \in T : m <= i
  BY <1>2, <1>3, LeastNat
<1>5. m \in a..Len(ls)
      /\ front \o Kept(SubSeq(ls, a + 1, m), S) # Kept(SubSeq(ls, 1, m), S)
  BY <1>4
<1>6. CASE m = a
  <2>1. SubSeq(ls, a + 1, m) = <<>>
    BY <1>6
  <2>2. Kept(SubSeq(ls, a + 1, m), S) = <<>>
    BY <2>1, KeptEmpty
  <2>3. front \o <<>> = front
    BY <1>1
  <2>4. QED
    BY <1>5, <1>1, <1>6, <2>2, <2>3
<1>7. CASE m # a
  <2>1. /\ m \in (a + 1)..Len(ls) /\ m \in 1..Len(ls) /\ m - 1 \in a..Len(ls)
        /\ ~ (m <= m - 1)
    BY <1>5, <1>7
  <2>2. PICK back \in Seq(A) : back = Kept(SubSeq(ls, a + 1, m - 1), S)
    <3>1. SubSeq(ls, a + 1, m - 1) \in Seq(A)
      BY <2>1
    <3>2. QED
      BY <3>1, KeptType
  <2>3. front \o back = Kept(SubSeq(ls, 1, m - 1), S)
    BY <1>4, <2>1, <2>2
  <2> HIDE DEF T
  <2>4. ls[m] \in A
    BY <2>1
  <2>5. Kept(SubSeq(ls, a + 1, m), S) = IF ls[m] \in S THEN Append(back, ls[m]) ELSE back
    BY <2>1, <2>2, KeptLast
  <2>6. Kept(SubSeq(ls, 1, m), S) =
          IF ls[m] \in S THEN Append(front \o back, ls[m]) ELSE front \o back
    BY <2>1, <2>3, KeptNext
  <2>7. front \o Append(back, ls[m]) = Append(front \o back, ls[m])
    BY <2>4, ConcatAppend
  <2>8. QED
    BY <1>5, <2>5, <2>6, <2>7
<1>8. QED
  BY <1>6, <1>7

\* What is kept depends only on which of the lines are in the set.
LEMMA KeptSame ==
  ASSUME NEW S, NEW R, NEW A, NEW ls \in Seq(A),
         \A i \in 1..Len(ls) : ls[i] \in S <=> ls[i] \in R
  PROVE  Kept(ls, S) = Kept(ls, R)
<1> DEFINE T == {k \in 0..Len(ls) : Kept(SubSeq(ls, 1, k), S) # Kept(SubSeq(ls, 1, k), R)}
<1>1. SUFFICES ASSUME T # {} PROVE FALSE
  <2>1. Len(ls) \in 0..Len(ls)
    OBVIOUS
  <2>2. QED
    BY <2>1, WholeSeq
<1>2. T \subseteq Nat
  OBVIOUS
<1>3. PICK m \in T : \A i \in T : m <= i
  BY <1>1, <1>2, LeastNat
<1>4. m \in 0..Len(ls) /\ Kept(SubSeq(ls, 1, m), S) # Kept(SubSeq(ls, 1, m), R)
  BY <1>3
<1>5. CASE m = 0
  <2>1. SubSeq(ls, 1, m) = <<>>
    BY <1>5
  <2>2. QED
    BY <1>4, <2>1, KeptEmpty
<1>6. CASE m # 0
  <2>1. m \in 1..Len(ls) /\ m - 1 \in 0..Len(ls) /\ ~ (m <= m - 1)
    BY <1>4, <1>6
  <2>2. Kept(SubSeq(ls, 1, m - 1), S) = Kept(SubSeq(ls, 1, m - 1), R)
    BY <1>3, <2>1
  <2>3. ls[m] \in S <=> ls[m] \in R
    BY <2>1
  <2>4. Kept(SubSeq(ls, 1, m), S) =
          IF ls[m] \in S THEN Append(Kept(SubSeq(ls, 1, m - 1), S), ls[m])
                         ELSE Kept(SubSeq(ls, 1, m - 1), S)
    BY <2>1, KeptNext
  <2>5. Kept(SubSeq(ls, 1, m), R) =
          IF ls[m] \in R THEN Append(Kept(SubSeq(ls, 1, m - 1), R), ls[m])
                         ELSE Kept(SubSeq(ls, 1, m - 1), R)
    BY <2>1, KeptNext
  <2>6. QED
    BY <1>4, <2>2, <2>3, <2>4, <2>5
<1>7. QED
  BY <1>5, <1>6
=============================================================================
