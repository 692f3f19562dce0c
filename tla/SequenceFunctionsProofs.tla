------------------------ MODULE SequenceFunctionsProofs ------------------------
(***************************************************************************)
(* What the functions of SequenceFunctions return for every sequence, and  *)
(* sums over finite sets (SumFunctionOnSet of Functions).                  *)
(*                                                                         *)
(* The induction is over sets: a set of numbers that has 0 and with a      *)
(* number its successor has them all.  It follows from the library's       *)
(* theorem on minimal elements, which unlike the induction rules takes no  *)
(* operator.                                                               *)
(***************************************************************************)
EXTENDS SequenceFunctions, Functions, SequenceTheorems, FiniteSetTheorems, WellFoundedInduction, TLAPS

\* A set of numbers that is not empty has a least one.
LEMMA LeastNumber ==
    ASSUME NEW T \in SUBSET Nat, T # {}
    PROVE  \E x \in T : \A y \in T : x <= y
  <1> DEFINE R == OpToRel(<, Nat)
  <1>1. IsWellFoundedOn(R, Nat)
    BY NatLessThanWellFounded
  <1>2. \A x, y \in Nat : <<y, x>> \in R <=> y < x
    BY DEF OpToRel
  <1> HIDE DEF R
  <1>3. PICK x \in T : \A y \in T : <<y, x>> \notin R
    BY <1>1, WFMin
  <1>4. \A y \in T : x <= y
    <2> SUFFICES ASSUME NEW y \in T PROVE x <= y
      OBVIOUS
    <2>1. x \in Nat /\ y \in Nat /\ ~(y < x)
      BY <1>2, <1>3
    <2>2. QED
      BY <2>1
  <1>5. QED
    BY <1>4

LEMMA InductionOverSet ==
    ASSUME NEW n \in Nat, NEW S,
           0 \in S,
           \A k \in 0..(n - 1) : k \in S => k + 1 \in S
    PROVE  0..n \subseteq S
  <1> DEFINE T == (0..n) \ S
  <1> SUFFICES ASSUME T # {} PROVE FALSE
    OBVIOUS
  <1>1. T \in SUBSET Nat
    OBVIOUS
  <1>2. PICK x \in T : \A y \in T : x <= y
    BY <1>1, LeastNumber
  <1>3. x \in 1..n /\ x - 1 \in 0..(n - 1) /\ x - 1 \notin T
    BY <1>2
  <1>4. x - 1 \in S
    BY <1>3
  <1>5. (x - 1) + 1 \in S
    BY <1>3, <1>4
  <1>6. QED
    BY <1>3, <1>5

-----------------------------------------------------------------------------
\* The recursion of PrefixSums has a solution: one over the first k numbers
\* can be continued by one number.
LEMMA PrefixSumsDefined ==
    ASSUME NEW c \in Seq(Nat)
    PROVE  /\ PrefixSums(c) \in [0..Len(c) -> Nat]
           /\ PrefixSums(c)[0] = 0
           /\ \A k \in 1..Len(c) : PrefixSums(c)[k] = PrefixSums(c)[k - 1] + c[k]
  <1> DEFINE n == Len(c)
             Sums(k, f) == /\ f \in [0..k -> Nat]
                           /\ f[0] = 0
                           /\ \A i \in 1..k : f[i] = f[i - 1] + c[i]
             S == {k \in Nat : \E f \in [0..k -> Nat] : Sums(k, f)}
             Step(f) == [k \in 0..n |-> IF k = 0 THEN 0 ELSE f[k - 1] + c[k]]
  <1>0. n \in Nat /\ \A i \in 1..n : c[i] \in Nat
    OBVIOUS
  <1>1. 0 \in S
    <2>1. Sums(0, [i \in 0..0 |-> 0])
      OBVIOUS
    <2>2. QED
      BY <2>1
  <1>2. \A k \in 0..(n - 1) : k \in S => k + 1 \in S
    <2> SUFFICES ASSUME NEW k \in 0..(n - 1), k \in S PROVE k + 1 \in S
      OBVIOUS
    <2>1. PICK f \in [0..k -> Nat] : Sums(k, f)
      OBVIOUS
    <2> DEFINE g == [i \in 0..(k + 1) |-> IF i <= k THEN f[i] ELSE f[k] + c[k + 1]]
    <2>2. k + 1 \in 1..n /\ c[k + 1] \in Nat /\ f[k] \in Nat
      BY <1>0
    <2>3. g \in [0..(k + 1) -> Nat]
      BY <2>2
    <2>4. g[0] = 0 /\ g[k + 1] = g[k] + c[k + 1] /\ \A i \in 0..k : g[i] = f[i]
      BY <2>1
    <2>5. \A i \in 1..(k + 1) : g[i] = g[i - 1] + c[i]
      <3> SUFFICES ASSUME NEW i \in 1..(k + 1) PROVE g[i] = g[i - 1] + c[i]
        OBVIOUS
      <3> HIDE DEF g
      <3>1. CASE i = k + 1
        BY <3>1, <2>4
      <3>2. CASE i \in 1..k
        <4>1. i \in 0..k /\ i - 1 \in 0..k
          BY <3>2
        <4>2. f[i] = f[i - 1] + c[i]
          BY <2>1, <3>2
        <4>3. QED
          BY <4>1, <4>2, <2>4
      <3>3. QED
        BY <3>1, <3>2
    <2>6. k + 1 \in Nat
      OBVIOUS
    <2> HIDE DEF g
    <2>7. Sums(k + 1, g)
      BY <2>3, <2>4, <2>5
    <2>8. QED
      BY <2>3, <2>6, <2>7
  <1>3. PICK f \in [0..n -> Nat] : Sums(n, f)
    <2> HIDE DEF S
    <2>1. 0..n \subseteq S
      BY <1>0, <1>1, <1>2, InductionOverSet
    <2>2. n \in S
      BY <1>0, <2>1
    <2>3. QED
      BY <2>2 DEF S
  <1>4. f = Step(f)
    BY <1>3
  <1> DEFINE P == PrefixSums(c)
  <1>5. P = CHOOSE g : g = Step(g)
    BY DEF PrefixSums
  <1>6. P = Step(P)
    <2> HIDE DEF Step
    <2>1. QED
      BY <1>4, <1>5
  <1> HIDE DEF P
  <1>7. P[0] = 0 /\ \A k \in 1..n : P[k] = P[k - 1] + c[k]
    <2>1. \A k \in 0..n : P[k] = IF k = 0 THEN 0 ELSE P[k - 1] + c[k]
      BY <1>6, Zenon
    <2>2. QED
      BY <2>1, <1>0
  <1>8. \A k \in 0..n : P[k] \in Nat
    <2> DEFINE U == {k \in 0..n : P[k] \in Nat}
    <2>1. 0 \in U
      BY <1>7, <1>0
    <2>2. \A k \in 0..(n - 1) : k \in U => k + 1 \in U
      <3> SUFFICES ASSUME NEW k \in 0..(n - 1), k \in U PROVE k + 1 \in U
        OBVIOUS
      <3>1. k + 1 \in 1..n /\ (k + 1) - 1 = k
        BY <1>0
      <3>2. P[k + 1] = P[k] + c[k + 1]
        BY <3>1, <1>7
      <3>3. QED
        BY <3>1, <3>2, <1>0
    <2> HIDE DEF U
    <2>3. 0..n \subseteq U
      BY <1>0, <2>1, <2>2, InductionOverSet
    <2>4. QED
      BY <2>3 DEF U
  <1>9. P \in [0..n -> Nat]
    <2>1. P = [k \in 0..n |-> P[k]]
      BY <1>6
    <2>2. QED
      BY <2>1, <1>8
  <1>10. QED
    BY <1>7, <1>9 DEF P

\* The first sums of two sequences that begin with the same numbers are equal.
LEMMA PrefixSumsAgree ==
    ASSUME NEW c \in Seq(Nat), NEW d \in Seq(Nat), NEW n \in Nat,
           n <= Len(c), n <= Len(d),
           \A i \in 1..n : c[i] = d[i]
    PROVE  \A k \in 0..n : PrefixSums(c)[k] = PrefixSums(d)[k]
  <1> DEFINE P == PrefixSums(c)
             Q == PrefixSums(d)
             U == {k \in 0..n : P[k] = Q[k]}
  <1>1. P[0] = Q[0] /\ \A k \in 1..n : P[k] = P[k - 1] + c[k] /\ Q[k] = Q[k - 1] + d[k]
    BY PrefixSumsDefined
  <1> HIDE DEF P, Q
  <1>2. 0 \in U
    BY <1>1
  <1>3. \A k \in 0..(n - 1) : k \in U => k + 1 \in U
    <2> SUFFICES ASSUME NEW k \in 0..(n - 1), k \in U PROVE k + 1 \in U
      OBVIOUS
    <2>1. k + 1 \in 1..n /\ (k + 1) - 1 = k
      OBVIOUS
    <2>2. P[k + 1] = P[k] + c[k + 1] /\ Q[k + 1] = Q[k] + d[k + 1]
      BY <2>1, <1>1
    <2>3. QED
      BY <2>1, <2>2
  <1> HIDE DEF U
  <1>4. 0..n \subseteq U
    BY <1>2, <1>3, InductionOverSet
  <1>5. QED
    BY <1>4 DEF U, P, Q

\* All sums but the first, without the first number.
LEMMA PrefixSumsOfTail ==
    ASSUME NEW c \in Seq(Nat), c # <<>>
    PROVE  \A k \in 1..Len(c) : PrefixSums(c)[k] = Head(c) + PrefixSums(Tail(c))[k - 1]
  <1> DEFINE n == Len(c) - 1
             t == Tail(c)
             P == PrefixSums(c)
             Q == PrefixSums(t)
             U == {k \in 0..n : P[k + 1] = Head(c) + Q[k]}
  <1>1. /\ n \in Nat /\ t \in Seq(Nat) /\ Len(t) = n /\ Len(c) = n + 1
        /\ \A k \in 1..n : t[k] = c[k + 1]
        /\ Head(c) = c[1] /\ Head(c) \in Nat
        /\ \A k \in 1..n : t[k] \in Nat
    OBVIOUS
  <1> HIDE DEF t, n
  <1>2. /\ P[0] = 0 /\ Q[0] = 0
        /\ \A k \in 1..(n + 1) : P[k] = P[k - 1] + c[k]
        /\ \A k \in 1..n : Q[k] = Q[k - 1] + t[k]
        /\ \A k \in 0..n : Q[k] \in Nat
    <2>1. /\ P[0] = 0 /\ \A k \in 1..(n + 1) : P[k] = P[k - 1] + c[k]
      BY <1>1, PrefixSumsDefined
    <2>2. /\ Q[0] = 0 /\ Q \in [0..n -> Nat] /\ \A k \in 1..n : Q[k] = Q[k - 1] + t[k]
      BY <1>1, PrefixSumsDefined
    <2>3. QED
      BY <2>1, <2>2
  <1> HIDE DEF P, Q
  <1>3. 0 \in U
    <2>1. P[1] = P[0] + c[1]
      BY <1>1, <1>2
    <2>2. QED
      BY <2>1, <1>1, <1>2
  <1>4. \A k \in 0..(n - 1) : k \in U => k + 1 \in U
    <2> SUFFICES ASSUME NEW k \in 0..(n - 1), k \in U PROVE k + 1 \in U
      OBVIOUS
    <2>1. k + 1 \in 1..n /\ k + 2 \in 1..(n + 1) /\ (k + 1) - 1 = k /\ (k + 2) - 1 = k + 1
      BY <1>1
    <2>2. P[k + 2] = P[k + 1] + c[k + 2] /\ Q[k + 1] = Q[k] + t[k + 1]
      BY <2>1, <1>2
    <2>3. t[k + 1] = c[k + 2] /\ t[k + 1] \in Nat /\ Q[k] \in Nat
      BY <2>1, <1>1, <1>2
    <2>4. P[k + 2] = Head(c) + Q[k + 1]
      BY <2>2, <2>3, <1>1
    <2>5. (k + 1) + 1 = k + 2 /\ k + 1 \in 0..n
      BY <2>1
    <2>6. QED
      BY <2>4, <2>5
  <1> HIDE DEF U
  <1>5. 0..n \subseteq U
    BY <1>1, <1>3, <1>4, InductionOverSet
  <1>6. ASSUME NEW k \in 1..Len(c)
        PROVE  P[k] = Head(c) + Q[k - 1]
    <2>1. k - 1 \in 0..n /\ (k - 1) + 1 = k
      BY <1>1
    <2>2. QED
      BY <2>1, <1>5 DEF U
  <1>7. QED
    BY <1>6 DEF P, Q, t

\* Every sum is at most the total.
LEMMA PrefixSumsMonotone ==
    ASSUME NEW c \in Seq(Nat)
    PROVE  \A k \in 0..Len(c) : PrefixSums(c)[k] <= Total(c)
  <1> DEFINE n == Len(c)
             P == PrefixSums(c)
             U == {k \in 0..n : \A j \in 0..k : P[j] <= P[k]}
  <1>1. /\ n \in Nat /\ \A k \in 1..n : c[k] \in Nat
        /\ P \in [0..n -> Nat] /\ \A k \in 1..n : P[k] = P[k - 1] + c[k]
    BY PrefixSumsDefined
  <1> HIDE DEF P, n
  <1>2. 0 \in U
    BY <1>1
  <1>3. \A k \in 0..(n - 1) : k \in U => k + 1 \in U
    <2> SUFFICES ASSUME NEW k \in 0..(n - 1), k \in U
                 PROVE  k + 1 \in U
      OBVIOUS
    <2> SUFFICES ASSUME NEW j \in 0..(k + 1)
                 PROVE  P[j] <= P[k + 1]
      BY <1>1
    <2>1. k + 1 \in 1..n /\ (k + 1) - 1 = k
      BY <1>1
    <2>2. P[k + 1] = P[k] + c[k + 1] /\ c[k + 1] \in Nat /\ P[k] \in Nat
      BY <2>1, <1>1
    <2>3. CASE j = k + 1
      BY <2>2, <2>3
    <2>4. CASE j \in 0..k
      <3>1. P[j] <= P[k] /\ P[j] \in Nat
        BY <2>4, <1>1
      <3>2. QED
        BY <3>1, <2>2
    <2>5. QED
      BY <2>3, <2>4
  <1> HIDE DEF U
  <1>4. 0..n \subseteq U
    BY <1>1, <1>2, <1>3, InductionOverSet
  <1>5. n \in U
    BY <1>1, <1>4
  <1>6. QED
    BY <1>5 DEF U, P, n, Total

-----------------------------------------------------------------------------
\* The total of nothing, of one number more, and of one number less.
LEMMA TotalEmpty == Total(<<>>) = 0
  <1>1. <<>> \in Seq(Nat) /\ Len(<<>>) = 0
    OBVIOUS
  <1>2. PrefixSums(<<>>)[0] = 0
    BY <1>1, PrefixSumsDefined
  <1>3. QED
    BY <1>1, <1>2 DEF Total

LEMMA TotalAppend ==
    ASSUME NEW c \in Seq(Nat), NEW x \in Nat
    PROVE  Total(Append(c, x)) = Total(c) + x
  <1> DEFINE d == Append(c, x)
             n == Len(c)
  <1>1. /\ d \in Seq(Nat) /\ n \in Nat /\ Len(d) = n + 1 /\ d[n + 1] = x
        /\ \A i \in 1..n : c[i] = d[i]
    OBVIOUS
  <1> HIDE DEF d, n
  <1>2. PrefixSums(d)[n] = PrefixSums(c)[n]
    <2>1. n <= Len(c) /\ n <= Len(d) /\ n \in 0..n
      BY <1>1 DEF n
    <2>2. \A k \in 0..n : PrefixSums(c)[k] = PrefixSums(d)[k]
      BY <1>1, <2>1, PrefixSumsAgree
    <2>3. QED
      BY <2>1, <2>2
  <1>3. PrefixSums(d)[n + 1] = PrefixSums(d)[n] + x
    <2>1. n + 1 \in 1..Len(d) /\ (n + 1) - 1 = n
      BY <1>1
    <2>2. PrefixSums(d)[n + 1] = PrefixSums(d)[(n + 1) - 1] + d[n + 1]
      BY <1>1, <2>1, PrefixSumsDefined
    <2>3. QED
      BY <1>1, <2>1, <2>2
  <1>4. QED
    BY <1>1, <1>2, <1>3 DEF Total, d, n

LEMMA TotalTail ==
    ASSUME NEW c \in Seq(Nat), c # <<>>
    PROVE  Total(c) = Head(c) + Total(Tail(c))
  <1>1. Len(c) \in 1..Len(c) /\ Len(Tail(c)) = Len(c) - 1
    OBVIOUS
  <1>2. QED
    BY <1>1, PrefixSumsOfTail DEF Total

LEMMA TotalIsNat ==
    ASSUME NEW c \in Seq(Nat)
    PROVE  Total(c) \in Nat
  BY PrefixSumsDefined DEF Total

LEMMA TotalOne ==
    ASSUME NEW x \in Nat
    PROVE  Total(<<x>>) = x
  <1> DEFINE c == <<x>>
  <1>1. c \in Seq(Nat) /\ Len(c) = 1 /\ c[1] = x
    OBVIOUS
  <1> HIDE DEF c
  <1>2. PrefixSums(c)[0] = 0 /\ PrefixSums(c)[1] = PrefixSums(c)[1 - 1] + c[1]
    BY <1>1, PrefixSumsDefined
  <1>3. QED
    BY <1>1, <1>2 DEF Total, c

-----------------------------------------------------------------------------
\* The recursion of Selections has a solution.
LEMMA SelectionsDefined ==
    ASSUME NEW E, NEW s \in Seq(E), NEW set, NEW G, E \cap set \subseteq G
    PROVE  /\ Selections(s, set) \in [0..Len(s) -> Seq(G)]
           /\ Selections(s, set)[0] = <<>>
           /\ \A k \in 1..Len(s) :
                  Selections(s, set)[k] =
                      IF s[k] \in set THEN Append(Selections(s, set)[k - 1], s[k])
                      ELSE Selections(s, set)[k - 1]
  <1> DEFINE n == Len(s)
             F == Seq(G)
             Then(q, k) == IF s[k] \in set THEN Append(q, s[k]) ELSE q
             Sels(k, f) == /\ f \in [0..k -> F]
                           /\ f[0] = <<>>
                           /\ \A i \in 1..k : f[i] = Then(f[i - 1], i)
             S == {k \in Nat : \E f \in [0..k -> F] : Sels(k, f)}
             Step(f) == [k \in 0..n |-> IF k = 0 THEN <<>> ELSE Then(f[k - 1], k)]
  <1>0. /\ n \in Nat
        /\ \A i \in 1..n : s[i] \in E
        /\ <<>> \in F
    OBVIOUS
  <1>a. \A q \in F : \A k \in 1..n : Then(q, k) \in F
    <2> SUFFICES ASSUME NEW q \in F, NEW k \in 1..n PROVE Then(q, k) \in F
      OBVIOUS
    <2>1. CASE s[k] \in set
      <3>1. s[k] \in G
        BY <2>1, <1>0
      <3>2. Append(q, s[k]) \in F
        BY <3>1
      <3>3. QED
        BY <3>2, <2>1
    <2>2. QED
      BY <2>1
  <1> HIDE DEF Then, F
  <1>1. 0 \in S
    <2>1. Sels(0, [i \in 0..0 |-> <<>>]) /\ [i \in 0..0 |-> <<>>] \in [0..0 -> F]
      BY <1>0
    <2>2. QED
      BY <2>1
  <1>2. \A k \in 0..(n - 1) : k \in S => k + 1 \in S
    <2> SUFFICES ASSUME NEW k \in 0..(n - 1), k \in S PROVE k + 1 \in S
      OBVIOUS
    <2>1. PICK f \in [0..k -> F] : Sels(k, f)
      OBVIOUS
    <2> DEFINE x == Then(f[k], k + 1)
               g == [i \in 0..(k + 1) |-> IF i <= k THEN f[i] ELSE x]
    <2>2. k + 1 \in 1..n /\ f[k] \in F
      BY <1>0
    <2>a. x \in F
      BY <2>2, <1>a
    <2> HIDE DEF x
    <2>3. g \in [0..(k + 1) -> F]
      BY <2>2, <2>a
    <2>4. g[0] = <<>> /\ g[k + 1] = x /\ \A i \in 0..k : g[i] = f[i]
      BY <2>1
    <2> HIDE DEF g
    <2>5. \A i \in 1..(k + 1) : g[i] = Then(g[i - 1], i)
      <3> SUFFICES ASSUME NEW i \in 1..(k + 1) PROVE g[i] = Then(g[i - 1], i)
        OBVIOUS
      <3>1. CASE i = k + 1
        <4>1. i - 1 = k /\ k \in 0..k
          BY <3>1
        <4>2. g[i - 1] = f[k] /\ g[i] = x
          BY <4>1, <2>4, <3>1
        <4>3. QED
          BY <4>2, <3>1 DEF x
      <3>2. CASE i \in 1..k
        <4>1. i \in 0..k /\ i - 1 \in 0..k
          BY <3>2
        <4>2. f[i] = Then(f[i - 1], i)
          BY <2>1, <3>2
        <4>3. QED
          BY <4>1, <4>2, <2>4
      <3>3. QED
        BY <3>1, <3>2
    <2>6. k + 1 \in Nat
      OBVIOUS
    <2>7. Sels(k + 1, g)
      BY <2>3, <2>4, <2>5
    <2>8. QED
      BY <2>3, <2>6, <2>7
  <1>3. PICK f \in [0..n -> F] : Sels(n, f)
    <2> HIDE DEF S
    <2>1. 0..n \subseteq S
      BY <1>0, <1>1, <1>2, InductionOverSet
    <2>2. n \in S
      BY <1>0, <2>1
    <2>3. QED
      BY <2>2 DEF S
  <1>4. f = Step(f)
    BY <1>3
  <1> DEFINE P == Selections(s, set)
  <1>5. P = CHOOSE g : g = Step(g)
    BY DEF Selections, Then
  <1>6. P = Step(P)
    <2> HIDE DEF Step
    <2>1. QED
      BY <1>4, <1>5
  <1> HIDE DEF P
  <1>7. P[0] = <<>> /\ \A k \in 1..n : P[k] = Then(P[k - 1], k)
    <2>1. \A k \in 0..n : P[k] = IF k = 0 THEN <<>> ELSE Then(P[k - 1], k)
      BY <1>6, Zenon
    <2>2. QED
      BY <2>1, <1>0
  <1>8. \A k \in 0..n : P[k] \in F
    <2> DEFINE U == {k \in 0..n : P[k] \in F}
    <2>1. 0 \in U
      BY <1>7, <1>0
    <2>2. \A k \in 0..(n - 1) : k \in U => k + 1 \in U
      <3> SUFFICES ASSUME NEW k \in 0..(n - 1), k \in U PROVE k + 1 \in U
        OBVIOUS
      <3>1. k + 1 \in 1..n /\ (k + 1) - 1 = k
        BY <1>0
      <3>2. P[k + 1] = Then(P[k], k + 1)
        BY <3>1, <1>7
      <3>3. QED
        BY <3>1, <3>2, <1>a
    <2> HIDE DEF U
    <2>3. 0..n \subseteq U
      BY <1>0, <2>1, <2>2, InductionOverSet
    <2>4. QED
      BY <2>3 DEF U
  <1>9. P \in [0..n -> F]
    <2>1. P = [k \in 0..n |-> P[k]]
      BY <1>6
    <2>2. QED
      BY <2>1, <1>8
  <1>10. QED
    BY <1>7, <1>9 DEF P, Then, F

LEMMA SelectionsType ==
    ASSUME NEW E, NEW s \in Seq(E), NEW set
    PROVE  Selections(s, set) \in [0..Len(s) -> Seq(E)]
  <1>1. E \cap set \subseteq E
    OBVIOUS
  <1>2. QED
    BY <1>1, SelectionsDefined

LEMMA SelectionsSteps ==
    ASSUME NEW E, NEW s \in Seq(E), NEW set
    PROVE  /\ Selections(s, set)[0] = <<>>
           /\ \A k \in 1..Len(s) :
                  Selections(s, set)[k] =
                      IF s[k] \in set THEN Append(Selections(s, set)[k - 1], s[k])
                      ELSE Selections(s, set)[k - 1]
  <1>1. E \cap set \subseteq E
    OBVIOUS
  <1>2. QED
    BY <1>1, SelectionsDefined

\* A name for an equation, so that the provers take it as a fact of its own.
AppendsLast(q, r, x) == Append(q \o r, x) = q \o Append(r, x)

\* An element put behind two sequences is put behind the second.
LEMMA AppendConcat ==
    ASSUME NEW E
    PROVE  \A q, r \in Seq(E) : \A x \in E : AppendsLast(q, r, x)
  <1> SUFFICES ASSUME NEW q \in Seq(E), NEW r \in Seq(E), NEW x \in E
               PROVE  AppendsLast(q, r, x)
    OBVIOUS
  <1>1. /\ Append(q \o r, x) \in Seq(E) /\ q \o Append(r, x) \in Seq(E)
        /\ Len(Append(q \o r, x)) = Len(q \o Append(r, x))
        /\ \A i \in 1..Len(Append(q \o r, x)) :
               Append(q \o r, x)[i] = (q \o Append(r, x))[i]
    OBVIOUS
  <1>2. QED
    BY <1>1, SeqEqual DEF AppendsLast

\* Selecting from two sequences one after the other.
LEMMA SelectedConcat ==
    ASSUME NEW E, NEW s \in Seq(E), NEW t \in Seq(E), NEW set
    PROVE  Selected(s \o t, set) = Selected(s, set) \o Selected(t, set)
  <1> DEFINE st == s \o t
             n == Len(s)
             m == Len(t)
             F == Seq(E)
             P == Selections(st, set)
             Q == Selections(s, set)
             R == Selections(t, set)
             U == {k \in 0..n : P[k] = Q[k]}
             Both(k) == P[n + k] = Q[n] \o R[k]
             V == {k \in 0..m : Both(k)}
  <1>a. E \cap set \subseteq E
    OBVIOUS
  <1>1. /\ n \in Nat /\ m \in Nat
        /\ st \in Seq(E) /\ Len(st) = n + m
        /\ \A i \in 1..n : st[i] = s[i] /\ s[i] \in E
        /\ \A i \in 1..m : st[n + i] = t[i] /\ t[i] \in E
    OBVIOUS
  <1> HIDE DEF st, n, m
  <1>2. /\ P[0] = <<>>
        /\ \A k \in 1..(n + m) : P[k] = IF st[k] \in set THEN Append(P[k - 1], st[k]) ELSE P[k - 1]
    <2>1. /\ P[0] = <<>>
          /\ \A k \in 1..Len(st) : P[k] = IF st[k] \in set THEN Append(P[k - 1], st[k]) ELSE P[k - 1]
      BY <1>1, <1>a, SelectionsDefined
    <2>2. QED
      BY <1>1, <2>1, Zenon
  <1>3. /\ Q[0] = <<>> /\ Q \in [0..n -> F]
        /\ \A k \in 1..n : Q[k] = IF s[k] \in set THEN Append(Q[k - 1], s[k]) ELSE Q[k - 1]
    BY <1>a, SelectionsDefined DEF n
  <1>4. /\ R[0] = <<>> /\ R \in [0..m -> F]
        /\ \A k \in 1..m : R[k] = IF t[k] \in set THEN Append(R[k - 1], t[k]) ELSE R[k - 1]
    BY <1>a, SelectionsDefined DEF m
  <1> HIDE DEF P, Q, R
  <1>5. 0..n \subseteq U
    <2>1. 0 \in U
      BY <1>1, <1>2, <1>3
    <2>2. \A k \in 0..(n - 1) : k \in U => k + 1 \in U
      <3> SUFFICES ASSUME NEW k \in 0..(n - 1), k \in U PROVE k + 1 \in U
        OBVIOUS
      <3>1. k + 1 \in 1..n /\ k + 1 \in 1..(n + m) /\ (k + 1) - 1 = k
        BY <1>1
      <3>2. st[k + 1] = s[k + 1] /\ P[k] = Q[k]
        BY <3>1, <1>1
      <3>3. /\ P[k + 1] = IF st[k + 1] \in set THEN Append(P[k], st[k + 1]) ELSE P[k]
            /\ Q[k + 1] = IF s[k + 1] \in set THEN Append(Q[k], s[k + 1]) ELSE Q[k]
        BY <3>1, <1>2, <1>3
      <3>4. P[k + 1] = Q[k + 1]
        BY <3>2, <3>3
      <3>5. QED
        BY <3>1, <3>4
    <2> HIDE DEF U
    <2>3. QED
      BY <1>1, <2>1, <2>2, InductionOverSet
  <1>6. P[n] = Q[n] /\ Q[n] \in F
    BY <1>1, <1>3, <1>5
  <1>7. 0..m \subseteq V
    <2>1. 0 \in V
      <3>1. P[n + 0] = Q[n] \o R[0]
        BY <1>1, <1>4, <1>6
      <3>2. Both(0)
        BY <3>1
      <3> HIDE DEF Both
      <3>3. QED
        BY <1>1, <3>2
    <2>2. \A k \in 0..(m - 1) : k \in V => k + 1 \in V
      <3> SUFFICES ASSUME NEW k \in 0..(m - 1), k \in V PROVE k + 1 \in V
        OBVIOUS
      <3>1. /\ k + 1 \in 1..m /\ n + (k + 1) \in 1..(n + m)
            /\ (k + 1) - 1 = k /\ (n + (k + 1)) - 1 = n + k /\ k \in 0..m
        BY <1>1
      <3>a. Both(k)
        <4> HIDE DEF Both
        <4>1. QED
          OBVIOUS
      <3>2. st[n + (k + 1)] = t[k + 1] /\ t[k + 1] \in E /\ P[n + k] = Q[n] \o R[k] /\ R[k] \in F
        BY <3>1, <3>a, <1>1, <1>4
      <3>3. /\ P[n + (k + 1)] =
                   IF t[k + 1] \in set THEN Append(P[n + k], t[k + 1]) ELSE P[n + k]
            /\ R[k + 1] = IF t[k + 1] \in set THEN Append(R[k], t[k + 1]) ELSE R[k]
        BY <3>1, <3>2, <1>2, <1>4
      <3>4. Append(Q[n] \o R[k], t[k + 1]) = Q[n] \o Append(R[k], t[k + 1])
        <4>1. AppendsLast(Q[n], R[k], t[k + 1])
          BY <3>2, <1>6, AppendConcat
        <4>2. QED
          BY <4>1 DEF AppendsLast
      <3>5. P[n + (k + 1)] = Q[n] \o R[k + 1]
        BY <3>2, <3>3, <3>4
      <3>6. Both(k + 1)
        BY <3>5
      <3> HIDE DEF Both
      <3>7. QED
        BY <3>1, <3>6
    <2> HIDE DEF V
    <2>3. QED
      BY <1>1, <2>1, <2>2, InductionOverSet
  <1>8. P[n + m] = Q[n] \o R[m]
    <2>1. Both(m)
      <3> HIDE DEF Both
      <3>1. QED
        BY <1>1, <1>7
    <2>2. QED
      BY <2>1
  <1>9. QED
    BY <1>1, <1>8 DEF Selected, P, Q, R, st, n, m

\* What is selected from a sequence is a sequence over both sets.
LEMMA SelectedType ==
    ASSUME NEW E, NEW s \in Seq(E), NEW set, NEW G, E \cap set \subseteq G
    PROVE  Selected(s, set) \in Seq(G)
  <1>1. Len(s) \in 0..Len(s)
    OBVIOUS
  <1>2. Selections(s, set) \in [0..Len(s) -> Seq(G)]
    BY SelectionsDefined
  <1>3. QED
    BY <1>1, <1>2 DEF Selected

\* Selecting from nothing, and from one element.
LEMMA SelectedNone ==
    ASSUME NEW E, NEW s \in Seq(E), NEW set
    PROVE  Len(s) = 0 => Selected(s, set) = <<>>
  <1>1. Selections(s, set)[0] = <<>>
    BY SelectionsSteps
  <1>2. QED
    BY <1>1 DEF Selected

LEMMA SelectedEmpty ==
    ASSUME NEW set
    PROVE  Selected(<<>>, set) = <<>>
  <1> DEFINE s == <<>>
             E == {}
  <1>1. s \in Seq(E) /\ Len(s) = 0
    OBVIOUS
  <1> HIDE DEF s, E
  <1>2. Selected(s, set) = <<>>
    BY <1>1, SelectedNone
  <1>3. QED
    BY <1>2 DEF s

LEMMA SelectedOne ==
    ASSUME NEW x, NEW set
    PROVE  Selected(<<x>>, set) = IF x \in set THEN <<x>> ELSE <<>>
  <1> DEFINE s == <<x>>
  <1>1. s \in Seq({x}) /\ Len(s) = 1 /\ s[1] = x
    OBVIOUS
  <1>2. Append(<<>>, x) = s
    OBVIOUS
  <1> HIDE DEF s
  <1> DEFINE P == Selections(s, set)
  <1>3. /\ P[0] = <<>>
        /\ \A k \in 1..Len(s) : P[k] = IF s[k] \in set THEN Append(P[k - 1], s[k]) ELSE P[k - 1]
    BY <1>1, SelectionsDefined
  <1> HIDE DEF P
  <1>4. P[1] = IF x \in set THEN Append(P[0], x) ELSE P[0]
    <2>1. 1 \in 1..Len(s) /\ 1 - 1 = 0
      BY <1>1
    <2>2. P[1] = IF s[1] \in set THEN Append(P[1 - 1], s[1]) ELSE P[1 - 1]
      BY <1>3, <2>1, Zenon
    <2>3. QED
      BY <1>1, <2>1, <2>2, Zenon
  <1>5. P[1] = IF x \in set THEN s ELSE <<>>
    BY <1>2, <1>3, <1>4
  <1>6. QED
    BY <1>1, <1>5 DEF Selected, s, P

LEMMA SelectedAppend ==
    ASSUME NEW E, NEW s \in Seq(E), NEW x \in E, NEW set
    PROVE  Selected(Append(s, x), set) =
               IF x \in set THEN Append(Selected(s, set), x) ELSE Selected(s, set)
  <1> DEFINE one == <<x>>
             q == Selected(s, set)
  <1>1. Append(s, x) = s \o one /\ one \in Seq(E)
    OBVIOUS
  <1>2. q \in Seq(E)
    BY SelectedType
  <1>3. Selected(one, set) = IF x \in set THEN one ELSE <<>>
    BY SelectedOne
  <1> HIDE DEF q
  <1>4. Append(q, x) = q \o one /\ q \o <<>> = q
    BY <1>2
  <1> HIDE DEF one
  <1>5. Selected(s \o one, set) = q \o Selected(one, set)
    BY <1>1, SelectedConcat DEF q
  <1>6. QED
    BY <1>1, <1>3, <1>4, <1>5 DEF q

LEMMA SelectedTail ==
    ASSUME NEW E, NEW s \in Seq(E), s # <<>>, NEW set
    PROVE  Selected(s, set) =
               IF Head(s) \in set THEN <<Head(s)>> \o Selected(Tail(s), set)
               ELSE Selected(Tail(s), set)
  <1> DEFINE x == Head(s)
             one == <<x>>
             t == Tail(s)
             q == Selected(t, set)
  <1>1. one \in Seq(E) /\ t \in Seq(E) /\ s = one \o t
    <2>1. /\ one \in Seq(E) /\ t \in Seq(E) /\ one \o t \in Seq(E)
          /\ Len(s) = Len(one \o t)
          /\ \A i \in 1..Len(s) : s[i] = (one \o t)[i]
      OBVIOUS
    <2> HIDE DEF one, t
    <2>2. QED
      BY <2>1, SeqEqual
  <1>2. Selected(one, set) = IF x \in set THEN one ELSE <<>>
    BY SelectedOne
  <1>3. q \in Seq(E)
    BY <1>1, SelectedType
  <1> HIDE DEF q
  <1>4. <<>> \o q = q
    BY <1>3
  <1> HIDE DEF one, t, x
  <1>5. Selected(one \o t, set) = Selected(one, set) \o q
    BY <1>1, SelectedConcat DEF q
  <1>6. Selected(s, set) = IF x \in set THEN one \o q ELSE q
    BY <1>1, <1>2, <1>4, <1>5
  <1>7. QED
    BY <1>6 DEF one, t, x, q

\* There is a function on 0..n that begins with a and goes on by step.
Iterated(n, R, a, step) ==
    \E f \in [0..n -> R] : f[0] = a /\ \A i \in 1..n : f[i] = step[<<i, f[i - 1]>>]

LEMMA Iterates ==
    ASSUME NEW n \in Nat, NEW R, NEW a \in R, NEW step \in [(1..n) \X R -> R]
    PROVE  Iterated(n, R, a, step)
  <1> DEFINE Goes(k, f) == f[0] = a /\ \A i \in 1..k : f[i] = step[<<i, f[i - 1]>>]
             S == {k \in Nat : \E f \in [0..k -> R] : Goes(k, f)}
  <1>1. 0 \in S
    <2>1. Goes(0, [i \in 0..0 |-> a])
      OBVIOUS
    <2>2. QED
      BY <2>1
  <1>2. \A k \in 0..(n - 1) : k \in S => k + 1 \in S
    <2> SUFFICES ASSUME NEW k \in 0..(n - 1), k \in S PROVE k + 1 \in S
      OBVIOUS
    <2>1. PICK f \in [0..k -> R] : Goes(k, f)
      OBVIOUS
    <2> DEFINE next == step[<<k + 1, f[k]>>]
               g == [i \in 0..(k + 1) |-> IF i <= k THEN f[i] ELSE next]
    <2>2. next \in R
      OBVIOUS
    <2>3. g \in [0..(k + 1) -> R]
      <3> HIDE DEF next
      <3>1. QED
        BY <2>2
    <2>4. g[0] = f[0] /\ g[k + 1] = next /\ \A i \in 0..k : g[i] = f[i]
      <3> HIDE DEF next
      <3>1. QED
        OBVIOUS
    <2>5. \A i \in 1..(k + 1) : g[i] = step[<<i, g[i - 1]>>]
      <3> SUFFICES ASSUME NEW i \in 1..(k + 1) PROVE g[i] = step[<<i, g[i - 1]>>]
        OBVIOUS
      <3> HIDE DEF g
      <3>1. CASE i = k + 1
        BY <3>1, <2>4
      <3>2. CASE i \in 1..k
        <4>1. i \in 0..k /\ i - 1 \in 0..k
          BY <3>2
        <4>2. f[i] = step[<<i, f[i - 1]>>]
          BY <2>1, <3>2
        <4>3. QED
          BY <4>1, <4>2, <2>4
      <3>3. QED
        BY <3>1, <3>2
    <2> HIDE DEF g
    <2>6. Goes(k + 1, g)
      BY <2>1, <2>4, <2>5
    <2>7. QED
      BY <2>3, <2>6
  <1> HIDE DEF S
  <1>3. 0..n \subseteq S
    BY <1>1, <1>2, InductionOverSet
  <1>4. n \in S
    BY <1>3
  <1>5. QED
    BY <1>4 DEF S, Iterated

-----------------------------------------------------------------------------
(***************************************************************************)
(* Sums over finite sets.  Induction is over the set W of the subsets for  *)
(* which something holds.                                                  *)
(***************************************************************************)
LEMMA SubsetInduction ==
    ASSUME NEW S, IsFiniteSet(S), NEW W,
           \A s \in SUBSET S : (\A x \in s : s \ {x} \in W) => s \in W
    PROVE  SUBSET S \subseteq W
  <1> DEFINE T == {n \in Nat : \A s \in SUBSET S : Cardinality(s) = n => s \in W}
             N == Cardinality(S)
  <1>1. N \in Nat
    BY FS_CardinalityType
  <1>2. \A s \in SUBSET S : IsFiniteSet(s) /\ Cardinality(s) \in 0..N
    <2> SUFFICES ASSUME NEW s \in SUBSET S PROVE IsFiniteSet(s) /\ Cardinality(s) \in 0..N
      OBVIOUS
    <2>1. IsFiniteSet(s) /\ Cardinality(s) <= N
      BY FS_Subset
    <2>2. Cardinality(s) \in Nat
      BY <2>1, FS_CardinalityType
    <2>3. QED
      BY <1>1, <2>1, <2>2
  <1>3. 0 \in T
    <2> SUFFICES ASSUME NEW s \in SUBSET S, Cardinality(s) = 0 PROVE s \in W
      OBVIOUS
    <2>1. s = {}
      BY <1>2, FS_EmptySet
    <2>2. QED
      BY <2>1
  <1>4. \A k \in 0..(N - 1) : k \in T => k + 1 \in T
    <2> SUFFICES ASSUME NEW k \in 0..(N - 1), k \in T, NEW s \in SUBSET S, Cardinality(s) = k + 1
                 PROVE  s \in W
      BY <1>1
    <2>1. ASSUME NEW x \in s PROVE s \ {x} \in W
      <3>1. Cardinality(s \ {x}) = Cardinality(s) - 1
        BY <1>2, FS_RemoveElement
      <3>2. Cardinality(s \ {x}) = k
        BY <3>1, <1>1
      <3>3. QED
        BY <3>2
    <2>2. QED
      BY <2>1
  <1>5. 0..N \subseteq T
    <2> HIDE DEF T
    <2>1. QED
      BY <1>1, <1>3, <1>4, InductionOverSet
  <1>6. QED
    BY <1>2, <1>5

Chosen(s) == CHOOSE x \in s : TRUE

IntOn(f, S) == \A x \in S : f[x] \in Int

SumOf(f, sum, s) == IF s = {} THEN 0 ELSE f[Chosen(s)] + sum[s \ {Chosen(s)}]

Sums(f, S) == LET sum[s \in SUBSET S] == SumOf(f, sum, s) IN sum

LEMMA SumUnfolds ==
    ASSUME NEW f, NEW S
    PROVE  SumFunctionOnSet(f, S) = Sums(f, S)[S]
  BY DEF SumFunctionOnSet, FoldFunctionOnSet, MapThenFoldSet, Sums, SumOf, Chosen

LEMMA ChosenIsIn ==
    ASSUME NEW s, s # {}
    PROVE  Chosen(s) \in s
  BY DEF Chosen

\* The recursion has a solution: over the sets of up to n elements, for every n.
LEMMA SumsDefined ==
    ASSUME NEW S, IsFiniteSet(S), NEW f, IntOn(f, S)
    PROVE  /\ \A s \in SUBSET S : Sums(f, S)[s] \in Int
           /\ \A s \in SUBSET S : Sums(f, S)[s] = SumOf(f, Sums(f, S), s)
  <1> DEFINE N == Cardinality(S)
             Sized(n) == {s \in SUBSET S : Cardinality(s) <= n}
             Solves(g, n) == \A s \in Sized(n) : g[s] = SumOf(f, g, s)
             T == {n \in Nat : \E g \in [Sized(n) -> Int] : Solves(g, n)}
             Step(g) == [s \in SUBSET S |-> SumOf(f, g, s)]
  <1>1. N \in Nat
    BY FS_CardinalityType
  <1>2. \A s \in SUBSET S : IsFiniteSet(s) /\ Cardinality(s) \in Nat /\ Cardinality(s) <= N
    <2> SUFFICES ASSUME NEW s \in SUBSET S
                 PROVE IsFiniteSet(s) /\ Cardinality(s) \in Nat /\ Cardinality(s) <= N
      OBVIOUS
    <2>1. IsFiniteSet(s) /\ Cardinality(s) <= N
      BY FS_Subset
    <2>2. QED
      BY <2>1, FS_CardinalityType
  <1>3. \A s \in SUBSET S : s # {} =>
            /\ Chosen(s) \in s /\ f[Chosen(s)] \in Int
            /\ s \ {Chosen(s)} \in SUBSET S
            /\ Cardinality(s \ {Chosen(s)}) = Cardinality(s) - 1
    <2> SUFFICES ASSUME NEW s \in SUBSET S, s # {}
                 PROVE  /\ Chosen(s) \in s /\ f[Chosen(s)] \in Int
                        /\ s \ {Chosen(s)} \in SUBSET S
                        /\ Cardinality(s \ {Chosen(s)}) = Cardinality(s) - 1
      OBVIOUS
    <2>1. Chosen(s) \in s
      BY ChosenIsIn
    <2>2. QED
      BY <2>1, <1>2, FS_RemoveElement DEF IntOn
  <1>4. 0 \in T
    <2> DEFINE g == [s \in Sized(0) |-> 0]
    <2>1. \A s \in Sized(0) : s = {}
      <3> SUFFICES ASSUME NEW s \in Sized(0) PROVE s = {}
        OBVIOUS
      <3>1. Cardinality(s) = 0
        BY <1>2
      <3>2. QED
        BY <1>2, <3>1, FS_EmptySet
    <2>2. g \in [Sized(0) -> Int]
      OBVIOUS
    <2>3. Solves(g, 0)
      BY <2>1 DEF SumOf
    <2>4. QED
      BY <2>2, <2>3
  <1>5. \A k \in 0..(N - 1) : k \in T => k + 1 \in T
    <2> SUFFICES ASSUME NEW k \in 0..(N - 1), k \in T PROVE k + 1 \in T
      OBVIOUS
    <2>1. PICK g \in [Sized(k) -> Int] : Solves(g, k)
      OBVIOUS
    <2> DEFINE h == [s \in Sized(k + 1) |-> SumOf(f, g, s)]
    <2>2. \A s \in Sized(k + 1) : s # {} => s \ {Chosen(s)} \in Sized(k)
      <3> SUFFICES ASSUME NEW s \in Sized(k + 1), s # {} PROVE s \ {Chosen(s)} \in Sized(k)
        OBVIOUS
      <3>1. Cardinality(s \ {Chosen(s)}) = Cardinality(s) - 1
        BY <1>3
      <3>2. Cardinality(s) \in Nat /\ Cardinality(s) <= k + 1 /\ k \in Int
        BY <1>2, <1>1
      <3>3. Cardinality(s \ {Chosen(s)}) <= k
        BY <3>1, <3>2
      <3>4. QED
        BY <3>3
    <2>3. h \in [Sized(k + 1) -> Int]
      BY <2>2, <1>3 DEF SumOf
    <2>4. \A s \in Sized(k) : s \in Sized(k + 1) /\ h[s] = g[s]
      <3> SUFFICES ASSUME NEW s \in Sized(k) PROVE s \in Sized(k + 1) /\ h[s] = g[s]
        OBVIOUS
      <3>1. Cardinality(s) \in Nat /\ Cardinality(s) <= k /\ k \in Int
        BY <1>2, <1>1
      <3>2. Cardinality(s) <= k + 1
        BY <3>1
      <3>3. QED
        BY <3>2, <2>1
    <2>5. Solves(h, k + 1)
      <3> SUFFICES ASSUME NEW s \in Sized(k + 1) PROVE h[s] = SumOf(f, h, s)
        OBVIOUS
      <3>1. h[s] = SumOf(f, g, s)
        OBVIOUS
      <3> HIDE DEF h
      <3>2. CASE s = {}
        BY <3>1, <3>2 DEF SumOf
      <3>3. CASE s # {}
        <4>1. h[s \ {Chosen(s)}] = g[s \ {Chosen(s)}]
          BY <2>2, <2>4, <3>3
        <4>2. QED
          BY <3>1, <3>3, <4>1 DEF SumOf
      <3>4. QED
        BY <3>2, <3>3
    <2>6. k + 1 \in Nat
      BY <1>1
    <2> HIDE DEF h, Solves
    <2>7. QED
      BY <2>3, <2>5, <2>6
  <1>6. PICK g \in [Sized(N) -> Int] : Solves(g, N)
    <2> HIDE DEF T
    <2>1. N \in T
      <3>1. 0..N \subseteq T
        BY <1>1, <1>4, <1>5, InductionOverSet
      <3>2. QED
        BY <1>1, <3>1
    <2>2. QED
      BY <2>1 DEF T
  <1>7. Sized(N) = SUBSET S
    BY <1>2
  <1>8. g = Step(g)
    BY <1>6, <1>7
  <1> DEFINE P == Sums(f, S)
  <1>9. P = CHOOSE h : h = Step(h)
    BY DEF Sums
  <1>10. P = Step(P)
    <2> HIDE DEF Step
    <2>1. QED
      BY <1>8, <1>9
  <1> HIDE DEF P
  <1>11. \A s \in SUBSET S : P[s] = SumOf(f, P, s)
    BY <1>10, Zenon
  <1>12. SUBSET S \subseteq {s \in SUBSET S : P[s] \in Int}
    <2> DEFINE W == {s \in SUBSET S : P[s] \in Int}
    <2>1. ASSUME NEW s \in SUBSET S, \A x \in s : s \ {x} \in W PROVE s \in W
      <3>1. P[s] = SumOf(f, P, s)
        BY <1>11
      <3>2. CASE s = {}
        BY <3>1, <3>2 DEF SumOf
      <3>3. CASE s # {}
        <4>1. Chosen(s) \in s /\ f[Chosen(s)] \in Int
          BY <1>3, <3>3
        <4>2. P[s \ {Chosen(s)}] \in Int
          BY <2>1, <4>1
        <4>3. QED
          BY <3>1, <3>3, <4>1, <4>2 DEF SumOf
      <3>4. QED
        BY <3>2, <3>3
    <2> HIDE DEF W
    <2>2. SUBSET S \subseteq W
      BY <2>1, SubsetInduction
    <2>3. QED
      BY <2>2 DEF W
  <1>13. QED
    BY <1>11, <1>12 DEF P

\* The sum over a set depends on the values there only.
LEMMA SumsAgree ==
    ASSUME NEW S, IsFiniteSet(S), NEW f, IntOn(f, S),
           NEW T, IsFiniteSet(T), NEW g, IntOn(g, T),
           NEW s, s \subseteq S, s \subseteq T, \A x \in s : f[x] = g[x]
    PROVE  Sums(f, S)[s] = Sums(g, T)[s]
  <1> DEFINE P == Sums(f, S)
             Q == Sums(g, T)
             W == {r \in SUBSET s : P[r] = Q[r]}
  <1>1. IsFiniteSet(s)
    BY FS_Subset
  <1>2. \A r \in SUBSET s : P[r] = SumOf(f, P, r) /\ Q[r] = SumOf(g, Q, r)
    BY SumsDefined
  <1> HIDE DEF P, Q
  <1>3. ASSUME NEW r \in SUBSET s, \A x \in r : r \ {x} \in W PROVE r \in W
    <2>1. CASE r = {}
      BY <2>1, <1>2 DEF SumOf
    <2>2. CASE r # {}
      <3>1. Chosen(r) \in r
        BY <2>2, ChosenIsIn
      <3>2. P[r \ {Chosen(r)}] = Q[r \ {Chosen(r)}] /\ f[Chosen(r)] = g[Chosen(r)]
        BY <3>1, <1>3
      <3>3. QED
        BY <2>2, <3>2, <1>2 DEF SumOf
    <2>3. QED
      BY <2>1, <2>2
  <1> HIDE DEF W
  <1>4. SUBSET s \subseteq W
    BY <1>1, <1>3, SubsetInduction
  <1>5. s \in W
    BY <1>4
  <1>6. QED
    BY <1>5 DEF W, P, Q

\* Any element can be taken out of the sum.
LEMMA SumsTakeOut ==
    ASSUME NEW S, IsFiniteSet(S), NEW f, IntOn(f, S)
    PROVE  \A s \in SUBSET S : \A x \in s : Sums(f, S)[s] = f[x] + Sums(f, S)[s \ {x}]
  <1> DEFINE P == Sums(f, S)
             W == {s \in SUBSET S : \A x \in s : P[s] = f[x] + P[s \ {x}]}
  <1>1. \A s \in SUBSET S : P[s] \in Int /\ P[s] = SumOf(f, P, s)
    BY SumsDefined
  <1> HIDE DEF P
  <1>2. ASSUME NEW s \in SUBSET S, \A x \in s : s \ {x} \in W PROVE s \in W
    <2> SUFFICES ASSUME NEW x \in s PROVE P[s] = f[x] + P[s \ {x}]
      OBVIOUS
    <2> DEFINE y == Chosen(s)
    <2>1. y \in s
      BY ChosenIsIn
    <2>2. P[s] = f[y] + P[s \ {y}]
      BY <1>1 DEF SumOf
    <2> HIDE DEF y
    <2>3. CASE x # y
      <3>1. /\ P[s \ {y}] = f[x] + P[(s \ {y}) \ {x}]
            /\ P[s \ {x}] = f[y] + P[(s \ {x}) \ {y}]
        BY <1>2, <2>1, <2>3
      <3>2. (s \ {y}) \ {x} = (s \ {x}) \ {y}
        OBVIOUS
      <3>3. P[(s \ {x}) \ {y}] \in Int /\ f[x] \in Int /\ f[y] \in Int
        BY <1>1, <2>1 DEF IntOn
      <3>4. QED
        <4> DEFINE Py == P[s \ {y}]
                   Px == P[s \ {x}]
                   Pxy == P[(s \ {x}) \ {y}]
        <4>1. P[s] = f[y] + Py /\ Py = f[x] + Pxy /\ Px = f[y] + Pxy
          BY <2>2, <3>1, <3>2
        <4>2. Pxy \in Int
          BY <3>3
        <4> HIDE DEF Py, Px, Pxy
        <4>3. P[s] = f[x] + Px
          BY <4>1, <4>2, <3>3
        <4>4. QED
          BY <4>3 DEF Px
    <2>4. QED
      BY <2>2, <2>3
  <1> HIDE DEF W
  <1>3. SUBSET S \subseteq W
    BY <1>2, SubsetInduction
  <1>4. QED
    BY <1>3 DEF W, P

-----------------------------------------------------------------------------
LEMMA SumEmpty ==
    ASSUME NEW f
    PROVE  SumFunctionOnSet(f, {}) = 0
  <1>1. IsFiniteSet({}) /\ IntOn(f, {})
    BY FS_EmptySet DEF IntOn
  <1>2. Sums(f, {})[{}] = SumOf(f, Sums(f, {}), {})
    BY <1>1, SumsDefined
  <1>3. QED
    BY <1>2, SumUnfolds DEF SumOf

LEMMA SumStep ==
    ASSUME NEW S, IsFiniteSet(S), NEW f, IntOn(f, S)
    PROVE  /\ SumFunctionOnSet(f, S) \in Int
           /\ \A x \in S : SumFunctionOnSet(f, S) = f[x] + SumFunctionOnSet(f, S \ {x})
  <1>1. SumFunctionOnSet(f, S) \in Int
    BY SumsDefined, SumUnfolds
  <1>2. ASSUME NEW x \in S
        PROVE  SumFunctionOnSet(f, S) = f[x] + SumFunctionOnSet(f, S \ {x})
    <2> DEFINE R == S \ {x}
    <2>1. IsFiniteSet(R) /\ IntOn(f, R)
      BY FS_Subset DEF IntOn
    <2>2. Sums(f, S)[S] = f[x] + Sums(f, S)[R]
      BY SumsTakeOut
    <2>3. Sums(f, S)[R] = Sums(f, R)[R]
      <3> HIDE DEF R
      <3>1. R \subseteq S
        BY DEF R
      <3>2. QED
        BY <2>1, <3>1, SumsAgree
    <2>4. QED
      BY <2>2, <2>3, SumUnfolds
  <1>3. QED
    BY <1>1, <1>2

LEMMA SumCongruent ==
    ASSUME NEW S, IsFiniteSet(S), NEW f, IntOn(f, S), NEW g, \A x \in S : f[x] = g[x]
    PROVE  SumFunctionOnSet(f, S) = SumFunctionOnSet(g, S)
  <1>1. IntOn(g, S)
    BY DEF IntOn
  <1>2. QED
    BY <1>1, SumsAgree, SumUnfolds

\* Where values change, the sum changes by the differences.
LEMMA SumDifference ==
    ASSUME NEW S, IsFiniteSet(S), NEW D, D \subseteq S,
           NEW f, IntOn(f, S), NEW g, IntOn(g, S), NEW h, IntOn(h, D),
           \A x \in S \ D : f[x] = g[x],
           \A x \in D : f[x] = g[x] + h[x]
    PROVE  SumFunctionOnSet(f, S) = SumFunctionOnSet(g, S) + SumFunctionOnSet(h, D)
  <1> DEFINE W == {s \in SUBSET S : SumFunctionOnSet(f, s)
                      = SumFunctionOnSet(g, s) + SumFunctionOnSet(h, s \cap D)}
  <1>1. ASSUME NEW s \in SUBSET S, \A x \in s : s \ {x} \in W PROVE s \in W
    <2>1. CASE s = {}
      <3>1. s \cap D = {}
        BY <2>1
      <3>2. QED
        BY <2>1, <3>1, SumEmpty
    <2>2. CASE s # {}
      <3>1. PICK x \in s : TRUE
        BY <2>2
      <3> DEFINE r == s \ {x}
      <3>2. /\ SumFunctionOnSet(f, s) = f[x] + SumFunctionOnSet(f, r)
            /\ SumFunctionOnSet(g, s) = g[x] + SumFunctionOnSet(g, r)
            /\ SumFunctionOnSet(f, r) \in Int
            /\ SumFunctionOnSet(g, r) \in Int
            /\ f[x] \in Int /\ g[x] \in Int
        <4>1. IsFiniteSet(s) /\ IsFiniteSet(r) /\ IntOn(f, s) /\ IntOn(g, s) /\ IntOn(f, r) /\ IntOn(g, r)
          BY FS_Subset DEF IntOn
        <4>2. f[x] \in Int /\ g[x] \in Int
          BY DEF IntOn
        <4>3. QED
          BY <4>1, <4>2, SumStep
      <3>3. IsFiniteSet(s \cap D) /\ IntOn(h, s \cap D) /\ IsFiniteSet(r \cap D) /\ IntOn(h, r \cap D)
        BY FS_Subset DEF IntOn
      <3>4. SumFunctionOnSet(h, r \cap D) \in Int
        BY <3>3, SumStep
      <3>5. SumFunctionOnSet(f, r) = SumFunctionOnSet(g, r) + SumFunctionOnSet(h, r \cap D)
        BY <1>1
      <3> DEFINE fs == SumFunctionOnSet(f, s)
                 gs == SumFunctionOnSet(g, s)
                 hs == SumFunctionOnSet(h, s \cap D)
                 fr == SumFunctionOnSet(f, r)
                 gr == SumFunctionOnSet(g, r)
                 hr == SumFunctionOnSet(h, r \cap D)
      <3>s. (fs = gs + hs) => s \in W
        OBVIOUS
      <3>i. /\ fs = f[x] + fr /\ gs = g[x] + gr /\ fr = gr + hr
            /\ gr \in Int /\ hr \in Int /\ f[x] \in Int /\ g[x] \in Int
        BY <3>2, <3>4, <3>5
      <3> HIDE DEF W
      <3>6. CASE x \in D
        <4>1. SumFunctionOnSet(h, s \cap D) = h[x] + SumFunctionOnSet(h, (s \cap D) \ {x})
          BY <3>3, <3>6, SumStep
        <4>2. (s \cap D) \ {x} = r \cap D
          OBVIOUS
        <4>3. f[x] = g[x] + h[x] /\ h[x] \in Int
          BY <3>6 DEF IntOn
        <4>4. hs = h[x] + hr
          BY <4>1, <4>2
        <4> HIDE DEF fs, gs, hs, fr, gr, hr
        <4>5. fs = gs + hs
          BY <3>i, <4>3, <4>4
        <4>6. QED
          BY <4>5, <3>s
      <3>7. CASE x \notin D
        <4>1. s \cap D = r \cap D /\ f[x] = g[x]
          BY <3>7
        <4>2. hs = hr
          BY <4>1
        <4> HIDE DEF fs, gs, hs, fr, gr, hr
        <4>3. fs = gs + hs
          BY <3>i, <4>1, <4>2
        <4>4. QED
          BY <4>3, <3>s
      <3>8. QED
        BY <3>6, <3>7
    <2>3. QED
      BY <2>1, <2>2
  <1> HIDE DEF W
  <1>2. SUBSET S \subseteq W
    BY <1>1, SubsetInduction
  <1>3. S \in W
    BY <1>2
  <1>4. S \cap D = D
    OBVIOUS
  <1>5. QED
    BY <1>3, <1>4 DEF W

LEMMA SumUnion ==
    ASSUME NEW S, IsFiniteSet(S), NEW T, IsFiniteSet(T), S \cap T = {},
           NEW f, IntOn(f, S \cup T)
    PROVE  SumFunctionOnSet(f, S \cup T) = SumFunctionOnSet(f, S) + SumFunctionOnSet(f, T)
  <1> DEFINE W == {s \in SUBSET T : SumFunctionOnSet(f, S \cup s)
                      = SumFunctionOnSet(f, S) + SumFunctionOnSet(f, s)}
  <1>0. SumFunctionOnSet(f, S) \in Int
    BY SumStep DEF IntOn
  <1>1. ASSUME NEW s \in SUBSET T, \A x \in s : s \ {x} \in W PROVE s \in W
    <2>1. CASE s = {}
      <3>1. S \cup s = S
        BY <2>1
      <3>2. QED
        BY <2>1, <3>1, <1>0, SumEmpty
    <2>2. CASE s # {}
      <3>1. PICK x \in s : TRUE
        BY <2>2
      <3> DEFINE r == s \ {x}
      <3>2. /\ IsFiniteSet(s) /\ IsFiniteSet(r) /\ IsFiniteSet(S \cup s)
            /\ IntOn(f, s) /\ IntOn(f, r) /\ IntOn(f, S \cup s)
        BY FS_Subset, FS_Union DEF IntOn
      <3>3. /\ SumFunctionOnSet(f, s) = f[x] + SumFunctionOnSet(f, r)
            /\ SumFunctionOnSet(f, S \cup s) = f[x] + SumFunctionOnSet(f, (S \cup s) \ {x})
            /\ SumFunctionOnSet(f, r) \in Int
            /\ f[x] \in Int
        BY <3>2, SumStep DEF IntOn
      <3>4. (S \cup s) \ {x} = S \cup r
        OBVIOUS
      <3>5. SumFunctionOnSet(f, S \cup r) = SumFunctionOnSet(f, S) + SumFunctionOnSet(f, r)
        BY <1>1
      <3> DEFINE all == SumFunctionOnSet(f, S)
                 us == SumFunctionOnSet(f, S \cup s)
                 ur == SumFunctionOnSet(f, S \cup r)
                 fs == SumFunctionOnSet(f, s)
                 fr == SumFunctionOnSet(f, r)
      <3>6. us = f[x] + ur /\ fs = f[x] + fr /\ ur = all + fr
        BY <3>3, <3>4, <3>5
      <3>7. all \in Int /\ fr \in Int /\ f[x] \in Int
        BY <1>0, <3>3
      <3>8. (us = all + fs) => s \in W
        OBVIOUS
      <3> HIDE DEF W, all, us, ur, fs, fr
      <3>9. QED
        BY <3>6, <3>7, <3>8
    <2>3. QED
      BY <2>1, <2>2
  <1> HIDE DEF W
  <1>2. SUBSET T \subseteq W
    BY <1>1, SubsetInduction
  <1>3. QED
    BY <1>2 DEF W

\* The elements may have other names.
LEMMA SumRenamed ==
    ASSUME NEW S, IsFiniteSet(S), NEW m, NEW f, NEW g,
           \A x, y \in S : m[x] = m[y] => x = y,
           \A x \in S : g[x] \in Int /\ g[x] = f[m[x]]
    PROVE  SumFunctionOnSet(f, {m[x] : x \in S}) = SumFunctionOnSet(g, S)
  <1> DEFINE Im(s) == {m[x] : x \in s}
             W == {s \in SUBSET S : SumFunctionOnSet(f, Im(s)) = SumFunctionOnSet(g, s)}
  <1>1. ASSUME NEW s \in SUBSET S, \A x \in s : s \ {x} \in W PROVE s \in W
    <2>1. CASE s = {}
      <3>1. Im(s) = {}
        BY <2>1
      <3>2. QED
        BY <2>1, <3>1, SumEmpty
    <2>2. CASE s # {}
      <3>1. PICK x \in s : TRUE
        BY <2>2
      <3> DEFINE r == s \ {x}
      <3>2. IsFiniteSet(s) /\ IntOn(g, s)
        BY FS_Subset DEF IntOn
      <3>3. IsFiniteSet(Im(s)) /\ IntOn(f, Im(s))
        <4> DEFINE n == [y \in s |-> m[y]]
        <4>1. Im(s) = {n[y] : y \in s}
          OBVIOUS
        <4>2. IsFiniteSet({n[y] : y \in s})
          <5>1. n \in Surjection(s, {n[y] : y \in s})
            BY DEF Surjection
          <5>2. QED
            BY <3>2, <5>1, FS_Surjection
        <4>3. QED
          BY <4>1, <4>2 DEF IntOn
      <3>4. SumFunctionOnSet(g, s) = g[x] + SumFunctionOnSet(g, r)
        BY <3>2, SumStep
      <3>5. m[x] \in Im(s)
        OBVIOUS
      <3>6. SumFunctionOnSet(f, Im(s)) = f[m[x]] + SumFunctionOnSet(f, Im(s) \ {m[x]})
        <4> HIDE DEF Im
        <4>1. QED
          BY <3>3, <3>5, SumStep
      <3>7. Im(s) \ {m[x]} = Im(r)
        OBVIOUS
      <3>8. SumFunctionOnSet(f, Im(r)) = SumFunctionOnSet(g, r)
        BY <1>1
      <3>9. g[x] = f[m[x]]
        OBVIOUS
      <3> HIDE DEF r, W, Im
      <3>10. SumFunctionOnSet(f, Im(s)) = SumFunctionOnSet(g, s)
        BY <3>4, <3>6, <3>7, <3>8, <3>9
      <3>11. QED
        BY <3>10 DEF W
    <2>3. QED
      BY <2>1, <2>2
  <1> HIDE DEF W
  <1>2. SUBSET S \subseteq W
    BY <1>1, SubsetInduction
  <1>3. QED
    BY <1>2 DEF W

=============================================================================
