------------------------- MODULE InitUpgrade_proofs -------------------------
(***************************************************************************)
(* Proofs about the setup commands: what people write is never taken away, *)
(* the report of an apply agrees with the disk, a plan foretells its apply *)
(* and a clean report leaves nothing to plan.                              *)
(***************************************************************************)
EXTENDS InitUpgrade, TLAPS, FiniteSetTheorems, SequenceTheorems, WellFoundedInduction

-----------------------------------------------------------------------------
(* Naturals and recursive functions.                                       *)

LEMMA LeastOf ==
    ASSUME NEW S \in SUBSET Nat, S # {}
    PROVE  \E i \in S : \A j \in S : i <= j
  <1> DEFINE Less == {ss \in Nat \X Nat : ss[1] < ss[2]}
  <1>1. IsWellFoundedOn(Less, Nat)
    BY NatLessThanWellFounded DEF OpToRel
  <1>2. \A x, y \in Nat : x < y => <<x, y>> \in Less
    OBVIOUS
  <1> HIDE DEF Less
  <1>3. PICK x \in S : \A y \in S : ~ (<<y, x>> \in Less)
    BY <1>1, WFMin
  <1>4. \A j \in S : ~ (j < x)
    BY <1>2, <1>3
  <1>5. \A j \in S : j \in Nat /\ x \in Nat
    OBVIOUS
  <1> QED
    BY <1>4, <1>5

LEMMA GreatestOf ==
    ASSUME NEW n \in Nat, NEW S \in SUBSET (0..n), S # {}
    PROVE  Max(S) \in S /\ \A j \in S : j <= Max(S)
  <1> DEFINE T == {n - i : i \in S}
  <1>1. T \in SUBSET Nat /\ T # {}
    <2>1. \A i \in S : i \in 0..n /\ n - i \in Nat
      OBVIOUS
    <2> QED
      BY <2>1
  <1>2. PICK t \in T : \A u \in T : t <= u
    <2> HIDE DEF T
    <2> QED
      BY <1>1, LeastOf
  <1>3. PICK i \in S : t = n - i
    OBVIOUS
  <1>4. \A j \in S : i >= j
    BY <1>2, <1>3
  <1>5. Max(S) \in S /\ \A j \in S : Max(S) >= j
    BY <1>4 DEF Max
  <1> QED
    BY <1>5

\* What is true of 0 and passes from each number to the next is true of n.
LEMMA UpTo ==
    ASSUME NEW n \in Nat, NEW Good \in SUBSET Nat, 0 \in Good,
           \A i \in 1..n : i - 1 \in Good => i \in Good
    PROVE  n \in Good
  <1> DEFINE Bad == {i \in 0..n : i \notin Good}
  <1>1. SUFFICES ASSUME Bad # {} PROVE FALSE
    OBVIOUS
  <1>2. PICK i \in Bad : \A j \in Bad : i <= j
    <2>1. Bad \in SUBSET Nat
      OBVIOUS
    <2> HIDE DEF Bad
    <2> QED
      BY <1>1, <2>1, LeastOf
  <1>3. i \in 1..n /\ i - 1 \in 0..n /\ i - 1 \notin Bad
    BY <1>2
  <1> QED
    BY <1>2, <1>3

\* There is a function on 0..n that is b at 0 and follows F from there.
Iterates(n, S, b, F) == \E g \in [0..n -> S] : g[0] = b /\ \A k \in 1..n : g[k] = F[k][g[k - 1]]

LEMMA Recursion ==
    ASSUME NEW N \in Nat, NEW S, NEW b \in S, NEW F \in [1..N -> [S -> S]]
    PROVE  Iterates(N, S, b, F)
  <1> DEFINE Has(n) == \E g \in [0..n -> S] : g[0] = b /\ \A k \in 1..n : g[k] = F[k][g[k - 1]]
             Good == {n \in Nat : n <= N => Has(n)}
  <1>1. 0 \in Good
    <2> DEFINE g == [i \in 0..0 |-> b]
    <2>1. g \in [0..0 -> S] /\ g[0] = b /\ \A k \in 1..0 : FALSE
      OBVIOUS
    <2> HIDE DEF g
    <2> QED
      BY <2>1
  <1>2. ASSUME NEW n \in 1..N, n - 1 \in Good PROVE n \in Good
    <2>1. PICK g \in [0..n - 1 -> S] : g[0] = b /\ \A k \in 1..n - 1 : g[k] = F[k][g[k - 1]]
      BY <1>2
    <2> DEFINE h == [k \in 0..n |-> IF k = n THEN F[n][g[n - 1]] ELSE g[k]]
    <2>2. g[n - 1] \in S /\ F[n][g[n - 1]] \in S
      OBVIOUS
    <2>3. h \in [0..n -> S]
      BY <2>2
    <2>4. h[0] = b
      BY <2>1
    <2>5. \A k \in 1..n : h[k - 1] = g[k - 1]
      OBVIOUS
    <2>6. ASSUME NEW k \in 1..n PROVE h[k] = F[k][h[k - 1]]
      <3>1. CASE k = n
        <4>1. h[k] = F[n][g[n - 1]] /\ h[k - 1] = g[n - 1]
          BY <2>5, <3>1
        <4> QED
          BY <3>1, <4>1
      <3>2. CASE k # n
        <4>1. k \in 1..n - 1 /\ h[k] = g[k]
          BY <3>2
        <4> QED
          BY <2>1, <2>5, <4>1
      <3> QED
        BY <3>1, <3>2
    <2> HIDE DEF h
    <2>7. Has(n)
      BY <2>3, <2>4, <2>6
    <2> QED
      BY <2>7
  <1> HIDE DEF Has
  <1>3. Good \in SUBSET Nat
    OBVIOUS
  <1>4. N \in Good
    <2> HIDE DEF Good
    <2> QED
      BY <1>1, <1>2, <1>3, UpTo
  <1>5. Has(N)
    BY <1>4
  <1> QED
    BY <1>5 DEF Has, Iterates

-----------------------------------------------------------------------------
(* Sequences.                                                              *)

LEMMA AppendFacts ==
    ASSUME NEW S, NEW s \in Seq(S), NEW e \in S
    PROVE  /\ Append(s, e) \in Seq(S)
           /\ Range(Append(s, e)) = Range(s) \union {e}
           /\ IsInjective(s) /\ e \notin Range(s) => IsInjective(Append(s, e))
  <1>1. /\ DOMAIN s = 1..Len(s) /\ DOMAIN Append(s, e) = 1..Len(s) + 1 /\ Len(s) \in Nat
        /\ \A i \in 1..Len(s) : Append(s, e)[i] = s[i]
        /\ Append(s, e)[Len(s) + 1] = e
        /\ Append(s, e) \in Seq(S)
    OBVIOUS
  <1>2. ASSUME NEW x PROVE x \in Range(Append(s, e)) <=> x \in Range(s) \union {e}
    BY <1>1 DEF Range
  <1>3. ASSUME IsInjective(s), e \notin Range(s) PROVE IsInjective(Append(s, e))
    <2>1. \A i \in 1..Len(s) : s[i] # e
      BY <1>1, <1>3 DEF Range
    <2>2. \A i, j \in 1..Len(s) : s[i] = s[j] => i = j
      BY <1>1, <1>3 DEF IsInjective
    <2>3. ASSUME NEW i \in 1..Len(s) + 1, NEW j \in 1..Len(s) + 1,
                 Append(s, e)[i] = Append(s, e)[j]
          PROVE  i = j
      BY <1>1, <2>1, <2>2, <2>3
    <2> QED
      BY <1>1, <2>3 DEF IsInjective
  <1> QED
    BY <1>1, <1>2, <1>3

LEMMA EmptyFacts ==
    ASSUME NEW S
    PROVE  <<>> \in Seq(S) /\ Range(<<>>) = {} /\ IsInjective(<<>>)
  BY DEF Range, IsInjective

LEMMA TailFacts ==
    ASSUME NEW S, NEW s \in Seq(S), s # <<>>
    PROVE  /\ Head(s) \in Range(s) /\ Tail(s) \in Seq(S)
           /\ Range(s) = Range(Tail(s)) \union {Head(s)}
           /\ IsInjective(s) => IsInjective(Tail(s)) /\ Head(s) \notin Range(Tail(s))
  <1>1. /\ Len(s) \in Nat /\ Len(s) > 0 /\ DOMAIN s = 1..Len(s) /\ Head(s) = s[1]
        /\ Tail(s) \in Seq(S) /\ Len(Tail(s)) = Len(s) - 1 /\ DOMAIN Tail(s) = 1..Len(s) - 1
        /\ \A i \in 1..Len(s) - 1 : Tail(s)[i] = s[i + 1]
    OBVIOUS
  <1>2. ASSUME NEW x \in Range(s) PROVE x \in Range(Tail(s)) \union {Head(s)}
    <2>1. PICK i \in 1..Len(s) : x = s[i]
      BY <1>1 DEF Range
    <2>2. CASE i = 1
      BY <2>1, <2>2, <1>1
    <2>3. CASE i # 1
      <3>1. i - 1 \in 1..Len(s) - 1 /\ Tail(s)[i - 1] = x
        BY <1>1, <2>1, <2>3
      <3> QED
        BY <1>1, <3>1 DEF Range
    <2> QED
      BY <2>2, <2>3
  <1>3. Head(s) \in Range(s)
    BY <1>1 DEF Range
  <1>4. ASSUME NEW x \in Range(Tail(s)) PROVE x \in Range(s)
    <2>1. PICK i \in 1..Len(s) - 1 : x = Tail(s)[i]
      BY <1>1 DEF Range
    <2>2. i + 1 \in 1..Len(s) /\ s[i + 1] = x
      BY <1>1, <2>1
    <2> QED
      BY <1>1, <2>2 DEF Range
  <1>5. ASSUME IsInjective(s)
        PROVE  IsInjective(Tail(s)) /\ Head(s) \notin Range(Tail(s))
    <2>1. \A i, j \in 1..Len(s) : s[i] = s[j] => i = j
      BY <1>1, <1>5 DEF IsInjective
    <2>2. ASSUME NEW i \in 1..Len(s) - 1, NEW j \in 1..Len(s) - 1, Tail(s)[i] = Tail(s)[j]
          PROVE  i = j
      <3>1. s[i + 1] = s[j + 1] /\ i + 1 \in 1..Len(s) /\ j + 1 \in 1..Len(s)
        BY <1>1, <2>2
      <3>2. i + 1 = j + 1
        BY <2>1, <3>1
      <3> QED
        BY <3>2
    <2>3. ASSUME Head(s) \in Range(Tail(s)) PROVE FALSE
      <3>1. PICK i \in 1..Len(s) - 1 : s[1] = Tail(s)[i]
        BY <1>1, <2>3 DEF Range
      <3>2. s[1] = s[i + 1] /\ 1 \in 1..Len(s) /\ i + 1 \in 1..Len(s) /\ i + 1 # 1
        BY <1>1, <3>1
      <3> QED
        BY <2>1, <3>2
    <2> QED
      BY <1>1, <2>2, <2>3 DEF IsInjective
  <1> QED
    BY <1>1, <1>2, <1>3, <1>4, <1>5

LEMMA OnlyFacts ==
    ASSUME NEW S, NEW s \in Seq(S), NEW T
    PROVE  /\ Only(s, T) \in Seq(S)
           /\ Range(Only(s, T)) = Range(s) \intersect T
           /\ IsInjective(s) => IsInjective(Only(s, T))
  <1> DEFINE N == Len(s)
             Step(q, n) == IF s[n] \in T THEN Append(q, s[n]) ELSE q
             Body(f) == [n \in 0..N |-> IF n = 0 THEN <<>>
                                        ELSE IF s[n] \in T THEN Append(f[n - 1], s[n]) ELSE f[n - 1]]
             k == CHOOSE f : f = Body(f)
  <1>1. Only(s, T) = k[N]
    BY DEF Only
  <1>2. N \in Nat /\ DOMAIN s = 1..N /\ \A n \in 1..N : s[n] \in S
    OBVIOUS
  <1>3. \E f : f = Body(f)
    <2> DEFINE F == [n \in 1..N |-> [q \in Seq(S) |-> Step(q, n)]]
    <2>1. F \in [1..N -> [Seq(S) -> Seq(S)]]
      BY <1>2
    <2>2. \A n \in 1..N, q \in Seq(S) : F[n][q] = Step(q, n)
      OBVIOUS
    <2>3. <<>> \in Seq(S) /\ N \in Nat
      OBVIOUS
    <2> HIDE DEF F, N
    <2>4. PICK g \in [0..N -> Seq(S)] :
                g[0] = <<>> /\ \A n \in 1..N : g[n] = F[n][g[n - 1]]
      <3> DEFINE Q == Seq(S)
                 b == <<>>
      <3>1. F \in [1..N -> [Q -> Q]] /\ b \in Q /\ N \in Nat
        BY <2>1, <2>3
      <3> HIDE DEF Q, b
      <3>2. Iterates(N, Q, b, F)
        BY <3>1, Recursion
      <3> QED
        BY <3>2 DEF Q, b, Iterates
    <2>5. ASSUME NEW n \in 1..N PROVE n - 1 \in 0..N /\ g[n] = Step(g[n - 1], n)
      <3>1. n - 1 \in 0..N
        BY <2>3
      <3>2. g[n - 1] \in Seq(S)
        BY <3>1
      <3> HIDE DEF Step
      <3> QED
        BY <2>2, <2>4, <3>1, <3>2
    <2>6. ASSUME NEW n \in 0..N PROVE g[n] = Body(g)[n]
      <3>1. CASE n = 0
        BY <2>4, <3>1
      <3>2. CASE n # 0
        <4>1. n \in 1..N
          BY <2>3, <3>2
        <4> QED
          BY <2>5, <3>2, <4>1
      <3> QED
        BY <3>1, <3>2
    <2>7. DOMAIN g = 0..N /\ g = [n \in 0..N |-> g[n]]
      OBVIOUS
    <2>8. g = Body(g)
      BY <2>6, <2>7
    <2> QED
      BY <2>8
  <1>4. k = Body(k)
    <2> HIDE DEF Body
    <2> QED
      BY <1>3
  <1> HIDE DEF k
  <1>5. k[0] = <<>> /\ \A n \in 1..N : k[n] = Step(k[n - 1], n)
    <2>1. k = [n \in 0..N |-> IF n = 0 THEN <<>> ELSE Step(k[n - 1], n)]
      BY <1>4
    <2> HIDE DEF Step
    <2>2. 0 \in 0..N /\ \A n \in 1..N : n \in 0..N /\ n # 0
      BY <1>2
    <2>3. \A n \in 0..N : k[n] = IF n = 0 THEN <<>> ELSE Step(k[n - 1], n)
      BY <2>1
    <2> QED
      BY <2>2, <2>3
  <1> HIDE DEF N
  <1> DEFINE Seen(n) == {s[i] : i \in 1..n}
             Good == {n \in Nat : n <= N =>
                        /\ k[n] \in Seq(S)
                        /\ Range(k[n]) = Seen(n) \intersect T
                        /\ IsInjective(s) => IsInjective(k[n])}
  <1>6. 0 \in Good
    <2>1. Seen(0) = {}
      OBVIOUS
    <2>2. /\ <<>> \in Seq(S) /\ Range(<<>>) = Seen(0) \intersect T /\ IsInjective(<<>>)
      BY <2>1, EmptyFacts
    <2> HIDE DEF Seen
    <2> QED
      BY <1>5, <2>2
  <1>7. ASSUME NEW n \in 1..N, n - 1 \in Good PROVE n \in Good
    <2>1. /\ k[n - 1] \in Seq(S) /\ Range(k[n - 1]) = Seen(n - 1) \intersect T
          /\ IsInjective(s) => IsInjective(k[n - 1])
      BY <1>2, <1>7
    <2>2. Seen(n) = Seen(n - 1) \union {s[n]}
      <3>1. \A i \in 1..n : i \in 1..n - 1 \/ i = n
        BY <1>2
      <3>2. \A i \in 1..n - 1 : i \in 1..n
        BY <1>2
      <3>3. n \in 1..n
        BY <1>2
      <3> QED
        BY <3>1, <3>2, <3>3
    <2>3. IsInjective(s) => s[n] \notin Seen(n - 1)
      BY <1>2 DEF IsInjective
    <2>4. s[n] \in S /\ k[n] = Step(k[n - 1], n)
      BY <1>2, <1>5
    <2> HIDE DEF Seen
    <2>5. CASE s[n] \in T
      <3>1. k[n] = Append(k[n - 1], s[n])
        BY <2>4, <2>5
      <3>2. /\ k[n] \in Seq(S) /\ Range(k[n]) = Range(k[n - 1]) \union {s[n]}
            /\ IsInjective(k[n - 1]) /\ s[n] \notin Range(k[n - 1]) => IsInjective(k[n])
        BY <2>1, <2>4, <3>1, AppendFacts
      <3>3. Range(k[n]) = Seen(n) \intersect T
        BY <2>1, <2>2, <2>5, <3>2
      <3>4. IsInjective(s) => IsInjective(k[n])
        BY <2>1, <2>3, <3>2
      <3> QED
        BY <3>2, <3>3, <3>4
    <2>6. CASE s[n] \notin T
      <3>1. k[n] = k[n - 1]
        BY <2>4, <2>6
      <3> QED
        BY <2>1, <2>2, <2>6, <3>1
    <2> QED
      BY <2>5, <2>6
  <1>8. N \in Good
    <2>1. Good \in SUBSET Nat
      OBVIOUS
    <2> HIDE DEF Good
    <2> QED
      BY <1>2, <1>6, <1>7, <2>1, UpTo
  <1>9. Seen(N) = Range(s)
    BY <1>2 DEF Range
  <1> QED
    BY <1>1, <1>2, <1>8, <1>9

-----------------------------------------------------------------------------
(* The order of the writes: whatever the comparison, the sort only permutes *)
(* them.                                                                   *)

LEMMA InsertAtFacts ==
    ASSUME NEW S, NEW q \in Seq(S), NEW p \in S, NEW i \in 1..Len(q) + 1
    PROVE  /\ InsertAt(q, i, p) \in Seq(S)
           /\ Range(InsertAt(q, i, p)) = Range(q) \union {p}
           /\ IsInjective(q) /\ p \notin Range(q) => IsInjective(InsertAt(q, i, p))
  <1> DEFINE n == Len(q)
             t == InsertAt(q, i, p)
             left == SubSeq(q, 1, i - 1)
             right == SubSeq(q, i, n)
  <1>1. n \in Nat /\ i \in Int /\ 1 <= i /\ i <= n + 1 /\ DOMAIN q = 1..n
    OBVIOUS
  <1>2. /\ left \in Seq(S) /\ Len(left) = i - 1
        /\ \A j \in 1..i - 1 : left[j] = q[j]
    <2>1. \A j \in 1..i - 1 : q[j] \in S
      BY <1>1
    <2> QED
      BY <1>1, <2>1, SubSeqProperties
  <1>3. /\ right \in Seq(S) /\ Len(right) = n - i + 1
        /\ \A j \in 1..n - i + 1 : right[j] = q[i + j - 1]
    <2>1. \A j \in i..n : q[j] \in S
      BY <1>1
    <2>2. right \in Seq(S) /\ Len(right) = (IF i <= n THEN n - i + 1 ELSE 0)
          /\ \A j \in 1..n - i + 1 : right[j] = q[i + j - 1]
      BY <1>1, <2>1, SubSeqProperties
    <2> QED
      BY <1>1, <2>2
  <1>4. t = left \o <<p>> \o right
    BY DEF InsertAt
  <1> HIDE DEF n, left, right, t
  <1>5. /\ t \in Seq(S) /\ Len(t) = n + 1
        /\ \A j \in 1..n + 1 : t[j] = IF j < i THEN q[j] ELSE IF j = i THEN p ELSE q[j - 1]
    <2> DEFINE u == left \o <<p>>
    <2>1. /\ u \in Seq(S) /\ Len(u) = i
          /\ \A j \in 1..i : u[j] = IF j < i THEN q[j] ELSE p
      <3>1. <<p>> \in Seq(S) /\ Len(<<p>>) = 1 /\ <<p>>[1] = p
        OBVIOUS
      <3>2. /\ u \in Seq(S) /\ Len(u) = Len(left) + Len(<<p>>)
            /\ \A j \in 1..Len(u) : u[j] = IF j <= Len(left) THEN left[j] ELSE <<p>>[j - Len(left)]
        BY <1>2, <3>1, ConcatProperties
      <3> HIDE DEF u
      <3>3. Len(u) = i
        BY <1>1, <1>2, <3>1, <3>2
      <3>4. ASSUME NEW j \in 1..i PROVE u[j] = IF j < i THEN q[j] ELSE p
        BY <1>1, <1>2, <3>1, <3>2, <3>3
      <3> QED
        BY <3>2, <3>3, <3>4
    <2>2. t = u \o right
      BY <1>4
    <2> HIDE DEF u
    <2>3. /\ t \in Seq(S) /\ Len(t) = Len(u) + Len(right)
          /\ \A j \in 1..Len(t) : t[j] = IF j <= Len(u) THEN u[j] ELSE right[j - Len(u)]
      <3>1. u \in Seq(S) /\ right \in Seq(S)
        BY <1>3, <2>1
      <3>2. /\ u \o right \in Seq(S) /\ Len(u \o right) = Len(u) + Len(right)
            /\ \A j \in 1..Len(u) + Len(right) :
                  (u \o right)[j] = IF j <= Len(u) THEN u[j] ELSE right[j - Len(u)]
        BY <3>1, ConcatProperties
      <3> QED
        BY <2>2, <3>2
    <2>4. Len(t) = n + 1
      BY <1>1, <1>3, <2>1, <2>3
    <2>5. ASSUME NEW j \in 1..n + 1
          PROVE  t[j] = IF j < i THEN q[j] ELSE IF j = i THEN p ELSE q[j - 1]
      <3>1. CASE j <= i
        BY <1>1, <2>1, <2>3, <2>4, <3>1
      <3>2. CASE j > i
        <4>1. t[j] = right[j - i] /\ j - i \in 1..n - i + 1 /\ i + (j - i) - 1 = j - 1
          BY <1>1, <2>1, <2>3, <2>4, <3>2
        <4> QED
          BY <1>1, <1>3, <3>2, <4>1
      <3> QED
        BY <1>1, <3>1, <3>2
    <2> QED
      BY <2>3, <2>4, <2>5
  <1>6. DOMAIN t = 1..n + 1
    BY <1>5
  <1>7. ASSUME NEW x \in Range(t) PROVE x \in Range(q) \union {p}
    <2>1. PICK j \in 1..n + 1 : x = t[j]
      BY <1>6 DEF Range
    <2>2. \/ j < i /\ x = q[j] /\ j \in 1..n
          \/ x = p
          \/ j > i /\ x = q[j - 1] /\ j - 1 \in 1..n
      BY <1>1, <1>5, <2>1
    <2> QED
      BY <1>1, <2>2 DEF Range
  <1>8. ASSUME NEW x \in Range(q) \union {p} PROVE x \in Range(t)
    <2>1. CASE x = p
      <3>1. t[i] = p /\ i \in 1..n + 1
        BY <1>1, <1>5
      <3> QED
        BY <1>6, <2>1, <3>1 DEF Range
    <2>2. CASE x \in Range(q)
      <3>1. PICK j \in 1..n : x = q[j]
        BY <1>1, <2>2 DEF Range
      <3>2. (j \in 1..n + 1 /\ t[j] = x) \/ (j + 1 \in 1..n + 1 /\ t[j + 1] = x)
        <4>1. CASE j < i
          BY <1>1, <1>5, <3>1, <4>1
        <4>2. CASE ~(j < i)
          <5>1. j + 1 \in 1..n + 1 /\ ~(j + 1 < i) /\ j + 1 # i /\ (j + 1) - 1 = j
            BY <1>1, <4>2
          <5> QED
            BY <1>5, <3>1, <5>1
        <4> QED
          BY <4>1, <4>2
      <3> QED
        BY <1>6, <3>2 DEF Range
    <2> QED
      BY <2>1, <2>2
  <1>9. ASSUME IsInjective(q), p \notin Range(q) PROVE IsInjective(t)
    <2>1. \A j, k \in 1..n : q[j] = q[k] => j = k
      BY <1>1, <1>9 DEF IsInjective
    <2>2. \A j \in 1..n : q[j] # p
      BY <1>1, <1>9 DEF Range
    <2> DEFINE Old(j) == IF j < i THEN j ELSE j - 1
    <2>3. \A j \in 1..n + 1 : j # i => Old(j) \in 1..n /\ t[j] = q[Old(j)]
      BY <1>1, <1>5
    <2>4. \A j, k \in 1..n + 1 : j # i /\ k # i /\ Old(j) = Old(k) => j = k
      BY <1>1
    <2>5. t[i] = p
      BY <1>1, <1>5
    <2> HIDE DEF Old
    <2>6. ASSUME NEW j \in 1..n + 1, NEW k \in 1..n + 1, t[j] = t[k] PROVE j = k
      <3>1. CASE j = i \/ k = i
        BY <2>2, <2>3, <2>5, <2>6, <3>1
      <3>2. CASE j # i /\ k # i
        BY <2>1, <2>3, <2>4, <2>6, <3>2
      <3> QED
        BY <3>1, <3>2
    <2> QED
      BY <1>6, <2>6 DEF IsInjective
  <1> QED
    BY <1>5, <1>7, <1>8, <1>9 DEF t

LEMMA InsertFacts ==
    ASSUME NEW A, NEW S, NEW q \in Seq(S), NEW p \in S
    PROVE  /\ Insert(A, q, p) \in Seq(S)
           /\ Range(Insert(A, q, p)) = Range(q) \union {p}
           /\ IsInjective(q) /\ p \notin Range(q) => IsInjective(Insert(A, q, p))
  <1> DEFINE stops == {0} \union {i \in DOMAIN q : ~Precedes(A, p, q[i])}
  <1>1. Len(q) \in Nat /\ stops \in SUBSET (0..Len(q)) /\ stops # {}
    OBVIOUS
  <1>2. Insert(A, q, p) = InsertAt(q, 1 + Max(stops), p)
    BY DEF Insert
  <1> HIDE DEF stops
  <1>3. Max(stops) \in 0..Len(q)
    BY <1>1, GreatestOf
  <1>4. 1 + Max(stops) \in 1..Len(q) + 1
    BY <1>1, <1>3
  <1> QED
    BY <1>2, <1>4, InsertAtFacts

LEMMA SortedFacts ==
    ASSUME NEW A, NEW S, NEW s \in Seq(S)
    PROVE  /\ Sorted(A, s) \in Seq(S)
           /\ Range(Sorted(A, s)) = Range(s)
           /\ IsInjective(s) => IsInjective(Sorted(A, s))
  <1>0. \A a \in Seq(S), e \in S :
           /\ Insert(A, a, e) \in Seq(S)
           /\ Range(Insert(A, a, e)) = Range(a) \union {e}
           /\ IsInjective(a) /\ e \notin Range(a) => IsInjective(Insert(A, a, e))
    BY InsertFacts
  <1> DEFINE N == Len(s)
             Step(q, n) == Insert(A, q, s[n])
             Body(f) == [n \in 0..N |-> IF n = 0 THEN <<>> ELSE Insert(A, f[n - 1], s[n])]
             k == CHOOSE f : f = Body(f)
  <1>1. Sorted(A, s) = k[N]
    BY DEF Sorted
  <1>2. N \in Nat /\ DOMAIN s = 1..N /\ \A n \in 1..N : s[n] \in S
    OBVIOUS
  <1>3. \E f : f = Body(f)
    <2> DEFINE F == [n \in 1..N |-> [q \in Seq(S) |-> Step(q, n)]]
    <2>1. F \in [1..N -> [Seq(S) -> Seq(S)]]
      <3>1. \A n \in 1..N, q \in Seq(S) : Step(q, n) \in Seq(S)
        BY <1>2, InsertFacts
      <3> HIDE DEF Step
      <3> QED
        BY <3>1
    <2>2. \A n \in 1..N, q \in Seq(S) : F[n][q] = Step(q, n)
      OBVIOUS
    <2>3. <<>> \in Seq(S) /\ N \in Nat
      OBVIOUS
    <2> HIDE DEF F, N
    <2>4. PICK g \in [0..N -> Seq(S)] :
                g[0] = <<>> /\ \A n \in 1..N : g[n] = F[n][g[n - 1]]
      <3> DEFINE Q == Seq(S)
                 b == <<>>
      <3>1. F \in [1..N -> [Q -> Q]] /\ b \in Q /\ N \in Nat
        BY <2>1, <2>3
      <3> HIDE DEF Q, b
      <3>2. Iterates(N, Q, b, F)
        BY <3>1, Recursion
      <3> QED
        BY <3>2 DEF Q, b, Iterates
    <2>5. ASSUME NEW n \in 1..N PROVE n - 1 \in 0..N /\ g[n] = Step(g[n - 1], n)
      <3>1. n - 1 \in 0..N
        BY <2>3
      <3>2. g[n - 1] \in Seq(S)
        BY <3>1
      <3> HIDE DEF Step
      <3> QED
        BY <2>2, <2>4, <3>1, <3>2
    <2>6. ASSUME NEW n \in 0..N PROVE g[n] = Body(g)[n]
      <3>1. CASE n = 0
        BY <2>4, <3>1
      <3>2. CASE n # 0
        <4>1. n \in 1..N
          BY <2>3, <3>2
        <4> QED
          BY <2>5, <3>2, <4>1
      <3> QED
        BY <3>1, <3>2
    <2>7. DOMAIN g = 0..N /\ g = [n \in 0..N |-> g[n]]
      OBVIOUS
    <2>8. g = Body(g)
      BY <2>6, <2>7
    <2> QED
      BY <2>8
  <1>4. k = Body(k)
    <2> HIDE DEF Body
    <2> QED
      BY <1>3
  <1> HIDE DEF k
  <1>5. k[0] = <<>> /\ \A n \in 1..N : k[n] = Step(k[n - 1], n)
    <2>1. k = [n \in 0..N |-> IF n = 0 THEN <<>> ELSE Step(k[n - 1], n)]
      BY <1>4
    <2> HIDE DEF Step
    <2>2. 0 \in 0..N /\ \A n \in 1..N : n \in 0..N /\ n # 0
      BY <1>2
    <2>3. \A n \in 0..N : k[n] = IF n = 0 THEN <<>> ELSE Step(k[n - 1], n)
      BY <2>1
    <2> QED
      BY <2>2, <2>3
  <1> HIDE DEF N
  <1> DEFINE Seen(n) == {s[i] : i \in 1..n}
             Good == {n \in Nat : n <= N =>
                        /\ k[n] \in Seq(S)
                        /\ Range(k[n]) = Seen(n)
                        /\ IsInjective(s) => IsInjective(k[n])}
  <1>6. 0 \in Good
    <2>1. Seen(0) = {}
      OBVIOUS
    <2>2. /\ <<>> \in Seq(S) /\ Range(<<>>) = Seen(0) /\ IsInjective(<<>>)
      BY <2>1, EmptyFacts
    <2> HIDE DEF Seen
    <2> QED
      BY <1>5, <2>2
  <1>7. ASSUME NEW n \in 1..N, n - 1 \in Good PROVE n \in Good
    <2>1. /\ k[n - 1] \in Seq(S) /\ Range(k[n - 1]) = Seen(n - 1)
          /\ IsInjective(s) => IsInjective(k[n - 1])
      BY <1>2, <1>7
    <2>2. Seen(n) = Seen(n - 1) \union {s[n]}
      <3>1. \A i \in 1..n : i \in 1..n - 1 \/ i = n
        BY <1>2
      <3>2. \A i \in 1..n - 1 : i \in 1..n
        BY <1>2
      <3>3. n \in 1..n
        BY <1>2
      <3> QED
        BY <3>1, <3>2, <3>3
    <2>3. IsInjective(s) => s[n] \notin Seen(n - 1)
      BY <1>2 DEF IsInjective
    <2>4. s[n] \in S /\ k[n] = Step(k[n - 1], n)
      BY <1>2, <1>5
    <2> HIDE DEF Seen
    <2>5. /\ k[n] \in Seq(S) /\ Range(k[n]) = Range(k[n - 1]) \union {s[n]}
          /\ IsInjective(k[n - 1]) /\ s[n] \notin Range(k[n - 1]) => IsInjective(k[n])
      <3>1. k[n] = Insert(A, k[n - 1], s[n])
        BY <2>4
      <3> QED
        BY <1>0, <2>1, <2>4, <3>1
    <2>6. Range(k[n]) = Seen(n)
      BY <2>1, <2>2, <2>5
    <2>7. IsInjective(s) => IsInjective(k[n])
      BY <2>1, <2>3, <2>5
    <2> QED
      BY <2>5, <2>6, <2>7
  <1>8. N \in Good
    <2>1. Good \in SUBSET Nat
      OBVIOUS
    <2> HIDE DEF Good
    <2> QED
      BY <1>2, <1>6, <1>7, <2>1, UpTo
  <1>9. Seen(N) = Range(s)
    BY <1>2 DEF Range
  <1> QED
    <2>1. k[N] \in Seq(S) /\ Range(k[N]) = Seen(N) /\ (IsInjective(s) => IsInjective(k[N]))
      BY <1>2, <1>8
    <2> QED
      BY <1>1, <1>9, <2>1

-----------------------------------------------------------------------------
(* The invariant: the shape of the state.                                  *)

Fields == {"command", "acts", "before", "conflicts", "skipped", "blocked", "queue", "wrote",
           "outcome", "touched", "disturbed", "late"}

\* What an action says of its path, by the files the plan was made from.
ActOK(p) ==
    /\ job.acts[p].kind = IF job.before[p] = Absent THEN "create" ELSE "modify"
    /\ job.acts[p].was = job.before[p]
    /\ job.acts[p].next \in Contents(p)
    /\ job.acts[p].next # job.before[p]
    /\ job.acts[p].deps \in SUBSET Paths
    /\ job.command = "upgrade" => Text(job.acts[p].next) = Text(job.before[p])

JobOK ==
    /\ DOMAIN job = Fields
    /\ job.command \in {"none", "upgrade", "init"}
    /\ job.outcome \in Outcomes
    /\ DOMAIN job.acts \in SUBSET Paths
    /\ job.conflicts \in SUBSET Paths /\ job.skipped \in SUBSET Paths
    /\ job.blocked \in SUBSET Paths
    /\ job.queue \in Seq(Paths) /\ IsInjective(job.queue)
    /\ job.wrote \in Seq(Paths)
    /\ Range(job.queue) \subseteq DOMAIN job.acts /\ Range(job.wrote) \subseteq DOMAIN job.acts
    /\ Range(job.queue) \intersect Range(job.wrote) = {}
    /\ job.touched \in SUBSET Paths /\ job.late \subseteq job.touched
    /\ job.touched # {} => job.disturbed
    /\ \A p \in DOMAIN job.acts : ActOK(p)

\* A write that has been allowed is still allowed, and the file is what was
\* compared.
Allowed ==
    /\ job.queue # <<>> /\ Now \notin job.blocked
    /\ Current.deps \intersect job.blocked = {}
Compared ==
    Current.kind = "modify" /\ (Now \in job.late \/ files[Now] = Current.was)

PhaseOK ==
    /\ pc # "idle" <=> job.command # "none" /\ job.outcome = "none"
    /\ job.command = "none" => job.outcome \notin Reports
    /\ job.outcome \in Reports => job.queue = <<>>
    /\ job.outcome \in {"applied", "current"} => job.conflicts = {} /\ job.skipped = {}
    /\ pc = "prepare" => job.command = "upgrade" /\ job.queue = <<>> /\ job.wrote = <<>>
    /\ pc \in {"rename", "truncate", "fill"} => Allowed
    /\ pc = "rename" => job.command = "upgrade" /\ Compared
    /\ pc = "truncate" => job.command = "init" /\ Compared

Shape ==
    /\ FilesOK(files)
    /\ release \in 1..MaxRelease
    /\ pc \in {"idle", "prepare", "write", "rename", "truncate", "fill"}
    /\ faults \in 0..MaxFaults /\ crashes \in 0..MaxCrashes
    /\ JobOK
    /\ PhaseOK
    /\ job.command # "none" => FilesOK(job.before)

(* The files nobody else touched are what the plan found or what the       *)
(* command wrote.                                                          *)

Expected(p) ==
    IF p \in Range(job.wrote) THEN job.acts[p].next
    ELSE IF pc = "fill" /\ p = Now THEN Torn ELSE job.before[p]

DiskOK ==
    job.command # "none" => \A p \in Paths \ job.touched : files[p] = Expected(p)

(* What an upgrade does is part of the plan it made.                       *)

Planned == ActionPaths(job.before, release)

PlanOK ==
    job.command = "upgrade" =>
       /\ DOMAIN job.acts \subseteq Planned
       /\ \A p \in DOMAIN job.acts :
             /\ job.acts[p].next = Target(job.before, release, p)
             /\ job.acts[p].deps = DependsOn(job.before, release, p)
       /\ pc = "prepare" =>
             /\ DOMAIN job.acts = Planned
             /\ job.conflicts = PlanConflicts(job.before)
             /\ job.skipped = PlanSkips(job.before, release)
             /\ job.blocked = job.conflicts \union job.skipped

(* The manifest, once written, vouches for no refresh that will not come.  *)

Group == {p \in Planned \intersect Managed : job.before[p] # Absent}
Handled == Range(job.wrote) \union Range(job.queue)

GroupOK ==
    job.command = "upgrade" /\ pc # "prepare" =>
       /\ Lock \in Range(job.wrote) =>
             Lock \notin job.blocked /\ Group \subseteq Handled \ job.blocked
       /\ Lock \in Range(job.queue) \ job.blocked => Group \subseteq Handled \union job.blocked

(* An apply that has refused and skipped nothing does all of its plan.     *)

FreshSetup(r, p) ==
    IF p = Config THEN NewConfig
    ELSE IF p = Lock THEN LockOf([m \in Managed |-> r]) ELSE Scaffold(r)

Clean == job.conflicts = {} /\ job.skipped = {}

CleanOK ==
    Clean =>
       /\ job.command = "upgrade" /\ pc # "prepare" =>
             /\ PlanConflicts(job.before) = {} /\ PlanSkips(job.before, release) = {}
             /\ job.blocked = {} /\ Planned = Handled
       /\ job.command = "init" =>
             /\ job.blocked = {} /\ DOMAIN job.acts = Handled
             /\ \A p \in Owned : IF p \in DOMAIN job.acts
                                  THEN job.acts[p].next = FreshSetup(release, p)
                                  ELSE job.before[p] = FreshSetup(release, p)

(* An apply that nothing disturbs does what the plan foretold.             *)

Foretold == PlanConflicts(job.before) \union ForetoldSkips(job.before, release)

ForetoldOK ==
    job.command = "upgrade" /\ ~job.disturbed /\ job.before[Config] # Torn /\ pc # "prepare" =>
       /\ job.conflicts = PlanConflicts(job.before)
       /\ job.skipped = ForetoldSkips(job.before, release)
       /\ job.blocked = Foretold
       /\ Handled = Planned \ Foretold
       /\ \A p \in Handled : job.acts[p].deps \intersect Foretold = {}

-----------------------------------------------------------------------------
(* Paths and contents.                                                     *)

LEMMA Distinct ==
    /\ Config # Lock /\ Config # Gitignore /\ Config # Instructions
    /\ Lock # Gitignore /\ Lock # Instructions /\ Gitignore # Instructions
    /\ Config \notin Managed /\ Lock \notin Managed
    /\ Gitignore \notin Managed /\ Instructions \notin Managed
  <1> DEFINE t == <<Config, Lock, Gitignore, Instructions>>
  <1>1. DOMAIN t = 1..4 /\ t[1] = Config /\ t[2] = Lock /\ t[3] = Gitignore /\ t[4] = Instructions
    OBVIOUS
  <1>2. \A i, j \in 1..4 : t[i] = t[j] => i = j
    BY <1>1, PathsAssumption DEF IsInjective
  <1>3. 1 \in 1..4 /\ 2 \in 1..4 /\ 3 \in 1..4 /\ 4 \in 1..4
    OBVIOUS
  <1> HIDE DEF t
  <1>4. /\ t[1] # t[2] /\ t[1] # t[3] /\ t[1] # t[4] /\ t[2] # t[3] /\ t[2] # t[4] /\ t[3] # t[4]
    BY <1>2, <1>3
  <1> QED
    BY <1>1, <1>4, PathsAssumption

LEMMA PathCases ==
    /\ Config \in Paths /\ Lock \in Paths /\ Gitignore \in Paths /\ Instructions \in Paths
    /\ Managed \subseteq Paths
    /\ \A p \in Paths : p \in {Config, Lock, Gitignore, Instructions} \/ p \in Managed
  BY DEF Paths

ConfigT == [text : Nat, setup : {0, 1}, caps : Caps, refs : SUBSET Managed,
            elsewhere : SUBSET Managed]
LockT == [text : Nat, entries : [Managed -> Releases]]
GitignoreT == [text : Nat, runs : BOOLEAN, broad : BOOLEAN]
InstructionsT == [text : Nat, section : BOOLEAN]
ManagedT == [text : Nat, base : Releases]

LEMMA ContentsOf ==
    /\ Contents(Config) = ConfigT /\ Contents(Lock) = LockT /\ Contents(Gitignore) = GitignoreT
    /\ Contents(Instructions) = InstructionsT
    /\ \A p \in Managed : Contents(p) = ManagedT
  BY Distinct DEF Contents, ConfigT, LockT, GitignoreT, InstructionsT, ManagedT

LEMMA Records ==
    /\ Absent # Torn
    /\ \A p \in Paths : \A c \in Contents(p) : c # Absent /\ c # Torn /\ IsRecord(c)
  BY ContentsAssumption DEF IsRecord

LEMMA FileIs ==
    ASSUME NEW F, FilesOK(F), NEW p \in Paths
    PROVE  /\ F[p] \in Contents(p) \/ F[p] = Absent \/ F[p] = Torn
           /\ IsRecord(F[p]) <=> F[p] \in Contents(p)
  <1>1. F[p] \in Contents(p) \union {Absent, Torn}
    BY DEF FilesOK
  <1> QED
    BY <1>1, Records DEF IsRecord

-----------------------------------------------------------------------------
(* The plan of an upgrade.                                                 *)

LEMMA ConfigIs ==
    ASSUME NEW F, FilesOK(F), F[Config] # Absent
    PROVE  /\ ConfigOf(F) \in ConfigT
           /\ Text(F[Config]) = ConfigOf(F).text
  <1>1. F[Config] \in ConfigT \/ F[Config] = Torn
    BY FileIs, PathCases, ContentsOf
  <1>2. EmptyConfig \in ConfigT /\ EmptyConfig.text = 0
    BY DEF EmptyConfig, ConfigT, Caps
  <1> QED
    BY <1>1, <1>2, Records, PathCases, ContentsOf DEF ConfigOf, Text, IsRecord

LEMMA ConfigPlanned ==
    ASSUME NEW F, FilesOK(F), Loads(F), ConfigTarget(F) # F[Config]
    PROVE  /\ ConfigTarget(F) \in ConfigT
           /\ ConfigTarget(F).text = ConfigOf(F).text
  <1> DEFINE c == ConfigOf(F)
             schema == IF c.caps = "max" THEN [c EXCEPT !.caps = "caps"] ELSE c
             new == [schema EXCEPT !.setup = 1,
                                   !.caps = IF @ = "none" THEN "caps" ELSE @,
                                   !.refs = Managed \ c.elsewhere]
  <1>1. c \in ConfigT
    BY ConfigIs DEF Loads
  <1>2. ConfigTarget(F) = schema \/ ConfigTarget(F) = new
    BY DEF ConfigTarget
  <1> HIDE DEF c
  <1>3. schema \in ConfigT /\ schema.text = c.text
    BY <1>1 DEF ConfigT, Caps
  <1>4. c.elsewhere \in SUBSET Managed
    BY <1>1 DEF ConfigT
  <1> HIDE DEF schema
  <1>5. new \in ConfigT /\ new.text = c.text
    BY <1>3, <1>4 DEF ConfigT, Caps
  <1> QED
    BY <1>2, <1>3, <1>5 DEF c

LEMMA LockIs ==
    ASSUME NEW F, FilesOK(F)
    PROVE  /\ LockValid(F) => F[Lock] \in LockT /\ F[Lock].text = 0 /\ F[Lock] # Absent
           /\ \A p \in Managed : ProvesManaged(F, p) =>
                 /\ LockValid(F) /\ F[Lock].entries[p] \in Releases
                 /\ F[p] = Scaffold(F[Lock].entries[p]) /\ F[p] # Absent /\ Text(F[p]) = 0
  <1>1. LockValid(F) => F[Lock] \in LockT /\ F[Lock].text = 0 /\ F[Lock] # Absent
    BY FileIs, PathCases, ContentsOf DEF LockValid, IsRecord
  <1>2. ASSUME NEW p \in Managed, ProvesManaged(F, p)
        PROVE  /\ LockValid(F) /\ F[Lock].entries[p] \in Releases
               /\ F[p] = Scaffold(F[Lock].entries[p]) /\ F[p] # Absent /\ Text(F[p]) = 0
    <2>1. /\ LockValid(F) /\ F[p] = Scaffold(F[Lock].entries[p])
      BY <1>2 DEF ProvesManaged
    <2>2. F[Lock].entries[p] \in Releases
      BY <1>1, <2>1 DEF LockT
    <2>3. Scaffold(F[Lock].entries[p]) \in ManagedT /\ Scaffold(F[Lock].entries[p]).text = 0
      BY <2>2 DEF Scaffold, ManagedT
    <2>4. F[p] \in Contents(p) /\ F[p].text = 0
      BY <2>1, <2>3, ContentsOf
    <2>5. F[p] # Absent /\ IsRecord(F[p])
      BY <2>4, Records, PathCases
    <2> QED
      BY <2>1, <2>2, <2>4, <2>5 DEF Text
  <1> QED
    BY <1>1, <1>2

LEMMA TargetCases ==
    ASSUME NEW F, NEW r
    PROVE  /\ Target(F, r, Config) = ConfigTarget(F)
           /\ Target(F, r, Lock) = LockTarget(F, r)
           /\ Target(F, r, Gitignore) = GitignoreTarget(F)
           /\ Target(F, r, Instructions) = InstructionsTarget(F)
           /\ \A p \in Managed : Target(F, r, p) = ManagedTarget(F, r, p)
  BY Distinct DEF Target

\* What a plan writes is a file that keeps what people wrote.
LEMMA TargetFacts ==
    ASSUME NEW F, FilesOK(F), NEW r \in Releases, Loads(F),
           NEW p \in Paths, Target(F, r, p) # F[p]
    PROVE  /\ Target(F, r, p) \in Contents(p)
           /\ Text(Target(F, r, p)) = Text(F[p])
  <1>0. \A c \in Contents(p) : Text(c) = c.text
    BY Records DEF Text
  <1>1. CASE p = Config
    <2>1. /\ ConfigTarget(F) \in ConfigT /\ ConfigTarget(F).text = ConfigOf(F).text
          /\ Text(F[Config]) = ConfigOf(F).text
      BY <1>1, TargetCases, ConfigPlanned, ConfigIs DEF Loads
    <2> QED
      BY <1>0, <1>1, <2>1, TargetCases, ContentsOf
  <1>2. CASE p = Lock
    <2>1. LockUsable(F)
      BY <1>2, TargetCases DEF LockTarget
    <2>2. PICK e \in [Managed -> Releases] : LockTarget(F, r) = LockOf(e)
      <3>1. [q \in Managed |-> IF Customized(F, r, q) THEN 0 ELSE r] \in [Managed -> Releases]
        BY BoundsAssumption DEF Releases
      <3> QED
        BY <2>1, <3>1 DEF LockTarget
    <2>3. LockTarget(F, r) \in LockT /\ LockTarget(F, r).text = 0
      BY <2>2 DEF LockT, LockOf
    <2>4. Text(F[Lock]) = 0
      BY <2>1, LockIs DEF LockUsable, Text, IsRecord
    <2> QED
      BY <1>0, <1>2, <2>3, <2>4, TargetCases, ContentsOf
  <1>3. CASE p = Gitignore
    <2> DEFINE c == F[Gitignore]
    <2>1. GitignoreTarget(F) = WithRunsEntry(c)
      BY <1>3, TargetCases DEF GitignoreTarget
    <2>2. c \in GitignoreT \/ (~IsRecord(c) /\ Text(c) = 0)
      BY FileIs, PathCases, ContentsOf DEF Text
    <2>3. c \in GitignoreT => IsRecord(c) /\ Text(c) = c.text
      BY <1>0, <1>3, Records, PathCases, ContentsOf
    <2> HIDE DEF c
    <2>4. WithRunsEntry(c) \in GitignoreT /\ WithRunsEntry(c).text = Text(c)
      BY <2>2, <2>3 DEF WithRunsEntry, GitignoreT
    <2> QED
      BY <1>0, <1>3, <2>1, <2>4, TargetCases, ContentsOf DEF c
  <1>4. CASE p = Instructions
    <2> DEFINE c == F[Instructions]
    <2>1. InstructionsTarget(F) = WithSection(c)
      BY <1>4, TargetCases DEF InstructionsTarget
    <2>2. c \in InstructionsT \/ (~IsRecord(c) /\ Text(c) = 0)
      BY FileIs, PathCases, ContentsOf DEF Text
    <2>3. c \in InstructionsT => IsRecord(c) /\ Text(c) = c.text
      BY <1>0, <1>4, Records, PathCases, ContentsOf
    <2> HIDE DEF c
    <2>4. WithSection(c) \in InstructionsT /\ WithSection(c).text = Text(c)
      BY <2>2, <2>3 DEF WithSection, InstructionsT
    <2> QED
      BY <1>0, <1>4, <2>1, <2>4, TargetCases, ContentsOf DEF c
  <1>5. CASE p \in Managed
    <2>1. /\ Target(F, r, p) = Scaffold(r)
          /\ F[p] = Absent \/ ProvesManaged(F, p)
      BY <1>5, TargetCases DEF ManagedTarget
    <2>2. Text(F[p]) = 0
      BY <1>5, <2>1, LockIs DEF Text, IsRecord
    <2>3. Scaffold(r) \in ManagedT /\ Scaffold(r).text = 0
      BY DEF Scaffold, ManagedT
    <2> QED
      BY <1>0, <1>5, <2>1, <2>2, <2>3, ContentsOf
  <1> QED
    BY <1>1, <1>2, <1>3, <1>4, <1>5, PathCases

-----------------------------------------------------------------------------
(* Steps and the shape of the state.                                       *)

\* The fields of the job that a step may change.
Changes(fields) == DOMAIN job' = Fields /\ \A f \in Fields \ fields : job'[f] = job[f]

\* The command is over without a report, or has not begun.
Over == pc' = "idle" /\ job' \in {NoJob, Ended("failed"), Ended("died")}

LEMMA OverShape ==
    ASSUME Over
    PROVE  JobOK' /\ PhaseOK' /\ job'.command = "none" /\ job'.outcome \notin Reports
  <1>1. PICK o \in {"none", "failed", "died"} : job' = NoJob \/ job' = Ended(o)
    BY DEF Over
  <1>2. /\ DOMAIN job' = Fields /\ job'.command = "none" /\ job'.outcome \in {"none", o}
        /\ job'.acts = <<>> /\ job'.conflicts = {} /\ job'.skipped = {} /\ job'.blocked = {}
        /\ job'.queue = <<>> /\ job'.wrote = <<>> /\ job'.touched = {} /\ job'.late = {}
    BY <1>1 DEF NoJob, Ended, Fields
  <1>3. {"none", o} \subseteq Outcomes /\ {"none", o} \intersect Reports = {}
    BY DEF Outcomes, Reports
  <1>4. DOMAIN <<>> = {}
    OBVIOUS
  <1>5. /\ <<>> \in Seq(Paths) /\ Range(<<>>) = {} /\ IsInjective(<<>>)
    BY EmptyFacts
  <1>6. JobOK'
    BY <1>2, <1>3, <1>4, <1>5 DEF JobOK
  <1>7. PhaseOK'
    BY <1>2, <1>3 DEF PhaseOK, Over, Reports
  <1> QED
    BY <1>2, <1>3, <1>6, <1>7

LEMMA FilesPut ==
    ASSUME NEW F, FilesOK(F), NEW p \in Paths, NEW c \in Contents(p) \union {Absent, Torn}
    PROVE  FilesOK([F EXCEPT ![p] = c])
  BY DEF FilesOK

LEMMA ActsStay ==
    ASSUME JobOK, DOMAIN job' = Fields, job'.command = job.command, job'.before = job.before,
           DOMAIN job'.acts \subseteq DOMAIN job.acts,
           \A p \in DOMAIN job'.acts : job'.acts[p] = job.acts[p]
    PROVE  \A p \in DOMAIN job'.acts : ActOK(p)'
  BY DEF JobOK, ActOK

\* The write in hand is one of the plan.
LEMMA NowFacts ==
    ASSUME JobOK, job.queue # <<>>
    PROVE  /\ Now \in Paths /\ Now \in DOMAIN job.acts /\ ActOK(Now)
           /\ Now \in Range(job.queue) /\ Now \notin Range(job.wrote)
           /\ Now \notin Range(Tail(job.queue))
           /\ Range(job.queue) = Range(Tail(job.queue)) \union {Now}
           /\ Tail(job.queue) \in Seq(Paths) /\ IsInjective(Tail(job.queue))
  <1>1. job.queue \in Seq(Paths) /\ IsInjective(job.queue)
    BY DEF JobOK
  <1>2. /\ Now \in Range(job.queue) /\ Tail(job.queue) \in Seq(Paths)
        /\ Range(job.queue) = Range(Tail(job.queue)) \union {Now}
        /\ IsInjective(Tail(job.queue)) /\ Now \notin Range(Tail(job.queue))
    BY <1>1, TailFacts DEF Now
  <1> QED
    BY <1>2 DEF JobOK

\* The new queue and the new list of what is written stay apart.
LEMMA QueueStays ==
    ASSUME JobOK, DOMAIN job' = Fields,
           Changes({"conflicts", "skipped", "blocked", "queue", "wrote", "outcome", "touched",
                    "disturbed", "late"}),
           job'.queue \in Seq(Paths), IsInjective(job'.queue), job'.wrote \in Seq(Paths),
           Range(job'.queue) \subseteq DOMAIN job.acts, Range(job'.wrote) \subseteq DOMAIN job.acts,
           Range(job'.queue) \intersect Range(job'.wrote) = {},
           job'.conflicts \in SUBSET Paths, job'.skipped \in SUBSET Paths,
           job'.blocked \in SUBSET Paths, job'.touched \in SUBSET Paths,
           job'.late \subseteq job'.touched, job'.touched # {} => job'.disturbed,
           job'.outcome \in Outcomes
    PROVE  JobOK'
  <1>1. job'.command = job.command /\ job'.acts = job.acts /\ job'.before = job.before
    BY DEF Changes, Fields
  <1>2. \A p \in DOMAIN job'.acts : ActOK(p)'
    BY <1>1, ActsStay
  <1> QED
    BY <1>1, <1>2 DEF JobOK

\* Passing over a write.
LEMMA PassOverEffect ==
    ASSUME Shape, PassOver
    PROVE  /\ Changes({"queue", "skipped", "blocked"})
           /\ pc = "write" /\ job.queue # <<>> /\ job'.queue = Tail(job.queue)
           /\ \/ Now \in job.blocked /\ job'.skipped = job.skipped /\ job'.blocked = job.blocked
              \/ /\ Now \notin job.blocked /\ Current.deps \intersect job.blocked # {}
                 /\ job'.skipped = job.skipped \union {Now}
                 /\ job'.blocked = job.blocked \union {Now}
           /\ UNCHANGED <<files, release, pc, faults, crashes>>
  BY DEF Shape, JobOK, PassOver, Changes, Fields

LEMMA PassOverShape ==
    ASSUME Shape, PassOver PROVE Shape'
  <1>1. /\ Changes({"queue", "skipped", "blocked"}) /\ DOMAIN job' = Fields
        /\ pc = "write" /\ job.queue # <<>> /\ job'.queue = Tail(job.queue)
        /\ job'.skipped \subseteq job.skipped \union {Now}
        /\ job'.blocked \subseteq job.blocked \union {Now}
        /\ UNCHANGED <<files, release, pc, faults, crashes>>
    BY PassOverEffect DEF Changes
  <1>2. /\ job'.wrote = job.wrote /\ job'.conflicts = job.conflicts /\ job'.touched = job.touched
        /\ job'.late = job.late /\ job'.disturbed = job.disturbed /\ job'.outcome = job.outcome
        /\ job'.command = job.command /\ job'.before = job.before
    BY <1>1 DEF Changes, Fields
  <1>3. JobOK
    BY DEF Shape
  <1>4. JobOK'
    <2>1. Changes({"conflicts", "skipped", "blocked", "queue", "wrote", "outcome", "touched",
                   "disturbed", "late"})
      BY <1>1 DEF Changes
    <2>2. /\ Now \in Paths /\ Tail(job.queue) \in Seq(Paths) /\ IsInjective(Tail(job.queue))
          /\ Range(Tail(job.queue)) \subseteq Range(job.queue)
      BY <1>1, <1>3, NowFacts
    <2> QED
      BY <1>1, <1>2, <1>3, <2>1, <2>2, QueueStays DEF JobOK
  <1>5. PhaseOK'
    BY <1>1, <1>2 DEF Shape, PhaseOK, Reports
  <1> QED
    BY <1>1, <1>2, <1>4, <1>5 DEF Shape

\* A write begins.
LEMMA BeginsShape ==
    ASSUME Shape, OpenCreate \/ Compare \/ Truncate PROVE Shape'
  <1>1. JobOK /\ job' = job /\ release' = release /\ faults' = faults /\ crashes' = crashes
    BY DEF Shape, OpenCreate, Compare, Truncate
  <1>2. JobOK'
    BY <1>1 DEF JobOK, ActOK
  <1>3. job.queue # <<>> /\ pc # "idle"
    BY DEF Shape, PhaseOK, OpenCreate, Compare, Truncate, MayWrite, Allowed
  <1>4. Now \in Paths
    BY <1>1, <1>3, NowFacts
  <1>5. /\ FilesOK(files)
        /\ job.command # "none" => FilesOK(job.before)
    BY DEF Shape
  <1>6. FilesOK(files')
    <2>1. CASE OpenCreate \/ Truncate
      <3>1. files' = [files EXCEPT ![Now] = Torn]
        BY <2>1 DEF OpenCreate, Truncate
      <3> QED
        BY <1>4, <1>5, <3>1, FilesPut
    <2>2. CASE Compare
      BY <1>5, <2>2 DEF Compare
    <2> QED
      BY <2>1, <2>2
  <1>7. PhaseOK'
    <2>1. CASE OpenCreate
      <3>1. pc' = "fill" /\ Allowed
        BY <2>1 DEF OpenCreate, MayWrite, Allowed
      <3> QED
        BY <1>1, <1>3, <3>1 DEF Shape, PhaseOK, Allowed, Now, Current
    <2>2. CASE Truncate
      <3>1. pc' = "fill" /\ Allowed
        BY <2>2 DEF Truncate, Shape, PhaseOK
      <3> QED
        BY <1>1, <1>3, <3>1 DEF Shape, PhaseOK, Allowed, Now, Current
    <2>3. CASE Compare
      <3>1. /\ pc' = (IF job.command = "upgrade" THEN "rename" ELSE "truncate")
            /\ Allowed /\ Current.kind = "modify" /\ files' = files /\ files[Now] = Current.was
        BY <2>3 DEF Compare, MayWrite, Allowed
      <3>2. job.command \in {"upgrade", "init"}
        BY <1>1, <1>3 DEF Shape, PhaseOK, JobOK
      <3> QED
        BY <1>1, <1>3, <3>1, <3>2 DEF Shape, PhaseOK, Allowed, Compared, Now, Current
    <2> QED
      BY <2>1, <2>2, <2>3
  <1>8. pc' \in {"fill", "rename", "truncate"}
    BY DEF OpenCreate, Compare, Truncate
  <1> QED
    BY <1>1, <1>2, <1>5, <1>6, <1>7, <1>8 DEF Shape

\* A write ends well.
Written == Rename \/ Fill

LEMMA WrittenEffect ==
    ASSUME Shape, Written
    PROVE  /\ Changes({"queue", "wrote"})
           /\ Allowed /\ pc # "idle" /\ pc' = "write"
           /\ job'.wrote = Append(job.wrote, Now) /\ job'.queue = Tail(job.queue)
           /\ \/ pc = "rename" /\ files' = [files EXCEPT ![Now] = Current.next]
              \/ pc = "fill" /\ files' = [files EXCEPT ![Now] = IF @ = Torn THEN Current.next ELSE @]
           /\ UNCHANGED <<release, faults, crashes>>
  <1>1. DOMAIN job = Fields /\ Allowed /\ pc # "idle" /\ job' = Done(Now)
    BY DEF Shape, JobOK, PhaseOK, Written, Rename, Fill
  <1>2. /\ Changes({"queue", "wrote"})
        /\ job'.wrote = Append(job.wrote, Now) /\ job'.queue = Tail(job.queue)
    BY <1>1 DEF Done, Changes, Fields
  <1> QED
    BY <1>1, <1>2 DEF Written, Rename, Fill

LEMMA WrittenShape ==
    ASSUME Shape, Written PROVE Shape'
  <1>1. /\ Changes({"queue", "wrote"}) /\ DOMAIN job' = Fields
        /\ Allowed /\ pc # "idle" /\ pc' = "write"
        /\ job'.wrote = Append(job.wrote, Now) /\ job'.queue = Tail(job.queue)
        /\ UNCHANGED <<release, faults, crashes>>
    BY WrittenEffect DEF Changes
  <1>2. /\ job'.skipped = job.skipped /\ job'.blocked = job.blocked
        /\ job'.conflicts = job.conflicts /\ job'.touched = job.touched
        /\ job'.late = job.late /\ job'.disturbed = job.disturbed /\ job'.outcome = job.outcome
        /\ job'.command = job.command /\ job'.before = job.before
    BY <1>1 DEF Changes, Fields
  <1>3. JobOK /\ job.queue # <<>> /\ FilesOK(files) /\ (job.command # "none" => FilesOK(job.before))
    BY <1>1 DEF Shape, Allowed
  <1>4. /\ Now \in Paths /\ Now \in DOMAIN job.acts /\ Tail(job.queue) \in Seq(Paths)
        /\ IsInjective(Tail(job.queue)) /\ ActOK(Now)
        /\ Range(Tail(job.queue)) \subseteq Range(job.queue) /\ Now \notin Range(Tail(job.queue))
    BY <1>3, NowFacts
  <1>5. JobOK'
    <2>1. Changes({"conflicts", "skipped", "blocked", "queue", "wrote", "outcome", "touched",
                   "disturbed", "late"})
      BY <1>1 DEF Changes
    <2>2. job.wrote \in Seq(Paths)
      BY <1>3 DEF JobOK
    <2>3. job'.wrote \in Seq(Paths) /\ Range(job'.wrote) = Range(job.wrote) \union {Now}
      BY <1>1, <1>4, <2>2, AppendFacts
    <2> QED
      BY <1>1, <1>2, <1>3, <1>4, <2>1, <2>3, QueueStays DEF JobOK
  <1>6. FilesOK(files')
    <2>1. Current.next \in Contents(Now)
      BY <1>4 DEF ActOK, Current
    <2>2. files[Now] \in Contents(Now) \union {Absent, Torn}
      BY <1>3, <1>4 DEF FilesOK
    <2>3. PICK c \in Contents(Now) \union {Absent, Torn} : files' = [files EXCEPT ![Now] = c]
      BY <2>1, <2>2, WrittenEffect
    <2>4. FilesOK([files EXCEPT ![Now] = c])
      BY <1>3, <1>4, FilesPut
    <2> QED
      BY <2>3, <2>4
  <1>7. PhaseOK'
    BY <1>1, <1>2 DEF Shape, PhaseOK, Reports
  <1> QED
    BY <1>1, <1>2, <1>3, <1>5, <1>6, <1>7 DEF Shape

-----------------------------------------------------------------------------
(* A write that fails takes back the group of the manifest.                *)

GroupPaths == {q \in DOMAIN job.acts : Modifies(q) /\ (q = Lock \/ Lock \in job.acts[q].deps)}

LEMMA RestoredFacts ==
    ASSUME JobOK, job.queue # <<>>
    PROVE  /\ Restored \subseteq Range(job.wrote) \intersect GroupPaths
           /\ Lock \notin Current.deps => Restored = {}
           /\ Lock \in Current.deps /\ Altered = {} =>
                 Restored = Range(job.wrote) \intersect GroupPaths
           /\ \A q \in Restored : files[q] = job.acts[q].next
  <1> DEFINE G == GroupWritten
             last == Max({0} \union Altered)
  <1>1. job.wrote \in Seq(Paths)
    BY DEF JobOK
  <1>2. /\ G \in Seq(Paths)
        /\ Lock \in Current.deps => Range(G) = Range(job.wrote) \intersect GroupPaths
        /\ Lock \notin Current.deps => G = <<>>
    <2>1. /\ Only(job.wrote, GroupPaths) \in Seq(Paths)
          /\ Range(Only(job.wrote, GroupPaths)) = Range(job.wrote) \intersect GroupPaths
      BY <1>1, OnlyFacts
    <2> QED
      BY <2>1 DEF GroupWritten, GroupPaths
  <1>3. Altered \subseteq DOMAIN G
    BY DEF Altered
  <1>4. Restored = {G[i] : i \in {j \in DOMAIN G : j > last}}
    BY DEF Restored
  <1> HIDE DEF G
  <1>5. Len(G) \in Nat /\ DOMAIN G = 1..Len(G)
    BY <1>2
  <1>6. last \in 0..Len(G) /\ (\A i \in Altered : i <= last) /\ (Altered = {} => last = 0)
    <2> DEFINE all == {0} \union Altered
    <2>1. all \in SUBSET (0..Len(G)) /\ all # {}
      BY <1>3, <1>5
    <2>2. last = Max(all)
      OBVIOUS
    <2>3. Altered = {} => all = {0}
      OBVIOUS
    <2>4. \A i \in Altered : i \in all
      OBVIOUS
    <2> HIDE DEF all
    <2>5. Max(all) \in all /\ \A j \in all : j <= Max(all)
      BY <1>5, <2>1, GreatestOf
    <2> QED
      BY <1>5, <2>1, <2>2, <2>3, <2>4, <2>5
  <1> HIDE DEF last
  <1>7. Restored \subseteq Range(G)
    BY <1>4 DEF Range
  <1>8. Altered = {} => Restored = Range(G)
    BY <1>4, <1>5, <1>6 DEF Range
  <1>9. ASSUME NEW q \in Restored PROVE files[q] = job.acts[q].next
    <2>1. PICK i \in DOMAIN G : i > last /\ q = G[i]
      BY <1>4
    <2>2. i \notin Altered
      BY <1>5, <1>6, <2>1
    <2> QED
      BY <2>1, <2>2 DEF Altered, G
  <1>10. Lock \notin Current.deps => Range(G) = {}
    BY <1>2 DEF Range
  <1> QED
    BY <1>2, <1>7, <1>8, <1>9, <1>10

\* Both ways in which a write of an upgrade fails.
LEMMA RejectCases ==
    ASSUME Shape, RejectChanged \/ WriteFails
    PROVE  /\ job.command = "upgrade" /\ Allowed /\ pc # "idle" /\ pc # "prepare"
           /\ faults' \in 0..MaxFaults
           /\ \E classified \in BOOLEAN : Reject(classified) /\ (classified => pc # "fill")
  <1>1. faults' = faults \/ (faults' = faults + 1 /\ faults < MaxFaults)
    BY DEF RejectChanged, WriteFails
  <1>2. faults' \in 0..MaxFaults
    BY <1>1, BoundsAssumption DEF Shape
  <1>3. Allowed /\ pc # "idle" /\ pc # "prepare"
    BY DEF Shape, PhaseOK, RejectChanged, WriteFails, MayWrite, Allowed
  <1>4. CASE RejectChanged
    <2>1. Reject(Current.kind = "create" \/ files[Now] # Absent) /\ pc # "fill"
      BY <1>4 DEF RejectChanged, MayWrite
    <2>2. (Current.kind = "create" \/ files[Now] # Absent) \in BOOLEAN
      OBVIOUS
    <2> QED
      BY <1>2, <1>3, <1>4, <2>1, <2>2 DEF RejectChanged
  <1>5. CASE WriteFails
    <2>1. job.command = "upgrade"
      BY <1>5 DEF WriteFails
    <2>2. \E classified \in BOOLEAN : Reject(classified) /\ (classified => pc # "fill")
      BY <1>5 DEF WriteFails, MayWrite
    <2> QED
      BY <1>2, <1>3, <2>1, <2>2
  <1> QED
    BY <1>4, <1>5

\* What a failing write does: the command ends, or what was written of the
\* group is as it was and the rest of the group is blocked.
LEMMA RejectEffect ==
    ASSUME Shape, RejectChanged \/ WriteFails
    PROVE  /\ files' = [p \in Paths |-> IF p \in Restored THEN job.acts[p].was ELSE files[p]]
           /\ UNCHANGED <<release, crashes>>
           /\ \/ Over
              \/ /\ Altered = {} /\ pc' = "write" /\ pc # "fill"
                 /\ Changes({"conflicts", "blocked", "skipped", "wrote", "queue", "disturbed"})
                 /\ job'.conflicts = job.conflicts \union {Now}
                 /\ job'.blocked = job.blocked \union {Now} \union GroupLeft
                 /\ job'.skipped = job.skipped \union GroupLeft
                 /\ job'.wrote = Only(job.wrote, Paths \ Restored)
                 /\ job'.queue = Tail(job.queue) /\ job'.disturbed
  <1>1. PICK classified \in BOOLEAN : Reject(classified) /\ (classified => pc # "fill")
    BY RejectCases
  <1>2. DOMAIN job = Fields
    BY DEF Shape, JobOK
  <1>3. CASE classified /\ Altered = {}
    <2>1. job' = [job EXCEPT !.conflicts = @ \union {Now},
                             !.blocked = @ \union {Now} \union GroupLeft,
                             !.skipped = @ \union GroupLeft,
                             !.wrote = Only(@, Paths \ Restored),
                             !.queue = Tail(@), !.disturbed = TRUE]
      BY <1>1, <1>3 DEF Reject
    <2>2. pc' = "write" /\ pc # "fill"
      BY <1>1, <1>3 DEF Reject
    <2>3. Changes({"conflicts", "blocked", "skipped", "wrote", "queue", "disturbed"})
      BY <1>2, <2>1 DEF Changes, Fields
    <2>4. /\ job'.conflicts = job.conflicts \union {Now}
          /\ job'.blocked = job.blocked \union {Now} \union GroupLeft
          /\ job'.skipped = job.skipped \union GroupLeft
          /\ job'.wrote = Only(job.wrote, Paths \ Restored)
          /\ job'.queue = Tail(job.queue) /\ job'.disturbed
      BY <1>2, <2>1 DEF Fields
    <2>5. /\ files' = [p \in Paths |-> IF p \in Restored THEN job.acts[p].was ELSE files[p]]
          /\ UNCHANGED <<release, crashes>>
      BY <1>1 DEF Reject
    <2> QED
      BY <1>3, <2>2, <2>3, <2>4, <2>5
  <1>4. CASE ~(classified /\ Altered = {})
    BY <1>1, <1>4 DEF Reject, Over
  <1> QED
    BY <1>3, <1>4

LEMMA RejectShape ==
    ASSUME Shape, RejectChanged \/ WriteFails PROVE Shape'
  <1>1. JobOK /\ job.queue # <<>> /\ FilesOK(files) /\ FilesOK(job.before)
        /\ faults' \in 0..MaxFaults
    BY RejectCases DEF Shape, Allowed
  <1>2. FilesOK(files')
    <2>1. \A q \in Restored : q \in Paths /\ job.acts[q].was = job.before[q]
      BY <1>1, RestoredFacts DEF JobOK, ActOK, GroupPaths
    <2>2. files' = [p \in Paths |-> IF p \in Restored THEN job.acts[p].was ELSE files[p]]
      BY RejectEffect
    <2> QED
      BY <1>1, <2>1, <2>2 DEF FilesOK
  <1>3. CASE Over
    BY <1>1, <1>2, <1>3, OverShape, RejectEffect DEF Shape, Over
  <1>4. CASE ~Over
    <2>1. /\ Altered = {} /\ pc' = "write" /\ UNCHANGED <<release, crashes>>
          /\ Changes({"conflicts", "blocked", "skipped", "wrote", "queue", "disturbed"})
          /\ job'.conflicts = job.conflicts \union {Now}
          /\ job'.blocked = job.blocked \union {Now} \union GroupLeft
          /\ job'.skipped = job.skipped \union GroupLeft
          /\ job'.wrote = Only(job.wrote, Paths \ Restored)
          /\ job'.queue = Tail(job.queue) /\ job'.disturbed
      BY <1>4, RejectEffect
    <2>2. /\ DOMAIN job' = Fields /\ job'.touched = job.touched /\ job'.late = job.late
          /\ job'.outcome = job.outcome /\ job'.command = job.command /\ job'.before = job.before
      BY <2>1 DEF Changes, Fields
    <2>3. /\ Now \in Paths /\ Tail(job.queue) \in Seq(Paths) /\ IsInjective(Tail(job.queue))
          /\ Range(Tail(job.queue)) \subseteq Range(job.queue)
      BY <1>1, NowFacts
    <2>4. GroupLeft \subseteq Range(Tail(job.queue))
      BY DEF GroupLeft
    <2>5. Range(job.queue) \subseteq Paths
      BY <1>1 DEF JobOK
    <2>6. /\ Only(job.wrote, Paths \ Restored) \in Seq(Paths)
          /\ Range(Only(job.wrote, Paths \ Restored)) \subseteq Range(job.wrote)
      BY <1>1, OnlyFacts DEF JobOK
    <2>7. Changes({"conflicts", "skipped", "blocked", "queue", "wrote", "outcome", "touched",
                   "disturbed", "late"})
      BY <2>1 DEF Changes
    <2>8. JobOK'
      <3>1. /\ Range(job'.queue) \subseteq DOMAIN job.acts /\ Range(job'.wrote) \subseteq DOMAIN job.acts
            /\ Range(job'.queue) \intersect Range(job'.wrote) = {}
        BY <1>1, <2>1, <2>3, <2>6 DEF JobOK
      <3>2. /\ job'.conflicts \in SUBSET Paths /\ job'.skipped \in SUBSET Paths
            /\ job'.blocked \in SUBSET Paths
        BY <1>1, <2>1, <2>3, <2>4, <2>5 DEF JobOK
      <3>3. /\ job'.touched \in SUBSET Paths /\ job'.late \subseteq job'.touched
            /\ job'.outcome \in Outcomes
        BY <1>1, <2>2 DEF JobOK
      <3> QED
        BY <1>1, <2>1, <2>2, <2>3, <2>6, <2>7, <3>1, <3>2, <3>3, QueueStays
    <2>9. PhaseOK'
      <3>1. pc # "idle"
        BY RejectCases
      <3> QED
        BY <2>1, <2>2, <3>1 DEF Shape, PhaseOK, Reports
    <2> QED
      BY <1>1, <1>2, <2>1, <2>2, <2>8, <2>9 DEF Shape
  <1> QED
    BY <1>3, <1>4

-----------------------------------------------------------------------------
(* The preparation of the writes.                                          *)

\* What Prepare computes.
Skip1 == DependentsOf(job.acts, job.blocked)
First == DOMAIN job.acts \ (job.blocked \union Skip1)
Blocked1(dirty) == job.blocked \union Skip1 \union dirty
Skip2(dirty) == DependentsOf(Restrict(job.acts, First), Blocked1(dirty))
Left(dirty) == First \ (Blocked1(dirty) \union Skip2(dirty))
Kept(dirty) == Restrict(job.acts, Left(dirty))
Unsafes(dirty) == {p \in Left(dirty) : Unsafe(Kept(dirty), p)}
Blocked2(dirty) == Blocked1(dirty) \union Skip2(dirty) \union Unsafes(dirty)
Skip3(dirty) == DependentsOf(Kept(dirty), Blocked2(dirty))

PrepareStep(dirty) == dirty \subseteq DOMAIN job.acts /\ Prepare(dirty)

LEMMA RestrictFacts ==
    ASSUME NEW f, NEW S
    PROVE  DOMAIN Restrict(f, S) = S /\ \A p \in S : Restrict(f, S)[p] = f[p]
  BY DEF Restrict

LEMMA PrepareEffect ==
    ASSUME Shape, NEW dirty, PrepareStep(dirty)
    PROVE  /\ pc = "prepare" /\ job.command = "upgrade" /\ job.queue = <<>> /\ job.wrote = <<>>
           /\ UNCHANGED <<files, release, crashes>>
           /\ \/ Over
              \/ /\ pc' = "write"
                 /\ Changes({"acts", "conflicts", "skipped", "blocked", "queue", "disturbed"})
                 /\ job'.acts = Kept(dirty)
                 /\ job'.conflicts = job.conflicts \union dirty \union Unsafes(dirty)
                 /\ job'.skipped = job.skipped \union Skip1 \union Skip2(dirty) \union Skip3(dirty)
                 /\ job'.blocked = Blocked2(dirty) \union Skip3(dirty)
                 /\ job'.queue = WriteOrder(Kept(dirty), Left(dirty) \ (Unsafes(dirty) \union Skip3(dirty)))
                 /\ job'.disturbed = (job.disturbed \/ dirty # {})
  <1>1. DOMAIN job = Fields /\ pc = "prepare" /\ job.command = "upgrade" /\ job.queue = <<>>
        /\ job.wrote = <<>>
    BY DEF Shape, JobOK, PhaseOK, PrepareStep, Prepare
  <1>2. UNCHANGED <<files, release, crashes>>
    BY DEF PrepareStep, Prepare
  <1>3. CASE pc' = "idle" /\ job' = Ended("failed")
    BY <1>1, <1>2, <1>3 DEF Over
  <1>4. CASE ~(pc' = "idle" /\ job' = Ended("failed"))
    <2>1. DOMAIN Kept(dirty) = Left(dirty)
      BY RestrictFacts DEF Kept
    <2>2. /\ pc' = "write"
          /\ job' = [job EXCEPT
                !.acts = Kept(dirty),
                !.conflicts = @ \union dirty \union Unsafes(dirty),
                !.skipped = @ \union Skip1 \union Skip2(dirty) \union Skip3(dirty),
                !.blocked = Blocked2(dirty) \union Skip3(dirty),
                !.queue = WriteOrder(Kept(dirty), Left(dirty) \ (Unsafes(dirty) \union Skip3(dirty))),
                !.disturbed = @ \/ dirty # {}]
      BY <1>4, <2>1 DEF PrepareStep, Prepare, Skip1, First, Blocked1, Skip2, Left, Kept, Unsafes,
                        Blocked2, Skip3
    <2>3. Changes({"acts", "conflicts", "skipped", "blocked", "queue", "disturbed"})
      <3> DEFINE u == job.conflicts \union dirty \union Unsafes(dirty)
                 v == job.skipped \union Skip1 \union Skip2(dirty) \union Skip3(dirty)
                 w == Blocked2(dirty) \union Skip3(dirty)
                 q == WriteOrder(Kept(dirty), Left(dirty) \ (Unsafes(dirty) \union Skip3(dirty)))
                 d == job.disturbed \/ dirty # {}
      <3>1. job' = [job EXCEPT !.acts = Kept(dirty), !.conflicts = u, !.skipped = v,
                               !.blocked = w, !.queue = q, !.disturbed = d]
        BY <1>1, <2>2 DEF Fields
      <3> HIDE DEF u, v, w, q, d
      <3> QED
        BY <1>1, <3>1 DEF Changes, Fields
    <2>4. /\ job'.acts = Kept(dirty)
          /\ job'.conflicts = job.conflicts \union dirty \union Unsafes(dirty)
          /\ job'.skipped = job.skipped \union Skip1 \union Skip2(dirty) \union Skip3(dirty)
          /\ job'.blocked = Blocked2(dirty) \union Skip3(dirty)
          /\ job'.queue = WriteOrder(Kept(dirty), Left(dirty) \ (Unsafes(dirty) \union Skip3(dirty)))
          /\ job'.disturbed = (job.disturbed \/ dirty # {})
      BY <1>1, <2>2 DEF Fields
    <2> QED
      BY <1>1, <1>2, <2>2, <2>3, <2>4
  <1> QED
    BY <1>3, <1>4

LEMMA WriteOrderFacts ==
    ASSUME NEW A, NEW S \in SUBSET Paths
    PROVE  /\ WriteOrder(A, S) \in Seq(Paths) /\ IsInjective(WriteOrder(A, S))
           /\ Range(WriteOrder(A, S)) = S
  <1>1. /\ Only(PathOrder, S) \in Seq(Paths) /\ IsInjective(Only(PathOrder, S))
        /\ Range(Only(PathOrder, S)) = Paths \intersect S
    BY OrderAssumption, OnlyFacts
  <1>2. /\ Sorted(A, Only(PathOrder, S)) \in Seq(Paths)
        /\ IsInjective(Sorted(A, Only(PathOrder, S)))
        /\ Range(Sorted(A, Only(PathOrder, S))) = Paths \intersect S
    BY <1>1, SortedFacts
  <1> QED
    BY <1>2 DEF WriteOrder

LEMMA PrepareShape ==
    ASSUME Shape, NEW dirty, PrepareStep(dirty), faults' \in 0..MaxFaults
    PROVE  Shape'
  <1>1. JobOK /\ FilesOK(files) /\ FilesOK(job.before) /\ DOMAIN job.acts \subseteq Paths
    BY PrepareEffect DEF Shape, JobOK
  <1>2. FilesOK(files') /\ release' = release /\ crashes' = crashes
    BY <1>1, PrepareEffect
  <1>3. CASE Over
    BY <1>2, <1>3, OverShape DEF Shape, Over
  <1>4. CASE ~Over
    <2>1. /\ pc' = "write"
          /\ Changes({"acts", "conflicts", "skipped", "blocked", "queue", "disturbed"})
          /\ job'.acts = Kept(dirty)
          /\ job'.conflicts = job.conflicts \union dirty \union Unsafes(dirty)
          /\ job'.skipped = job.skipped \union Skip1 \union Skip2(dirty) \union Skip3(dirty)
          /\ job'.blocked = Blocked2(dirty) \union Skip3(dirty)
          /\ job'.queue = WriteOrder(Kept(dirty), Left(dirty) \ (Unsafes(dirty) \union Skip3(dirty)))
          /\ job'.disturbed = (job.disturbed \/ dirty # {})
      BY <1>4, PrepareEffect
    <2>2. /\ DOMAIN job' = Fields /\ job'.touched = job.touched /\ job'.late = job.late
          /\ job'.outcome = job.outcome /\ job'.command = job.command /\ job'.before = job.before
          /\ job'.wrote = <<>>
      BY <2>1, PrepareEffect DEF Changes, Fields
    <2>3. /\ First \subseteq DOMAIN job.acts /\ Left(dirty) \subseteq First
          /\ Unsafes(dirty) \subseteq Left(dirty) /\ dirty \subseteq DOMAIN job.acts
      BY DEF First, Left, Unsafes, PrepareStep
    <2>4. /\ DOMAIN Kept(dirty) = Left(dirty)
          /\ \A p \in Left(dirty) : Kept(dirty)[p] = job.acts[p]
      BY RestrictFacts DEF Kept
    <2>5. /\ Skip1 \subseteq DOMAIN job.acts /\ Skip2(dirty) \subseteq First
          /\ Skip3(dirty) \subseteq Left(dirty)
      BY <2>4, RestrictFacts DEF Skip1, Skip2, Skip3, DependentsOf
    <2>6. /\ job'.conflicts \in SUBSET Paths /\ job'.skipped \in SUBSET Paths
          /\ job'.blocked \in SUBSET Paths
      BY <1>1, <2>1, <2>3, <2>5 DEF JobOK, Blocked2, Blocked1
    <2>7. /\ job'.queue \in Seq(Paths) /\ IsInjective(job'.queue)
          /\ Range(job'.queue) = Left(dirty) \ (Unsafes(dirty) \union Skip3(dirty))
      BY <1>1, <2>1, <2>3, WriteOrderFacts
    <2>8. \A p \in DOMAIN job'.acts : ActOK(p)'
      BY <1>1, <2>1, <2>2, <2>3, <2>4, ActsStay
    <2>9. job'.wrote \in Seq(Paths) /\ Range(job'.wrote) = {}
      BY <2>2, EmptyFacts
    <2>10. JobOK'
      <3>1. job'.touched # {} => job'.disturbed
        BY <1>1, <2>1, <2>2 DEF JobOK
      <3>2. job'.touched \in SUBSET Paths /\ job'.late \subseteq job'.touched
            /\ job'.outcome \in Outcomes /\ job'.command \in {"none", "upgrade", "init"}
        BY <1>1, <2>2 DEF JobOK
      <3>3. /\ DOMAIN job'.acts \in SUBSET Paths
            /\ Range(job'.queue) \subseteq DOMAIN job'.acts
        BY <1>1, <2>1, <2>3, <2>4, <2>7
      <3> QED
        BY <2>2, <2>6, <2>7, <2>8, <2>9, <3>1, <3>2, <3>3 DEF JobOK
    <2>11. PhaseOK'
      <3>1. pc = "prepare"
        BY PrepareEffect
      <3> QED
        BY <2>1, <2>2, <3>1 DEF Shape, PhaseOK, Reports
    <2> QED
      BY <1>1, <1>2, <2>1, <2>2, <2>10, <2>11 DEF Shape
  <1> QED
    BY <1>3, <1>4

LEMMA FinishShape ==
    ASSUME Shape, Finish PROVE Shape'
  <1>1. /\ DOMAIN job = Fields /\ JobOK /\ pc = "write" /\ job.queue = <<>> /\ pc' = "idle"
        /\ job' = [job EXCEPT !.outcome = ApplyStatus("applied")]
        /\ UNCHANGED <<files, release, faults, crashes>>
    BY DEF Shape, JobOK, Finish
  <1>2. /\ Changes({"outcome"}) /\ DOMAIN job' = Fields /\ job'.outcome = ApplyStatus("applied")
    BY <1>1 DEF Changes, Fields
  <1>3. /\ ApplyStatus("applied") \in Reports
        /\ ApplyStatus("applied") \in {"applied", "current"} =>
              job.conflicts = {} /\ job.skipped = {}
    BY DEF ApplyStatus, Reports
  <1>4. /\ job'.queue = <<>> /\ job'.wrote = job.wrote /\ job'.conflicts = job.conflicts
        /\ job'.skipped = job.skipped /\ job'.blocked = job.blocked /\ job'.touched = job.touched
        /\ job'.late = job.late /\ job'.disturbed = job.disturbed
        /\ job'.command = job.command /\ job'.before = job.before /\ job'.acts = job.acts
    BY <1>1, <1>2 DEF Changes, Fields
  <1>5. JobOK'
    <2>1. Changes({"conflicts", "skipped", "blocked", "queue", "wrote", "outcome", "touched",
                   "disturbed", "late"})
      BY <1>2 DEF Changes
    <2>2. job'.outcome \in Outcomes
      BY <1>2, <1>3 DEF Outcomes
    <2>3. job'.queue = job.queue
      BY <1>1, <1>4
    <2> QED
      BY <1>1, <1>2, <1>4, <2>1, <2>2, <2>3, QueueStays DEF JobOK
  <1>6. PhaseOK'
    <2>1. job.command # "none"
      BY <1>1 DEF Shape, PhaseOK
    <2>2. job'.outcome # "none"
      BY <1>2, <1>3 DEF Reports
    <2> QED
      BY <1>1, <1>2, <1>3, <1>4, <2>1, <2>2 DEF PhaseOK
  <1>7. FilesOK(files) /\ (job.command # "none" => FilesOK(job.before))
    BY DEF Shape
  <1> QED
    BY <1>1, <1>4, <1>5, <1>6, <1>7 DEF Shape

-----------------------------------------------------------------------------
(* A new plan.                                                             *)

LEMMA PlanPaths ==
    ASSUME NEW F, NEW r
    PROVE  /\ ActionPaths(F, r) \subseteq Paths
           /\ PlanConflicts(F) \subseteq Paths /\ PlanSkips(F, r) \subseteq Paths
           /\ \A p \in Paths : DependsOn(F, r, p) \subseteq Paths
           /\ ActionPaths(F, r) # {} => Loads(F)
           /\ \A p \in ActionPaths(F, r) : Target(F, r, p) # F[p]
  <1>1. ActionPaths(F, r) \subseteq Paths
    BY DEF ActionPaths
  <1>2. PlanConflicts(F) \subseteq Paths /\ PlanSkips(F, r) \subseteq Paths
    BY PathCases DEF PlanConflicts, PlanSkips
  <1>3. \A p \in Paths : DependsOn(F, r, p) \subseteq Paths
    BY <1>1, PathCases DEF DependsOn
  <1> QED
    BY <1>1, <1>2, <1>3 DEF ActionPaths

LEMMA PlanUpgradeEffect ==
    ASSUME PlanUpgrade
    PROVE  /\ DOMAIN job' = Fields /\ job'.command = "upgrade" /\ job'.acts = Actions(files, release)
           /\ job'.before = files /\ job'.conflicts = PlanConflicts(files)
           /\ job'.skipped = PlanSkips(files, release)
           /\ job'.blocked = PlanConflicts(files) \union PlanSkips(files, release)
           /\ job'.queue = <<>> /\ job'.wrote = <<>> /\ job'.outcome = "none"
           /\ job'.touched = {} /\ ~job'.disturbed /\ job'.late = {}
           /\ pc = "idle" /\ pc' = "prepare" /\ UNCHANGED <<files, release, faults, crashes>>
  BY DEF PlanUpgrade, NoJob, Fields

LEMMA ActionsFacts ==
    ASSUME NEW F, NEW r
    PROVE  /\ DOMAIN Actions(F, r) = ActionPaths(F, r)
           /\ \A p \in ActionPaths(F, r) :
                 /\ Actions(F, r)[p].kind = IF F[p] = Absent THEN "create" ELSE "modify"
                 /\ Actions(F, r)[p].was = F[p]
                 /\ Actions(F, r)[p].next = Target(F, r, p)
                 /\ Actions(F, r)[p].deps = DependsOn(F, r, p)
  BY DEF Actions

LEMMA PlanUpgradeShape ==
    ASSUME Shape, PlanUpgrade PROVE Shape'
  <1>1. FilesOK(files) /\ release \in Releases /\ release \in 1..MaxRelease
    BY BoundsAssumption DEF Shape, Releases
  <1>2. \A p \in DOMAIN job'.acts : ActOK(p)'
    <2> SUFFICES ASSUME NEW p \in ActionPaths(files, release) PROVE ActOK(p)'
      BY PlanUpgradeEffect, ActionsFacts
    <2>1. p \in Paths /\ Loads(files) /\ Target(files, release, p) # files[p]
      BY PlanPaths
    <2>2. /\ Target(files, release, p) \in Contents(p)
          /\ Text(Target(files, release, p)) = Text(files[p])
      BY <1>1, <2>1, TargetFacts
    <2>3. DependsOn(files, release, p) \in SUBSET Paths
      BY <2>1, PlanPaths
    <2>4. /\ job'.acts[p].kind = IF files[p] = Absent THEN "create" ELSE "modify"
          /\ job'.acts[p].was = files[p]
          /\ job'.acts[p].next = Target(files, release, p)
          /\ job'.acts[p].deps = DependsOn(files, release, p)
          /\ job'.before = files
      BY PlanUpgradeEffect, ActionsFacts
    <2> QED
      BY <2>1, <2>2, <2>3, <2>4 DEF ActOK
  <1>3. JobOK'
    <2>1. <<>> \in Seq(Paths) /\ Range(<<>>) = {} /\ IsInjective(<<>>)
      BY EmptyFacts
    <2>2. DOMAIN job'.acts \in SUBSET Paths
      BY PlanUpgradeEffect, ActionsFacts, PlanPaths
    <2>3. job'.conflicts \in SUBSET Paths /\ job'.skipped \in SUBSET Paths /\ job'.blocked \in SUBSET Paths
      BY PlanUpgradeEffect, PlanPaths
    <2> QED
      BY <1>2, <2>1, <2>2, <2>3, PlanUpgradeEffect DEF JobOK, Outcomes
  <1>4. PhaseOK'
    BY PlanUpgradeEffect DEF PhaseOK, Reports
  <1>5. /\ UNCHANGED <<files, release, faults, crashes>> /\ job'.before = files /\ pc' = "prepare"
    BY PlanUpgradeEffect
  <1> QED
    BY <1>1, <1>3, <1>4, <1>5 DEF Shape

-----------------------------------------------------------------------------
(* orc init.                                                               *)

InitTargets(guidance) == {p \in Paths : files[p] # InitTarget(p, guidance)}
InitAction(p, guidance) ==
    [kind |-> IF files[p] = Absent THEN "create" ELSE "modify",
     was |-> files[p], next |-> InitTarget(p, guidance), deps |-> {}]

LEMMA PlanInitEffect ==
    ASSUME NEW yes \in BOOLEAN, NEW guidance \in BOOLEAN, PlanInit(yes, guidance)
    PROVE  /\ DOMAIN job' = Fields /\ job'.command = "init"
           /\ job'.acts = [p \in InitTargets(guidance) |-> InitAction(p, guidance)]
           /\ job'.before = files /\ job'.conflicts = {} /\ job'.skipped = {} /\ job'.blocked = {}
           /\ job'.queue = Only(InitOrder, InitTargets(guidance)) /\ job'.wrote = <<>>
           /\ job'.outcome = "none" /\ job'.touched = {} /\ ~job'.disturbed /\ job'.late = {}
           /\ pc = "idle" /\ pc' = "write" /\ UNCHANGED <<files, release, faults, crashes>>
  <1>1. job' = [NoJob EXCEPT
              !.command = "init", !.before = files,
              !.acts = [p \in InitTargets(guidance) |-> InitAction(p, guidance)],
              !.queue = Only(InitOrder, InitTargets(guidance))]
    BY DEF PlanInit, InitTargets, InitAction
  <1>2. pc = "idle" /\ pc' = "write" /\ UNCHANGED <<files, release, faults, crashes>>
    BY DEF PlanInit
  <1> DEFINE a == [p \in InitTargets(guidance) |-> InitAction(p, guidance)]
             q == Only(InitOrder, InitTargets(guidance))
  <1>3. job' = [NoJob EXCEPT !.command = "init", !.before = files, !.acts = a, !.queue = q]
    BY <1>1
  <1> HIDE DEF a, q
  <1>4. /\ DOMAIN job' = Fields /\ job'.command = "init" /\ job'.acts = a /\ job'.before = files
        /\ job'.conflicts = {} /\ job'.skipped = {} /\ job'.blocked = {}
        /\ job'.queue = q /\ job'.wrote = <<>>
        /\ job'.outcome = "none" /\ job'.touched = {} /\ ~job'.disturbed /\ job'.late = {}
    BY <1>3 DEF NoJob, Fields
  <1> QED
    BY <1>2, <1>4 DEF a, q

LEMMA InitTargetFacts ==
    ASSUME FilesOK(files), release \in Releases, NEW guidance \in BOOLEAN, NEW p \in Paths,
           InitTarget(p, guidance) # files[p]
    PROVE  InitTarget(p, guidance) \in Contents(p)
  <1>1. CASE p = Config
    <2>1. NewConfig \in ConfigT
      BY DEF NewConfig, ConfigT, Caps
    <2> QED
      BY <1>1, <2>1, ContentsOf, Distinct DEF InitTarget
  <1>2. CASE p = Lock
    <2>1. LockOf([m \in Managed |-> release]) \in LockT
      BY DEF LockOf, LockT
    <2> QED
      BY <1>2, <2>1, ContentsOf, Distinct DEF InitTarget
  <1>3. CASE p = Gitignore
    <2> DEFINE c == files[Gitignore]
    <2>1. InitTarget(p, guidance) = WithRunsEntry(c)
      BY <1>3, Distinct DEF InitTarget
    <2>2. c \in GitignoreT \/ ~IsRecord(c)
      BY FileIs, PathCases, ContentsOf
    <2> HIDE DEF c
    <2>3. WithRunsEntry(c) \in GitignoreT
      BY <2>2 DEF WithRunsEntry, GitignoreT
    <2> QED
      BY <1>3, <2>1, <2>3, ContentsOf
  <1>4. CASE p = Instructions
    <2> DEFINE c == files[Instructions]
    <2>1. InitTarget(p, guidance) = WithSection(c)
      BY <1>4, Distinct DEF InitTarget
    <2>2. c \in InstructionsT \/ ~IsRecord(c)
      BY FileIs, PathCases, ContentsOf
    <2> HIDE DEF c
    <2>3. WithSection(c) \in InstructionsT
      BY <2>2 DEF WithSection, InstructionsT
    <2> QED
      BY <1>4, <2>1, <2>3, ContentsOf
  <1>5. CASE p \in Managed
    <2>1. Scaffold(release) \in ManagedT
      BY DEF Scaffold, ManagedT
    <2> QED
      BY <1>5, <2>1, ContentsOf, Distinct DEF InitTarget
  <1> QED
    BY <1>1, <1>2, <1>3, <1>4, <1>5, PathCases

LEMMA InitQueue ==
    ASSUME NEW S \in SUBSET Paths
    PROVE  /\ Only(InitOrder, S) \in Seq(Paths) /\ IsInjective(Only(InitOrder, S))
           /\ Range(Only(InitOrder, S)) = S
  <1>1. /\ Only(InitOrder, S) \in Seq(Paths) /\ IsInjective(Only(InitOrder, S))
        /\ Range(Only(InitOrder, S)) = Paths \intersect S
    BY OrderAssumption, OnlyFacts
  <1> QED
    BY <1>1

LEMMA PlanInitShape ==
    ASSUME Shape, NEW yes \in BOOLEAN, NEW guidance \in BOOLEAN, PlanInit(yes, guidance)
    PROVE  Shape'
  <1>1. FilesOK(files) /\ release \in Releases /\ release \in 1..MaxRelease
    BY BoundsAssumption DEF Shape, Releases
  <1> DEFINE T == InitTargets(guidance)
  <1>2. T \subseteq Paths
    BY DEF InitTargets
  <1>3. DOMAIN job'.acts = T
    BY PlanInitEffect
  <1>4. \A p \in DOMAIN job'.acts : ActOK(p)'
    <2> SUFFICES ASSUME NEW p \in T PROVE ActOK(p)'
      BY <1>3
    <2>1. p \in Paths /\ files[p] # InitTarget(p, guidance)
      BY DEF InitTargets
    <2>2. InitTarget(p, guidance) \in Contents(p)
      BY <1>1, <2>1, InitTargetFacts
    <2>3. job'.acts[p] = InitAction(p, guidance) /\ job'.before = files /\ job'.command = "init"
      BY PlanInitEffect
    <2>4. /\ job'.acts[p].kind = IF files[p] = Absent THEN "create" ELSE "modify"
          /\ job'.acts[p].was = files[p] /\ job'.acts[p].next = InitTarget(p, guidance)
          /\ job'.acts[p].deps = {}
      BY <2>3 DEF InitAction
    <2> QED
      BY <2>1, <2>2, <2>3, <2>4 DEF ActOK
  <1> HIDE DEF T
  <1>5. JobOK'
    <2>1. <<>> \in Seq(Paths) /\ Range(<<>>) = {}
      BY EmptyFacts
    <2>2. job'.queue \in Seq(Paths) /\ IsInjective(job'.queue) /\ Range(job'.queue) = T
      <3>1. job'.queue = Only(InitOrder, T)
        BY PlanInitEffect DEF T
      <3> QED
        BY <1>2, <3>1, InitQueue
    <2>3. DOMAIN job'.acts \in SUBSET Paths
      BY <1>2, <1>3
    <2> QED
      BY <1>3, <1>4, <2>1, <2>2, <2>3, PlanInitEffect DEF JobOK, Outcomes
  <1>6. PhaseOK'
    BY PlanInitEffect DEF PhaseOK, Reports
  <1>7. /\ UNCHANGED <<files, release, faults, crashes>> /\ job'.before = files /\ pc' = "write"
    BY PlanInitEffect
  <1> QED
    BY <1>1, <1>5, <1>6, <1>7 DEF Shape

-----------------------------------------------------------------------------
(* The end of a command, people and releases.                              *)

LEMMA StopsShape ==
    ASSUME Shape, InitStops \/ Crash \/ NewRelease PROVE Shape'
  <1>1. Over
    BY DEF Over, InitStops, Crash, NewRelease
  <1>2. /\ files' = files
        /\ faults' = faults \/ (faults' = faults + 1 /\ faults < MaxFaults)
        /\ crashes' = crashes \/ (crashes' = crashes + 1 /\ crashes < MaxCrashes)
        /\ release' = release \/ (release' = release + 1 /\ release < MaxRelease)
    BY DEF InitStops, Crash, NewRelease
  <1>3. faults' \in 0..MaxFaults /\ crashes' \in 0..MaxCrashes /\ release' \in 1..MaxRelease
    BY <1>2, BoundsAssumption DEF Shape
  <1> QED
    BY <1>1, <1>2, <1>3, OverShape DEF Shape, Over

LEMMA OwnFacts == ASSUME NEW p \in Paths PROVE OwnContent(p) \in Contents(p)
  <1>1. 0 \in Releases
    BY BoundsAssumption DEF Releases
  <1>2. CASE p = Config
    BY <1>2, ContentsOf, Distinct DEF OwnContent, EmptyConfig, ConfigT, Caps
  <1>3. CASE p = Lock
    BY <1>1, <1>3, ContentsOf, Distinct DEF OwnContent, LockT
  <1>4. CASE p = Gitignore
    BY <1>4, ContentsOf, Distinct DEF OwnContent, GitignoreT
  <1>5. CASE p = Instructions
    BY <1>5, ContentsOf, Distinct DEF OwnContent, InstructionsT
  <1>6. CASE p \in Managed
    BY <1>1, <1>6, ContentsOf, Distinct DEF OwnContent, ManagedT
  <1> QED
    BY <1>2, <1>3, <1>4, <1>5, <1>6, PathCases

LEMMA EditFacts ==
    ASSUME NEW p \in Paths, NEW c \in Contents(p)
    PROVE  [c EXCEPT !.text = @ + 1] \in Contents(p) /\ c.text \in Nat
  <1>1. CASE p = Config
    BY <1>1, ContentsOf DEF ConfigT
  <1>2. CASE p = Lock
    BY <1>2, ContentsOf DEF LockT
  <1>3. CASE p = Gitignore
    BY <1>3, ContentsOf DEF GitignoreT
  <1>4. CASE p = Instructions
    BY <1>4, ContentsOf DEF InstructionsT
  <1>5. CASE p \in Managed
    <2>1. c \in ManagedT /\ Contents(p) = ManagedT
      BY <1>5, ContentsOf
    <2> QED
      BY <2>1 DEF ManagedT
  <1> QED
    BY <1>1, <1>2, <1>3, <1>4, <1>5, PathCases

\* What people do to a file.
LEMMA UserEffect ==
    ASSUME Shape, UserNext
    PROVE  \E p \in Paths, c \in (UNION {Contents(q) : q \in Paths}) \union {Absent, Torn} :
              c \in Contents(p) \union {Absent, Torn} /\ Touch(p, c)
  <1>1. PICK p \in Paths : UserEdits(p) \/ UserDeletes(p) \/ UserCreates(p)
    BY DEF UserNext
  <1>2. CASE UserEdits(p)
    <2>1. files[p] \in Contents(p)
      BY <1>2, FileIs DEF UserEdits, Shape
    <2>2. [files[p] EXCEPT !.text = @ + 1] \in Contents(p)
      BY <2>1, EditFacts
    <2> QED
      BY <1>2, <2>2 DEF UserEdits
  <1>3. CASE UserDeletes(p)
    <2>1. Touch(p, Absent)
      BY <1>3 DEF UserDeletes
    <2> QED
      BY <2>1
  <1>4. CASE UserCreates(p)
    <2>1. Touch(p, OwnContent(p)) /\ OwnContent(p) \in Contents(p)
      BY <1>4, OwnFacts DEF UserCreates
    <2> QED
      BY <2>1
  <1> QED
    BY <1>1, <1>2, <1>3, <1>4

LEMMA TouchEffect ==
    ASSUME Shape, NEW p \in Paths, NEW c, Touch(p, c)
    PROVE  /\ files' = [files EXCEPT ![p] = c]
           /\ faults < MaxFaults /\ faults' = faults + 1 /\ UNCHANGED <<release, pc, crashes>>
           /\ \/ pc = "idle" /\ Over
              \/ /\ pc # "idle" /\ Changes({"touched", "disturbed", "late"})
                 /\ job'.touched = job.touched \union {p} /\ job'.disturbed
                 /\ job'.late = job.late \union (IF pc \in {"rename", "truncate"} /\ p = Now
                                                 THEN {p} ELSE {})
  <1>1. DOMAIN job = Fields
    BY DEF Shape, JobOK
  <1>2. CASE pc = "idle"
    BY <1>2 DEF Touch, Over
  <1>3. CASE pc # "idle"
    <2> DEFINE l == job.late \union (IF pc \in {"rename", "truncate"} /\ p = Now THEN {p} ELSE {})
    <2>1. job' = [job EXCEPT !.touched = @ \union {p}, !.disturbed = TRUE, !.late = l]
      BY <1>1, <1>3 DEF Touch, Fields
    <2> HIDE DEF l
    <2>2. /\ Changes({"touched", "disturbed", "late"})
          /\ job'.touched = job.touched \union {p} /\ job'.disturbed /\ job'.late = l
      BY <1>1, <2>1 DEF Changes, Fields
    <2> QED
      BY <1>3, <2>2 DEF Touch, l
  <1> QED
    BY <1>2, <1>3

LEMMA UserShape ==
    ASSUME Shape, UserNext PROVE Shape'
  <1>1. PICK p \in Paths, c \in (UNION {Contents(q) : q \in Paths}) \union {Absent, Torn} :
              c \in Contents(p) \union {Absent, Torn} /\ Touch(p, c)
    BY UserEffect
  <1>2. /\ files' = [files EXCEPT ![p] = c]
        /\ faults < MaxFaults /\ faults' = faults + 1 /\ UNCHANGED <<release, pc, crashes>>
        /\ \/ pc = "idle" /\ Over
           \/ /\ pc # "idle" /\ Changes({"touched", "disturbed", "late"})
              /\ job'.touched = job.touched \union {p} /\ job'.disturbed
              /\ job'.late = job.late \union (IF pc \in {"rename", "truncate"} /\ p = Now
                                              THEN {p} ELSE {})
    BY <1>1, TouchEffect
  <1>3. FilesOK(files')
    <2>1. FilesOK([files EXCEPT ![p] = c])
      BY <1>1, FilesPut DEF Shape
    <2> QED
      BY <1>2, <2>1
  <1>4. faults' \in 0..MaxFaults /\ crashes' \in 0..MaxCrashes /\ release' \in 1..MaxRelease
    BY <1>2, BoundsAssumption DEF Shape
  <1>5. CASE pc = "idle"
    <2>1. Over
      BY <1>2, <1>5
    <2> QED
      BY <1>3, <1>4, <2>1, OverShape DEF Shape, Over
  <1>6. CASE pc # "idle"
    <2>1. /\ DOMAIN job' = Fields /\ job'.command = job.command /\ job'.acts = job.acts
          /\ job'.before = job.before /\ job'.conflicts = job.conflicts
          /\ job'.skipped = job.skipped /\ job'.blocked = job.blocked /\ job'.queue = job.queue
          /\ job'.wrote = job.wrote /\ job'.outcome = job.outcome
          /\ job'.touched = job.touched \union {p} /\ job'.disturbed
          /\ job'.late = job.late \union (IF pc \in {"rename", "truncate"} /\ p = Now
                                          THEN {p} ELSE {})
      BY <1>2, <1>6 DEF Changes, Fields
    <2>2. JobOK /\ Changes({"conflicts", "skipped", "blocked", "queue", "wrote", "outcome", "touched",
                            "disturbed", "late"})
      BY <1>2, <1>6 DEF Shape, Changes
    <2>3. JobOK'
      BY <2>1, <2>2, QueueStays DEF JobOK
    <2>4. Now' = Now /\ Current' = Current
      BY <2>1 DEF Now, Current
    <2>5. Allowed' <=> Allowed
      BY <2>1, <2>4 DEF Allowed
    <2>6. ASSUME pc \in {"rename", "truncate"}, Compared PROVE Compared'
      <3>1. CASE p = Now
        BY <2>1, <2>4, <2>6, <3>1 DEF Compared
      <3>2. CASE p # Now
        <4>1. files'[Now] = files[Now]
          BY <1>2, <3>2
        <4> QED
          BY <2>1, <2>4, <2>6, <4>1 DEF Compared
      <3> QED
        BY <3>1, <3>2
    <2>7. PhaseOK
      BY DEF Shape
    <2>8. PhaseOK'
      BY <1>2, <2>1, <2>5, <2>6, <2>7 DEF PhaseOK
    <2> QED
      BY <1>2, <1>3, <1>4, <2>1, <2>3, <2>8 DEF Shape
  <1> QED
    BY <1>5, <1>6

-----------------------------------------------------------------------------
(* Every step.                                                             *)

LEMMA NextCases ==
    ASSUME Shape, [Next]_vars
    PROVE  \/ PlanUpgrade
           \/ \E dirty \in SUBSET Paths : PrepareStep(dirty) /\ faults' \in 0..MaxFaults
           \/ PassOver
           \/ OpenCreate \/ Compare \/ Truncate
           \/ Written
           \/ RejectChanged \/ WriteFails
           \/ Finish
           \/ \E yes, guidance \in BOOLEAN : PlanInit(yes, guidance)
           \/ InitStops \/ Crash \/ NewRelease
           \/ UserNext
           \/ UNCHANGED vars
  <1>1. ASSUME NEW n \in 0..(MaxFaults - faults), NEW dirty \in kSubset(n, DOMAIN job.acts),
               Prepare(dirty)
        PROVE  \E d \in SUBSET Paths : PrepareStep(d) /\ faults' \in 0..MaxFaults
    <2>1. dirty \in SUBSET (DOMAIN job.acts) /\ Cardinality(dirty) = n
      BY DEF kSubset
    <2>2. DOMAIN job.acts \subseteq Paths /\ faults \in 0..MaxFaults
      BY DEF Shape, JobOK
    <2>3. faults' = faults + n
      BY <1>1, <2>1 DEF Prepare
    <2>4. faults' \in 0..MaxFaults
      BY <2>2, <2>3, BoundsAssumption
    <2> QED
      BY <1>1, <2>1, <2>2, <2>4 DEF PrepareStep
  <1> QED
    BY <1>1 DEF Next, OrcNext, Written

LEMMA StutterShape ==
    ASSUME Shape, UNCHANGED vars PROVE Shape'
  <1>1. /\ files' = files /\ release' = release /\ pc' = pc /\ job' = job /\ faults' = faults
        /\ crashes' = crashes
    BY DEF vars
  <1>2. JobOK'
    BY <1>1 DEF Shape, JobOK, ActOK
  <1>3. PhaseOK'
    BY <1>1 DEF Shape, PhaseOK, Allowed, Compared, Now, Current
  <1> QED
    BY <1>1, <1>2, <1>3 DEF Shape

LEMMA InitShape ==
    ASSUME Init PROVE Shape
  <1>1. /\ DOMAIN job = Fields /\ job.command = "none" /\ job.outcome = "none"
        /\ job.acts = <<>> /\ job.conflicts = {} /\ job.skipped = {} /\ job.blocked = {}
        /\ job.queue = <<>> /\ job.wrote = <<>> /\ job.touched = {} /\ job.late = {}
    BY DEF Init, NoJob, Fields
  <1>2. /\ <<>> \in Seq(Paths) /\ Range(<<>>) = {} /\ IsInjective(<<>>)
    BY EmptyFacts
  <1>3. DOMAIN <<>> = {}
    OBVIOUS
  <1>4. JobOK
    BY <1>1, <1>2, <1>3 DEF JobOK, Outcomes
  <1>5. PhaseOK
    BY <1>1 DEF PhaseOK, Init, Reports
  <1>6. FilesOK(files) /\ release \in 1..MaxRelease /\ faults \in 0..MaxFaults /\ crashes \in 0..MaxCrashes
    BY ProjectsAssumption, BoundsAssumption DEF Init
  <1> QED
    BY <1>1, <1>4, <1>5, <1>6 DEF Shape, Init

LEMMA NextShape ==
    ASSUME Shape, [Next]_vars PROVE Shape'
  <1>1. CASE \E dirty \in SUBSET Paths : PrepareStep(dirty) /\ faults' \in 0..MaxFaults
    BY <1>1, PrepareShape
  <1>2. CASE \E yes, guidance \in BOOLEAN : PlanInit(yes, guidance)
    BY <1>2, PlanInitShape
  <1> QED
    BY <1>1, <1>2, NextCases, PlanUpgradeShape, PassOverShape, BeginsShape, WrittenShape,
       RejectShape, FinishShape, StopsShape, UserShape, StutterShape

LEMMA ShapeTypes ==
    ASSUME Shape PROVE TypeOK
  <1>1. JobOK /\ FilesOK(files)
    BY DEF Shape
  <1>2. job.conflicts \union job.skipped \union job.blocked \union Range(job.wrote) \subseteq Paths
    BY <1>1 DEF JobOK
  <1> QED
    BY <1>1, <1>2 DEF Shape, TypeOK, JobOK

LEMMA AlwaysShape == Spec => []Shape
  BY InitShape, NextShape, PTL DEF Spec

\* Whatever the order of writes, failures, edits and deaths: every file is what
\* one of its writers can have made of it, and a command writes only what its
\* plan has an action for (Apply in apply.go, and the writes of orc init).
THEOREM SetupTyped == Spec => []TypeOK
  BY AlwaysShape, ShapeTypes, PTL

-----------------------------------------------------------------------------
(* What people wrote.                                                      *)

Loses(p) == Text(files'[p]) < Text(files[p])

LEMMA TextFacts ==
    /\ Text(Absent) = 0 /\ Text(Torn) = 0
    /\ \A p \in Paths : \A c \in Contents(p) : Text(c) \in Nat
    /\ FilesOK(files) => \A p \in Paths : Text(files[p]) \in Nat
  <1>1. Text(Absent) = 0 /\ Text(Torn) = 0
    BY DEF Text, IsRecord
  <1>2. \A p \in Paths : \A c \in Contents(p) : Text(c) \in Nat
    BY Records, EditFacts DEF Text
  <1> QED
    BY <1>1, <1>2, FileIs

\* A step that loses what a person wrote is a person's, or the write of orc
\* init over the very bytes it compared.
LEMMA LossFacts ==
    ASSUME Shape, [Next]_vars, NEW p \in Paths, Loses(p)
    PROVE  \/ UserNext
           \/ p \in job.late
           \/ job.command = "init" /\ files[p] = job.before[p]
  <1>1. JobOK /\ FilesOK(files)
    BY DEF Shape
  <1>2. Text(files[p]) \in Nat
    BY <1>1, TextFacts
  <1>3. CASE files' = files
    BY <1>2, <1>3 DEF Loses
  <1>4. CASE OpenCreate
    <2>1. files[Now] = Absent /\ files' = [files EXCEPT ![Now] = Torn]
      BY <1>4 DEF OpenCreate
    <2>2. p \in DOMAIN files /\ p # Now => files'[p] = files[p]
      BY <2>1
    <2>3. p = Now
      BY <1>1, <1>2, <2>2 DEF Loses, FilesOK
    <2>4. Text(files[p]) = 0 /\ Text(files'[p]) = 0
      BY <1>1, <2>1, <2>3, TextFacts DEF FilesOK
    <2> QED
      BY <2>4 DEF Loses
  <1>5. CASE Truncate
    <2>1. /\ files' = [files EXCEPT ![Now] = Torn] /\ job.command = "init"
          /\ Now \in job.late \/ files[Now] = Current.was
          /\ job.queue # <<>>
      BY <1>5 DEF Truncate, Shape, PhaseOK, Compared, Allowed
    <2>2. p = Now
      BY <1>1, <1>2, <2>1 DEF Loses, FilesOK
    <2>3. Current.was = job.before[Now]
      BY <1>1, <2>1, NowFacts DEF ActOK, Current
    <2> QED
      BY <2>1, <2>2, <2>3
  <1>6. CASE Rename
    <2>1. /\ files' = [files EXCEPT ![Now] = Current.next] /\ job.command = "upgrade"
          /\ Now \in job.late \/ files[Now] = Current.was
          /\ job.queue # <<>>
      BY <1>6 DEF Rename, Shape, PhaseOK, Compared, Allowed
    <2>2. p = Now
      BY <1>1, <1>2, <2>1 DEF Loses, FilesOK
    <2>3. Current.was = job.before[Now] /\ Text(Current.next) = Text(job.before[Now])
      BY <1>1, <2>1, NowFacts DEF ActOK, Current
    <2>4. files'[p] = Current.next
      BY <1>1, <2>1, <2>2 DEF FilesOK
    <2> QED
      BY <1>2, <2>1, <2>2, <2>3, <2>4 DEF Loses
  <1>7. CASE Fill
    <2>1. /\ files' = [files EXCEPT ![Now] = IF @ = Torn THEN Current.next ELSE @]
          /\ job.queue # <<>>
      BY <1>7 DEF Fill, Shape, PhaseOK, Allowed
    <2>2. p = Now /\ files[Now] = Torn /\ files'[p] = Current.next
      BY <1>1, <1>2, <2>1 DEF Loses, FilesOK
    <2>3. Text(Current.next) \in Nat
      BY <1>1, <2>1, NowFacts, TextFacts DEF ActOK, Current
    <2> QED
      BY <2>2, <2>3, TextFacts DEF Loses
  <1>8. CASE RejectChanged \/ WriteFails
    <2>1. /\ files' = [q \in Paths |-> IF q \in Restored THEN job.acts[q].was ELSE files[q]]
          /\ job.command = "upgrade" /\ job.queue # <<>>
      BY <1>8, RejectEffect, RejectCases DEF Allowed
    <2>2. p \in Restored
      BY <1>2, <2>1 DEF Loses
    <2>3. p \in DOMAIN job.acts /\ files[p] = job.acts[p].next
      BY <1>1, <2>1, <2>2, RestoredFacts DEF GroupPaths
    <2>4. ActOK(p)
      BY <1>1, <2>3 DEF JobOK
    <2>5. Text(files[p]) = Text(job.before[p]) /\ files'[p] = job.before[p]
      BY <2>1, <2>2, <2>3, <2>4 DEF ActOK
    <2> QED
      BY <1>2, <2>5 DEF Loses
  <1>9. CASE Compare \/ PassOver \/ Finish \/ PlanUpgrade \/ InitStops \/ Crash \/ NewRelease
    <2>1. files' = files
      BY <1>9 DEF Compare, PassOver, Finish, PlanUpgrade, InitStops, Crash, NewRelease
    <2> QED
      BY <1>3, <2>1
  <1>10. CASE \E dirty \in SUBSET Paths : PrepareStep(dirty) /\ faults' \in 0..MaxFaults
    BY <1>3, <1>10 DEF PrepareStep, Prepare
  <1>11. CASE \E yes, guidance \in BOOLEAN : PlanInit(yes, guidance)
    BY <1>3, <1>11 DEF PlanInit
  <1>12. CASE UNCHANGED vars
    BY <1>3, <1>12 DEF vars
  <1> QED
    BY <1>4, <1>5, <1>6, <1>7, <1>8, <1>9, <1>10, <1>11, <1>12, NextCases DEF Written

\* No command takes away what a person wrote, not even by taking back what it
\* wrote itself (rollbackModifyWrite): orc init, which asked, overwrites only
\* the very bytes it asked about (writePreparedFile, writeFileIfUnchanged).
THEOREM EditsKept == Spec => EditsPreserved
  <1>1. Shape /\ [Next]_vars
        => [\A p \in Paths :
              Text(files'[p]) < Text(files[p])
              => \/ UserNext
                 \/ p \in job.late
                 \/ job.command = "init" /\ files[p] = job.before[p]]_vars
    BY LossFacts DEF Loses
  <1> QED
    BY <1>1, AlwaysShape, PTL DEF Spec, EditsPreserved

-----------------------------------------------------------------------------
(* The report and the disk.                                                *)

\* Where the job, the files it wrote and the write in hand stay the same.
LEMMA DiskStays ==
    ASSUME Shape, DiskOK, DOMAIN job' = Fields, files' = files, job.command # "none",
           job'.command # "none", job'.before = job.before, Range(job'.wrote) = Range(job.wrote),
           \A p \in Range(job.wrote) : job'.acts[p] = job.acts[p],
           job'.touched = job.touched, pc # "fill", pc' # "fill"
    PROVE  DiskOK'
  <1>1. \A p \in Paths : Expected(p)' = Expected(p)
    BY DEF Expected
  <1> QED
    BY <1>1 DEF DiskOK

LEMMA DiskBegins ==
    ASSUME Shape, DiskOK, OpenCreate \/ Compare \/ Truncate PROVE DiskOK'
  <1>1. JobOK /\ job' = job /\ job.queue # <<>> /\ pc # "fill" /\ job.command # "none" /\ FilesOK(files)
    BY DEF Shape, PhaseOK, OpenCreate, Compare, Truncate, MayWrite, Allowed
  <1>2. CASE Compare
    BY <1>1, <1>2, DiskStays DEF Compare, JobOK
  <1>3. CASE OpenCreate \/ Truncate
    <2>1. files' = [files EXCEPT ![Now] = Torn] /\ pc' = "fill"
      BY <1>3 DEF OpenCreate, Truncate
    <2>2. Now' = Now /\ Now \notin Range(job.wrote) /\ Now \in Paths
      BY <1>1, NowFacts DEF Now
    <2>3. PICK n \in Paths : n = Now
      BY <2>2
    <2>4. Expected(n)' = Torn /\ files'[n] = Torn
      BY <1>1, <2>1, <2>2, <2>3 DEF Expected, FilesOK
    <2>5. \A p \in Paths \ {n} : Expected(p)' = Expected(p) /\ files'[p] = files[p]
      BY <1>1, <2>1, <2>2, <2>3 DEF Expected
    <2> QED
      BY <1>1, <2>4, <2>5 DEF DiskOK
  <1> QED
    BY <1>2, <1>3

LEMMA DiskWritten ==
    ASSUME Shape, DiskOK, Written PROVE DiskOK'
  <1>1. /\ Changes({"queue", "wrote"}) /\ Allowed /\ pc # "idle" /\ pc' = "write"
        /\ job'.wrote = Append(job.wrote, Now)
        /\ \/ pc = "rename" /\ files' = [files EXCEPT ![Now] = Current.next]
           \/ pc = "fill" /\ files' = [files EXCEPT ![Now] = IF @ = Torn THEN Current.next ELSE @]
    BY WrittenEffect
  <1>2. /\ job'.command = job.command /\ job'.acts = job.acts /\ job'.before = job.before
        /\ job'.touched = job.touched
    BY <1>1 DEF Changes, Fields
  <1>3. JobOK /\ FilesOK(files) /\ job.queue # <<>> /\ job.command # "none"
    BY <1>1 DEF Shape, Allowed, PhaseOK
  <1>4. /\ Now \in Paths /\ Now \notin Range(job.wrote)
        /\ Range(job'.wrote) = Range(job.wrote) \union {Now}
    BY <1>1, <1>3, NowFacts, AppendFacts DEF JobOK
  <1>5. PICK n \in Paths : n = Now
    BY <1>4
  <1>6. /\ n \in Range(job'.wrote) /\ n \notin Range(job.wrote)
        /\ Current.next = job'.acts[n].next /\ n \in DOMAIN files
    BY <1>2, <1>3, <1>4, <1>5 DEF Current, FilesOK
  <1>7. n \notin job.touched => files'[n] = job'.acts[n].next
    <2>1. CASE pc = "rename"
      BY <1>1, <1>5, <1>6, <2>1
    <2>2. CASE pc = "fill"
      <3>1. Expected(n) = Torn
        BY <1>5, <1>6, <2>2 DEF Expected
      <3>2. n \notin job.touched => files[n] = Torn
        BY <1>3, <3>1 DEF DiskOK
      <3> QED
        BY <1>1, <1>5, <1>6, <2>2, <3>2
    <2> QED
      BY <1>1, <2>1, <2>2
  <1>8. Expected(n)' = job'.acts[n].next
    BY <1>6 DEF Expected
  <1>9. ASSUME NEW p \in Paths \ {n} PROVE files'[p] = files[p] /\ Expected(p)' = Expected(p)
    <2>1. p \in DOMAIN files
      BY <1>3 DEF FilesOK
    <2>2. files'[p] = files[p]
      BY <1>1, <1>5, <2>1
    <2>3. p \in Range(job'.wrote) <=> p \in Range(job.wrote)
      BY <1>4, <1>5
    <2> QED
      BY <1>1, <1>2, <1>5, <2>2, <2>3 DEF Expected
  <1> QED
    BY <1>2, <1>3, <1>7, <1>8, <1>9 DEF DiskOK

LEMMA DiskReject ==
    ASSUME Shape, DiskOK, RejectChanged \/ WriteFails PROVE DiskOK'
  <1>1. CASE Over
    BY <1>1, OverShape DEF DiskOK
  <1>2. CASE ~Over
    <2>1. /\ pc' = "write" /\ pc # "fill" /\ job.command = "upgrade" /\ job.queue # <<>>
          /\ Changes({"conflicts", "blocked", "skipped", "wrote", "queue", "disturbed"})
          /\ job'.wrote = Only(job.wrote, Paths \ Restored)
          /\ files' = [p \in Paths |-> IF p \in Restored THEN job.acts[p].was ELSE files[p]]
      BY <1>2, RejectEffect, RejectCases DEF Allowed
    <2>2. /\ job'.command = job.command /\ job'.acts = job.acts /\ job'.before = job.before
          /\ job'.touched = job.touched
      BY <2>1 DEF Changes, Fields
    <2>3. JobOK
      BY DEF Shape
    <2>4. Range(job'.wrote) = Range(job.wrote) \ Restored /\ Range(job.wrote) \subseteq Paths
      <3>1. job.wrote \in Seq(Paths) /\ Range(job.wrote) \subseteq Paths
        BY <2>3 DEF JobOK
      <3>2. Range(Only(job.wrote, Paths \ Restored)) = Range(job.wrote) \intersect (Paths \ Restored)
        BY <3>1, OnlyFacts
      <3> QED
        BY <2>1, <3>1, <3>2
    <2>5. \A p \in Restored : p \in DOMAIN job.acts
      BY <2>1, <2>3, RestoredFacts DEF GroupPaths
    <2>6. ASSUME NEW p \in Paths \ job'.touched PROVE files'[p] = Expected(p)'
      <3>1. CASE p \in Restored
        <4>1. job.acts[p].was = job.before[p]
          BY <2>3, <2>5, <3>1 DEF JobOK, ActOK
        <4>2. files'[p] = job.before[p]
          BY <2>1, <3>1, <4>1
        <4>3. Expected(p)' = job'.before[p]
          BY <2>1, <2>4, <3>1 DEF Expected
        <4> QED
          BY <2>2, <4>2, <4>3
      <3>2. CASE p \notin Restored
        <4>1. p \in Range(job'.wrote) <=> p \in Range(job.wrote)
          BY <2>4, <3>2
        <4>2. Expected(p)' = Expected(p)
          BY <2>1, <2>2, <4>1 DEF Expected
        <4>3. files'[p] = files[p]
          BY <2>1, <3>2
        <4> QED
          BY <2>1, <2>2, <4>2, <4>3 DEF DiskOK
      <3> QED
        BY <3>1, <3>2
    <2> QED
      BY <2>6 DEF DiskOK
  <1> QED
    BY <1>1, <1>2

LEMMA DiskUser ==
    ASSUME Shape, DiskOK, UserNext PROVE DiskOK'
  <1>1. PICK p \in Paths, c \in (UNION {Contents(q) : q \in Paths}) \union {Absent, Torn} :
              c \in Contents(p) \union {Absent, Torn} /\ Touch(p, c)
    BY UserEffect
  <1>2. /\ files' = [files EXCEPT ![p] = c] /\ pc' = pc
        /\ \/ pc = "idle" /\ Over
           \/ /\ pc # "idle" /\ Changes({"touched", "disturbed", "late"})
              /\ job'.touched = job.touched \union {p}
    BY <1>1, TouchEffect
  <1>3. CASE Over
    BY <1>3, OverShape DEF DiskOK
  <1>4. CASE ~Over
    <2>1. /\ job'.command = job.command /\ job'.acts = job.acts /\ job'.before = job.before
          /\ job'.wrote = job.wrote /\ job'.queue = job.queue
          /\ job'.touched = job.touched \union {p}
      BY <1>2, <1>4 DEF Changes, Fields
    <2>2. ASSUME NEW q \in Paths \ job'.touched PROVE files'[q] = files[q] /\ Expected(q)' = Expected(q)
      <3>1. q # p /\ Now' = Now
        BY <2>1 DEF Now
      <3> QED
        BY <1>2, <2>1, <3>1 DEF Expected
    <2> QED
      BY <2>1, <2>2 DEF DiskOK
  <1> QED
    BY <1>3, <1>4

LEMMA DiskNext ==
    ASSUME Shape, DiskOK, [Next]_vars PROVE DiskOK'
  <1>1. CASE PlanUpgrade
    <2>1. Range(job'.wrote) = {} /\ pc' # "fill" /\ job'.before = files /\ files' = files
      BY <1>1, PlanUpgradeEffect, EmptyFacts
    <2> QED
      BY <2>1 DEF DiskOK, Expected
  <1>2. CASE \E yes, guidance \in BOOLEAN : PlanInit(yes, guidance)
    <2>1. Range(job'.wrote) = {} /\ pc' # "fill" /\ job'.before = files /\ files' = files
      BY <1>2, PlanInitEffect, EmptyFacts
    <2> QED
      BY <2>1 DEF DiskOK, Expected
  <1>3. ASSUME NEW dirty \in SUBSET Paths, PrepareStep(dirty) PROVE DiskOK'
    <2>1. CASE Over
      BY <2>1, OverShape DEF DiskOK
    <2>2. CASE ~Over
      <3>1. /\ pc = "prepare" /\ job.command = "upgrade" /\ job.wrote = <<>> /\ files' = files
            /\ pc' = "write"
            /\ Changes({"acts", "conflicts", "skipped", "blocked", "queue", "disturbed"})
        BY <1>3, <2>2, PrepareEffect
      <3>2. /\ DOMAIN job' = Fields /\ job'.command = job.command /\ job'.before = job.before
            /\ job'.wrote = job.wrote /\ job'.touched = job.touched
        BY <3>1 DEF Changes, Fields
      <3> QED
        BY <3>1, <3>2, DiskStays, EmptyFacts
    <2> QED
      BY <2>1, <2>2
  <1>4. CASE PassOver
    <2>1. /\ pc = "write" /\ pc' = pc /\ files' = files
          /\ Changes({"queue", "skipped", "blocked"})
      BY <1>4, PassOverEffect
    <2>2. /\ DOMAIN job' = Fields /\ job'.command = job.command /\ job'.before = job.before
          /\ job'.wrote = job.wrote /\ job'.touched = job.touched /\ job'.acts = job.acts
      BY <2>1 DEF Changes, Fields
    <2>3. job.command # "none"
      BY <2>1 DEF Shape, PhaseOK
    <2> QED
      BY <2>1, <2>2, <2>3, DiskStays
  <1>5. CASE Finish
    <2>1. /\ DOMAIN job' = Fields /\ job'.command = job.command /\ job'.before = job.before
          /\ job'.wrote = job.wrote /\ job'.touched = job.touched /\ job'.acts = job.acts
          /\ pc = "write" /\ pc' = "idle" /\ files' = files
      BY <1>5 DEF Finish, Shape, JobOK, Fields
    <2>2. job.command # "none"
      BY <2>1 DEF Shape, PhaseOK
    <2> QED
      BY <2>1, <2>2, DiskStays
  <1>6. CASE InitStops \/ Crash \/ NewRelease
    <2>1. Over
      BY <1>6 DEF Over, InitStops, Crash, NewRelease
    <2> QED
      BY <2>1, OverShape DEF DiskOK
  <1>7. CASE UNCHANGED vars
    BY <1>7 DEF vars, DiskOK, Expected, Now
  <1> QED
    BY <1>1, <1>2, <1>3, <1>4, <1>5, <1>6, <1>7, NextCases, DiskBegins, DiskWritten, DiskReject,
       DiskUser

LEMMA AlwaysDisk == Spec => [](Shape /\ DiskOK)
  <1>1. Init => Shape /\ DiskOK
    BY InitShape DEF Init, DiskOK, NoJob
  <1>2. Shape /\ DiskOK /\ [Next]_vars => Shape' /\ DiskOK'
    BY NextShape, DiskNext
  <1> QED
    BY <1>1, <1>2, PTL DEF Spec

LEMMA DiskReports ==
    ASSUME Shape, DiskOK PROVE ReportMatchesDisk
  <1>1. SUFFICES ASSUME pc = "idle", job.command = "upgrade", job.outcome \in Reports,
                        NEW p \in Paths \ job.touched
                 PROVE  files[p] # job.before[p] <=> p \in Range(job.wrote)
    BY DEF ReportMatchesDisk
  <1>2. files[p] = Expected(p)
    BY <1>1 DEF DiskOK
  <1>3. CASE p \in Range(job.wrote)
    <2>1. job.acts[p].next # job.before[p]
      BY <1>3 DEF Shape, JobOK, ActOK
    <2> QED
      BY <1>2, <1>3, <2>1 DEF Expected
  <1>4. CASE p \notin Range(job.wrote)
    BY <1>1, <1>2, <1>4 DEF Expected
  <1> QED
    BY <1>3, <1>4

\* What an apply reports as written is what it changed on disk, whichever
\* writes failed and were taken back (rollbackManifestRefreshGroupAfterFailure,
\* removeModifiedPaths), of all the files that nobody else touched meanwhile.
THEOREM ReportsMatchDisk == Spec => []ReportMatchesDisk
  BY AlwaysDisk, DiskReports, PTL

-----------------------------------------------------------------------------
(* The plan of an upgrade stays what it was.                               *)

\* Steps of a command that is being applied, and of people beside it.
Applying ==
    /\ release' = release /\ job'.command = job.command /\ job'.acts = job.acts
    /\ job'.before = job.before /\ DOMAIN job' = Fields
    /\ pc' = "prepare" => /\ pc = "prepare" /\ job'.conflicts = job.conflicts
                          /\ job'.skipped = job.skipped /\ job'.blocked = job.blocked

\* What is true of a job that a step leaves alone in the parts that matter.
LEMMA StepKinds ==
    ASSUME Shape, [Next]_vars
    PROVE  \/ Over
           \/ PlanUpgrade
           \/ \E yes, guidance \in BOOLEAN : PlanInit(yes, guidance)
           \/ \E dirty \in SUBSET Paths : PrepareStep(dirty) /\ ~Over
           \/ /\ PassOver \/ OpenCreate \/ Compare \/ Truncate \/ Written
                 \/ RejectChanged \/ WriteFails \/ Finish \/ UserNext \/ UNCHANGED vars
              /\ Applying
  <1>0. DOMAIN job = Fields
    BY DEF Shape, JobOK
  <1>1. CASE PassOver
    <2>1. Changes({"queue", "skipped", "blocked"}) /\ pc = "write"
          /\ UNCHANGED <<files, release, pc, faults, crashes>>
      BY <1>1, PassOverEffect
    <2> QED
      BY <1>1, <2>1 DEF Applying, Changes, Fields
  <1>2. CASE OpenCreate \/ Compare \/ Truncate
    BY <1>0, <1>2 DEF Applying, OpenCreate, Compare, Truncate
  <1>3. CASE Written
    BY <1>3, WrittenEffect DEF Applying, Changes, Fields
  <1>4. CASE RejectChanged \/ WriteFails
    BY <1>4, RejectEffect DEF Applying, Changes, Fields
  <1>5. CASE Finish
    BY <1>0, <1>5 DEF Applying, Finish, Fields
  <1>6. CASE UserNext
    <2>1. PICK p \in Paths, c \in (UNION {Contents(q) : q \in Paths}) \union {Absent, Torn} :
                c \in Contents(p) \union {Absent, Torn} /\ Touch(p, c)
      BY <1>6, UserEffect
    <2> QED
      BY <1>6, <2>1, TouchEffect DEF Applying, Changes, Fields
  <1>7. CASE InitStops \/ Crash \/ NewRelease
    BY <1>7 DEF Over, InitStops, Crash, NewRelease
  <1>8. CASE UNCHANGED vars
    BY <1>0, <1>8 DEF vars, Applying
  <1> QED
    BY <1>1, <1>2, <1>3, <1>4, <1>5, <1>6, <1>7, <1>8, NextCases

LEMMA PlanNext ==
    ASSUME Shape, PlanOK, [Next]_vars PROVE PlanOK'
  <1>1. CASE Over
    BY <1>1, OverShape DEF PlanOK
  <1>2. CASE PlanUpgrade
    BY <1>2, PlanUpgradeEffect, ActionsFacts DEF PlanOK, Planned
  <1>3. CASE \E yes, guidance \in BOOLEAN : PlanInit(yes, guidance)
    BY <1>3, PlanInitEffect DEF PlanOK
  <1>4. ASSUME NEW dirty \in SUBSET Paths, PrepareStep(dirty), ~Over PROVE PlanOK'
    <2>1. /\ job.command = "upgrade" /\ release' = release /\ pc' = "write"
          /\ Changes({"acts", "conflicts", "skipped", "blocked", "queue", "disturbed"})
          /\ job'.acts = Kept(dirty)
      BY <1>4, PrepareEffect
    <2>2. job'.before = job.before
      BY <2>1 DEF Changes, Fields
    <2>3. /\ DOMAIN Kept(dirty) \subseteq DOMAIN job.acts
          /\ \A p \in DOMAIN Kept(dirty) : Kept(dirty)[p] = job.acts[p]
      BY RestrictFacts DEF Kept, Left, First
    <2> QED
      BY <2>1, <2>2, <2>3 DEF PlanOK, Planned
  <1>5. CASE Applying
    BY <1>5 DEF Applying, PlanOK, Planned
  <1> QED
    BY <1>1, <1>2, <1>3, <1>4, <1>5, StepKinds

-----------------------------------------------------------------------------
(* The manifest and the files it vouches for.                              *)

LEMMA GroupFacts ==
    ASSUME Shape, PlanOK, job.command = "upgrade"
    PROVE  /\ \A p \in DOMAIN job.acts : Lock \in job.acts[p].deps <=> p \in Group
           /\ Lock \in DOMAIN job.acts => job.acts[Lock].deps = Planned \intersect Managed
           /\ \A p \in Group :
                 /\ p # Lock /\ job.before[Lock] # Absent
                 /\ p \in DOMAIN job.acts =>
                       /\ job.acts[p].deps = {Lock}
                       /\ Lock \in DOMAIN job.acts =>
                             InGroup(job.acts, p) /\ InGroup(job.acts, Lock)
           /\ \A p \in DOMAIN job.acts \ Group : p # Lock => ~InGroup(job.acts, p)
  <1> DEFINE F == job.before
             r == release
  <1>1. FilesOK(F) /\ JobOK /\ DOMAIN job.acts \subseteq Planned
    BY DEF Shape, PlanOK
  <1>2. /\ \A p \in DOMAIN job.acts : job.acts[p].deps = DependsOn(F, r, p)
        /\ Planned = ActionPaths(F, r) /\ Planned \subseteq Paths
    BY PlanPaths DEF PlanOK, Planned
  <1>3. /\ DependsOn(F, r, Lock) = Planned \intersect Managed
        /\ Lock \notin Managed /\ Config # Lock
    BY Distinct, <1>2 DEF DependsOn
  <1>4. \A p \in Managed : DependsOn(F, r, p) = IF F[p] # Absent THEN {Lock}
                                   ELSE IF p \in ConfigOf(F).refs THEN {} ELSE {Config}
    BY Distinct DEF DependsOn
  <1>5. \A p \in Paths \ (Managed \union {Lock}) : DependsOn(F, r, p) = {}
    BY DEF DependsOn
  <1>6. Group = {p \in Planned \intersect Managed : F[p] # Absent}
    BY DEF Group
  <1>7. ASSUME NEW p \in Group PROVE job.before[Lock] # Absent
    <2>1. Target(F, r, p) # F[p] /\ p \in Managed /\ F[p] # Absent
      BY <1>2, <1>6, PlanPaths
    <2>2. ProvesManaged(F, p)
      BY <2>1, TargetCases DEF ManagedTarget
    <2> QED
      BY <1>1, <2>1, <2>2, LockIs
  <1> HIDE DEF F, r, Group, Planned
  <1>8. \A p \in DOMAIN job.acts : Lock \in job.acts[p].deps <=> p \in Group
    <2> SUFFICES ASSUME NEW p \in DOMAIN job.acts PROVE Lock \in job.acts[p].deps <=> p \in Group
      OBVIOUS
    <2>1. p \in Planned /\ p \in Paths /\ job.acts[p].deps = DependsOn(F, r, p)
      BY <1>1, <1>2
    <2>2. CASE p = Lock
      BY <1>3, <1>6, <2>1, <2>2
    <2>3. CASE p \in Managed
      BY <1>3, <1>4, <1>6, <2>1, <2>3
    <2>4. CASE p \notin Managed \union {Lock}
      BY <1>5, <1>6, <2>1, <2>4
    <2> QED
      BY <2>2, <2>3, <2>4
  <1>9. Lock \in DOMAIN job.acts => job.acts[Lock].deps = Planned \intersect Managed
    BY <1>2, <1>3
  <1>10. ASSUME NEW p \in Group PROVE p # Lock /\ (p \in DOMAIN job.acts => job.acts[p].deps = {Lock})
    BY <1>2, <1>3, <1>4, <1>6
  <1>11. ASSUME NEW p \in Group, p \in DOMAIN job.acts, Lock \in DOMAIN job.acts
         PROVE  InGroup(job.acts, p) /\ InGroup(job.acts, Lock)
    <2>1. p # Lock /\ p \in job.acts[Lock].deps /\ Lock \in job.acts[p].deps
      BY <1>6, <1>8, <1>9, <1>10, <1>11
    <2> QED
      BY <1>11, <2>1 DEF InGroup, Needs
  <1>12. ASSUME NEW p \in DOMAIN job.acts \ Group, p # Lock PROVE ~InGroup(job.acts, p)
    BY <1>8, <1>12 DEF InGroup, Needs
  <1> QED
    BY <1>7, <1>8, <1>9, <1>10, <1>11, <1>12

\* A failed write leaves the group whole, or the manifest as it was.
LEMMA GroupReject ==
    ASSUME Shape, PlanOK, GroupOK, RejectChanged \/ WriteFails PROVE GroupOK'
  <1>1. CASE Over
    BY <1>1, OverShape DEF GroupOK
  <1>2. CASE ~Over
    <2>1. /\ Altered = {} /\ pc' = "write" /\ release' = release
          /\ Changes({"conflicts", "blocked", "skipped", "wrote", "queue", "disturbed"})
          /\ job'.blocked = job.blocked \union {Now} \union GroupLeft
          /\ job'.wrote = Only(job.wrote, Paths \ Restored) /\ job'.queue = Tail(job.queue)
      BY <1>2, RejectEffect
    <2>2. job.command = "upgrade" /\ job.queue # <<>> /\ pc # "prepare" /\ JobOK /\ Allowed
      BY RejectCases DEF Allowed, Shape
    <2>3. job'.before = job.before /\ Group' = Group
      BY <2>1 DEF Changes, Fields, Group, Planned
    <2>4. /\ Now \in DOMAIN job.acts /\ Now \notin Range(job.wrote)
          /\ Range(job.queue) = Range(job'.queue) \union {Now}
          /\ Now \notin Range(job'.queue)
      BY <2>1, <2>2, NowFacts
    <2>5. Range(job'.wrote) = Range(job.wrote) \ Restored
      <3>1. job.wrote \in Seq(Paths) /\ Range(job.wrote) \subseteq Paths
        BY <2>2 DEF JobOK
      <3>2. Range(Only(job.wrote, Paths \ Restored)) = Range(job.wrote) \intersect (Paths \ Restored)
        BY <3>1, OnlyFacts
      <3> QED
        BY <2>1, <3>1, <3>2
    <2>6. /\ Lock \in Range(job.wrote) => Lock \in DOMAIN job.acts
          /\ Lock \in Range(job.queue) => Lock \in DOMAIN job.acts
          /\ Range(job.queue) \intersect Range(job.wrote) = {}
      BY <2>2 DEF JobOK
    <2>7. CASE Now \in Group
      <3>1. Lock \in Current.deps /\ job.before[Lock] # Absent
        BY <2>2, <2>4, <2>7, GroupFacts DEF Current
      <3>2. Restored = Range(job.wrote) \intersect GroupPaths
        BY <2>1, <2>2, <3>1, RestoredFacts
      <3>3. Lock \in DOMAIN job.acts => job.acts[Lock].kind = "modify"
        BY <2>2, <3>1 DEF JobOK, ActOK
      <3>4. Lock \notin Range(job'.wrote)
        BY <2>5, <2>6, <3>2, <3>3 DEF GroupPaths, Modifies
      <3>5. Lock \in Range(job'.queue) => Lock \in job'.blocked
        <4> SUFFICES ASSUME Lock \in Range(job'.queue), Lock \notin job.blocked PROVE Lock \in GroupLeft
          BY <2>1
        <4>1. InGroup(job.acts, Now) /\ InGroup(job.acts, Lock)
          BY <2>2, <2>4, <2>6, <2>7, GroupFacts
        <4> QED
          BY <2>1, <4>1 DEF GroupLeft
      <3> QED
        BY <3>4, <3>5 DEF GroupOK
    <2>8. CASE Now \notin Group
      <3>1. Lock \notin Current.deps
        BY <2>2, <2>4, <2>8, GroupFacts DEF Current
      <3>2. Restored = {}
        BY <2>2, <3>1, RestoredFacts
      <3>3. CASE Now = Lock
        <4>1. Lock \notin Range(job'.wrote) /\ Lock \notin Range(job'.queue)
          BY <2>4, <2>5, <3>3
        <4> QED
          BY <4>1 DEF GroupOK
      <3>4. CASE Now # Lock
        <4>1. GroupLeft = {}
          BY <2>2, <2>4, <2>8, <3>4, GroupFacts DEF GroupLeft
        <4>2. /\ Range(job'.wrote) = Range(job.wrote) /\ job'.blocked = job.blocked \union {Now}
              /\ Handled' = Handled \ {Now}
          BY <2>1, <2>4, <2>5, <3>2, <4>1 DEF Handled
        <4> QED
          BY <2>2, <2>3, <2>4, <2>8, <3>4, <4>2 DEF GroupOK
      <3> QED
        BY <3>3, <3>4
    <2> QED
      BY <2>7, <2>8
  <1> QED
    BY <1>1, <1>2

LEMMA GroupPassOver ==
    ASSUME Shape, PlanOK, GroupOK, PassOver PROVE GroupOK'
  <1>1. /\ Changes({"queue", "skipped", "blocked"})
        /\ pc = "write" /\ job.queue # <<>> /\ job'.queue = Tail(job.queue)
        /\ \/ Now \in job.blocked /\ job'.blocked = job.blocked
           \/ /\ Now \notin job.blocked /\ Current.deps \intersect job.blocked # {}
              /\ job'.blocked = job.blocked \union {Now}
        /\ release' = release /\ pc' = pc
    BY PassOverEffect
  <1>2. /\ job'.before = job.before /\ Group' = Group /\ job'.command = job.command
        /\ job'.wrote = job.wrote
    BY <1>1 DEF Changes, Fields, Group, Planned
  <1>3. JobOK
    BY DEF Shape
  <1>4. /\ Now \in DOMAIN job.acts /\ Now \notin Range(job.wrote)
        /\ Range(job.queue) = Range(job'.queue) \union {Now}
        /\ Now \notin Range(job'.queue)
    BY <1>1, <1>3, NowFacts
  <1>5. Handled' = Handled \ {Now}
    BY <1>2, <1>4 DEF Handled
  <1>6. Now \in job'.blocked /\ job.blocked \subseteq job'.blocked
    BY <1>1
  <1>7. SUFFICES ASSUME job.command = "upgrade" PROVE GroupOK'
    BY <1>2 DEF GroupOK
  <1>8. ASSUME Lock \in Range(job.wrote)
        PROVE  Lock \notin job'.blocked /\ Group \subseteq Handled' \ job'.blocked
    <2>1. Lock \notin job.blocked /\ Group \subseteq Handled \ job.blocked
      BY <1>1, <1>7, <1>8 DEF GroupOK
    <2>2. Now \notin Group
      <3> SUFFICES ASSUME Now \in Group PROVE FALSE
        OBVIOUS
      <3>1. Current.deps = {Lock}
        BY <1>4, <1>7, GroupFacts DEF Current
      <3> QED
        BY <1>1, <2>1, <3>1
    <2> QED
      BY <1>1, <1>4, <1>5, <1>8, <2>1, <2>2
  <1>9. Lock \in Range(job'.queue) \ job'.blocked => Group \subseteq Handled' \union job'.blocked
    BY <1>1, <1>4, <1>5, <1>6, <1>7 DEF GroupOK
  <1> QED
    BY <1>2, <1>8, <1>9 DEF GroupOK

LEMMA GroupWrites ==
    ASSUME Shape, PlanOK, GroupOK, Written PROVE GroupOK'
  <1>1. /\ Changes({"queue", "wrote"}) /\ Allowed /\ pc # "idle" /\ pc' = "write"
        /\ job'.wrote = Append(job.wrote, Now) /\ job'.queue = Tail(job.queue)
        /\ release' = release
    BY WrittenEffect
  <1>2. /\ job'.before = job.before /\ Group' = Group /\ job'.command = job.command
        /\ job'.blocked = job.blocked
    BY <1>1 DEF Changes, Fields, Group, Planned
  <1>3. JobOK /\ job.queue # <<>> /\ pc # "prepare"
    BY <1>1 DEF Shape, Allowed, Written, Rename, Fill
  <1>4. /\ Now \in Paths /\ Now \in DOMAIN job.acts /\ Now \in Range(job.queue)
        /\ Range(job.queue) = Range(job'.queue) \union {Now}
        /\ Range(job'.wrote) = Range(job.wrote) \union {Now}
    BY <1>1, <1>3, NowFacts, AppendFacts DEF JobOK
  <1>5. Handled' = Handled
    BY <1>4 DEF Handled
  <1>6. SUFFICES ASSUME job.command = "upgrade" PROVE GroupOK'
    BY <1>2 DEF GroupOK
  <1>7. CASE Now = Lock
    <2>1. Lock \notin job.blocked /\ job.acts[Lock].deps \intersect job.blocked = {}
      BY <1>1, <1>7 DEF Allowed, Current
    <2>2. Group \subseteq job.acts[Lock].deps
      BY <1>4, <1>6, <1>7, GroupFacts DEF Group
    <2>3. Group \subseteq Handled \union job.blocked
      BY <1>3, <1>4, <1>6, <1>7, <2>1 DEF GroupOK
    <2> QED
      BY <1>2, <1>5, <2>1, <2>2, <2>3 DEF GroupOK
  <1>8. CASE Now # Lock
    BY <1>2, <1>3, <1>4, <1>5, <1>6, <1>8 DEF GroupOK
  <1> QED
    BY <1>7, <1>8

LEMMA GroupPrepare ==
    ASSUME Shape, PlanOK, NEW dirty \in SUBSET Paths, PrepareStep(dirty), ~Over PROVE GroupOK'
  <1>1. /\ pc = "prepare" /\ job.command = "upgrade" /\ release' = release /\ job.wrote = <<>>
        /\ Changes({"acts", "conflicts", "skipped", "blocked", "queue", "disturbed"})
        /\ job'.blocked = Blocked2(dirty) \union Skip3(dirty)
        /\ job'.queue = WriteOrder(Kept(dirty), Left(dirty) \ (Unsafes(dirty) \union Skip3(dirty)))
    BY PrepareEffect
  <1>2. /\ job'.before = job.before /\ Planned' = Planned /\ job'.wrote = <<>>
    BY <1>1 DEF Changes, Fields, Planned
  <1>3. DOMAIN job.acts = Planned /\ Planned \subseteq Paths
    BY <1>1, PlanPaths DEF PlanOK, Planned
  <1>4. Left(dirty) \subseteq Paths
    BY <1>3 DEF Left, First
  <1>5. Range(job'.queue) = Left(dirty) \ (Unsafes(dirty) \union Skip3(dirty))
    BY <1>1, <1>4, WriteOrderFacts
  <1>6. Planned \subseteq Range(job'.queue) \union job'.blocked
    BY <1>1, <1>3, <1>5 DEF Left, First, Blocked2, Blocked1
  <1>7. Range(job'.wrote) = {}
    BY <1>2, EmptyFacts
  <1> QED
    BY <1>2, <1>6, <1>7 DEF GroupOK, Group, Handled

LEMMA GroupNext ==
    ASSUME Shape, PlanOK, GroupOK, [Next]_vars PROVE GroupOK'
  <1>1. CASE Over
    BY <1>1, OverShape DEF GroupOK
  <1>2. CASE PlanUpgrade
    BY <1>2, PlanUpgradeEffect DEF GroupOK
  <1>3. CASE \E yes, guidance \in BOOLEAN : PlanInit(yes, guidance)
    BY <1>3, PlanInitEffect DEF GroupOK
  <1>4. CASE /\ OpenCreate \/ Compare \/ Truncate \/ Finish \/ UserNext \/ UNCHANGED vars
             /\ Applying /\ ~Over
    <2>1. /\ job'.queue = job.queue /\ job'.wrote = job.wrote /\ job'.blocked = job.blocked
          /\ pc' # "prepare" => pc # "prepare"
      <3>1. CASE OpenCreate \/ Compare \/ Truncate
        BY <3>1 DEF OpenCreate, Compare, Truncate, MayWrite
      <3>2. CASE Finish
        BY <3>2 DEF Finish, Shape, JobOK, Fields
      <3>3. CASE UserNext
        <4>1. PICK p \in Paths, c \in (UNION {Contents(q) : q \in Paths}) \union {Absent, Torn} :
                    c \in Contents(p) \union {Absent, Torn} /\ Touch(p, c)
          BY <3>3, UserEffect
        <4> QED
          BY <1>4, <4>1, TouchEffect DEF Changes, Fields
      <3>4. CASE UNCHANGED vars
        BY <3>4 DEF vars
      <3> QED
        BY <1>4, <3>1, <3>2, <3>3, <3>4
    <2>2. /\ job'.before = job.before /\ job'.command = job.command /\ Group' = Group
      BY <1>4 DEF Applying, Group, Planned
    <2> QED
      BY <2>1, <2>2 DEF GroupOK, Handled
  <1> QED
    BY <1>1, <1>2, <1>3, <1>4, StepKinds, GroupPrepare, GroupReject, GroupPassOver, GroupWrites

LEMMA OwnershipHolds ==
    ASSUME Shape, DiskOK, PlanOK, GroupOK PROVE OwnershipKept
  <1>1. SUFFICES ASSUME pc = "idle", job.command = "upgrade", job.outcome \in Reports,
                        Lock \notin job.touched, NEW p \in Managed \ job.touched,
                        Provable(job.before, release, p)
                 PROVE  Provable(files, release, p)
    BY DEF OwnershipKept
  <1> DEFINE F == job.before
  <1>2. JobOK /\ FilesOK(F) /\ job.queue = <<>>
    BY <1>1 DEF Shape, PhaseOK
  <1>3. files[p] = Expected(p) /\ files[Lock] = Expected(Lock)
    BY <1>1, PathCases DEF DiskOK
  <1>4. Handled = Range(job.wrote) /\ Range(job.wrote) \subseteq DOMAIN job.acts
    BY <1>2, EmptyFacts DEF Handled, JobOK
  <1>5. DOMAIN job.acts \subseteq ActionPaths(F, release)
        /\ \A q \in DOMAIN job.acts : job.acts[q].next = Target(F, release, q)
    BY <1>1 DEF PlanOK, Planned
  <1>6. CASE p \in Range(job.wrote)
    <2>1. files[p] = Target(F, release, p) /\ Target(F, release, p) # F[p]
      BY <1>3, <1>4, <1>5, <1>6, PlanPaths DEF Expected
    <2>2. files[p] = Scaffold(release)
      BY <2>1, TargetCases DEF ManagedTarget
    <2> QED
      BY <2>2 DEF Provable
  <1>7. CASE p \notin Range(job.wrote)
    <2>1. files[p] = F[p]
      BY <1>1, <1>3, <1>7 DEF Expected
    <2>2. CASE F[p] = Scaffold(release)
      BY <2>1, <2>2 DEF Provable
    <2>3. CASE F[p] # Scaffold(release)
      <3>1. ProvesManaged(F, p) /\ F[p] # Absent
        BY <1>1, <1>2, <2>3, LockIs DEF Provable
      <3>2. Lock \notin Range(job.wrote)
        <4> SUFFICES ASSUME Lock \in Range(job.wrote) PROVE FALSE
          OBVIOUS
        <4>1. Loads(F)
          BY <1>4, <1>5, PlanPaths
        <4>2. Target(F, release, p) # F[p]
          BY <2>3, <3>1, TargetCases DEF ManagedTarget
        <4>3. p \in Group
          BY <3>1, <4>1, <4>2, PathCases DEF Group, Planned, ActionPaths
        <4>4. Group \subseteq Handled
          BY <1>1 DEF GroupOK
        <4> QED
          BY <1>4, <1>7, <4>3, <4>4
      <3>3. files[Lock] = F[Lock]
        BY <1>1, <1>3, <3>2 DEF Expected
      <3> QED
        BY <2>1, <3>1, <3>3 DEF Provable, ProvesManaged, LockValid
    <2> QED
      BY <2>2, <2>3
  <1> QED
    BY <1>6, <1>7

LEMMA AlwaysGroup == Spec => [](Shape /\ DiskOK /\ PlanOK /\ GroupOK)
  <1>1. Init => PlanOK /\ GroupOK
    BY DEF Init, PlanOK, GroupOK, NoJob
  <1>2. Shape /\ PlanOK /\ GroupOK /\ [Next]_vars => PlanOK' /\ GroupOK'
    BY PlanNext, GroupNext
  <1> QED
    BY <1>1, <1>2, AlwaysDisk, PTL DEF Spec

\* What Orc could prove to be its own stays provably its own through an apply,
\* whichever of its writes failed: the manifest and the refreshes it vouches
\* for come or are taken back together
\* (rollbackManifestRefreshGroupAfterFailure,
\* skippedRemainingManifestRefreshGroupAfterFailure).
THEOREM OwnershipStays == Spec => []OwnershipKept
  BY AlwaysGroup, OwnershipHolds, PTL

-----------------------------------------------------------------------------
(* What a plan will skip: blocked paths, and all that depends on them.     *)

LEMMA FewPaths == Cardinality(Paths) \in Nat /\ Cardinality(Paths) >= 3
  <1>1. IsFiniteSet(Paths)
    <2> DEFINE n == Len(PathOrder)
    <2>1. n \in Nat /\ PathOrder \in [1..n -> Paths]
      BY OrderAssumption
    <2>2. \A p \in Paths : \E i \in 1..n : PathOrder[i] = p
      BY <2>1, OrderAssumption DEF Range
    <2>3. PathOrder \in Surjection(1..n, Paths)
      BY <2>1, <2>2 DEF Surjection
    <2>4. IsFiniteSet(1..n)
      BY <2>1, FS_Interval
    <2> QED
      BY <2>3, <2>4, FS_Surjection
  <1> DEFINE one == {Config}
             two == {Config} \union {Lock}
             three == two \union {Gitignore}
  <1>2. IsFiniteSet(one) /\ Cardinality(one) = 1
    BY FS_Singleton
  <1>3. Lock \notin one
    BY Distinct
  <1>4. IsFiniteSet(two) /\ Cardinality(two) = 2
    BY <1>2, <1>3, FS_AddElement
  <1>5. Gitignore \notin two
    BY Distinct
  <1>6. Cardinality(three) = 3
    <2> HIDE DEF two
    <2> QED
      BY <1>4, <1>5, FS_AddElement
  <1>7. three \in SUBSET Paths
    BY PathCases
  <1> HIDE DEF three
  <1>8. Cardinality(three) <= Cardinality(Paths) /\ Cardinality(Paths) \in Nat
    BY <1>1, <1>7, FS_Subset, FS_CardinalityType
  <1> QED
    BY <1>6, <1>8

Start(F, r) == PlanConflicts(F) \union PlanSkips(F, r)
Grown(F, r, b) == b \union DependentsOf(Actions(F, r), b)

\* The skips of a plan are the last of a growing chain of blocked paths.
Closes(F, r) ==
    \E b \in [0..Cardinality(Paths) -> SUBSET Paths] :
       /\ b[0] = Start(F, r)
       /\ \A n \in 1..Cardinality(Paths) : b[n] = Grown(F, r, b[n - 1])
       /\ ForetoldSkips(F, r) = (b[Cardinality(Paths)] \ PlanConflicts(F)) \union PlanSkips(F, r)

LEMMA ClosesAlways ==
    ASSUME NEW F, NEW r PROVE Closes(F, r)
  <1> DEFINE N == Cardinality(Paths)
             A == Actions(F, r)
             Step(c) == c \union DependentsOf(A, c)
             Body(f) == [n \in 0..N |-> IF n = 0 THEN PlanConflicts(F) \union PlanSkips(F, r)
                                        ELSE f[n - 1] \union DependentsOf(A, f[n - 1])]
             k == CHOOSE f : f = Body(f)
  <1>1. ForetoldSkips(F, r) = (k[N] \ PlanConflicts(F)) \union PlanSkips(F, r)
    BY DEF ForetoldSkips
  <1>2. N \in Nat
    BY FewPaths
  <1>3. Start(F, r) \in SUBSET Paths /\ \A c \in SUBSET Paths : Step(c) \in SUBSET Paths
    BY PlanPaths, ActionsFacts DEF DependentsOf, Start
  <1>4. \E f : f = Body(f)
    <2> DEFINE P == SUBSET Paths
               b == Start(F, r)
               G == [n \in 1..N |-> [c \in P |-> Step(c)]]
    <2> HIDE DEF N
    <2>1. G \in [1..N -> [P -> P]] /\ b \in P
      BY <1>3
    <2>2. \A n \in 1..N, c \in P : G[n][c] = Step(c)
      OBVIOUS
    <2> HIDE DEF P, G, b
    <2>3. Iterates(N, P, b, G)
      BY <1>2, <2>1, Recursion
    <2>4. PICK g \in [0..N -> P] : g[0] = b /\ \A n \in 1..N : g[n] = G[n][g[n - 1]]
      BY <2>3 DEF Iterates
    <2>5. ASSUME NEW n \in 0..N PROVE g[n] = Body(g)[n]
      <3>1. CASE n = 0
        BY <2>4, <3>1 DEF b, Start
      <3>2. CASE n # 0
        <4>1. n \in 1..N /\ n - 1 \in 0..N
          BY <1>2, <3>2
        <4>2. g[n] = Step(g[n - 1])
          BY <2>2, <2>4, <4>1
        <4> QED
          BY <3>2, <4>2
      <3> QED
        BY <3>1, <3>2
    <2>6. DOMAIN g = 0..N /\ g = [n \in 0..N |-> g[n]]
      OBVIOUS
    <2>7. g = Body(g)
      BY <2>5, <2>6
    <2> QED
      BY <2>7
  <1>5. k = Body(k)
    <2> HIDE DEF Body
    <2> QED
      BY <1>4
  <1> HIDE DEF k
  <1>6. k[0] = Start(F, r) /\ \A n \in 1..N : k[n] = Step(k[n - 1])
    <2>1. k = [n \in 0..N |-> IF n = 0 THEN Start(F, r) ELSE Step(k[n - 1])]
      BY <1>5 DEF Start
    <2> HIDE DEF Step, N
    <2>2. 0 \in 0..N /\ \A n \in 1..N : n \in 0..N /\ n # 0
      BY <1>2
    <2>3. \A n \in 0..N : k[n] = IF n = 0 THEN Start(F, r) ELSE Step(k[n - 1])
      BY <2>1
    <2> QED
      BY <2>2, <2>3
  <1>7. DOMAIN k = 0..N /\ k = [n \in 0..N |-> k[n]]
    <2>1. k = [n \in 0..N |-> IF n = 0 THEN Start(F, r) ELSE Step(k[n - 1])]
      BY <1>5 DEF Start
    <2> HIDE DEF Step, N
    <2> QED
      BY <2>1
  <1> HIDE DEF N, Step
  <1>8. \A n \in 0..N : k[n] \in SUBSET Paths
    <2> DEFINE Good == {n \in Nat : n <= N => k[n] \in SUBSET Paths}
    <2>1. 0 \in Good /\ Good \in SUBSET Nat
      BY <1>3, <1>6
    <2>2. ASSUME NEW n \in 1..N, n - 1 \in Good PROVE n \in Good
      <3>1. k[n - 1] \in SUBSET Paths
        BY <1>2, <2>2
      <3> QED
        BY <1>2, <1>3, <1>6, <3>1
    <2> SUFFICES ASSUME NEW m \in 0..N PROVE m \in Good
      BY <1>2
    <2>3. m \in Nat /\ \A n \in 1..m : n \in 1..N
      BY <1>2
    <2> HIDE DEF Good
    <2> QED
      BY <2>1, <2>2, <2>3, UpTo
  <1>9. k \in [0..N -> SUBSET Paths]
    BY <1>7, <1>8
  <1> QED
    BY <1>1, <1>6, <1>9 DEF Closes, Grown, N, Step

Third(F, r) == Grown(F, r, Grown(F, r, Grown(F, r, Start(F, r))))

\* Dependencies are three deep: the configuration, a new file, the manifest, a
\* refreshed file.
LEMMA ThreeDeep ==
    ASSUME NEW F, NEW r PROVE Grown(F, r, Third(F, r)) = Third(F, r)
  <1> DEFINE A == Actions(F, r)
             b0 == Start(F, r)
             b1 == Grown(F, r, b0)
             b2 == Grown(F, r, b1)
             b3 == Grown(F, r, b2)
             D == ActionPaths(F, r)
             deps(p) == DependsOn(F, r, p)
  <1>1. /\ D \subseteq Paths /\ Lock \notin Managed /\ Config \notin Managed /\ Config # Lock
        /\ deps(Lock) = D \intersect Managed
        /\ \A p \in Managed : deps(p) \in {{Lock}, {}, {Config}}
        /\ \A p \in Paths \ (Managed \union {Lock}) : deps(p) = {}
    BY Distinct, PlanPaths DEF DependsOn
  <1> HIDE DEF deps
  <1>2. \A b : Grown(F, r, b) = b \union {p \in D : deps(p) \intersect b # {}}
    BY ActionsFacts DEF Grown, DependentsOf, deps
  <1>3. /\ b1 = b0 \union {p \in D : deps(p) \intersect b0 # {}}
        /\ b2 = b1 \union {p \in D : deps(p) \intersect b1 # {}}
        /\ b3 = b2 \union {p \in D : deps(p) \intersect b2 # {}}
    BY <1>2
  <1> HIDE DEF b0, b1, b2, b3, D, A
  <1>4. Config \in b3 => Config \in b0
    BY <1>1, <1>3
  <1>5. ASSUME NEW p \in D, deps(p) \intersect b3 # {} PROVE p \in b3
    <2>1. CASE p \in Managed /\ deps(p) = {Config}
      BY <1>3, <1>4, <1>5, <2>1
    <2>2. CASE p = Lock
      <3>1. PICK q \in D \intersect Managed : q \in b3
        BY <1>1, <1>5, <2>2
      <3>2. SUFFICES ASSUME Lock \notin b3 PROVE FALSE
        BY <2>2
      <3>3. q \notin b2 /\ Lock \notin b2
        BY <1>1, <1>3, <1>5, <2>2, <3>1, <3>2
      <3>4. deps(q) \intersect b2 # {}
        BY <1>3, <3>1, <3>3
      <3>5. deps(q) = {Config} /\ Config \in b0
        BY <1>1, <1>3, <1>4, <3>1, <3>3, <3>4
      <3> QED
        BY <1>3, <3>1, <3>3, <3>5
    <2>3. CASE p \in Managed /\ deps(p) = {Lock}
      <3>1. SUFFICES ASSUME p \notin b3 PROVE FALSE
        OBVIOUS
      <3>2. Lock \in b3 /\ Lock \notin b2
        BY <1>3, <1>5, <2>3, <3>1
      <3>3. Lock \in D /\ (\E q \in D \intersect Managed : q \in b2) /\ deps(Lock) \intersect b1 = {}
        BY <1>1, <1>3, <3>2
      <3>4. PICK q \in D \intersect Managed : q \in b2
        BY <3>3
      <3>5. q \notin b1 /\ deps(q) \intersect b1 # {}
        BY <1>1, <1>3, <3>3, <3>4
      <3>6. deps(q) = {Config} /\ Config \in b0
        BY <1>1, <1>3, <1>4, <3>2, <3>4, <3>5
      <3> QED
        BY <1>3, <3>4, <3>5, <3>6
    <2> QED
      BY <1>1, <1>5, <2>1, <2>2, <2>3
  <1>6. Grown(F, r, b3) = b3
    BY <1>2, <1>5
  <1> QED
    BY <1>6 DEF Third, b3, b2, b1, b0

LEMMA Foretells ==
    ASSUME NEW F, NEW r
    PROVE  ForetoldSkips(F, r) = (Third(F, r) \ PlanConflicts(F)) \union PlanSkips(F, r)
  <1> DEFINE N == Cardinality(Paths)
  <1>1. N \in Nat /\ N >= 3
    BY FewPaths
  <1> HIDE DEF N
  <1>2. Closes(F, r)
    BY ClosesAlways
  <1>3. PICK b \in [0..N -> SUBSET Paths] :
          /\ b[0] = Start(F, r)
          /\ \A n \in 1..N : b[n] = Grown(F, r, b[n - 1])
          /\ ForetoldSkips(F, r) = (b[N] \ PlanConflicts(F)) \union PlanSkips(F, r)
    BY <1>2 DEF Closes, N
  <1>4. b[3] = Third(F, r)
    <2>1. 1 \in 1..N /\ 2 \in 1..N /\ 3 \in 1..N /\ 1 - 1 = 0 /\ 2 - 1 = 1 /\ 3 - 1 = 2
      BY <1>1
    <2>2. b[1] = Grown(F, r, b[0]) /\ b[2] = Grown(F, r, b[1]) /\ b[3] = Grown(F, r, b[2])
      BY <1>3, <2>1
    <2> QED
      BY <1>3, <2>2 DEF Third
  <1>5. b[N] = Third(F, r)
    <2> DEFINE Good == {n \in Nat : n <= N - 3 => b[n + 3] = Third(F, r)}
    <2>1. 0 \in Good /\ Good \in SUBSET Nat
      BY <1>4
    <2>2. ASSUME NEW n \in 1..N - 3, n - 1 \in Good PROVE n \in Good
      <3>1. n - 1 + 3 = n + 2 /\ n - 1 <= N - 3 /\ n + 3 \in 1..N /\ n + 3 - 1 = n + 2
        BY <1>1
      <3>2. b[n + 2] = Third(F, r)
        BY <2>2, <3>1
      <3>3. b[n + 3] = Grown(F, r, b[n + 2])
        BY <1>3, <3>1
      <3> QED
        BY <3>2, <3>3, ThreeDeep
    <2>3. N - 3 \in Nat
      BY <1>1
    <2> HIDE DEF Good
    <2>4. N - 3 \in Good
      BY <2>1, <2>2, <2>3, UpTo
    <2> USE DEF Good
    <2> QED
      BY <1>1, <2>3, <2>4
  <1> QED
    BY <1>3, <1>5

\* The three passes of an apply that nothing disturbs block the same paths.
LEMMA ForetoldPrepare ==
    ASSUME Shape, DiskOK, PlanOK, NEW dirty \in SUBSET Paths, PrepareStep(dirty), ~Over
    PROVE  ForetoldOK'
  <1>1. /\ pc = "prepare" /\ job.command = "upgrade" /\ job.wrote = <<>> /\ release' = release
        /\ Changes({"acts", "conflicts", "skipped", "blocked", "queue", "disturbed"})
        /\ job'.acts = Kept(dirty)
        /\ job'.conflicts = job.conflicts \union dirty \union Unsafes(dirty)
        /\ job'.skipped = job.skipped \union Skip1 \union Skip2(dirty) \union Skip3(dirty)
        /\ job'.blocked = Blocked2(dirty) \union Skip3(dirty)
        /\ job'.queue = WriteOrder(Kept(dirty), Left(dirty) \ (Unsafes(dirty) \union Skip3(dirty)))
        /\ job'.disturbed = (job.disturbed \/ dirty # {})
    BY PrepareEffect
  <1>2. /\ job'.before = job.before /\ job'.wrote = <<>> /\ Planned' = Planned
        /\ Foretold' = Foretold /\ ForetoldSkips(job.before, release)' = ForetoldSkips(job.before, release)
    BY <1>1 DEF Changes, Fields, Planned, Foretold
  <1>3. SUFFICES ASSUME ~job'.disturbed, job.before[Config] # Torn PROVE ForetoldOK'
    BY <1>2 DEF ForetoldOK
  <1>4. ~job.disturbed /\ dirty = {}
    BY <1>1, <1>3
  <1> DEFINE F == job.before
             r == release
             D == DOMAIN job.acts
             Dep(b) == {p \in D : DependsOn(F, r, p) \intersect b # {}}
             C == PlanConflicts(F)
             S == PlanSkips(F, r)
             b0 == Start(F, r)
             b1 == Grown(F, r, b0)
             b2 == Grown(F, r, b1)
             b3 == Grown(F, r, b2)
  <1>5. /\ D = ActionPaths(F, r) /\ D \subseteq Paths
        /\ \A p \in D : job.acts[p].deps = DependsOn(F, r, p)
        /\ job.conflicts = C /\ job.skipped = S /\ job.blocked = C \union S
    BY <1>1, PlanPaths DEF PlanOK, Planned
  <1>6. \A b : Grown(F, r, b) = b \union Dep(b)
    BY <1>5, ActionsFacts DEF Grown, DependentsOf
  <1>7. b3 = Third(F, r) /\ Grown(F, r, b3) = b3
    BY ThreeDeep DEF Third
  <1>8. /\ b0 = C \union S /\ b1 = b0 \union Dep(b0) /\ b2 = b1 \union Dep(b1)
        /\ b3 = b2 \union Dep(b2) /\ Dep(b3) \subseteq b3
    <2>1. b0 = C \union S
      BY DEF Start
    <2> HIDE DEF Dep, b0
    <2>2. b1 = b0 \union Dep(b0)
      BY <1>6
    <2> HIDE DEF b1
    <2>3. b2 = b1 \union Dep(b1)
      BY <1>6
    <2> HIDE DEF b2
    <2>4. b3 = b2 \union Dep(b2)
      BY <1>6
    <2> HIDE DEF b3
    <2>5. Dep(b3) \subseteq b3
      BY <1>6, <1>7
    <2> QED
      BY <2>1, <2>2, <2>3, <2>4, <2>5
  <1>9. ForetoldSkips(F, r) = (b3 \ C) \union S
    BY <1>7, Foretells
  <1> HIDE DEF F, r, C, S, b0, b1, b2, b3
  <1>10. \A T \in SUBSET D : \A b : DependentsOf(Restrict(job.acts, T), b)
                                  = {p \in T \ b : DependsOn(F, r, p) \intersect b # {}}
    BY <1>5, RestrictFacts DEF DependentsOf
  <1>11. Skip1 = Dep(b0) \ b0
    BY <1>5, <1>8 DEF Skip1, DependentsOf
  <1>12. First = D \ b1 /\ Blocked1(dirty) = b1
    BY <1>4, <1>5, <1>8, <1>11 DEF First, Blocked1
  <1>13. Skip2(dirty) = Dep(b1) \ b1
    BY <1>10, <1>12 DEF Skip2
  <1>14. Left(dirty) = D \ b2
    BY <1>8, <1>12, <1>13 DEF Left
  <1>15. Unsafes(dirty) = {}
    <2> SUFFICES ASSUME NEW p \in Left(dirty) PROVE ~Unsafe(Kept(dirty), p)
      BY DEF Unsafes
    <2>1. p \in D /\ Kept(dirty)[p] = job.acts[p]
      BY <1>14, RestrictFacts DEF Kept
    <2>2. JobOK /\ job.touched = {} /\ p \in Paths
      BY <1>4, <1>5, <2>1 DEF Shape, JobOK
    <2>3. ActOK(p)
      BY <2>1, <2>2 DEF JobOK
    <2>4. files[p] = Expected(p)
      BY <1>1, <2>2 DEF DiskOK
    <2>5. files[p] = job.before[p]
      BY <1>1, <2>4, EmptyFacts DEF Expected
    <2> QED
      BY <1>3, <2>1, <2>3, <2>5 DEF Unsafe, ActOK
  <1>16. Blocked2(dirty) = b2
    BY <1>8, <1>12, <1>13, <1>15 DEF Blocked2
  <1>17. Skip3(dirty) = Dep(b2) \ b2
    BY <1>10, <1>14, <1>16 DEF Skip3, Kept
  <1>18. job'.conflicts = C
    BY <1>1, <1>4, <1>5, <1>15
  <1>19. job'.blocked = b3
    BY <1>1, <1>8, <1>16, <1>17
  <1>20. job'.skipped = (b3 \ C) \union S
    BY <1>1, <1>5, <1>8, <1>11, <1>13, <1>17
  <1>21. Foretold = b3
    BY <1>8, <1>9 DEF Foretold, F, r, C
  <1>22. Range(job'.queue) = D \ b3
    <2>1. Left(dirty) \ (Unsafes(dirty) \union Skip3(dirty)) = D \ b3
      BY <1>8, <1>14, <1>15, <1>17
    <2>2. D \ b3 \in SUBSET Paths
      BY <1>5
    <2> QED
      BY <1>1, <2>1, <2>2, WriteOrderFacts
  <1>23. Handled' = D \ b3 /\ Planned = D
    BY <1>2, <1>5, <1>22, EmptyFacts DEF Handled, Planned, F, r
  <1>24. ASSUME NEW p \in D \ b3 PROVE job'.acts[p].deps \intersect b3 = {}
    <2>1. p \in Left(dirty)
      BY <1>8, <1>14
    <2>2. job'.acts[p] = job.acts[p]
      BY <1>1, <2>1, RestrictFacts DEF Kept
    <2> QED
      BY <1>5, <1>8, <2>2
  <1> QED
    BY <1>2, <1>9, <1>18, <1>19, <1>20, <1>21, <1>23, <1>24 DEF ForetoldOK, F, r, C

LEMMA ForetoldNext ==
    ASSUME Shape, DiskOK, PlanOK, ForetoldOK, [Next]_vars PROVE ForetoldOK'
  <1>1. CASE Over
    BY <1>1, OverShape DEF ForetoldOK
  <1>2. CASE PlanUpgrade
    BY <1>2, PlanUpgradeEffect DEF ForetoldOK
  <1>3. CASE \E yes, guidance \in BOOLEAN : PlanInit(yes, guidance)
    BY <1>3, PlanInitEffect DEF ForetoldOK
  <1>4. CASE Applying /\ ~Over
    <2>1. /\ job'.before = job.before /\ job'.command = job.command /\ job'.acts = job.acts
          /\ Planned' = Planned /\ Foretold' = Foretold
          /\ ForetoldSkips(job.before, release)' = ForetoldSkips(job.before, release)
      BY <1>4 DEF Applying, Planned, Foretold
    <2>2. SUFFICES ASSUME job.command = "upgrade", ~job'.disturbed, job.before[Config] # Torn,
                          pc' # "prepare"
                   PROVE  ForetoldOK'
      BY <2>1 DEF ForetoldOK
    <2>3. CASE RejectChanged \/ WriteFails
      BY <1>4, <2>2, <2>3, RejectEffect
    <2>4. CASE UserNext
      <3>1. PICK p \in Paths, c \in (UNION {Contents(q) : q \in Paths}) \union {Absent, Torn} :
                  c \in Contents(p) \union {Absent, Torn} /\ Touch(p, c)
        BY <2>4, UserEffect
      <3> QED
        BY <1>4, <2>2, <3>1, TouchEffect
    <2>5. CASE OpenCreate \/ Compare \/ Truncate \/ Finish \/ UNCHANGED vars
      <3>1. /\ job'.conflicts = job.conflicts /\ job'.skipped = job.skipped
            /\ job'.blocked = job.blocked /\ job'.queue = job.queue /\ job'.wrote = job.wrote
            /\ job'.disturbed = job.disturbed /\ pc # "prepare"
        <4>1. CASE OpenCreate \/ Compare \/ Truncate
          BY <4>1 DEF OpenCreate, Compare, Truncate, MayWrite
        <4>2. CASE Finish
          BY <4>2 DEF Finish, Shape, JobOK, Fields
        <4>3. CASE UNCHANGED vars
          BY <2>2, <4>3 DEF vars
        <4> QED
          BY <2>5, <4>1, <4>2, <4>3
      <3> QED
        BY <2>1, <2>2, <3>1 DEF ForetoldOK, Handled
    <2>6. CASE Written
      <3>1. /\ Changes({"queue", "wrote"}) /\ Allowed /\ pc # "idle" /\ pc # "prepare"
            /\ job'.wrote = Append(job.wrote, Now) /\ job'.queue = Tail(job.queue)
        BY <2>6, WrittenEffect DEF Written, Rename, Fill
      <3>2. JobOK /\ job.queue # <<>>
        BY <3>1 DEF Shape, Allowed
      <3>3. /\ Range(job.queue) = Range(job'.queue) \union {Now}
            /\ Range(job'.wrote) = Range(job.wrote) \union {Now}
        BY <3>1, <3>2, NowFacts, AppendFacts DEF JobOK
      <3>4. /\ job'.conflicts = job.conflicts /\ job'.skipped = job.skipped
            /\ job'.blocked = job.blocked /\ job'.disturbed = job.disturbed
        BY <3>1 DEF Changes, Fields
      <3>5. Handled' = Handled
        BY <3>3 DEF Handled
      <3> QED
        BY <2>1, <2>2, <3>1, <3>4, <3>5 DEF ForetoldOK
    <2>7. CASE PassOver
      <3>1. /\ Changes({"queue", "skipped", "blocked"}) /\ pc = "write" /\ job.queue # <<>>
            /\ Now \in job.blocked \/ Current.deps \intersect job.blocked # {}
        BY <2>7, PassOverEffect
      <3>2. ~job.disturbed
        BY <2>2, <3>1 DEF Changes, Fields
      <3>3. Now \in Handled
        BY <3>1, NowFacts DEF Handled, Shape
      <3>4. Now \notin job.blocked /\ job.acts[Now].deps \intersect job.blocked = {}
        BY <2>2, <3>1, <3>2, <3>3 DEF ForetoldOK
      <3> QED
        BY <3>1, <3>4 DEF Current
    <2> QED
      BY <1>4, <2>3, <2>4, <2>5, <2>6, <2>7, StepKinds, <1>2, <1>3, ForetoldPrepare
  <1> QED
    BY <1>1, <1>2, <1>3, <1>4, StepKinds, ForetoldPrepare

LEMMA ForetoldHolds ==
    ASSUME Shape, ForetoldOK PROVE PlanForetells
  <1>1. SUFFICES ASSUME pc = "idle", job.outcome \in Reports, ~job.disturbed,
                        job.command = "upgrade", job.before[Config] # Torn
                 PROVE  /\ job.skipped = ForetoldSkips(job.before, release)
                        /\ Range(job.wrote) = ActionPaths(job.before, release)
                                                \ (job.skipped \union job.conflicts)
    BY DEF PlanForetells, Undisturbed
  <1>2. Handled = Range(job.wrote)
    BY <1>1, EmptyFacts DEF Handled, Shape, PhaseOK
  <1> QED
    BY <1>1, <1>2 DEF ForetoldOK, Foretold, Planned

LEMMA AlwaysForetold == Spec => [](Shape /\ ForetoldOK)
  <1>1. Init => ForetoldOK
    BY DEF Init, ForetoldOK, NoJob
  <1>2. Shape /\ DiskOK /\ PlanOK /\ ForetoldOK /\ [Next]_vars => ForetoldOK'
    BY ForetoldNext
  <1> QED
    BY <1>1, <1>2, AlwaysGroup, PTL DEF Spec

\* An apply that nothing disturbed writes and skips what PlanSkippedActions
\* and the plan said before anything was written, although the plan closes the
\* skips in one go and Apply in three passes (actionableSubset twice, then
\* filterPreparedWritesByDependencies) and once more while it writes.
THEOREM PlansForetell == Spec => []PlanForetells
  BY AlwaysForetold, ForetoldHolds, PTL

-----------------------------------------------------------------------------
(* A clean report leaves nothing to do.                                    *)

LEMMA FreshIs ==
    ASSUME NEW p \in Owned, NEW guidance \in BOOLEAN
    PROVE  InitTarget(p, guidance) = FreshSetup(release, p)
  BY Distinct DEF Owned, InitTarget, FreshSetup

LEMMA CleanPrepare ==
    ASSUME Shape, PlanOK, NEW dirty \in SUBSET Paths, PrepareStep(dirty), ~Over PROVE CleanOK'
  <1>1. /\ pc = "prepare" /\ job.command = "upgrade" /\ job.wrote = <<>> /\ release' = release
        /\ Changes({"acts", "conflicts", "skipped", "blocked", "queue", "disturbed"})
        /\ job'.conflicts = job.conflicts \union dirty \union Unsafes(dirty)
        /\ job'.skipped = job.skipped \union Skip1 \union Skip2(dirty) \union Skip3(dirty)
        /\ job'.blocked = Blocked2(dirty) \union Skip3(dirty)
        /\ job'.queue = WriteOrder(Kept(dirty), Left(dirty) \ (Unsafes(dirty) \union Skip3(dirty)))
    BY PrepareEffect
  <1>2. /\ job'.before = job.before /\ job'.wrote = <<>> /\ Planned' = Planned
        /\ job'.command = "upgrade" /\ Range(job'.wrote) = {}
    BY <1>1, EmptyFacts DEF Changes, Fields, Planned
  <1>3. SUFFICES ASSUME job'.conflicts = {}, job'.skipped = {} PROVE CleanOK'
    BY DEF CleanOK, Clean
  <1>4. /\ PlanConflicts(job.before) = {} /\ PlanSkips(job.before, release) = {}
        /\ job.blocked = {} /\ DOMAIN job.acts = Planned /\ Planned \subseteq Paths
    BY <1>1, <1>3, PlanPaths DEF PlanOK, Planned
  <1>5. Skip1 = {} /\ Skip2(dirty) = {} /\ Skip3(dirty) = {} /\ Unsafes(dirty) = {} /\ dirty = {}
    BY <1>1, <1>3
  <1>6. job'.blocked = {} /\ Left(dirty) = Planned
    BY <1>1, <1>4, <1>5 DEF Blocked2, Blocked1, Left, First
  <1>7. Range(job'.queue) = Planned
    <2>1. Left(dirty) \ (Unsafes(dirty) \union Skip3(dirty)) = Planned
      BY <1>5, <1>6
    <2> QED
      BY <1>1, <1>4, <2>1, WriteOrderFacts
  <1> QED
    BY <1>1, <1>2, <1>4, <1>6, <1>7 DEF CleanOK, Handled

LEMMA CleanPlanInit ==
    ASSUME Shape, NEW yes \in BOOLEAN, NEW guidance \in BOOLEAN, PlanInit(yes, guidance)
    PROVE  CleanOK'
  <1> DEFINE T == InitTargets(guidance)
  <1>1. T \subseteq Paths
    BY DEF InitTargets
  <1>2. /\ job'.command = "init" /\ job'.blocked = {} /\ job'.before = files /\ release' = release
        /\ job'.acts = [p \in T |-> InitAction(p, guidance)] /\ job'.wrote = <<>>
        /\ job'.queue = Only(InitOrder, T)
    BY PlanInitEffect
  <1>3. DOMAIN job'.acts = T /\ \A p \in T : job'.acts[p].next = InitTarget(p, guidance)
    BY <1>2 DEF InitAction
  <1>4. Handled' = T
    <2> HIDE DEF T
    <2>1. Range(job'.queue) = T /\ Range(job'.wrote) = {}
      BY <1>1, <1>2, InitQueue, EmptyFacts
    <2> QED
      BY <2>1 DEF Handled
  <1>5. \A p \in Owned : p \in Paths
    BY PathCases DEF Owned
  <1>6. ASSUME NEW p \in Owned
        PROVE  IF p \in T THEN job'.acts[p].next = FreshSetup(release, p)
                          ELSE job'.before[p] = FreshSetup(release, p)
    BY <1>2, <1>3, <1>5, FreshIs DEF InitTargets
  <1> HIDE DEF T
  <1> QED
    BY <1>2, <1>3, <1>4, <1>6 DEF CleanOK, FreshSetup

LEMMA CleanNext ==
    ASSUME Shape, PlanOK, CleanOK, [Next]_vars PROVE CleanOK'
  <1>1. CASE Over
    BY <1>1, OverShape DEF CleanOK
  <1>2. CASE PlanUpgrade
    BY <1>2, PlanUpgradeEffect DEF CleanOK
  <1>3. CASE \E yes, guidance \in BOOLEAN : PlanInit(yes, guidance)
    BY <1>3, CleanPlanInit
  <1>4. CASE Applying /\ ~Over
    <2>1. /\ job'.before = job.before /\ job'.command = job.command /\ job'.acts = job.acts
          /\ Planned' = Planned /\ release' = release
      BY <1>4 DEF Applying, Planned
    <2>2. SUFFICES ASSUME Clean', job.command = "upgrade" => pc' # "prepare",
                          job.command \in {"upgrade", "init"}
                   PROVE  CleanOK'
      BY <2>1 DEF CleanOK
    <2>3. CASE RejectChanged \/ WriteFails
      BY <1>4, <2>2, <2>3, RejectEffect DEF Clean
    <2>4. CASE OpenCreate \/ Compare \/ Truncate \/ Finish \/ UNCHANGED vars \/ UserNext
      <3>1. /\ job'.conflicts = job.conflicts /\ job'.skipped = job.skipped
            /\ job'.blocked = job.blocked /\ job'.queue = job.queue /\ job'.wrote = job.wrote
            /\ job.command = "upgrade" => pc # "prepare"
        <4>1. CASE OpenCreate \/ Compare \/ Truncate
          BY <4>1 DEF OpenCreate, Compare, Truncate, MayWrite, Shape, PhaseOK
        <4>2. CASE Finish
          BY <4>2 DEF Finish, Shape, JobOK, Fields
        <4>3. CASE UNCHANGED vars
          BY <2>2, <4>3 DEF vars
        <4>4. CASE UserNext
          <5>1. PICK p \in Paths, c \in (UNION {Contents(q) : q \in Paths}) \union {Absent, Torn} :
                      c \in Contents(p) \union {Absent, Torn} /\ Touch(p, c)
            BY <4>4, UserEffect
          <5> QED
            BY <1>4, <2>2, <5>1, TouchEffect DEF Changes, Fields
        <4> QED
          BY <2>4, <4>1, <4>2, <4>3, <4>4
      <3>2. Clean /\ Handled' = Handled
        BY <2>2, <3>1 DEF Clean, Handled
      <3> QED
        BY <2>1, <2>2, <3>1, <3>2 DEF CleanOK, FreshSetup
    <2>5. CASE Written
      <3>1. /\ Changes({"queue", "wrote"}) /\ Allowed /\ pc # "idle" /\ pc # "prepare"
            /\ job'.wrote = Append(job.wrote, Now) /\ job'.queue = Tail(job.queue)
        BY <2>5, WrittenEffect DEF Written, Rename, Fill
      <3>2. JobOK /\ job.queue # <<>>
        BY <3>1 DEF Shape, Allowed
      <3>3. /\ Range(job.queue) = Range(job'.queue) \union {Now}
            /\ Range(job'.wrote) = Range(job.wrote) \union {Now}
        BY <3>1, <3>2, NowFacts, AppendFacts DEF JobOK
      <3>4. /\ job'.conflicts = job.conflicts /\ job'.skipped = job.skipped
            /\ job'.blocked = job.blocked
        BY <3>1 DEF Changes, Fields
      <3>5. Clean /\ Handled' = Handled
        BY <2>2, <3>3, <3>4 DEF Clean, Handled
      <3> QED
        BY <2>1, <2>2, <3>1, <3>4, <3>5 DEF CleanOK, FreshSetup
    <2>6. CASE PassOver
      <3>1. /\ Changes({"queue", "skipped", "blocked"}) /\ pc = "write"
            /\ Now \in job.blocked \/ Current.deps \intersect job.blocked # {}
            /\ job.skipped \subseteq job'.skipped
        BY <2>6, PassOverEffect
      <3>2. Clean
        BY <2>2, <3>1 DEF Clean, Changes, Fields
      <3>3. job.blocked = {}
        BY <2>2, <3>1, <3>2 DEF CleanOK
      <3> QED
        BY <3>1, <3>3
    <2> QED
      BY <1>2, <1>3, <1>4, <2>3, <2>4, <2>5, <2>6, StepKinds, CleanPrepare
  <1> QED
    BY <1>1, <1>2, <1>3, <1>4, StepKinds, CleanPrepare

\* A configuration of this setup version, the scaffold of this release and the
\* manifest that lists it.
UpToDate(G, r) ==
    /\ IsRecord(G[Config]) /\ G[Config].setup # 0 /\ G[Config].caps \in {"none", "caps"}
    /\ G[Config].elsewhere = {}
    /\ G[Lock] = LockOf([m \in Managed |-> r])
    /\ \A m \in Managed : G[m] = Scaffold(r)

LEMMA UpToDateIsCurrent ==
    ASSUME NEW G, FilesOK(G), NEW r \in Releases, UpToDate(G, r)
    PROVE  PlanStatus(G, r) = "current"
  <1>1. /\ ConfigOf(G) = G[Config] /\ Loads(G) /\ ~Ambiguous(G) /\ G[Config] # Absent
    BY DEF UpToDate, ConfigOf, Loads, Ambiguous, IsRecord
  <1>2. LockValid(G) /\ LockUsable(G)
    <2>1. G[Lock] \in LockT /\ G[Lock].text = 0
      BY DEF UpToDate, LockOf, LockT
    <2> QED
      BY <2>1, Records, PathCases, ContentsOf DEF LockValid, LockUsable
  <1>3. PlanConflicts(G) = {}
    BY <1>1, <1>2 DEF PlanConflicts, UpToDate
  <1>4. \A m \in Managed : ManagedTarget(G, r, m) = Scaffold(r) /\ G[m] = Scaffold(r)
    BY DEF ManagedTarget, UpToDate
  <1>5. PlanSkips(G, r) = {}
    BY <1>1, <1>4 DEF PlanSkips, Customized
  <1>6. ConfigTarget(G) = G[Config]
    BY <1>1 DEF ConfigTarget, UpToDate
  <1>7. LockTarget(G, r) = G[Lock]
    <2>1. [m \in Managed |-> IF Customized(G, r, m) THEN 0 ELSE r] = [m \in Managed |-> r]
      BY <1>4 DEF Customized
    <2> QED
      BY <1>2, <2>1 DEF LockTarget, UpToDate
  <1>8. GitignoreTarget(G) = G[Gitignore] /\ InstructionsTarget(G) = G[Instructions]
    BY <1>1 DEF GitignoreTarget, InstructionsTarget, UpToDate
  <1>9. ActionPaths(G, r) = {}
    <2> SUFFICES ASSUME NEW p \in Paths PROVE Target(G, r, p) = G[p]
      BY DEF ActionPaths
    <2>1. CASE p \in Managed
      BY <1>4, <2>1, TargetCases
    <2> QED
      BY <1>6, <1>7, <1>8, <2>1, TargetCases, PathCases
  <1>10. ForetoldSkips(G, r) = {}
    <2>1. Start(G, r) = {}
      BY <1>3, <1>5 DEF Start
    <2>2. Grown(G, r, {}) = {}
      BY DEF Grown, DependentsOf
    <2>3. Third(G, r) = {}
      BY <2>1, <2>2 DEF Third
    <2> QED
      BY <1>3, <1>5, <2>3, Foretells
  <1> QED
    BY <1>3, <1>9, <1>10 DEF PlanStatus

\* All of a plan without conflicts and skips.
LEMMA PlanDone ==
    ASSUME NEW F, FilesOK(F), NEW G, NEW r \in Releases,
           PlanConflicts(F) = {}, PlanSkips(F, r) = {},
           \A p \in Paths : G[p] = Target(F, r, p)
    PROVE  UpToDate(G, r)
  <1>1. Loads(F) /\ F[Config] # Absent
    BY DEF PlanConflicts, Loads
  <1> DEFINE c == ConfigOf(F)
             schema == IF c.caps = "max" THEN [c EXCEPT !.caps = "caps"] ELSE c
             new == [schema EXCEPT !.setup = 1,
                                   !.caps = IF @ = "none" THEN "caps" ELSE @,
                                   !.refs = Managed \ c.elsewhere]
  <1>2. ~Ambiguous(F) /\ c.elsewhere = {} /\ LockUsable(F)
    BY <1>1, PathCases DEF PlanConflicts
  <1>3. \A m \in Managed : ManagedTarget(F, r, m) = Scaffold(r) /\ ~Customized(F, r, m)
    BY <1>1 DEF PlanSkips, Customized
  <1>4. \A m \in Managed : G[m] = Scaffold(r)
    BY <1>3, TargetCases, PathCases
  <1>5. G[Lock] = LockOf([m \in Managed |-> r])
    <2>1. [m \in Managed |-> IF Customized(F, r, m) THEN 0 ELSE r] = [m \in Managed |-> r]
      BY <1>3
    <2> QED
      BY <1>2, <2>1, TargetCases, PathCases DEF LockTarget
  <1>6. c \in ConfigT /\ c.caps \in {"none", "caps", "max"}
    BY <1>1, <1>2, ConfigIs DEF Loads, Ambiguous, ConfigT, Caps
  <1>7. G[Config] = ConfigTarget(F)
    BY TargetCases, PathCases
  <1>8. c.setup # 0 => c = F[Config]
    BY DEF ConfigOf, EmptyConfig
  <1>9. G[Config] = (IF c.setup # 0 THEN schema ELSE new)
    BY <1>2, <1>7, <1>8 DEF ConfigTarget
  <1> HIDE DEF c
  <1>10. /\ schema \in ConfigT /\ schema.caps \in {"none", "caps"} /\ schema.setup = c.setup
         /\ schema.elsewhere = c.elsewhere
    BY <1>6 DEF ConfigT, Caps
  <1> HIDE DEF schema
  <1>11. new \in ConfigT /\ new.caps = "caps" /\ new.setup = 1 /\ new.elsewhere = c.elsewhere
    BY <1>2, <1>10 DEF ConfigT, Caps
  <1>12. /\ G[Config] \in ConfigT /\ G[Config].setup # 0 /\ G[Config].caps \in {"none", "caps"}
         /\ G[Config].elsewhere = {}
    BY <1>2, <1>9, <1>10, <1>11
  <1>13. IsRecord(G[Config])
    BY <1>12, Records, PathCases, ContentsOf
  <1> QED
    BY <1>4, <1>5, <1>12, <1>13 DEF UpToDate

LEMMA CleanIs ==
    ASSUME Shape, DiskOK, PlanOK, CleanOK PROVE CleanMeansCurrent
  <1>1. SUFFICES ASSUME pc = "idle", job.outcome \in {"applied", "current"}, job.touched = {}
                 PROVE  PlanStatus(files, release) = "current"
    BY DEF CleanMeansCurrent
  <1>2. /\ Clean /\ job.queue = <<>> /\ job.command \in {"upgrade", "init"} /\ FilesOK(files)
        /\ FilesOK(job.before) /\ release \in Releases
    BY <1>1, BoundsAssumption DEF Shape, PhaseOK, JobOK, Clean, Reports, Releases
  <1>3. Handled = Range(job.wrote)
    BY <1>2, EmptyFacts DEF Handled
  <1>4. \A p \in Paths : files[p] = IF p \in Range(job.wrote) THEN job.acts[p].next ELSE job.before[p]
    BY <1>1, <1>2 DEF DiskOK, Expected
  <1>5. CASE job.command = "upgrade"
    <2>1. /\ PlanConflicts(job.before) = {} /\ PlanSkips(job.before, release) = {}
          /\ Range(job.wrote) = ActionPaths(job.before, release)
      BY <1>1, <1>2, <1>3, <1>5 DEF CleanOK, Planned
    <2>2. Loads(job.before)
      BY <2>1 DEF PlanConflicts
    <2>3. Range(job.wrote) \subseteq DOMAIN job.acts
      BY DEF Shape, JobOK
    <2>4. ASSUME NEW p \in Paths PROVE files[p] = Target(job.before, release, p)
      <3>1. CASE p \in Range(job.wrote)
        BY <1>4, <1>5, <2>3, <3>1 DEF PlanOK
      <3>2. CASE p \notin Range(job.wrote)
        BY <1>4, <2>1, <2>2, <3>2 DEF ActionPaths
      <3> QED
        BY <3>1, <3>2
    <2>5. UpToDate(files, release)
      BY <1>2, <2>1, <2>4, PlanDone
    <2> QED
      BY <1>2, <2>5, UpToDateIsCurrent
  <1>6. CASE job.command = "init"
    <2>1. \A p \in Owned : p \in Paths /\ files[p] = FreshSetup(release, p)
      BY <1>2, <1>3, <1>4, <1>6, PathCases DEF CleanOK, Owned
    <2>2. /\ files[Config] = NewConfig /\ files[Lock] = LockOf([m \in Managed |-> release])
          /\ \A m \in Managed : files[m] = Scaffold(release)
      BY <2>1, Distinct DEF Owned, FreshSetup
    <2>3. NewConfig \in ConfigT
      BY DEF NewConfig, ConfigT, Caps
    <2>4. IsRecord(files[Config])
      BY <2>2, <2>3, Records, PathCases, ContentsOf
    <2>5. UpToDate(files, release)
      BY <2>2, <2>4 DEF UpToDate, NewConfig
    <2> QED
      BY <1>2, <2>5, UpToDateIsCurrent
  <1> QED
    BY <1>2, <1>5, <1>6

LEMMA AlwaysClean == Spec => [](Shape /\ DiskOK /\ PlanOK /\ CleanOK)
  <1>1. Init => CleanOK
    BY DEF Init, CleanOK, NoJob
  <1>2. Shape /\ PlanOK /\ CleanOK /\ [Next]_vars => CleanOK'
    BY CleanNext
  <1> QED
    BY <1>1, <1>2, AlwaysGroup, PTL DEF Spec

\* After a clean report, of an apply or of orc init, the next plan has nothing
\* to do, unless people or another release came between (ApplyStatus, and what
\* planner.plan compares).
THEOREM CleanIsCurrent == Spec => []CleanMeansCurrent
  BY AlwaysClean, CleanIs, PTL
=============================================================================
