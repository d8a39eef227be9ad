--------------------------- MODULE TerminalProofs ---------------------------
(* Proofs about the terminal, for every alphabet, prompt, output and size of *)
(* the pipes and of the readers' chunks: that the screen shows what was      *)
(* printed, that what is typed is read once, and that lines are run whole.   *)
EXTENDS Terminal, FiniteSetTheorems, SequenceTheorems, TLAPS

-----------------------------------------------------------------------------
(* Induction on the numbers, for a set of them, and what recursion makes.    *)

\* Induction: a set that has 0 and with each number the next has them all.  If not, the
\* numbers outside of it up to some n, each less one, would all be among the same but n.
LEMMA NatSetInduction ==
  ASSUME NEW S, 0 \in S, \A n \in Nat : n \in S => n+1 \in S
  PROVE \A n \in Nat : n \in S
<1> SUFFICES ASSUME NEW n \in Nat, n \notin S PROVE FALSE
  OBVIOUS
<1> DEFINE U == {m \in 0..n : m \notin S}
           V == U \ {n}
           f == [m \in U |-> m - 1]
<1>1. IsFiniteSet(U)
  <2>1. IsFiniteSet(0..n)  BY FS_Interval
  <2>2. U \in SUBSET (0..n)  OBVIOUS
  <2>3. QED  BY <2>1, <2>2, FS_Subset
<1>2. f \in Injection(U, V)
  <2>1. \A m \in U : m - 1 \in V
    <3> TAKE m \in U
    <3>1. m # 0 /\ m - 1 \in Nat /\ (m - 1) + 1 = m  OBVIOUS
    <3>2. m - 1 \notin S  BY <3>1
    <3>3. QED BY <3>1, <3>2
  <2>2. f \in [U -> V]  BY <2>1
  <2>3. \A a, b \in U : f[a] = f[b] => a = b  OBVIOUS
  <2>4. QED  BY <2>2, <2>3, Zenon DEF Injection, IsInjective
<1>3. n \in U  OBVIOUS
<1>4. V \in SUBSET U /\ V # U  BY <1>3
<1>5. IsFiniteSet(V) /\ Cardinality(V) <= Cardinality(U) /\ Cardinality(V) # Cardinality(U)
  BY <1>1, <1>4, FS_Subset
<1>6. Cardinality(U) <= Cardinality(V)
  BY <1>2, <1>5, FS_Injection
<1>7. Cardinality(U) \in Nat /\ Cardinality(V) \in Nat
  BY <1>1, <1>5, FS_CardinalityType
<1>8. QED BY <1>5, <1>6, <1>7

\* A function defined by recursion on its argument exists.
Turns(X) == [Nat -> [X -> X]]
Iterates(X, a, G, n) ==
    \E g \in [0..n -> X] : g[0] = a /\ \A i \in 1..n : g[i] = G[i][g[i - 1]]

\* A function that is defined by what it was one step before is there.
LEMMA Recursion ==
    ASSUME NEW X, NEW a \in X, NEW G \in Turns(X), NEW n \in Nat
    PROVE  Iterates(X, a, G, n)
<1>. USE DEF Turns, Iterates
<1>. DEFINE S == {k \in Nat : \E g \in [0..k -> X] :
                    g[0] = a /\ \A i \in 1..k : g[i] = G[i][g[i - 1]]}
<1>1. 0 \in S
  <2>. DEFINE g == [i \in 0..0 |-> a]
  <2>1. g \in [0..0 -> X] /\ g[0] = a /\ \A i \in 1..0 : g[i] = G[i][g[i - 1]]
    OBVIOUS
  <2>. QED
    BY <2>1
<1>2. ASSUME NEW k \in Nat, k \in S  PROVE k + 1 \in S
  <2>1. PICK g \in [0..k -> X] : g[0] = a /\ \A i \in 1..k : g[i] = G[i][g[i - 1]]
    BY <1>2
  <2>. DEFINE h == [i \in 0..k + 1 |-> IF i = k + 1 THEN G[k + 1][g[k]] ELSE g[i]]
  <2>2. G[k + 1][g[k]] \in X
    <3>1. g[k] \in X /\ k + 1 \in Nat
      BY <2>1
    <3>2. G[k + 1] \in [X -> X]
      BY <3>1
    <3>. QED
      BY <3>1, <3>2
  <2>3. h \in [0..k + 1 -> X]
    BY <2>1, <2>2
  <2>4. h[0] = a
    BY <2>1
  <2>5. \A i \in 1..k + 1 : h[i] = G[i][h[i - 1]]
    <3>. SUFFICES ASSUME NEW i \in 1..k + 1  PROVE h[i] = G[i][h[i - 1]]
      OBVIOUS
    <3>1. h[i - 1] = g[i - 1]
      OBVIOUS
    <3>2. CASE i = k + 1
      BY <3>1, <3>2
    <3>3. CASE i \in 1..k
      BY <3>1, <3>3, <2>1
    <3>. QED
      BY <3>2, <3>3
  <2>. HIDE DEF h
  <2>. QED
    BY <2>3, <2>4, <2>5
<1>. HIDE DEF S
<1>3. n \in S
  BY <1>1, <1>2, NatSetInduction
<1>. QED
  BY <1>3 DEF S

\* The least of some numbers is one of them.
LEMMA LeastIsThere ==
    ASSUME NEW I, I \subseteq Nat, I # {}
    PROVE  \E i \in I : \A j \in I : i <= j
<1>. DEFINE S == {n \in Nat : \A i \in I : n <= i}
<1>1. PICK some \in I : TRUE
  OBVIOUS
<1>2. 0 \in S
  OBVIOUS
<1>3. PICK n \in Nat : n \in S /\ n + 1 \notin S
  <2>. HIDE DEF S
  <2>1. some + 1 \in Nat /\ some + 1 \notin S
    BY <1>1 DEF S
  <2>2. CASE \A n \in Nat : n \in S => n + 1 \in S
    BY <1>2, <2>1, <2>2, NatSetInduction
  <2>. QED
    BY <2>2
<1>4. PICK i \in I : ~(n + 1 <= i)
  BY <1>3
<1>5. i = n
  BY <1>3, <1>4
<1>. QED
  BY <1>3, <1>5

-----------------------------------------------------------------------------
(* Sequences: the first of one, the rest of it, and one after the other.     *)

LEMMA FirstOfType ==
    ASSUME NEW S, NEW s \in Seq(S), NEW n \in 0..Len(s)
    PROVE  /\ FirstOf(s, n) \in Seq(S)
           /\ Len(FirstOf(s, n)) = n
           /\ \A i \in 1..n : FirstOf(s, n)[i] = s[i]
<1>1. \A i \in 1..n : s[i] \in S
  BY ElementOfSeq
<1>2. n \in Int /\ 1 \in Int
  OBVIOUS
<1>3. /\ SubSeq(s, 1, n) \in Seq(S)
      /\ Len(SubSeq(s, 1, n)) = IF 1 <= n THEN n - 1 + 1 ELSE 0
      /\ \A i \in 1..n - 1 + 1 : SubSeq(s, 1, n)[i] = s[1 + i - 1]
  BY <1>1, <1>2, SubSeqProperties
<1>. QED
  BY <1>3 DEF FirstOf

LEMMA FromType ==
    ASSUME NEW S, NEW s \in Seq(S), NEW n \in 0..Len(s)
    PROVE  /\ From(s, n + 1) \in Seq(S)
           /\ Len(From(s, n + 1)) = Len(s) - n
           /\ \A i \in 1..Len(s) - n : From(s, n + 1)[i] = s[n + i]
<1>1. \A i \in n + 1..Len(s) : s[i] \in S
  BY ElementOfSeq
<1>2. n + 1 \in Int /\ Len(s) \in Int
  OBVIOUS
<1>3. /\ SubSeq(s, n + 1, Len(s)) \in Seq(S)
      /\ Len(SubSeq(s, n + 1, Len(s))) = IF n + 1 <= Len(s) THEN Len(s) - (n + 1) + 1 ELSE 0
      /\ \A i \in 1..Len(s) - (n + 1) + 1 : SubSeq(s, n + 1, Len(s))[i] = s[(n + 1) + i - 1]
  BY <1>1, <1>2, SubSeqProperties
<1>4. PICK r : r = SubSeq(s, n + 1, Len(s))
  OBVIOUS
<1>5. r \in Seq(S) /\ Len(r) = Len(s) - n /\ \A i \in 1..Len(s) - n : r[i] = s[n + i]
  BY <1>3, <1>4
<1>. QED
  BY <1>4, <1>5, Zenon DEF From

LEMMA FromBeyond ==
    ASSUME NEW S, NEW s \in Seq(S), NEW n \in Nat, n >= Len(s)
    PROVE  From(s, n + 1) = << >>
<1>1. n + 1 \in Int /\ Len(s) \in Int /\ Len(s) < n + 1
  OBVIOUS
<1>. QED
  BY <1>1, SubSeqEmpty DEF From

LEMMA Cut ==
    ASSUME NEW S, NEW s \in Seq(S), NEW n \in 0..Len(s)
    PROVE  s = FirstOf(s, n) \o From(s, n + 1)
<1>1. /\ FirstOf(s, n) \in Seq(S)
      /\ Len(FirstOf(s, n)) = n
      /\ \A i \in 1..n : FirstOf(s, n)[i] = s[i]
  BY FirstOfType
<1>2. /\ From(s, n + 1) \in Seq(S)
      /\ Len(From(s, n + 1)) = Len(s) - n
      /\ \A i \in 1..Len(s) - n : From(s, n + 1)[i] = s[n + i]
  BY FromType
<1>. DEFINE t == FirstOf(s, n) \o From(s, n + 1)
<1>3. /\ t \in Seq(S)
      /\ Len(t) = n + (Len(s) - n)
      /\ \A i \in 1..n + (Len(s) - n) :
             t[i] = IF i <= n THEN FirstOf(s, n)[i] ELSE From(s, n + 1)[i - n]
  BY <1>1, <1>2, ConcatProperties
<1>. HIDE DEF t
<1>4. Len(s) = Len(t) /\ \A i \in 1..Len(s) : s[i] = t[i]
  BY <1>1, <1>2, <1>3
<1>5. s = t
  BY <1>3, <1>4, SeqEqual
<1>. QED
  BY <1>5 DEF t

\* What is taken of two sequences, one after the other, when it ends in the second.
LEMMA FirstOfBoth ==
    ASSUME NEW S, NEW s \in Seq(S), NEW t \in Seq(S), NEW n \in 0..Len(t)
    PROVE  FirstOf(s \o t, Len(s) + n) = s \o FirstOf(t, n)
<1>1. /\ s \o t \in Seq(S)
      /\ Len(s \o t) = Len(s) + Len(t)
      /\ \A i \in 1..Len(s) + Len(t) : (s \o t)[i] = IF i <= Len(s) THEN s[i] ELSE t[i - Len(s)]
  BY ConcatProperties
<1>2. /\ FirstOf(t, n) \in Seq(S)
      /\ Len(FirstOf(t, n)) = n
      /\ \A i \in 1..n : FirstOf(t, n)[i] = t[i]
  BY FirstOfType
<1>. DEFINE u == FirstOf(s \o t, Len(s) + n)
            v == s \o FirstOf(t, n)
<1>3. /\ u \in Seq(S) /\ Len(u) = Len(s) + n
      /\ \A i \in 1..Len(s) + n : u[i] = (s \o t)[i]
  <2>1. Len(s) + n \in 0..Len(s \o t)
    BY <1>1
  <2>. QED
    BY <1>1, <2>1, FirstOfType
<1>4. /\ v \in Seq(S) /\ Len(v) = Len(s) + n
      /\ \A i \in 1..Len(s) + n : v[i] = IF i <= Len(s) THEN s[i] ELSE FirstOf(t, n)[i - Len(s)]
  BY <1>2, ConcatProperties
<1>. HIDE DEF u, v
<1>5. ASSUME NEW i \in 1..Len(u)  PROVE u[i] = v[i]
  <2>1. CASE i <= Len(s)
    BY <1>1, <1>3, <1>4, <2>1
  <2>2. CASE ~(i <= Len(s))
    <3>1. i - Len(s) \in 1..n /\ i \in 1..Len(s) + n /\ i \in 1..Len(s) + Len(t)
      BY <1>3, <2>2
    <3>. QED
      BY <1>1, <1>2, <1>3, <1>4, <2>2, <3>1
  <2>. QED
    BY <2>1, <2>2
<1>6. Len(u) = Len(v)
  BY <1>3, <1>4
<1>7. u = v
  BY <1>3, <1>4, <1>5, <1>6, SeqEqual
<1>. QED
  BY <1>7 DEF u, v

\* What is left of two sequences, one after the other, when it starts in the first, or
\* where the second does.
LEMMA FromFirst ==
    ASSUME NEW S, NEW s \in Seq(S), NEW t \in Seq(S), NEW n \in 0..Len(s)
    PROVE  From(s \o t, n + 1) = From(s, n + 1) \o t
<1>1. /\ s \o t \in Seq(S)
      /\ Len(s \o t) = Len(s) + Len(t)
      /\ \A i \in 1..Len(s) + Len(t) : (s \o t)[i] = IF i <= Len(s) THEN s[i] ELSE t[i - Len(s)]
  BY ConcatProperties
<1>2. /\ From(s, n + 1) \in Seq(S)
      /\ Len(From(s, n + 1)) = Len(s) - n
      /\ \A i \in 1..Len(s) - n : From(s, n + 1)[i] = s[n + i]
  BY FromType
<1>. DEFINE u == From(s \o t, n + 1)
            v == From(s, n + 1) \o t
<1>3. /\ u \in Seq(S) /\ Len(u) = Len(s) + Len(t) - n
      /\ \A i \in 1..Len(s) + Len(t) - n : u[i] = (s \o t)[n + i]
  <2>1. n \in 0..Len(s \o t)
    BY <1>1
  <2>2. /\ u \in Seq(S) /\ Len(u) = Len(s \o t) - n
        /\ \A i \in 1..Len(s \o t) - n : u[i] = (s \o t)[n + i]
    BY <1>1, <2>1, FromType, ZenonT(60)
  <2>3. Len(s \o t) - n = Len(s) + Len(t) - n
    BY <1>1
  <2>. HIDE DEF u
  <2>. QED
    BY <2>2, <2>3, Zenon
<1>4. /\ v \in Seq(S) /\ Len(v) = (Len(s) - n) + Len(t)
      /\ \A i \in 1..(Len(s) - n) + Len(t) :
             v[i] = IF i <= Len(s) - n THEN From(s, n + 1)[i] ELSE t[i - (Len(s) - n)]
  <2>1. /\ v \in Seq(S) /\ Len(v) = Len(From(s, n + 1)) + Len(t)
        /\ \A i \in 1..Len(From(s, n + 1)) + Len(t) :
               v[i] = IF i <= Len(From(s, n + 1)) THEN From(s, n + 1)[i]
                      ELSE t[i - Len(From(s, n + 1))]
    BY <1>2, ConcatProperties
  <2>. QED
    BY <1>2, <2>1, Zenon
<1>. HIDE DEF u, v
<1>5. ASSUME NEW i \in 1..Len(u)  PROVE u[i] = v[i]
  <2>0. Len(s) \in Nat /\ Len(t) \in Nat
    OBVIOUS
  <2>1. n + i \in 1..Len(s) + Len(t) /\ i \in 1..Len(s) + Len(t) - n /\ i \in 1..(Len(s) - n) + Len(t)
    BY <1>3, <2>0
  <2>2. CASE i <= Len(s) - n
    <3>1. n + i <= Len(s) /\ i \in 1..Len(s) - n
      BY <2>0, <2>1, <2>2
    <3>. QED
      BY <1>1, <1>2, <1>3, <1>4, <2>1, <2>2, <3>1
  <2>3. CASE ~(i <= Len(s) - n)
    <3>1. ~(n + i <= Len(s)) /\ (n + i) - Len(s) = i - (Len(s) - n)
      BY <2>0, <2>1, <2>3
    <3>. QED
      BY <1>1, <1>3, <1>4, <2>1, <2>3, <3>1
  <2>. QED
    BY <2>2, <2>3
<1>6. Len(u) = Len(v)
  BY <1>3, <1>4
<1>7. u = v
  BY <1>3, <1>4, <1>5, <1>6, SeqEqual
<1>. QED
  BY <1>7 DEF u, v

LEMMA FromAll ==
    ASSUME NEW S, NEW s \in Seq(S)
    PROVE  /\ From(s, 1) = s /\ FirstOf(s, Len(s)) = s
           /\ FirstOf(s, 0) = << >> /\ From(s, Len(s) + 1) = << >>
<1>1. From(s, 1) = s /\ FirstOf(s, Len(s)) = s
  BY SubSeqFull DEF FirstOf, From
<1>2. FirstOf(s, 0) = << >>
  BY SubSeqEmpty DEF FirstOf
<1>. QED
  BY <1>1, <1>2, FromBeyond

LEMMA FromSecond ==
    ASSUME NEW S, NEW s \in Seq(S), NEW t \in Seq(S)
    PROVE  From(s \o t, Len(s) + 1) = t
<1>1. From(s \o t, Len(s) + 1) = From(s, Len(s) + 1) \o t
  BY FromFirst
<1>. QED
  BY <1>1, FromAll, ConcatEmptySeq

-----------------------------------------------------------------------------
(* Slices, joined one after the other.                                       *)

Then(s, t) == s \o t
With(s, e) == Append(s, e)
Joins(f, s) == f[0] = << >> /\ \A i \in 1..Len(s) : f[i] = Then(f[i - 1], s[i])

LEMMA ThenLaws ==
    ASSUME NEW B
    PROVE  /\ \A s, t \in Seq(B) : Then(s, t) \in Seq(B)
           /\ \A s \in Seq(B) : Then(s, << >>) = s /\ Then(<< >>, s) = s
           /\ \A s, t, u \in Seq(B) : Then(Then(s, t), u) = Then(s, Then(t, u))
<1>1. \A s, t \in Seq(B) : s \o t \in Seq(B)
  BY ConcatProperties
<1>2. \A s \in Seq(B) : s \o << >> = s /\ << >> \o s = s
  BY ConcatEmptySeq
<1>3. \A s, t, u \in Seq(B) : (s \o t) \o u = s \o (t \o u)
  BY ConcatAssociative
<1>. QED
  BY <1>1, <1>2, <1>3, Zenon DEF Then

\* FlattenSeq is what joining comes to.
LEMMA FlattenIsJoined ==
    ASSUME NEW B, NEW s \in Seq(Seq(B)), NEW f \in [0..Len(s) -> Seq(B)], Joins(f, s)
    PROVE  FlattenSeq(s) = f[Len(s)]
<1>. DEFINE n == Len(s)
            R(g) == [i \in 1..n |-> IF i = 1 THEN s[i] ELSE Then(g[i - 1], s[i])]
            flatten[i \in 1..n] == IF i = 1 THEN s[i] ELSE Then(flatten[i - 1], s[i])
<1>1. n \in Nat /\ \A i \in 1..n : s[i] \in Seq(B)
  BY ElementOfSeq
<1>2. CASE n = 0
  <2>1. s = << >>
    BY <1>2, EmptySeq
  <2>. QED
    BY <1>2, <2>1 DEF FlattenSeq, Joins
<1>3. CASE n # 0
  <2>1. FlattenSeq(s) = flatten[n]
    BY <1>3 DEF FlattenSeq, Then
  <2>2. \E g : g = R(g)
    <3>. DEFINE g == [i \in 1..n |-> f[i]]
    <3>1. ASSUME NEW i \in 1..n  PROVE g[i] = R(g)[i]
      <4>1. f[i] = Then(f[i - 1], s[i])
        BY DEF Joins
      <4>2. CASE i = 1
        <5>1. f[1] = Then(<< >>, s[1]) /\ s[1] \in Seq(B)
          BY <1>1, <4>1, <4>2 DEF Joins
        <5>2. f[1] = s[1]
          BY <5>1, ThenLaws
        <5>. QED
          BY <4>2, <5>2
      <4>3. CASE i # 1
        BY <4>1, <4>3
      <4>. QED
        BY <4>2, <4>3
    <3>2. g = R(g)
      <4>1. DOMAIN g = 1..n /\ DOMAIN R(g) = 1..n
        OBVIOUS
      <4>. HIDE DEF n
      <4>. QED
        BY <3>1
    <3>. QED
      BY <3>2
  <2>3. flatten = CHOOSE g : g = R(g)
    BY DEF flatten
  <2>. HIDE DEF flatten, R
  <2>4. flatten = R(flatten)
    BY <2>2, <2>3
  <2>. USE DEF R
  <2>5. \A i \in 1..n : flatten[i] = IF i = 1 THEN s[i] ELSE Then(flatten[i - 1], s[i])
    <3>. HIDE DEF n
    <3>. QED
      BY <2>4
  <2>. HIDE DEF n
  <2>. DEFINE S == {i \in Nat : i \in 1..n => flatten[i] = f[i]}
  <2>6. 0 \in S
    OBVIOUS
  <2>7. ASSUME NEW i \in Nat, i \in S  PROVE i + 1 \in S
    <3>. SUFFICES ASSUME i + 1 \in 1..n  PROVE flatten[i + 1] = f[i + 1]
      OBVIOUS
    <3>0. f[i + 1] = Then(f[i], s[i + 1])
      BY DEF Joins, n
    <3>1. CASE i = 0
      <4>1. f[1] = Then(<< >>, s[1]) /\ s[1] \in Seq(B)
        BY <1>1, <3>0, <3>1 DEF Joins
      <4>2. f[1] = s[1]
        BY <4>1, ThenLaws
      <4>. QED
        BY <2>5, <3>1, <4>2
    <3>2. CASE i # 0
      <4>1. flatten[i] = f[i]
        BY <1>1, <2>7, <3>2
      <4>2. flatten[i + 1] = Then(flatten[i], s[i + 1])
        BY <2>5, <3>2
      <4>. QED
        BY <3>0, <4>1, <4>2
    <3>. QED
      BY <3>1, <3>2
  <2>. HIDE DEF S
  <2>8. \A i \in Nat : i \in S
    BY <2>6, <2>7, NatSetInduction
  <2>9. n \in S /\ n \in 1..n
    BY <1>1, <1>3, <2>8
  <2>10. flatten[n] = f[n]
    BY <1>1, <2>9 DEF S
  <2>. QED
    BY <2>1, <2>10 DEF n
<1>. QED
  BY <1>2, <1>3

\* There is such a function.
LEMMA JoinsExists ==
    ASSUME NEW B, NEW s \in Seq(Seq(B))
    PROVE  \E f \in [0..Len(s) -> Seq(B)] : Joins(f, s)
<1>. DEFINE X == Seq(B)
            n == Len(s)
            G == [i \in Nat |-> [x \in X |-> IF i \in 1..n THEN Then(x, s[i]) ELSE x]]
<1>1. n \in Nat /\ << >> \in X
  OBVIOUS
<1>2. ASSUME NEW x \in X, NEW i \in 1..n  PROVE Then(x, s[i]) \in X
  BY ElementOfSeq, ThenLaws
<1>3. G \in [Nat -> [X -> X]]
  BY <1>2
<1>4. Iterates(X, << >>, G, n)
  <2>. HIDE DEF X, n, G
  <2>. QED
    BY <1>1, <1>3, Recursion DEF Turns
<1>5. PICK f \in [0..n -> X] : f[0] = << >> /\ \A i \in 1..n : f[i] = G[i][f[i - 1]]
  <2>. HIDE DEF X, n, G
  <2>. QED
    BY <1>4 DEF Iterates
<1>6. ASSUME NEW i \in 1..n  PROVE f[i] = Then(f[i - 1], s[i])
  <2>. HIDE DEF X
  <2>1. f[i - 1] \in X
    BY <1>1, <1>5
  <2>2. G[i] = [x \in X |-> IF i \in 1..n THEN Then(x, s[i]) ELSE x]
    OBVIOUS
  <2>. QED
    BY <1>1, <1>5, <2>1, <2>2
<1>. QED
  BY <1>5, <1>6 DEF Joins

LEMMA FlattenNone == FlattenSeq(<< >>) = << >>
BY DEF FlattenSeq

LEMMA FlattenType ==
    ASSUME NEW B, NEW s \in Seq(Seq(B))
    PROVE  FlattenSeq(s) \in Seq(B)
<1>1. PICK f \in [0..Len(s) -> Seq(B)] : Joins(f, s)
  BY JoinsExists
<1>2. Len(s) \in Nat /\ f[Len(s)] \in Seq(B)
  OBVIOUS
<1>3. FlattenSeq(s) = f[Len(s)]
  BY <1>1, FlattenIsJoined
<1>. QED
  BY <1>2, <1>3

\* The first slice, and then the others.
LEMMA FlattenHead ==
    ASSUME NEW B, NEW s \in Seq(Seq(B)), s # << >>
    PROVE  FlattenSeq(s) = Then(Head(s), FlattenSeq(Tail(s)))
<1>. DEFINE n == Len(s)
            t == Tail(s)
            h == Head(s)
<1>1. /\ n \in Nat \ {0} /\ h \in Seq(B) /\ h = s[1]
      /\ t \in Seq(Seq(B)) /\ Len(t) = n - 1
      /\ \A i \in 1..n - 1 : t[i] = s[i + 1]
  BY HeadTailProperties, EmptySeq
<1>. HIDE DEF n, t, h
<1>2. PICK f \in [0..Len(t) -> Seq(B)] : Joins(f, t)
  BY <1>1, JoinsExists
<1>. DEFINE g == [i \in 0..n |-> IF i = 0 THEN << >> ELSE Then(h, f[i - 1])]
<1>3. g \in [0..n -> Seq(B)]
  <2>1. ASSUME NEW i \in 0..n, i # 0  PROVE Then(h, f[i - 1]) \in Seq(B)
    <3>1. f[i - 1] \in Seq(B)
      BY <1>1, <1>2, <2>1
    <3>. QED
      BY <1>1, <3>1, ThenLaws
  <2>2. << >> \in Seq(B)
    OBVIOUS
  <2>. QED
    BY <2>1, <2>2
<1>4. ASSUME NEW i \in 1..n  PROVE g[i] = Then(g[i - 1], s[i])
  <2>1. CASE i = 1
    <3>1. g[1] = Then(h, << >>) /\ g[0] = << >>
      BY <1>1, <1>2, <2>1 DEF Joins
    <3>2. Then(h, << >>) = h /\ Then(<< >>, h) = h
      BY <1>1, ThenLaws
    <3>. QED
      BY <1>1, <2>1, <3>1, <3>2
  <2>2. CASE i # 1
    <3>1. /\ i - 1 \in 1..Len(t) /\ (i - 1) - 1 \in 0..Len(t) /\ (i - 1) + 1 = i
          /\ i - 1 \in 0..n /\ i - 1 # 0 /\ i - 1 \in 1..n - 1
      BY <1>1, <2>2
    <3>2. f[i - 1] = Then(f[(i - 1) - 1], s[i]) /\ f[(i - 1) - 1] \in Seq(B)
      BY <1>1, <1>2, <3>1 DEF Joins
    <3>3. s[i] \in Seq(B)
      BY ElementOfSeq DEF n
    <3>4. Then(h, Then(f[(i - 1) - 1], s[i])) = Then(Then(h, f[(i - 1) - 1]), s[i])
      <4>1. PICK x \in Seq(B) : x = f[(i - 1) - 1]
        BY <3>2
      <4>2. Then(h, Then(x, s[i])) = Then(Then(h, x), s[i])
        <5>1. \A s1, s2, s3 \in Seq(B) : Then(Then(s1, s2), s3) = Then(s1, Then(s2, s3))
          BY ThenLaws
        <5>2. h \in Seq(B)
          BY <1>1
        <5>. QED
          BY <3>3, <5>1, <5>2
      <4>. QED
        BY <4>1, <4>2
    <3>5. g[i] = Then(h, f[i - 1]) /\ g[i - 1] = Then(h, f[(i - 1) - 1])
      BY <2>2, <3>1
    <3>. QED
      BY <3>2, <3>4, <3>5
  <2>. QED
    BY <2>1, <2>2
<1>5. Joins(g, s) /\ g \in [0..Len(s) -> Seq(B)]
  <2>1. g[0] = << >>
    BY <1>1
  <2>. QED
    BY <1>3, <1>4, <2>1 DEF Joins, n
<1>6. g[n] = Then(h, f[Len(t)])
  BY <1>1
<1>. HIDE DEF g
<1>7. FlattenSeq(s) = g[n]
  BY <1>5, FlattenIsJoined DEF n
<1>8. FlattenSeq(t) = f[Len(t)]
  BY <1>1, <1>2, FlattenIsJoined
<1>. QED
  BY <1>6, <1>7, <1>8 DEF h, t

\* One more slice.
LEMMA FlattenAppend ==
    ASSUME NEW B, NEW s \in Seq(Seq(B)), NEW e \in Seq(B)
    PROVE  FlattenSeq(With(s, e)) = Then(FlattenSeq(s), e)
<1>. DEFINE n == Len(s)
            t == With(s, e)
<1>1. /\ n \in Nat /\ t \in Seq(Seq(B)) /\ Len(t) = n + 1
      /\ \A i \in 1..n : t[i] = s[i]
      /\ t[n + 1] = e
  BY AppendProperties DEF With
<1>. HIDE DEF n, t
<1>2. PICK f \in [0..Len(s) -> Seq(B)] : Joins(f, s)
  BY JoinsExists
<1>. DEFINE g == [i \in 0..n + 1 |-> IF i = n + 1 THEN Then(f[n], e) ELSE f[i]]
<1>3. f \in [0..n -> Seq(B)] /\ \A i \in 1..n : f[i] = Then(f[i - 1], s[i])
  BY <1>2 DEF Joins, n
<1>4. g \in [0..n + 1 -> Seq(B)]
  <2>1. Then(f[n], e) \in Seq(B)
    BY <1>1, <1>3, ThenLaws
  <2>. QED
    BY <1>1, <1>3, <2>1
<1>5. ASSUME NEW i \in 1..n + 1  PROVE g[i] = Then(g[i - 1], t[i])
  <2>1. CASE i = n + 1
    BY <1>1, <2>1
  <2>2. CASE i # n + 1
    <3>1. i \in 1..n /\ i - 1 \in 0..n + 1 /\ i - 1 # n + 1
      BY <1>1, <2>2
    <3>2. g[i] = f[i] /\ g[i - 1] = f[i - 1] /\ t[i] = s[i]
      BY <1>1, <2>2, <3>1
    <3>. QED
      BY <1>3, <3>1, <3>2
  <2>. QED
    BY <2>1, <2>2
<1>6. g[0] = << >>
  BY <1>1, <1>2 DEF Joins
<1>7. Joins(g, t) /\ g \in [0..Len(t) -> Seq(B)]
  BY <1>1, <1>4, <1>5, <1>6 DEF Joins
<1>8. g[n + 1] = Then(f[n], e)
  BY <1>1
<1>. HIDE DEF g
<1>9. FlattenSeq(t) = g[n + 1]
  BY <1>1, <1>7, FlattenIsJoined
<1>10. FlattenSeq(s) = f[n]
  BY <1>2, FlattenIsJoined DEF n
<1>. QED
  BY <1>8, <1>9, <1>10 DEF t

\* Of the slices that are not empty the same bytes are made as of all of them.
LEMMA NonEmptyKeepsBytes ==
    ASSUME NEW B, NEW s \in Seq(Seq(B))
    PROVE  NonEmpty(s) \in Seq(Seq(B)) /\ FlattenSeq(NonEmpty(s)) = FlattenSeq(s)
<1>. DEFINE X == Seq(Seq(B))
            n == Len(s)
            R(g) == [i \in 0..n |-> IF i = 0 THEN << >>
                                    ELSE IF s[i] = << >> THEN g[i - 1]
                                    ELSE With(g[i - 1], s[i])]
            kept[i \in 0..n] == IF i = 0 THEN << >>
                                ELSE IF s[i] = << >> THEN kept[i - 1]
                                ELSE With(kept[i - 1], s[i])
            G == [i \in Nat |-> [x \in X |-> IF i \in 1..n /\ s[i] # << >> THEN With(x, s[i]) ELSE x]]
<1>1. n \in Nat /\ << >> \in X /\ \A i \in 1..n : s[i] \in Seq(B)
  BY ElementOfSeq
<1>2. ASSUME NEW x \in X, NEW i \in 1..n  PROVE With(x, s[i]) \in X
  BY <1>1, AppendProperties DEF With
<1>3. G \in [Nat -> [X -> X]]
  BY <1>2
<1>4. PICK g \in [0..n -> X] : g[0] = << >> /\ \A i \in 1..n : g[i] = G[i][g[i - 1]]
  <2>. HIDE DEF X, n, G
  <2>1. Iterates(X, << >>, G, n)
    BY <1>1, <1>3, Recursion DEF Turns
  <2>. QED
    BY <2>1 DEF Iterates
<1>5. ASSUME NEW i \in 1..n
      PROVE  g[i] = IF s[i] = << >> THEN g[i - 1] ELSE With(g[i - 1], s[i])
  <2>. HIDE DEF X
  <2>1. g[i - 1] \in X /\ i \in Nat
    <3>. HIDE DEF n, R, kept, G
    <3>1. i - 1 \in 0..n /\ i \in Nat
      BY <1>1
    <3>. QED
      BY <1>4, <3>1
  <2>2. G[i] = [x \in X |-> IF i \in 1..n /\ s[i] # << >> THEN With(x, s[i]) ELSE x]
    BY <2>1
  <2>3. g[i] = G[i][g[i - 1]]
    BY <1>4
  <2>. HIDE DEF n, R, kept, G
  <2>. QED
    BY <2>1, <2>2, <2>3
<1>6. g = R(g)
  <2>. HIDE DEF X
  <2>1. \A i \in 0..n : g[i] = R(g)[i]
    BY <1>4, <1>5
  <2>2. DOMAIN R(g) = 0..n /\ DOMAIN g = 0..n
    BY <1>4
  <2>. HIDE DEF n
  <2>. QED
    BY <2>1, <2>2
<1>7. kept = R(kept)
  <2>1. kept = CHOOSE f : f = R(f)
    BY DEF kept
  <2>. HIDE DEF R, kept, G, n, X
  <2>. QED
    BY <1>6, <2>1
<1>8. NonEmpty(s) = kept[n]
  BY DEF NonEmpty, With
<1>. HIDE DEF kept, G
<1>9. \A i \in 0..n : kept[i] = IF i = 0 THEN << >>
                                ELSE IF s[i] = << >> THEN kept[i - 1]
                                ELSE With(kept[i - 1], s[i])
  <2>. HIDE DEF n
  <2>. QED
    BY <1>7
<1>10. PICK f \in [0..Len(s) -> Seq(B)] : Joins(f, s)
  BY JoinsExists
<1>11. f \in [0..n -> Seq(B)] /\ f[0] = << >> /\ \A i \in 1..n : f[i] = Then(f[i - 1], s[i])
  BY <1>10 DEF Joins
<1>. HIDE DEF n, X, R
<1>. DEFINE S == {i \in Nat : i <= n => kept[i] \in X /\ FlattenSeq(kept[i]) = f[i]}
<1>12. 0 \in S
  BY <1>1, <1>9, <1>11, FlattenNone
<1>13. ASSUME NEW i \in Nat, i \in S  PROVE i + 1 \in S
  <2>. SUFFICES ASSUME i + 1 <= n
                PROVE  kept[i + 1] \in X /\ FlattenSeq(kept[i + 1]) = f[i + 1]
    OBVIOUS
  <2>1. /\ i + 1 \in 1..n /\ i \in 0..n /\ (i + 1) - 1 = i
        /\ kept[i] \in X /\ FlattenSeq(kept[i]) = f[i]
    BY <1>1, <1>13
  <2>. HIDE DEF S
  <2>2. f[i + 1] = Then(f[i], s[i + 1]) /\ s[i + 1] \in Seq(B) /\ f[i] \in Seq(B)
    BY <1>1, <1>11, <2>1
  <2>3. kept[i + 1] = IF s[i + 1] = << >> THEN kept[i] ELSE With(kept[i], s[i + 1])
    BY <1>9, <2>1
  <2>4. CASE s[i + 1] = << >>
    <3>1. Then(f[i], << >>) = f[i]
      BY <2>2, ThenLaws
    <3>. QED
      BY <2>1, <2>2, <2>3, <2>4, <3>1
  <2>5. CASE s[i + 1] # << >>
    <3>1. With(kept[i], s[i + 1]) \in X
      BY <2>1, <2>2, AppendProperties DEF X, With
    <3>2. FlattenSeq(With(kept[i], s[i + 1])) = Then(FlattenSeq(kept[i]), s[i + 1])
      BY <2>1, <2>2, FlattenAppend DEF X
    <3>. QED
      BY <2>1, <2>2, <2>3, <2>5, <3>1, <3>2
  <2>. QED
    BY <2>4, <2>5
<1>. HIDE DEF S
<1>14. \A i \in Nat : i \in S
  BY <1>12, <1>13, NatSetInduction
<1>15. kept[n] \in X /\ FlattenSeq(kept[n]) = f[n]
  BY <1>1, <1>14 DEF S
<1>16. FlattenSeq(s) = f[n]
  BY <1>10, FlattenIsJoined DEF n
<1>. QED
  BY <1>8, <1>15, <1>16 DEF X

-----------------------------------------------------------------------------
(* The call in progress.                                                     *)

\* Nothing is left to read, and nothing will come.
Dry == inClosed /\ inBuf = << >>

Frame == [op     : {"none", "read", "write"},
          iovs   : Seq(Nat) \union Seq(Seq(Byte)),
          state  : {"none", "asked", "answered", "returned"},
          answer : Seq(Byte),
          mem    : Seq(Byte \union {Garbage}),
          total  : Nat]

\* Until a read returns the guest's buffers hold what it counted and no garbage, and only
\* at the end of the input it answers with nothing.
ReadFrame ==
    /\ call.iovs \in Seq(Nat \ {0})
    /\ call.state \in {"asked", "answered"} =>
           call.iovs # << >> /\ call.mem \in Seq(Byte) /\ Len(call.mem) = call.total
    /\ call.state = "answered" =>
           /\ Len(call.answer) <= Head(call.iovs)
           /\ call.answer = << >> => Dry
    /\ call.state # "answered" => call.answer = << >>
    /\ call.state = "returned" =>
           /\ call.total <= Len(call.mem)
           /\ GotBytes \in Seq(Byte)
           /\ call.total = 0 => Dry

\* The answer to a write is the first of its slice, and a write returns when all is written.
WriteFrame ==
    /\ call.iovs \in Seq(Seq(Byte))
    /\ call.state \in {"asked", "answered"} =>
           /\ call.iovs # << >>
           /\ Len(call.answer) <= Len(Head(call.iovs))
           /\ call.answer = FirstOf(Head(call.iovs), Len(call.answer))
    /\ call.state = "answered" => call.answer = Head(call.iovs)
    /\ call.state = "returned" => call.iovs = << >> /\ call.answer = << >>

CallInv ==
    /\ inBuf \in Seq(Byte) /\ inClosed \in BOOLEAN
    /\ outBuf \in Seq(Byte) /\ Len(outBuf) <= Capacity
    /\ call \in Frame
    /\ call.op = "none" <=> call = NoCall
    /\ call.op = "none" <=> call.state = "none"
    /\ call.op = "read" => ReadFrame
    /\ call.op = "write" => WriteFrame

\* What a write still has to write, and has written: what its caller was promised.
Promised == call.total + Len(FlattenSeq(call.iovs))

LEMMA CallInvTypes == CallInv => CallTypes
<1>. SUFFICES ASSUME CallInv  PROVE CallTypes
  OBVIOUS
<1>1. /\ inBuf \in Seq(Byte) /\ inClosed \in BOOLEAN
      /\ outBuf \in Seq(Byte) /\ Len(outBuf) <= Capacity
      /\ call.op \in {"none", "read", "write"}
      /\ call.state \in {"none", "asked", "answered", "returned"}
      /\ call.answer \in Seq(Byte)
      /\ call.mem \in Seq(Byte \union {Garbage})
      /\ call.total \in Nat
  BY DEF CallInv, Frame
<1>2. call.op = "read" => call.iovs \in Seq(Nat) /\ call.total <= Len(call.mem)
  <2>. SUFFICES ASSUME call.op = "read"  PROVE call.iovs \in Seq(Nat) /\ call.total <= Len(call.mem)
    OBVIOUS
  <2>1. ReadFrame /\ call.state # "none"
    BY DEF CallInv
  <2>2. call.iovs \in Seq(Nat)
    BY <2>1, SeqMonotonic DEF ReadFrame
  <2>3. call.total <= Len(call.mem)
    BY <1>1, <2>1 DEF ReadFrame
  <2>. QED
    BY <2>2, <2>3
<1>3. call.op = "write" => call.iovs \in Seq(Seq(Byte))
  BY DEF CallInv, WriteFrame
<1>4. call.state \in {"asked", "answered"} => call.iovs # << >>
  BY <1>1 DEF CallInv, ReadFrame, WriteFrame
<1>. QED
  BY <1>1, <1>2, <1>3, <1>4 DEF CallTypes

LEMMA NoCallFrame ==
    ASSUME inBuf \in Seq(Byte), inClosed \in BOOLEAN, outBuf \in Seq(Byte), Len(outBuf) <= Capacity,
           call = NoCall
    PROVE  CallInv /\ InFlight = << >> /\ Unsent = << >>
<1>1. call \in Frame
  <2>1. << >> \in Seq(Nat) \union Seq(Seq(Byte)) /\ << >> \in Seq(Byte) /\ << >> \in Seq(Byte \union {Garbage})
    OBVIOUS
  <2>. QED
    BY <2>1 DEF NoCall, Frame
<1>2. call.op = "none" /\ call.state = "none"
  BY DEF NoCall
<1>. QED
  BY <1>1, <1>2 DEF CallInv, InFlight, Unsent

LEMMA ReadStarts ==
    ASSUME CallInv, NEW lens \in Seq(Nat \ {0}), lens # << >>, Reads(lens)
    PROVE  CallInv' /\ call'.op = "read" /\ InFlight' = << >> /\ Unsent' = << >>
<1>0. << >> \in Seq(Byte) /\ << >> \in Seq(Byte \union {Garbage}) /\ Len(<< >>) = 0
  OBVIOUS
<1>1. /\ call' = [op |-> "read", iovs |-> lens, state |-> "asked",
                  answer |-> << >>, mem |-> << >>, total |-> 0]
      /\ UNCHANGED <<inBuf, inClosed, outBuf>>
  BY DEF Reads, NoCall
<1>2. lens \in Seq(Nat)
  BY SeqMonotonic
<1>3. call' \in Frame
  BY <1>0, <1>1, <1>2 DEF Frame
<1>4. ReadFrame'
  BY <1>0, <1>1 DEF ReadFrame
<1>5. GotBytes' = << >>
  BY <1>1, SubSeqEmpty DEF GotBytes, FirstOf
<1>6. InFlight' = << >> /\ Unsent' = << >>
  BY <1>0, <1>1, <1>5, ConcatEmptySeq DEF InFlight, Unsent
<1>7. call' # NoCall
  BY <1>1 DEF NoCall
<1>. QED
  BY <1>1, <1>3, <1>4, <1>6, <1>7 DEF CallInv

LEMMA WriteStarts ==
    ASSUME CallInv, NEW slices \in Seq(Seq(Byte)), FlattenSeq(slices) # << >>, Writes(slices)
    PROVE  /\ CallInv' /\ call'.op = "write"
           /\ InFlight' = << >> /\ Unsent' = FlattenSeq(slices)
           /\ Promised' = Len(FlattenSeq(slices))
<1>0. << >> \in Seq(Byte) /\ << >> \in Seq(Byte \union {Garbage}) /\ Len(<< >>) = 0
  OBVIOUS
<1>. DEFINE kept == NonEmpty(slices)
<1>1. /\ call' = [op |-> "write", iovs |-> kept, state |-> "asked",
                  answer |-> << >>, mem |-> << >>, total |-> 0]
      /\ UNCHANGED <<inBuf, inClosed, outBuf>>
  BY DEF Writes, NoCall
<1>2. kept \in Seq(Seq(Byte)) /\ FlattenSeq(kept) = FlattenSeq(slices)
  BY NonEmptyKeepsBytes
<1>. HIDE DEF kept
<1>3. kept # << >>
  BY <1>2, FlattenNone
<1>4. call' \in Frame
  BY <1>0, <1>1, <1>2 DEF Frame
<1>5. WriteFrame'
  <2>1. Head(kept) \in Seq(Byte)
    BY <1>2, <1>3, HeadTailProperties
  <2>2. << >> = FirstOf(Head(kept), 0) /\ Len(Head(kept)) >= 0
    BY <2>1, FromAll
  <2>. QED
    BY <1>0, <1>1, <1>2, <1>3, <2>2 DEF WriteFrame
<1>6. FlattenSeq(kept) \in Seq(Byte)
  BY <1>2, FlattenType
<1>7. Unsent' = FlattenSeq(slices) /\ InFlight' = << >>
  <2>1. From(FlattenSeq(kept), 1) = FlattenSeq(kept)
    BY <1>6, FromAll
  <2>. QED
    BY <1>0, <1>1, <1>2, <1>3, <2>1 DEF Unsent, InFlight
<1>8. Promised' = Len(FlattenSeq(slices))
  BY <1>1, <1>2, <1>6 DEF Promised
<1>9. call' # NoCall
  BY <1>1 DEF NoCall
<1>. QED
  BY <1>1, <1>4, <1>5, <1>7, <1>8, <1>9 DEF CallInv

LEMMA ByteLaws ==
    /\ << >> \in Seq(Byte)
    /\ \A s, t \in Seq(Byte) : s \o t \in Seq(Byte)
    /\ \A s \in Seq(Byte) : s \o << >> = s /\ << >> \o s = s
    /\ \A s, t, u \in Seq(Byte) : (s \o t) \o u = s \o (t \o u)
BY ConcatProperties, ConcatEmptySeq, ConcatAssociative

LEMMA ByteJoin == \A s, t, u \in Seq(Byte) : (s \o t) \o u = s \o (t \o u)
BY ByteLaws

\* The reading of what there is moves it from the pipe to the answer.
LEMMA ReadIsServed ==
    ASSUME CallInv, ReadServed
    PROVE  /\ CallInv' /\ call'.op = "read"
           /\ InFlight' \o inBuf' = InFlight \o inBuf
           /\ Dry => Dry' /\ InFlight' = InFlight
           /\ Unsent' = << >> /\ Unsent = << >> /\ InFlight' \in Seq(Byte) /\ InFlight \in Seq(Byte)
<1>. DEFINE h == Head(call.iovs)
            n == Lesser(h, Lesser(Capacity, Len(inBuf)))
            got == FirstOf(inBuf, n)
<1>1. /\ call.op = "read" /\ call.state = "asked" /\ call \in Frame /\ ReadFrame
      /\ inBuf # << >> \/ inClosed
      /\ call' = [call EXCEPT !.state = "answered", !.answer = got]
      /\ inBuf' = From(inBuf, n + 1)
      /\ UNCHANGED <<inClosed, outBuf>>
  BY DEF ReadServed, CallInv
<1>2. inBuf \in Seq(Byte) /\ Len(inBuf) \in Nat /\ Capacity \in Nat \ {0}
  BY WasiCallsAssumption DEF CallInv
<1>3. h \in Nat \ {0}
  BY <1>1, HeadTailProperties DEF ReadFrame
<1>4. n \in 0..Len(inBuf) /\ n <= h /\ (n = 0 => Len(inBuf) = 0)
  BY <1>2, <1>3 DEF Lesser
<1>. HIDE DEF n, h
<1>5. /\ got \in Seq(Byte) /\ Len(got) = n
      /\ inBuf' \in Seq(Byte) /\ Len(inBuf') = Len(inBuf) - n
      /\ inBuf = got \o inBuf'
  BY <1>1, <1>2, <1>4, FirstOfType, FromType, Cut
<1>. HIDE DEF got
<1>6. /\ call'.op = "read" /\ call'.state = "answered" /\ call'.answer = got
      /\ call'.iovs = call.iovs /\ call'.mem = call.mem /\ call'.total = call.total
      /\ call' \in Frame
  BY <1>1, <1>5 DEF Frame
<1>7. inBuf = << >> => inBuf' = << >> /\ got = << >>
  <2>. SUFFICES ASSUME inBuf = << >>  PROVE inBuf' = << >> /\ got = << >>
    OBVIOUS
  <2>1. Len(inBuf) = 0
    BY EmptySeq
  <2>2. Len(got) = 0 /\ Len(inBuf') = 0
    BY <1>4, <1>5, <2>1
  <2>. QED
    BY <1>5, <2>2, EmptySeq
<1>8. got = << >> => Dry'
  <2>. SUFFICES ASSUME got = << >>  PROVE Dry'
    OBVIOUS
  <2>1. Len(inBuf) = 0
    BY <1>4, <1>5, EmptySeq
  <2>2. inBuf = << >>
    BY <1>2, <2>1, EmptySeq
  <2>. QED
    BY <1>1, <1>7, <2>2 DEF Dry
<1>9. ReadFrame'
  BY <1>1, <1>4, <1>5, <1>6, <1>8 DEF ReadFrame, h
<1>10. call' # NoCall
  BY <1>6 DEF NoCall
<1>11. CallInv'
  BY <1>1, <1>5, <1>6, <1>9, <1>10 DEF CallInv
<1>12. GotBytes = call.mem /\ GotBytes' = call.mem /\ call.mem \in Seq(Byte) /\ call.answer = << >>
  BY <1>1, <1>6, FromAll DEF GotBytes, ReadFrame
<1>13. /\ InFlight = call.mem /\ InFlight' = call.mem \o got
       /\ InFlight' \in Seq(Byte) /\ InFlight \in Seq(Byte)
  <2>1. InFlight = call.mem \o << >> /\ InFlight' = call.mem \o got
    BY <1>1, <1>6, <1>12, Zenon DEF InFlight
  <2>2. call.mem \o << >> = call.mem /\ call.mem \o got \in Seq(Byte)
    BY <1>5, <1>12, ByteLaws, Zenon
  <2>. QED
    BY <1>12, <2>1, <2>2, Zenon
<1>14. (call.mem \o got) \o inBuf' = call.mem \o (got \o inBuf')
  BY <1>5, <1>12, ByteJoin, Zenon
<1>15. InFlight' \o inBuf' = InFlight \o inBuf
  BY <1>5, <1>13, <1>14
<1>16. Dry => Dry' /\ InFlight' = InFlight
  <2>1. got = << >> => InFlight' = InFlight
    BY <1>12, <1>13, ByteLaws, Zenon
  <2>. QED
    BY <1>1, <1>7, <2>1 DEF Dry
<1>17. Unsent' = << >> /\ Unsent = << >>
  BY <1>1, <1>6 DEF Unsent
<1>. QED
  BY <1>6, <1>11, <1>13, <1>15, <1>16, <1>17

\* The writing of as much as there is room for moves it from the slice to the pipe.
LEMMA WriteIsServed ==
    ASSUME CallInv, WriteServed
    PROVE  /\ CallInv' /\ call'.op = "write"
           /\ outBuf' \o Unsent' = outBuf \o Unsent
           /\ Unsent \in Seq(Byte) /\ Unsent' \in Seq(Byte)
           /\ Promised' = Promised
           /\ UNCHANGED <<inBuf, inClosed>>
<1>. DEFINE h == Head(call.iovs)
            k == Len(call.answer)
            n == Lesser(Len(h) - k, Capacity - Len(outBuf))
            upTo == FirstOf(h, k + n)
            rest == FlattenSeq(Tail(call.iovs))
            more == From(upTo, k + 1)
<1>1. /\ call.op = "write" /\ call.state = "asked" /\ call \in Frame /\ WriteFrame
      /\ Len(outBuf) < Capacity
      /\ outBuf' = outBuf \o more
      /\ call' = [call EXCEPT !.answer = upTo, !.state = IF upTo = h THEN "answered" ELSE "asked"]
      /\ UNCHANGED <<inBuf, inClosed>>
  BY DEF WriteServed, CallInv, Written
<1>2. /\ h \in Seq(Byte) /\ Len(h) \in Nat /\ k \in 0..Len(h) /\ call.iovs # << >>
      /\ call.iovs \in Seq(Seq(Byte)) /\ Tail(call.iovs) \in Seq(Seq(Byte))
      /\ outBuf \in Seq(Byte) /\ Len(outBuf) \in 0..Capacity /\ Capacity \in Nat
      /\ call.answer \in Seq(Byte)
  <2>1. /\ call.iovs # << >> /\ call.iovs \in Seq(Seq(Byte)) /\ call.answer \in Seq(Byte)
        /\ Len(call.answer) <= Len(h) /\ outBuf \in Seq(Byte) /\ Len(outBuf) <= Capacity
    BY <1>1 DEF WriteFrame, CallInv, Frame
  <2>2. h \in Seq(Byte) /\ Tail(call.iovs) \in Seq(Seq(Byte))
    BY <2>1, HeadTailProperties
  <2>. HIDE DEF h
  <2>. QED
    BY <2>1, <2>2, WasiCallsAssumption
<1>3. n \in Nat /\ k + n \in 0..Len(h) /\ Len(outBuf) + n <= Capacity
  <2>1. PICK l \in Nat : l = Len(h)
    BY <1>2
  <2>2. PICK o \in Nat : o = Len(outBuf)
    BY <1>2
  <2>3. PICK a \in Nat : a = k
    BY <1>2
  <2>4. a <= l /\ o < Capacity /\ n = Lesser(l - a, Capacity - o)
    BY <1>1, <1>2, <2>1, <2>2, <2>3
  <2>. HIDE DEF n, h, k
  <2>5. n \in Nat /\ a + n \in 0..l /\ o + n <= Capacity
    BY <1>2, <2>4 DEF Lesser
  <2>. QED
    BY <2>1, <2>2, <2>3, <2>5
<1>4. FlattenSeq(call.iovs) = h \o rest /\ rest \in Seq(Byte)
  BY <1>2, FlattenHead, FlattenType DEF Then
<1>. HIDE DEF n, h, rest, k
<1>5. upTo \in Seq(Byte) /\ Len(upTo) = k + n /\ h = upTo \o From(h, k + n + 1) /\ From(h, k + n + 1) \in Seq(Byte)
  BY <1>2, <1>3, FirstOfType, FromType, Cut
<1>. HIDE DEF upTo
<1>6. k \in 0..Len(upTo)
  BY <1>2, <1>3, <1>5
<1>7. /\ more \in Seq(Byte) /\ Len(more) = n
      /\ From(h, k + 1) = more \o From(h, k + n + 1)
  <2>1. more \in Seq(Byte) /\ Len(more) = Len(upTo) - k
    BY <1>5, <1>6, FromType
  <2>0. Len(upTo) - k = n
    BY <1>2, <1>3, <1>5
  <2>2. From(upTo \o From(h, k + n + 1), k + 1) = From(upTo, k + 1) \o From(h, k + n + 1)
    BY <1>5, <1>6, FromFirst
  <2>. QED
    BY <1>5, <2>0, <2>1, <2>2
<1>. HIDE DEF more
<1>8. /\ call'.op = "write" /\ call'.state = (IF upTo = h THEN "answered" ELSE "asked")
      /\ call'.answer = upTo /\ call'.iovs = call.iovs /\ call'.total = call.total
      /\ call' \in Frame
  BY <1>1, <1>5 DEF Frame
<1>9. WriteFrame'
  <2>1. Len(upTo) <= Len(h) /\ upTo = FirstOf(h, Len(upTo))
    BY <1>3, <1>5 DEF upTo
  <2>. QED
    BY <1>2, <1>8, <2>1 DEF WriteFrame, h
<1>10. outBuf' \in Seq(Byte) /\ Len(outBuf') <= Capacity
  BY <1>1, <1>2, <1>3, <1>7, ConcatProperties
<1>11. call' # NoCall
  BY <1>8 DEF NoCall
<1>12. CallInv'
  BY <1>1, <1>8, <1>9, <1>10, <1>11 DEF CallInv
<1>13. /\ Unsent = From(h, k + 1) \o rest /\ Unsent' = From(h, k + n + 1) \o rest
       /\ From(h, k + 1) \in Seq(Byte)
  <2>1. From(h \o rest, k + 1) = From(h, k + 1) \o rest /\ From(h, k + 1) \in Seq(Byte)
    BY <1>2, <1>4, FromFirst, FromType
  <2>2. From(h \o rest, k + n + 1) = From(h, k + n + 1) \o rest
    BY <1>2, <1>3, <1>4, FromFirst
  <2>3. Unsent = From(h \o rest, k + 1)
    BY <1>1, <1>2, <1>4 DEF Unsent, k
  <2>4. Unsent' = From(h \o rest, k + n + 1)
    BY <1>1, <1>2, <1>4, <1>5, <1>8 DEF Unsent
  <2>. QED
    BY <2>1, <2>2, <2>3, <2>4
<1>14. Unsent \in Seq(Byte) /\ Unsent' \in Seq(Byte)
  BY <1>4, <1>5, <1>13, ConcatProperties
<1>15. outBuf' \o Unsent' = outBuf \o Unsent
  <2>1. PICK b : b = From(h, k + n + 1)
    OBVIOUS
  <2>2. (outBuf \o more) \o (b \o rest) = outBuf \o (more \o (b \o rest))
    <3>1. b \o rest \in Seq(Byte) /\ outBuf \in Seq(Byte) /\ more \in Seq(Byte)
      BY <1>2, <1>4, <1>5, <1>7, <2>1, ConcatProperties
    <3>. QED
      BY <3>1, ByteLaws, ZenonT(40)
  <2>3. more \o (b \o rest) = (more \o b) \o rest
    BY <1>4, <1>5, <1>7, <2>1, ByteJoin, Zenon
  <2>. QED
    BY <1>1, <1>7, <1>13, <2>1, <2>2, <2>3, Zenon
<1>16. Promised' = Promised
  BY <1>8 DEF Promised
<1>. QED
  BY <1>1, <1>8, <1>12, <1>14, <1>15, <1>16

LEMMA CallResumes ==
    ASSUME CallInv, Resumes
    PROVE  CallInv' /\ call' = NoCall /\ InFlight' = << >> /\ Unsent' = << >> /\ UNCHANGED <<inBuf, inClosed, outBuf>>
<1>1. /\ inBuf' \in Seq(Byte) /\ inClosed' \in BOOLEAN /\ outBuf' \in Seq(Byte) /\ Len(outBuf') <= Capacity
      /\ call' = NoCall /\ UNCHANGED <<inBuf, inClosed, outBuf>>
  BY DEF CallInv, Resumes
<1>2. << >> \in Seq(Nat) \union Seq(Seq(Byte)) /\ << >> \in Seq(Byte) /\ << >> \in Seq(Byte \union {Garbage})
  OBVIOUS
<1>3. call' \in Frame
  BY <1>1, <1>2 DEF NoCall, Frame
<1>4. call'.op = "none" /\ call'.state = "none"
  BY <1>1 DEF NoCall
<1>. QED
  BY <1>1, <1>3, <1>4 DEF CallInv, InFlight, Unsent

\* An answer in a buffer that may be longer.
LEMMA Padded ==
    ASSUME NEW a \in Seq(Byte), NEW n \in Nat, Len(a) <= n,
           NEW pad, pad = [i \in 1..n |-> IF i <= Len(a) THEN a[i] ELSE Garbage]
    PROVE  /\ pad \in Seq(Byte \union {Garbage}) /\ Len(pad) = n
           /\ FirstOf(pad, Len(a)) = a
           /\ n = Len(a) => pad = a
<1>1. Len(a) \in Nat /\ \A i \in 1..Len(a) : a[i] \in Byte
  BY ElementOfSeq
<1>2. ASSUME NEW i \in 1..n  PROVE pad[i] \in Byte \union {Garbage}
  <2>1. pad[i] = IF i <= Len(a) THEN a[i] ELSE Garbage
    OBVIOUS
  <2>. QED
    BY <1>1, <2>1
<1>3. pad \in Seq(Byte \union {Garbage}) /\ Len(pad) = n /\ \A i \in 1..Len(a) : pad[i] = a[i]
  <2>1. pad \in [1..n -> Byte \union {Garbage}]
    BY <1>2
  <2>. QED
    BY <1>1, <2>1
<1>4. /\ FirstOf(pad, Len(a)) \in Seq(Byte \union {Garbage})
      /\ Len(FirstOf(pad, Len(a))) = Len(a)
      /\ \A i \in 1..Len(a) : FirstOf(pad, Len(a))[i] = pad[i]
  <2>1. Len(a) \in 0..Len(pad)
    BY <1>1, <1>3
  <2>. QED
    BY <1>3, <2>1, FirstOfType, ZenonT(60)
<1>5. a \in Seq(Byte \union {Garbage})
  BY SeqMonotonic
<1>6. FirstOf(pad, Len(a)) = a
  <2>1. \A i \in 1..Len(FirstOf(pad, Len(a))) : FirstOf(pad, Len(a))[i] = a[i]
    BY <1>3, <1>4
  <2>. QED
    BY <1>4, <1>5, <2>1, SeqEqual
<1>7. n = Len(a) => pad = a
  <2>. SUFFICES ASSUME n = Len(a)  PROVE pad = a
    OBVIOUS
  <2>1. \A i \in 1..Len(pad) : pad[i] = a[i]
    BY <1>3
  <2>2. Len(pad) = Len(a)
    BY <1>3
  <2>. QED
    BY <1>3, <1>5, <2>1, <2>2, SeqEqual
<1>. QED
  BY <1>3, <1>6, <1>7

\* A turn of the loop over the iovecs.
LEMMA ReadTurns ==
    ASSUME CallInv, LoopTurns, call.op = "read"
    PROVE  /\ CallInv' /\ call'.op = "read"
           /\ InFlight' = InFlight /\ InFlight \in Seq(Byte)
           /\ Unsent' = << >> /\ Unsent = << >>
           /\ UNCHANGED <<inBuf, inClosed, outBuf>>
<1>. DEFINE h == Head(call.iovs)
            t == Tail(call.iovs)
            a == call.answer
            m == call.mem
            pad == [i \in 1..h |-> IF i <= Len(a) THEN a[i] ELSE Garbage]
            end == Len(a) < h \/ Len(call.iovs) = 1
<1>1. /\ call.state = "answered" /\ call \in Frame /\ ReadFrame
      /\ call' = [op |-> call.op, iovs |-> t, state |-> IF end THEN "returned" ELSE "asked",
                  answer |-> << >>, mem |-> m \o pad, total |-> call.total + Len(a)]
      /\ UNCHANGED <<inBuf, inClosed, outBuf>>
  BY Zenon DEF LoopTurns, CallInv, Total, LaidOut, Short, IovLen
<1>2. /\ call.iovs \in Seq(Nat \ {0}) /\ call.iovs # << >>
      /\ m \in Seq(Byte) /\ Len(m) = call.total /\ call.total \in Nat
      /\ a \in Seq(Byte) /\ Len(a) <= h /\ (a = << >> => Dry)
  BY <1>1 DEF ReadFrame, Frame
<1>3. /\ h \in Nat \ {0} /\ t \in Seq(Nat \ {0}) /\ t \in Seq(Nat) /\ Len(a) \in Nat
      /\ Len(call.iovs) # 1 => t # << >>
  <2>1. h \in Nat \ {0} /\ t \in Seq(Nat \ {0}) /\ Len(t) = Len(call.iovs) - 1
    BY <1>2, HeadTailProperties
  <2>2. Len(a) \in Nat
    BY <1>2
  <2>3. t \in Seq(Nat)
    BY <2>1, SeqMonotonic
  <2>4. Len(call.iovs) # 1 => t # << >>
    <3>1. t = << >> => Len(t) = 0
      BY EmptySeq
    <3>2. Len(call.iovs) \in Nat
      BY <1>2
    <3>. QED
      BY <2>1, <3>1, <3>2
  <2>. QED
    BY <2>1, <2>2, <2>3, <2>4
<1>. HIDE DEF h, t, a, m, end
<1>4. /\ pad \in Seq(Byte \union {Garbage}) /\ Len(pad) = h
      /\ FirstOf(pad, Len(a)) = a /\ (h = Len(a) => pad = a)
  BY <1>2, <1>3, Padded
<1>. HIDE DEF pad
<1>5. /\ m \in Seq(Byte \union {Garbage}) /\ m \o pad \in Seq(Byte \union {Garbage})
      /\ Len(m \o pad) = call.total + h
  <2>1. m \in Seq(Byte \union {Garbage})
    BY <1>2, SeqMonotonic
  <2>2. m \o pad \in Seq(Byte \union {Garbage}) /\ Len(m \o pad) = Len(m) + Len(pad)
    BY <1>4, <2>1, ConcatProperties
  <2>. QED
    BY <1>2, <1>4, <2>1, <2>2
<1>6. FirstOf(m \o pad, call.total + Len(a)) = m \o a
  <2>1. Len(a) \in 0..Len(pad)
    BY <1>2, <1>3, <1>4
  <2>2. FirstOf(m \o pad, Len(m) + Len(a)) = m \o FirstOf(pad, Len(a))
    BY <1>4, <1>5, <2>1, FirstOfBoth
  <2>. QED
    BY <1>2, <1>4, <2>2
<1>7. m \o a \in Seq(Byte) /\ Len(m \o a) = call.total + Len(a)
  BY <1>2, ConcatProperties
<1>8. /\ call'.op = "read" /\ call'.iovs = t /\ call'.state = (IF end THEN "returned" ELSE "asked")
      /\ call'.answer = << >> /\ call'.mem = m \o pad /\ call'.total = call.total + Len(a)
      /\ call' \in Frame
  <2>1. t \in Seq(Nat) \union Seq(Seq(Byte)) /\ << >> \in Seq(Byte) /\ call.total + Len(a) \in Nat
    BY <1>2, <1>3, ByteLaws
  <2>. QED
    BY <1>1, <1>5, <2>1 DEF Frame
<1>9. GotBytes' = m \o a
  BY <1>6, <1>8 DEF GotBytes
<1>10. InFlight' = InFlight /\ InFlight \in Seq(Byte)
  <2>1. GotBytes = m
    BY <1>2, FromAll DEF GotBytes, m
  <2>2. InFlight = m \o a
    BY <2>1 DEF InFlight, a
  <2>3. InFlight' = (m \o a) \o << >>
    BY <1>8, <1>9 DEF InFlight
  <2>4. (m \o a) \o << >> = m \o a
    BY <1>7, ByteLaws, Zenon
  <2>. QED
    BY <1>7, <2>2, <2>3, <2>4, Zenon
<1>11. ReadFrame'
  <2>1. CASE end
    <3>1. call.total + Len(a) = 0 => Dry'
      <4>. SUFFICES ASSUME call.total + Len(a) = 0  PROVE Dry'
        OBVIOUS
      <4>1. Len(a) = 0
        BY <1>2, <1>3
      <4>2. a = << >>
        BY <1>2, <4>1, EmptySeq
      <4>. QED
        BY <1>1, <1>2, <4>2 DEF Dry
    <3>2. call.total + Len(a) <= Len(m \o pad)
      BY <1>2, <1>3, <1>5
    <3>3. call'.state = "returned"
      BY <1>8, <2>1
    <3>. QED
      BY <1>3, <1>7, <1>8, <1>9, <3>1, <3>2, <3>3 DEF ReadFrame
  <2>2. CASE ~end
    <3>1. Len(a) = h /\ t # << >>
      BY <1>2, <1>3, <2>2 DEF end
    <3>2. pad = a
      BY <1>4, <3>1
    <3>3. call'.state = "asked"
      BY <1>8, <2>2
    <3>. QED
      BY <1>3, <1>7, <1>8, <3>1, <3>2, <3>3 DEF ReadFrame
  <2>. QED
    BY <2>1, <2>2
<1>12. call' # NoCall /\ call'.state # "none"
  BY <1>8 DEF NoCall
<1>13. CallInv'
  BY <1>1, <1>8, <1>11, <1>12 DEF CallInv
<1>. QED
  BY <1>1, <1>8, <1>10, <1>13 DEF Unsent

LEMMA WriteTurns ==
    ASSUME CallInv, LoopTurns, call.op = "write"
    PROVE  /\ CallInv' /\ call'.op = "write"
           /\ Unsent' = Unsent /\ Promised' = Promised
           /\ UNCHANGED <<inBuf, inClosed, outBuf>>
<1>. DEFINE h == Head(call.iovs)
            t == Tail(call.iovs)
            a == call.answer
            end == Len(a) < Len(h) \/ Len(call.iovs) = 1
<1>1. /\ call.state = "answered" /\ call \in Frame /\ WriteFrame
      /\ call' = [op |-> call.op, iovs |-> t, state |-> IF end THEN "returned" ELSE "asked",
                  answer |-> << >>, mem |-> << >>, total |-> call.total + Len(a)]
      /\ UNCHANGED <<inBuf, inClosed, outBuf>>
  <2>1. call.op # "read"
    OBVIOUS
  <2>. QED
    BY <2>1, Zenon DEF LoopTurns, CallInv, Total, LaidOut, Short, IovLen
<1>2. call.iovs \in Seq(Seq(Byte)) /\ call.iovs # << >> /\ a = h /\ call.total \in Nat
  BY <1>1 DEF WriteFrame, Frame
<1>3. /\ h \in Seq(Byte) /\ t \in Seq(Seq(Byte)) /\ Len(h) \in Nat
      /\ Len(call.iovs) = 1 <=> t = << >>
  <2>1. h \in Seq(Byte) /\ t \in Seq(Seq(Byte)) /\ Len(t) = Len(call.iovs) - 1
    BY <1>2, HeadTailProperties
  <2>2. Len(call.iovs) = 1 <=> t = << >>
    <3>1. t = << >> <=> Len(t) = 0
      BY <2>1, EmptySeq
    <3>2. Len(call.iovs) \in Nat
      BY <1>2
    <3>. QED
      BY <2>1, <3>1, <3>2
  <2>. QED
    BY <2>1, <2>2
<1>4. FlattenSeq(call.iovs) = h \o FlattenSeq(t) /\ FlattenSeq(t) \in Seq(Byte)
  BY <1>2, <1>3, FlattenHead, FlattenType DEF Then
<1>5. end <=> t = << >>
  BY <1>2, <1>3
<1>. HIDE DEF h, t, a, end
<1>6. /\ call'.op = "write" /\ call'.iovs = t /\ call'.state = (IF end THEN "returned" ELSE "asked")
      /\ call'.answer = << >> /\ call'.mem = << >> /\ call'.total = call.total + Len(h)
      /\ call' \in Frame
  <2>1. << >> \in Seq(Byte \union {Garbage}) /\ << >> \in Seq(Byte) /\ call.total + Len(h) \in Nat
    BY <1>2, <1>3
  <2>. QED
    BY <1>1, <1>2, <1>3, <2>1 DEF Frame
<1>7. WriteFrame'
  <2>1. CASE t = << >>
    BY <1>3, <1>5, <1>6, <2>1 DEF WriteFrame
  <2>2. CASE t # << >>
    <3>1. Head(t) \in Seq(Byte)
      BY <1>3, <2>2, HeadTailProperties
    <3>2. << >> = FirstOf(Head(t), 0) /\ Len(Head(t)) >= 0 /\ Len(<< >>) = 0
      BY <3>1, FromAll
    <3>. QED
      BY <1>3, <1>5, <1>6, <2>2, <3>2 DEF WriteFrame
  <2>. QED
    BY <2>1, <2>2
<1>8. Unsent = FlattenSeq(t)
  <2>1. From(h \o FlattenSeq(t), Len(h) + 1) = FlattenSeq(t)
    BY <1>3, <1>4, FromSecond
  <2>. QED
    BY <1>2, <1>4, <2>1 DEF Unsent, a
<1>9. Unsent' = FlattenSeq(t)
  <2>1. From(FlattenSeq(t), 1) = FlattenSeq(t) /\ Len(<< >>) = 0
    BY <1>4, FromAll
  <2>. QED
    BY <1>6, <2>1, FlattenNone DEF Unsent
<1>10. Promised' = Promised
  <2>1. Len(h \o FlattenSeq(t)) = Len(h) + Len(FlattenSeq(t)) /\ Len(FlattenSeq(t)) \in Nat
    BY <1>3, <1>4, ConcatProperties
  <2>2. Promised = call.total + (Len(h) + Len(FlattenSeq(t)))
    BY <1>4, <2>1 DEF Promised
  <2>3. Promised' = (call.total + Len(h)) + Len(FlattenSeq(t))
    BY <1>6 DEF Promised
  <2>. QED
    BY <1>2, <1>3, <2>1, <2>2, <2>3
<1>11. call' # NoCall /\ call'.state # "none"
  BY <1>6 DEF NoCall
<1>12. CallInv'
  BY <1>1, <1>6, <1>7, <1>11 DEF CallInv
<1>. QED
  BY <1>1, <1>6, <1>8, <1>9, <1>10, <1>12

\* The pipes' other ends do not disturb the call.
LEMMA CallStands ==
    ASSUME CallInv, call' = call, Dry => Dry',
           inBuf' \in Seq(Byte), inClosed' \in BOOLEAN,
           outBuf' \in Seq(Byte), Len(outBuf') <= Capacity
    PROVE  CallInv' /\ InFlight' = InFlight /\ Unsent' = Unsent /\ Promised' = Promised
<1>1. GotBytes' = GotBytes
  BY DEF GotBytes
<1>2. InFlight' = InFlight /\ Unsent' = Unsent /\ Promised' = Promised
  BY <1>1 DEF InFlight, Unsent, Promised
<1>3. ReadFrame => ReadFrame'
  BY <1>1 DEF ReadFrame
<1>4. WriteFrame => WriteFrame'
  BY DEF WriteFrame
<1>. QED
  BY <1>2, <1>3, <1>4 DEF CallInv

-----------------------------------------------------------------------------
(* Who calls, and what is held, at each point of the session.                *)

\* The shell does not read past the end of its input and a program neither.  A program
\* that has found the end has found it for all: this is what its having copied anything
\* tells when it is over, so that what the shell reads after it is nothing.
Control ==
    /\ program = "none" <=> pc # "running"
    /\ pc \in {"prompt", "exited"} => call.op = "none"
    /\ pc = "prompting" => call.op = "write"
    /\ pc = "next" => call.op # "write"
    /\ call.op = "read" => IF pc = "next" THEN ~eof ELSE ~ended
    /\ program = "echo" => ended
    /\ program # "cat" => hold = << >>
    /\ program = "none" => buffered = << >>
    /\ program = "cat" /\ ended => Dry
    /\ copied # << >> /\ program # "cat" => Dry
    /\ copied # << >> /\ pc = "next" => InFlight = << >>
    /\ pc = "running" /\ call.op = "write" => Promised = Len(buffered) + Len(Chunk)

StateTypes ==
    /\ editing \in Seq(Letter)
    /\ entered \in Seq(Seq(Letter))
    /\ sent \in Seq(Byte)
    /\ pc \in {"prompt", "prompting", "next", "running", "exited"}
    /\ pending \in Seq(Byte) /\ eof \in BOOLEAN
    /\ ran \in Seq(Seq(Byte)) /\ ranBytes \in Seq(Byte)
    /\ program \in {"none", "echo", "cat"}
    /\ hold \in Seq(Byte) /\ ended \in BOOLEAN
    /\ buffered \in Seq(Byte) /\ copied \in Seq(Byte)
    /\ printed \in Seq(Byte) /\ screen \in Seq(Byte)

SInv == CallInv /\ StateTypes /\ Control

LEMMA SInvTypes == SInv => TypeInvariant
BY CallInvTypes DEF SInv, StateTypes, TypeInvariant

\* Where the first line ends.
LEMMA FirstNewline ==
    ASSUME pending \in Seq(Byte), HasLine
    PROVE  /\ EndOfLine \in 1..Len(pending)
           /\ pending[EndOfLine] = NL
           /\ \A i \in 1..Len(pending) : pending[i] = NL => EndOfLine <= i
<1>. DEFINE I == {i \in 1..Len(pending) : pending[i] = NL}
<1>1. I # {} /\ I \subseteq Nat
  BY DEF HasLine, Contains
<1>2. EndOfLine = CHOOSE i \in I : \A j \in I : i =< j
  BY <1>1 DEF EndOfLine, SelectInSeq, Min
<1>3. \E i \in I : \A j \in I : i =< j
  <2>. HIDE DEF I
  <2>. QED
    BY <1>1, LeastIsThere
<1>4. EndOfLine \in I /\ \A j \in I : EndOfLine =< j
  <2>. HIDE DEF I
  <2>. QED
    BY <1>2, <1>3
<1>. QED
  BY <1>4

\* What next() takes of what it has and what it keeps.
LEMMA LineAndRest ==
    ASSUME pending \in Seq(Byte), HasLine
    PROVE  /\ FirstOf(pending, EndOfLine - 1) \in Seq(Byte)
           /\ FirstOf(pending, EndOfLine) \in Seq(Byte)
           /\ Rest \in Seq(Byte)
           /\ pending = FirstOf(pending, EndOfLine) \o Rest
<1>1. EndOfLine \in 0..Len(pending) /\ EndOfLine - 1 \in 0..Len(pending)
  BY FirstNewline
<1>. HIDE DEF EndOfLine
<1>. QED
  BY <1>1, FirstOfType, FromType, Cut DEF Rest

\* The chunk that is ready, and what is left of the rest.
LEMMA ChunkAndRest ==
    ASSUME hold \in Seq(Byte)
    PROVE  /\ Chunk \in Seq(Byte) /\ Len(Chunk) \in 0..Len(hold)
           /\ hold # << >> => Chunk # << >>
           /\ From(hold, Len(Chunk) + 1) \in Seq(Byte)
           /\ hold = Chunk \o From(hold, Len(Chunk) + 1)
<1>. DEFINE n == Lesser(CatChunk, Len(hold))
<1>1. CatChunk \in Nat \ {0} /\ Len(hold) \in Nat
  BY TerminalAssumption
<1>2. n \in 0..Len(hold) /\ (Len(hold) # 0 => n # 0)
  BY <1>1 DEF Lesser
<1>. HIDE DEF n
<1>3. FirstOf(hold, n) \in Seq(Byte) /\ Len(FirstOf(hold, n)) = n
  BY <1>2, FirstOfType
<1>4. From(hold, n + 1) \in Seq(Byte) /\ hold = FirstOf(hold, n) \o From(hold, n + 1)
  BY <1>2, FromType, Cut
<1>5. Chunk = FirstOf(hold, n)
  BY DEF Chunk, n
<1>6. hold # << >> => Chunk # << >>
  BY <1>2, <1>3, <1>5, EmptySeq
<1>. QED
  BY <1>2, <1>3, <1>4, <1>5, <1>6

\* What the program writes is its buffer and the chunk, and it is not nothing.
LEMMA WhatIsWritten ==
    ASSUME hold \in Seq(Byte), buffered \in Seq(Byte)
    PROVE  /\ <<buffered, Chunk>> \in Seq(Seq(Byte))
           /\ FlattenSeq(<<buffered, Chunk>>) = buffered \o Chunk
           /\ Len(buffered \o Chunk) = Len(buffered) + Len(Chunk)
           /\ buffered # << >> \/ hold # << >> => buffered \o Chunk # << >>
<1>1. Chunk \in Seq(Byte) /\ (hold # << >> => Chunk # << >>)
  BY ChunkAndRest
<1>. DEFINE s == <<buffered, Chunk>>
            t == <<Chunk>>
<1>2. /\ s \in Seq(Seq(Byte)) /\ s # << >> /\ Head(s) = buffered /\ Tail(s) = t
      /\ t \in Seq(Seq(Byte)) /\ t # << >> /\ Head(t) = Chunk /\ Tail(t) = << >>
  BY <1>1
<1>3. FlattenSeq(t) = Chunk \o << >> /\ FlattenSeq(s) = buffered \o FlattenSeq(t)
  <2>. HIDE DEF s, t
  <2>. QED
    BY <1>2, FlattenHead, FlattenNone DEF Then
<1>4. Chunk \o << >> = Chunk
  BY <1>1, ByteLaws, Zenon
<1>5. Len(buffered \o Chunk) = Len(buffered) + Len(Chunk)
  BY <1>1, ConcatProperties
<1>6. buffered # << >> \/ hold # << >> => buffered \o Chunk # << >>
  BY <1>1, ConcatEqualIffEmpty
<1>. QED
  BY <1>2, <1>3, <1>4, <1>5, <1>6

-----------------------------------------------------------------------------
(* What the steps leave alone.                                               *)

\* What the shell has read, for itself, and what cat has.
ShellRead == ranBytes \o pending \o ByShell(InFlight)
CatHas    == copied \o ByCat(buffered \o hold \o InFlight)

StateLaws ==
    SInv => /\ InFlight \in Seq(Byte) /\ Unsent \in Seq(Byte)
            /\ ShellRead \in Seq(Byte) /\ CatHas \in Seq(Byte)
            /\ TypedIsReadOnce <=> sent = (ShellRead \o CatHas) \o inBuf
            /\ call.op # "read" => InFlight = << >>
            /\ call.op # "write" => Unsent = << >>

LEMMA StateLawsHold == StateLaws
<1>. SUFFICES ASSUME SInv
              PROVE  /\ InFlight \in Seq(Byte) /\ Unsent \in Seq(Byte)
                     /\ ShellRead \in Seq(Byte) /\ CatHas \in Seq(Byte)
                     /\ TypedIsReadOnce <=> sent = (ShellRead \o CatHas) \o inBuf
                     /\ call.op # "read" => InFlight = << >>
                     /\ call.op # "write" => Unsent = << >>
  BY DEF StateLaws
<1>1. /\ call \in Frame /\ (call.op = "read" => ReadFrame /\ call.state # "none")
      /\ call.op = "write" => WriteFrame /\ call.state # "none"
  BY DEF SInv, CallInv
<1>2. InFlight \in Seq(Byte)
  <2>1. CASE call.op = "read"
    <3>1. call.answer \in Seq(Byte)
      BY <1>1 DEF Frame
    <3>2. GotBytes \in Seq(Byte)
      <4>1. CASE call.state = "returned"
        BY <1>1, <2>1, <4>1 DEF ReadFrame
      <4>2. CASE call.state \in {"asked", "answered"}
        BY <1>1, <2>1, <4>2, FromAll DEF ReadFrame, GotBytes
      <4>. QED
        BY <1>1, <2>1, <4>1, <4>2 DEF Frame
    <3>. QED
      BY <2>1, <3>1, <3>2, ConcatProperties DEF InFlight
  <2>2. CASE call.op # "read"
    BY <2>2 DEF InFlight
  <2>. QED
    BY <2>1, <2>2
<1>3. Unsent \in Seq(Byte)
  <2>1. CASE call.op = "write" /\ call.iovs # << >>
    <3>. DEFINE h == Head(call.iovs)
                rest == FlattenSeq(Tail(call.iovs))
    <3>1. /\ WriteFrame /\ call.iovs \in Seq(Seq(Byte)) /\ call.answer \in Seq(Byte)
          /\ Len(call.answer) <= Len(h)
      BY <1>1, <2>1 DEF Frame, WriteFrame
    <3>2. h \in Seq(Byte) /\ Tail(call.iovs) \in Seq(Seq(Byte))
      BY <2>1, <3>1, HeadTailProperties
    <3>3. FlattenSeq(call.iovs) = h \o rest /\ rest \in Seq(Byte)
      BY <2>1, <3>1, <3>2, FlattenHead, FlattenType DEF Then
    <3>. HIDE DEF h, rest
    <3>4. Len(call.answer) \in 0..Len(h)
      BY <3>1, <3>2
    <3>5. From(h \o rest, Len(call.answer) + 1) = From(h, Len(call.answer) + 1) \o rest
      BY <3>2, <3>3, <3>4, FromFirst
    <3>6. From(h, Len(call.answer) + 1) \in Seq(Byte)
      BY <3>2, <3>4, FromType
    <3>7. Unsent = From(h, Len(call.answer) + 1) \o rest
      BY <2>1, <3>3, <3>5, Zenon DEF Unsent
    <3>. QED
      BY <3>3, <3>6, <3>7, ConcatProperties
  <2>2. CASE ~(call.op = "write" /\ call.iovs # << >>)
    BY <2>2 DEF Unsent
  <2>. QED
    BY <2>1, <2>2
<1>4. ranBytes \in Seq(Byte) /\ pending \in Seq(Byte) /\ copied \in Seq(Byte) /\ buffered \in Seq(Byte) /\ hold \in Seq(Byte) /\ inBuf \in Seq(Byte)
  BY DEF SInv, StateTypes, CallInv
<1>5. ByShell(InFlight) \in Seq(Byte)
  BY <1>2 DEF ByShell
<1>6. ShellRead \in Seq(Byte)
  BY <1>4, <1>5, ByteLaws, Zenon DEF ShellRead
<1>7. ByCat(buffered \o hold \o InFlight) \in Seq(Byte)
  <2>1. buffered \o hold \o InFlight \in Seq(Byte)
    BY <1>2, <1>4, ByteLaws, Zenon
  <2>. QED
    BY <2>1 DEF ByCat
<1>8. CatHas \in Seq(Byte)
  BY <1>4, <1>7, ByteLaws, Zenon DEF CatHas
<1>9. ShellRead \o copied \o ByCat(buffered \o hold \o InFlight) = ShellRead \o CatHas
  <2>1. PICK k \in Seq(Byte) : k = ByCat(buffered \o hold \o InFlight)
    BY <1>7
  <2>2. PICK r \in Seq(Byte) : r = ShellRead
    BY <1>6
  <2>3. copied \in Seq(Byte)
    BY <1>4
  <2>4. (r \o copied) \o k = r \o (copied \o k)
    BY <2>3, ByteJoin, Zenon
  <2>. QED
    BY <2>1, <2>2, <2>4, Zenon DEF CatHas
<1>10. TypedIsReadOnce <=> sent = (ShellRead \o CatHas) \o inBuf
  BY <1>9, Zenon DEF TypedIsReadOnce, ShellRead
<1>11. call.op # "read" => InFlight = << >>
  BY DEF InFlight
<1>12. call.op # "write" => Unsent = << >>
  BY DEF Unsent
<1>. QED
  BY <1>2, <1>3, <1>6, <1>8, <1>10, <1>11, <1>12

\* A step that neither types nor reads, or reads between what is read and what is not.
LEMMA ReadGoesOn ==
    ASSUME SInv, SInv', TypedIsReadOnce, ShellRead' = ShellRead, CatHas' = CatHas,
           UNCHANGED <<sent, inBuf>>
    PROVE  TypedIsReadOnce'
<1>1. StateLaws /\ StateLaws'
  BY StateLawsHold, PTL
<1>. QED
  BY <1>1, Zenon DEF StateLaws

Goes == SInv' /\ (TypedIsReadOnce => TypedIsReadOnce') /\ (ScreenInOrder => ScreenInOrder')

\* A step that leaves the call, and all that was read and written, alone.
LEMMA AllStands ==
    ASSUME SInv, SInv', InFlight' = InFlight, Unsent' = Unsent,
           UNCHANGED <<sent, inBuf, shellVars, programVars, printed, screen, outBuf>>
    PROVE  Goes
<1>1. ShellRead' = ShellRead /\ CatHas' = CatHas
  BY DEF ShellRead, CatHas, ByShell, ByCat, shellVars, programVars
<1>2. TypedIsReadOnce => TypedIsReadOnce'
  BY <1>1, ReadGoesOn
<1>3. ScreenInOrder => ScreenInOrder'
  BY DEF ScreenInOrder
<1>. QED
  BY <1>2, <1>3 DEF Goes

\* The browser's steps: the keys, the end of input and the drain.
LEMMA KeysGo ==
    ASSUME SInv, (\E ch \in Letter : Types(ch)) \/ Erases
    PROVE  Goes
<1>1. /\ editing' \in Seq(Letter)
      /\ UNCHANGED <<callVars, entered, sent, shellVars, programVars, printed, screen>>
  <2>1. editing \in Seq(Letter)
    BY DEF SInv, StateTypes
  <2>2. ASSUME NEW ch \in Letter, Types(ch)  PROVE editing' \in Seq(Letter)
    BY <2>1, <2>2, AppendProperties DEF Types
  <2>3. ASSUME Erases  PROVE editing' \in Seq(Letter)
    <3>1. Len(editing) - 1 \in 0..Len(editing) /\ editing' = FirstOf(editing, Len(editing) - 1)
      BY <2>1, <2>3, EmptySeq DEF Erases, Front, FirstOf
    <3>. QED
      BY <2>1, <3>1, FirstOfType
  <2>. QED
    BY <2>2, <2>3 DEF Types, Erases
<1>2. CallInv' /\ InFlight' = InFlight /\ Unsent' = Unsent /\ Promised' = Promised
  <2>1. Dry => Dry'
    BY <1>1 DEF Dry, callVars
  <2>. QED
    BY <1>1, <2>1, CallStands DEF SInv, CallInv, callVars
<1>3. SInv'
  <2>1. StateTypes'
    BY <1>1 DEF SInv, StateTypes, shellVars, programVars
  <2>2. Control'
    BY <1>1, <1>2 DEF SInv, Control, shellVars, programVars, callVars, Chunk, Dry
  <2>. QED
    BY <1>2, <2>1, <2>2 DEF SInv
<1>. QED
  BY <1>1, <1>2, <1>3, AllStands DEF callVars

LEMMA EnterGoes ==
    ASSUME SInv, Enters
    PROVE  Goes
<1>. DEFINE line == editing \o <<NL>>
<1>1. /\ ~inClosed /\ inBuf' = inBuf \o line /\ sent' = sent \o line
      /\ entered' = Append(entered, editing) /\ editing' = << >>
      /\ UNCHANGED <<inClosed, outBuf, call, shellVars, programVars, printed, screen>>
  BY DEF Enters
<1>2. editing \in Seq(Letter) /\ line \in Seq(Byte)
  <2>1. editing \in Seq(Letter) /\ editing \in Seq(Byte) /\ <<NL>> \in Seq(Byte)
    BY SeqMonotonic, TerminalAssumption DEF SInv, StateTypes
  <2>. QED
    BY <2>1, ConcatProperties
<1>. HIDE DEF line
<1>3. inBuf \in Seq(Byte) /\ inBuf' \in Seq(Byte) /\ sent \in Seq(Byte) /\ sent' \in Seq(Byte)
  BY <1>1, <1>2, ConcatProperties DEF SInv, CallInv, StateTypes
<1>4. CallInv' /\ InFlight' = InFlight /\ Unsent' = Unsent /\ Promised' = Promised
  <2>1. Dry => Dry'
    BY <1>1 DEF Dry
  <2>. QED
    BY <1>1, <1>3, <2>1, CallStands DEF SInv, CallInv
<1>5. SInv'
  <2>1. entered' \in Seq(Seq(Letter)) /\ editing' \in Seq(Letter)
    BY <1>1, <1>2, AppendProperties DEF SInv, StateTypes
  <2>2. StateTypes'
    BY <1>1, <1>3, <2>1 DEF SInv, StateTypes, shellVars, programVars
  <2>3. Control'
    BY <1>1, <1>4 DEF SInv, Control, shellVars, programVars, Chunk, Dry
  <2>. QED
    BY <1>4, <2>2, <2>3 DEF SInv
<1>6. ASSUME TypedIsReadOnce  PROVE TypedIsReadOnce'
  <2>1. StateLaws /\ StateLaws'
    BY StateLawsHold, PTL
  <2>2. ShellRead' = ShellRead /\ CatHas' = CatHas
    BY <1>1, <1>4 DEF ShellRead, CatHas, ByShell, ByCat, shellVars, programVars
  <2>3. PICK r \in Seq(Byte) : r = ShellRead \o CatHas
    BY <2>1, ConcatProperties DEF StateLaws
  <2>4. sent = r \o inBuf
    BY <1>6, <2>1, <2>3 DEF StateLaws
  <2>5. (r \o inBuf) \o line = r \o (inBuf \o line)
    <3>1. inBuf \in Seq(Byte) /\ line \in Seq(Byte)
      BY <1>2, <1>3
    <3>. QED
      BY <3>1, ByteJoin, Zenon
  <2>6. sent' = r \o inBuf'
    BY <1>1, <2>4, <2>5
  <2>. QED
    BY <1>5, <2>1, <2>2, <2>3, <2>6, Zenon DEF StateLaws
<1>7. ScreenInOrder => ScreenInOrder'
  BY <1>1, <1>4 DEF ScreenInOrder
<1>. QED
  BY <1>5, <1>6, <1>7 DEF Goes

LEMMA CloseGoes ==
    ASSUME SInv, ClosesStdin
    PROVE  Goes
<1>. DEFINE kept == Lesser(Capacity, Len(inBuf))
<1>1. /\ ~inClosed /\ inClosed' = TRUE /\ inBuf' = FirstOf(inBuf, kept)
      /\ sent' = FirstOf(sent, Len(sent) - (Len(inBuf) - kept))
      /\ UNCHANGED <<outBuf, call, editing, entered, shellVars, programVars, printed, screen>>
  BY DEF ClosesStdin
<1>2. inBuf \in Seq(Byte) /\ sent \in Seq(Byte) /\ kept \in 0..Len(inBuf)
  <2>1. inBuf \in Seq(Byte) /\ sent \in Seq(Byte) /\ Capacity \in Nat
    BY WasiCallsAssumption DEF SInv, CallInv, StateTypes
  <2>. QED
    BY <2>1 DEF Lesser
<1>. HIDE DEF kept
<1>3. inBuf' \in Seq(Byte)
  BY <1>1, <1>2, FirstOfType
<1>4. CallInv' /\ InFlight' = InFlight /\ Unsent' = Unsent /\ Promised' = Promised
  <2>1. Dry => Dry'
    BY <1>1 DEF Dry
  <2>. QED
    BY <1>1, <1>3, <2>1, CallStands DEF SInv, CallInv
<1>5. sent' \in Seq(Byte)
  <2>1. \A i \in 1..Len(sent) - (Len(inBuf) - kept) : sent[i] \in Byte
    BY <1>2, ElementOfSeq
  <2>2. Len(sent) - (Len(inBuf) - kept) \in Int /\ 1 \in Int
    BY <1>2
  <2>. QED
    BY <1>1, <2>1, <2>2, SubSeqProperties DEF FirstOf
<1>6. SInv'
  <2>1. StateTypes'
    BY <1>1, <1>5 DEF SInv, StateTypes, shellVars, programVars
  <2>2. Control'
    BY <1>1, <1>4 DEF SInv, Control, shellVars, programVars, Chunk, Dry
  <2>. QED
    BY <1>4, <2>1, <2>2 DEF SInv
<1>7. ASSUME TypedIsReadOnce  PROVE TypedIsReadOnce'
  <2>1. StateLaws /\ StateLaws'
    BY StateLawsHold, PTL
  <2>2. ShellRead' = ShellRead /\ CatHas' = CatHas
    BY <1>1, <1>4 DEF ShellRead, CatHas, ByShell, ByCat, shellVars, programVars
  <2>3. PICK r \in Seq(Byte) : r = ShellRead \o CatHas
    BY <2>1, ConcatProperties DEF StateLaws
  <2>4. sent = r \o inBuf
    BY <1>7, <2>1, <2>3 DEF StateLaws
  <2>5. Len(sent) - (Len(inBuf) - kept) = Len(r) + kept
    BY <1>2, <2>4, ConcatProperties
  <2>6. FirstOf(r \o inBuf, Len(r) + kept) = r \o FirstOf(inBuf, kept)
    BY <1>2, FirstOfBoth
  <2>7. sent' = r \o inBuf'
    BY <1>1, <2>4, <2>5, <2>6
  <2>. QED
    BY <1>6, <2>1, <2>2, <2>3, <2>7, Zenon DEF StateLaws
<1>8. ScreenInOrder => ScreenInOrder'
  BY <1>1, <1>4 DEF ScreenInOrder
<1>. QED
  BY <1>6, <1>7, <1>8 DEF Goes

LEMMA DrainGoes ==
    ASSUME SInv, Drains
    PROVE  Goes
<1>1. /\ screen' = screen \o outBuf /\ outBuf' = << >>
      /\ UNCHANGED <<inBuf, inClosed, call, keyVars, shellVars, programVars, printed>>
  BY DEF Drains
<1>2. screen \in Seq(Byte) /\ outBuf \in Seq(Byte) /\ outBuf' \in Seq(Byte) /\ Len(outBuf') <= Capacity
  BY <1>1, WasiCallsAssumption DEF SInv, CallInv, StateTypes
<1>3. CallInv' /\ InFlight' = InFlight /\ Unsent' = Unsent /\ Promised' = Promised
  <2>1. Dry => Dry'
    BY <1>1 DEF Dry
  <2>. QED
    BY <1>1, <1>2, <2>1, CallStands DEF SInv, CallInv
<1>4. screen' \in Seq(Byte)
  BY <1>1, <1>2, ConcatProperties
<1>5. SInv'
  <2>1. StateTypes'
    BY <1>1, <1>4 DEF SInv, StateTypes, keyVars, shellVars, programVars
  <2>2. Control'
    BY <1>1, <1>3 DEF SInv, Control, shellVars, programVars, Chunk, Dry
  <2>. QED
    BY <1>3, <2>1, <2>2 DEF SInv
<1>6. TypedIsReadOnce => TypedIsReadOnce'
  <2>1. ShellRead' = ShellRead /\ CatHas' = CatHas
    BY <1>1, <1>3 DEF ShellRead, CatHas, ByShell, ByCat, shellVars, programVars
  <2>. QED
    BY <1>1, <1>5, <2>1, ReadGoesOn DEF keyVars
<1>7. ScreenInOrder => ScreenInOrder'
  <2>1. (screen \o outBuf) \o << >> = screen \o outBuf
    BY <1>1, <1>4, ByteLaws, Zenon
  <2>. QED
    BY <1>1, <1>3, <2>1, Zenon DEF ScreenInOrder
<1>. QED
  BY <1>5, <1>6, <1>7 DEF Goes

-----------------------------------------------------------------------------
(* The shell's steps.                                                        *)

LEMMA PromptGoes ==
    ASSUME SInv, WritesPrompt
    PROVE  Goes
<1>1. /\ pc = "prompt" /\ pc' = "prompting" /\ Writes(Prompt)
      /\ printed' = printed \o FlattenSeq(Prompt)
      /\ UNCHANGED <<keyVars, pending, eof, ran, ranBytes, programVars, screen>>
  BY DEF WritesPrompt
<1>2. Prompt \in Seq(Seq(Byte)) /\ Prompt # << >> /\ Prompt \in Seq(Seq(Byte) \ {<< >>})
  BY SeqMonotonic, TerminalAssumption
<1>3. FlattenSeq(Prompt) \in Seq(Byte) /\ FlattenSeq(Prompt) # << >>
  <2>1. Head(Prompt) \in Seq(Byte) /\ Head(Prompt) # << >> /\ Tail(Prompt) \in Seq(Seq(Byte))
    <3>1. Head(Prompt) \in Seq(Byte) \ {<< >>}
      BY <1>2, HeadTailProperties
    <3>2. Tail(Prompt) \in Seq(Seq(Byte))
      BY <1>2, HeadTailProperties
    <3>. QED
      BY <3>1, <3>2
  <2>2. FlattenSeq(Prompt) = Head(Prompt) \o FlattenSeq(Tail(Prompt))
    BY <1>2, FlattenHead DEF Then
  <2>3. FlattenSeq(Tail(Prompt)) \in Seq(Byte)
    BY <2>1, FlattenType
  <2>. QED
    BY <2>1, <2>2, <2>3, ConcatProperties, ConcatEqualIffEmpty
<1>4. call = NoCall /\ call.op = "none" /\ UNCHANGED <<inBuf, inClosed, outBuf>>
  BY <1>1 DEF Writes, NoCall
<1>5. CallInv' /\ call'.op = "write" /\ InFlight' = << >> /\ Unsent' = FlattenSeq(Prompt)
  BY <1>1, <1>2, <1>3, WriteStarts DEF SInv
<1>6. InFlight = << >> /\ Unsent = << >>
  BY <1>4 DEF InFlight, Unsent
<1>7. SInv'
  <2>1. printed' \in Seq(Byte)
    BY <1>1, <1>3, ConcatProperties DEF SInv, StateTypes
  <2>2. StateTypes'
    BY <1>1, <2>1 DEF SInv, StateTypes, keyVars, programVars
  <2>3. Control'
    BY <1>1, <1>4, <1>5 DEF SInv, Control, programVars, Dry
  <2>. QED
    BY <1>5, <2>2, <2>3 DEF SInv
<1>8. TypedIsReadOnce => TypedIsReadOnce'
  <2>1. ShellRead' = ShellRead /\ CatHas' = CatHas
    BY <1>1, <1>5, <1>6 DEF ShellRead, CatHas, ByShell, ByCat, programVars
  <2>. QED
    BY <1>1, <1>4, <1>7, <2>1, ReadGoesOn DEF keyVars
<1>9. ScreenInOrder => ScreenInOrder'
  <2>1. PICK s \in Seq(Byte) : s = screen \o outBuf
    BY ConcatProperties DEF SInv, StateTypes, CallInv
  <2>2. s \o << >> = s
    BY ByteLaws, Zenon
  <2>3. ScreenInOrder => printed = s
    BY <1>6, <2>1, <2>2 DEF ScreenInOrder
  <2>4. screen' \o outBuf' \o Unsent' = s \o FlattenSeq(Prompt)
    BY <1>1, <1>4, <1>5, <2>1
  <2>. QED
    BY <1>1, <2>3, <2>4 DEF ScreenInOrder
<1>. QED
  BY <1>7, <1>8, <1>9 DEF Goes

\* A call that is over had nothing more to bring or to send.
LEMMA Over ==
    ASSUME SInv, call.state = "returned"
    PROVE  /\ call.op = "read" => InFlight = GotBytes
           /\ call.op = "write" => Unsent = << >>
           /\ call.op = "write" => Promised = call.total
<1>1. ASSUME call.op = "read"  PROVE InFlight = GotBytes
  <2>1. ReadFrame
    BY <1>1 DEF SInv, CallInv
  <2>2. call.answer = << >> /\ GotBytes \in Seq(Byte)
    BY <2>1 DEF ReadFrame
  <2>3. InFlight = GotBytes \o << >>
    BY <1>1, <2>2 DEF InFlight
  <2>. QED
    BY <2>2, <2>3, ByteLaws, Zenon
<1>2. ASSUME call.op = "write"  PROVE Unsent = << >> /\ Promised = call.total
  <2>1. WriteFrame /\ call.total \in Nat
    BY <1>2 DEF SInv, CallInv, Frame
  <2>2. call.iovs = << >>
    BY <2>1 DEF WriteFrame
  <2>. QED
    BY <2>1, <2>2, FlattenNone DEF Unsent, Promised
<1>. QED
  BY <1>1, <1>2

LEMMA PromptedGoes ==
    ASSUME SInv, PromptWritten
    PROVE  Goes
<1>1. /\ pc = "prompting" /\ pc' = "next" /\ call.op = "write" /\ call.state = "returned" /\ Resumes
      /\ UNCHANGED <<keyVars, pending, eof, ran, ranBytes, programVars, printed, screen>>
  BY DEF PromptWritten, Returned
<1>2. CallInv' /\ call' = NoCall /\ InFlight' = << >> /\ Unsent' = << >> /\ UNCHANGED <<inBuf, inClosed, outBuf>>
  BY <1>1, CallResumes DEF SInv
<1>3. InFlight = << >> /\ Unsent = << >>
  BY <1>1, Over DEF InFlight
<1>4. call'.op = "none"
  BY <1>2 DEF NoCall
<1>5. SInv'
  <2>1. StateTypes'
    BY <1>1 DEF SInv, StateTypes, keyVars, programVars
  <2>2. Control'
    BY <1>1, <1>2, <1>4 DEF SInv, Control, programVars, Dry
  <2>. QED
    BY <1>2, <2>1, <2>2 DEF SInv
<1>6. TypedIsReadOnce => TypedIsReadOnce'
  <2>1. ShellRead' = ShellRead /\ CatHas' = CatHas
    BY <1>1, <1>2, <1>3 DEF ShellRead, CatHas, ByShell, ByCat, programVars
  <2>. QED
    BY <1>1, <1>2, <1>5, <2>1, ReadGoesOn DEF keyVars
<1>7. ScreenInOrder => ScreenInOrder'
  BY <1>1, <1>2, <1>3 DEF ScreenInOrder
<1>. QED
  BY <1>5, <1>6, <1>7 DEF Goes

\* runLine, on a line of bytes that are no longer pending.
LEMMA RunLineGoes ==
    ASSUME SInv, pc = "next", call = NoCall,
           NEW line \in Seq(Byte), NEW bytes \in Seq(Byte), RunLine(line, bytes),
           pending' \in Seq(Byte), pending = bytes \o pending',
           UNCHANGED <<callVars, keyVars, eof, screen>>
    PROVE  Goes
<1>1. /\ ran' = Append(ran, line) /\ ranBytes' = ranBytes \o bytes
      /\ \/ pc' \in {"prompt", "exited"} /\ UNCHANGED <<program, buffered, ended>>
         \/ pc' = "running" /\ program' = "echo" /\ buffered' = Output /\ ended' = TRUE
         \/ pc' = "running" /\ program' = "cat" /\ buffered' = << >> /\ ended' = FALSE
      /\ UNCHANGED <<hold, copied, printed>>
  BY DEF RunLine
<1>2. /\ call.op = "none" /\ program = "none" /\ hold = << >> /\ InFlight = << >>
      /\ call' = call /\ UNCHANGED <<inBuf, inClosed, outBuf>>
  BY DEF NoCall, SInv, Control, InFlight, callVars
<1>3. ran' \in Seq(Seq(Byte)) /\ ranBytes' \in Seq(Byte) /\ buffered' \in Seq(Byte)
  <2>1. ran' \in Seq(Seq(Byte)) /\ ranBytes' \in Seq(Byte)
    BY <1>1, AppendProperties, ConcatProperties DEF SInv, StateTypes
  <2>2. buffered' \in Seq(Byte)
    BY <1>1, TerminalAssumption, ByteLaws, ZenonT(60) DEF SInv, StateTypes
  <2>. QED
    BY <2>1, <2>2
<1>4. CallInv' /\ InFlight' = InFlight /\ Unsent' = Unsent
  <2>1. Dry => Dry'
    BY <1>2 DEF Dry
  <2>. QED
    BY <1>2, <2>1, CallStands DEF SInv, CallInv
<1>5. SInv'
  <2>1. StateTypes'
    BY <1>1, <1>3 DEF SInv, StateTypes, keyVars
  <2>2. Control'
    BY <1>1, <1>2, <1>4 DEF SInv, Control, Dry
  <2>. QED
    BY <1>4, <2>1, <2>2 DEF SInv
<1>6. TypedIsReadOnce => TypedIsReadOnce'
  <2>1. (ranBytes \o bytes) \o pending' = ranBytes \o pending
    <3>1. ranBytes \in Seq(Byte)
      BY DEF SInv, StateTypes
    <3>. QED
      BY <3>1, ByteLaws, ZenonT(40)
  <2>2. ByShell(InFlight) = << >> /\ ByShell(InFlight)' = << >>
    BY <1>2, <1>4 DEF ByShell
  <2>3. ShellRead' = ShellRead
    BY <1>1, <2>1, <2>2, Zenon DEF ShellRead
  <2>4. CatHas' = CatHas
    <3>1. << >> \o << >> = << >>
      BY ByteLaws, Zenon
    <3>2. ByCat(buffered \o hold \o InFlight) = << >>
      BY <1>2 DEF ByCat
    <3>3. ByCat(buffered \o hold \o InFlight)' = << >>
      <4>1. CASE program' = "cat"
        <5>1. (buffered \o hold \o InFlight)' = << >> \o << >> \o << >>
          BY <1>1, <1>2, <1>4, <4>1
        <5>. QED
          BY <3>1, <5>1 DEF ByCat
      <4>2. CASE program' # "cat"
        BY <4>2 DEF ByCat
      <4>. QED
        BY <4>1, <4>2
    <3>. QED
      BY <1>1, <3>2, <3>3 DEF CatHas
  <2>. QED
    BY <1>2, <1>5, <2>3, <2>4, ReadGoesOn DEF keyVars
<1>7. ScreenInOrder => ScreenInOrder'
  BY <1>1, <1>2, <1>4 DEF ScreenInOrder
<1>. QED
  BY <1>5, <1>6, <1>7 DEF Goes

LEMMA TakeGoes ==
    ASSUME SInv, TakesLine \/ TakesLast
    PROVE  Goes
<1>0. pending \in Seq(Byte)
  BY DEF SInv, StateTypes
<1>1. ASSUME TakesLine  PROVE Goes
  <2>1. /\ pc = "next" /\ call = NoCall /\ HasLine
        /\ RunLine(FirstOf(pending, EndOfLine - 1), FirstOf(pending, EndOfLine))
        /\ pending' = Rest /\ UNCHANGED <<callVars, keyVars, eof, screen>>
    BY <1>1 DEF TakesLine
  <2>2. /\ FirstOf(pending, EndOfLine - 1) \in Seq(Byte)
        /\ FirstOf(pending, EndOfLine) \in Seq(Byte)
        /\ Rest \in Seq(Byte)
        /\ pending = FirstOf(pending, EndOfLine) \o Rest
    BY <1>0, <2>1, LineAndRest
  <2>. QED
    BY <2>1, <2>2, RunLineGoes
<1>2. ASSUME TakesLast  PROVE Goes
  <2>1. /\ pc = "next" /\ call = NoCall
        /\ RunLine(pending, pending)
        /\ pending' = << >> /\ UNCHANGED <<callVars, keyVars, eof, screen>>
    BY <1>2 DEF TakesLast
  <2>2. << >> \in Seq(Byte) /\ pending = pending \o << >>
    BY <1>0, ByteLaws, Zenon
  <2>. QED
    BY <1>0, <2>1, <2>2, RunLineGoes
<1>. QED
  BY <1>1, <1>2

LEMMA ReadChunkGoes ==
    ASSUME SInv, ReadsChunk
    PROVE  Goes
<1>1. /\ pc = "next" /\ ~eof /\ Reads(<<ChunkLen>>)
      /\ UNCHANGED <<keyVars, shellVars, programVars, printed, screen>>
  BY DEF ReadsChunk
<1>2. call = NoCall /\ call.op = "none" /\ UNCHANGED <<inBuf, inClosed, outBuf>>
  BY <1>1 DEF Reads, NoCall
<1>3. CallInv' /\ call'.op = "read" /\ InFlight' = << >> /\ Unsent' = << >>
  <2>1. <<ChunkLen>> \in Seq(Nat \ {0}) /\ <<ChunkLen>> # << >>
    BY TerminalAssumption
  <2>. QED
    BY <1>1, <2>1, ReadStarts DEF SInv
<1>4. InFlight = << >> /\ Unsent = << >>
  BY <1>2 DEF InFlight, Unsent
<1>5. SInv'
  <2>1. StateTypes'
    BY <1>1 DEF SInv, StateTypes, keyVars, shellVars, programVars
  <2>2. Control'
    BY <1>1, <1>2, <1>3 DEF SInv, Control, shellVars, programVars, Dry
  <2>. QED
    BY <1>3, <2>1, <2>2 DEF SInv
<1>. QED
  BY <1>1, <1>2, <1>3, <1>4, <1>5, AllStands DEF keyVars

LEMMA ChunkReadGoes ==
    ASSUME SInv, ChunkRead
    PROVE  Goes
<1>1. /\ pc = "next" /\ call.op = "read" /\ call.state = "returned" /\ Resumes
      /\ pending' = pending \o GotBytes /\ eof' = AtEof
      /\ UNCHANGED <<keyVars, pc, ran, ranBytes, programVars, printed, screen>>
  BY DEF ChunkRead, Returned
<1>2. CallInv' /\ call' = NoCall /\ InFlight' = << >> /\ Unsent' = << >> /\ UNCHANGED <<inBuf, inClosed, outBuf>>
  BY <1>1, CallResumes DEF SInv
<1>3. InFlight = GotBytes /\ Unsent = << >> /\ InFlight \in Seq(Byte)
  BY <1>1, Over, StateLawsHold DEF Unsent, StateLaws
<1>4. call'.op = "none"
  BY <1>2 DEF NoCall
<1>5. SInv'
  <2>1. pending' \in Seq(Byte) /\ eof' \in BOOLEAN
    BY <1>1, <1>3, ConcatProperties DEF SInv, StateTypes, AtEof
  <2>2. StateTypes'
    BY <1>1, <2>1 DEF SInv, StateTypes, keyVars, programVars
  <2>3. Control'
    BY <1>1, <1>2, <1>4 DEF SInv, Control, programVars, Dry
  <2>. QED
    BY <1>2, <2>2, <2>3 DEF SInv
<1>6. TypedIsReadOnce => TypedIsReadOnce'
  <2>1. ShellRead = ranBytes \o pending \o GotBytes
    BY <1>1, <1>3 DEF ShellRead, ByShell
  <2>2. ShellRead' = ranBytes \o (pending \o GotBytes) \o << >>
    BY <1>1, <1>2 DEF ShellRead, ByShell
  <2>3. ShellRead' = ShellRead
    <3>1. ranBytes \in Seq(Byte) /\ pending \in Seq(Byte) /\ GotBytes \in Seq(Byte)
      BY <1>3 DEF SInv, StateTypes
    <3>2. ranBytes \o (pending \o GotBytes) = ranBytes \o pending \o GotBytes
      BY <3>1, ByteJoin, Zenon
    <3>3. PICK s \in Seq(Byte) : s = ranBytes \o (pending \o GotBytes)
      BY <3>1, ConcatProperties
    <3>4. s \o << >> = s
      BY ByteLaws, Zenon
    <3>. QED
      BY <2>1, <2>2, <3>2, <3>3, <3>4
  <2>4. CatHas' = CatHas
    BY <1>1 DEF CatHas, ByCat, SInv, Control, programVars
  <2>. QED
    BY <1>1, <1>2, <1>5, <2>3, <2>4, ReadGoesOn DEF keyVars
<1>7. ScreenInOrder => ScreenInOrder'
  BY <1>1, <1>2, <1>3 DEF ScreenInOrder
<1>. QED
  BY <1>5, <1>6, <1>7 DEF Goes

LEMMA ExitGoes ==
    ASSUME SInv, Exits
    PROVE  Goes
<1>1. /\ pc = "next" /\ pc' = "exited" /\ call = NoCall /\ call.op = "none"
      /\ UNCHANGED <<inBuf, inClosed, outBuf, call>>
      /\ UNCHANGED <<keyVars, pending, eof, ran, ranBytes, programVars, printed, screen>>
  BY DEF Exits, NoCall, callVars
<1>2. CallInv' /\ InFlight' = InFlight /\ Unsent' = Unsent /\ InFlight = << >>
  <2>1. Dry => Dry'
    BY <1>1 DEF Dry
  <2>. QED
    BY <1>1, <2>1, CallStands DEF SInv, CallInv, InFlight
<1>3. SInv'
  <2>1. StateTypes'
    BY <1>1 DEF SInv, StateTypes, keyVars, programVars
  <2>2. Control'
    BY <1>1, <1>2 DEF SInv, Control, programVars, Dry
  <2>. QED
    BY <1>2, <2>1, <2>2 DEF SInv
<1>4. TypedIsReadOnce => TypedIsReadOnce'
  <2>1. ShellRead' = ShellRead /\ CatHas' = CatHas
    BY <1>1, <1>2 DEF ShellRead, CatHas, ByShell, ByCat, programVars
  <2>. QED
    BY <1>1, <1>3, <2>1, ReadGoesOn DEF keyVars
<1>5. ScreenInOrder => ScreenInOrder'
  BY <1>1, <1>2 DEF ScreenInOrder
<1>. QED
  BY <1>3, <1>4, <1>5 DEF Goes

-----------------------------------------------------------------------------
(* The program's steps.                                                      *)

LEMMA CatReadsGoes ==
    ASSUME SInv, CatReads
    PROVE  Goes
<1>1. /\ pc = "running" /\ ~ended /\ ~ChunkReady /\ Reads(<<CatChunk - Len(hold), CatBuf>>)
      /\ UNCHANGED <<keyVars, shellVars, programVars, printed, screen>>
  BY DEF CatReads
<1>2. call = NoCall /\ call.op = "none" /\ UNCHANGED <<inBuf, inClosed, outBuf>>
  BY <1>1 DEF Reads, NoCall
<1>3. CallInv' /\ call'.op = "read" /\ InFlight' = << >> /\ Unsent' = << >>
  <2>1. PICK n \in Nat \ {0} : n = CatChunk - Len(hold)
    <3>1. hold \in Seq(Byte) /\ Len(hold) \in Nat /\ CatChunk \in Nat \ {0}
      BY TerminalAssumption DEF SInv, StateTypes
    <3>2. Len(hold) < CatChunk
      <4>1. hold = << >> => Len(hold) = 0
        BY EmptySeq
      <4>. QED
        BY <1>1, <3>1, <4>1 DEF ChunkReady
    <3>. QED
      BY <3>1, <3>2
  <2>2. <<n, CatBuf>> \in Seq(Nat \ {0}) /\ <<n, CatBuf>> # << >>
    BY TerminalAssumption
  <2>. QED
    BY <1>1, <2>1, <2>2, ReadStarts DEF SInv
<1>4. InFlight = << >> /\ Unsent = << >>
  BY <1>2 DEF InFlight, Unsent
<1>5. SInv'
  <2>1. StateTypes'
    BY <1>1 DEF SInv, StateTypes, keyVars, shellVars, programVars
  <2>2. Control'
    BY <1>1, <1>2, <1>3 DEF SInv, Control, shellVars, programVars, Dry
  <2>. QED
    BY <1>3, <2>1, <2>2 DEF SInv
<1>. QED
  BY <1>1, <1>2, <1>3, <1>4, <1>5, AllStands DEF keyVars

LEMMA CatReadGoes ==
    ASSUME SInv, CatRead
    PROVE  Goes
<1>1. /\ pc = "running" /\ call.op = "read" /\ call.state = "returned" /\ Resumes
      /\ hold' = hold \o GotBytes /\ ended' = (call.total = 0)
      /\ UNCHANGED <<keyVars, shellVars, program, buffered, copied, printed, screen>>
  BY DEF CatRead, Returned
<1>2. CallInv' /\ call' = NoCall /\ InFlight' = << >> /\ Unsent' = << >> /\ UNCHANGED <<inBuf, inClosed, outBuf>>
  BY <1>1, CallResumes DEF SInv
<1>3. InFlight = GotBytes /\ Unsent = << >> /\ InFlight \in Seq(Byte)
  BY <1>1, Over, StateLawsHold DEF Unsent, StateLaws
<1>4. call'.op = "none"
  BY <1>2 DEF NoCall
<1>5. program = "cat"
  BY <1>1 DEF SInv, Control, StateTypes
<1>6. call.total = 0 => Dry
  BY <1>1 DEF SInv, CallInv, ReadFrame
<1>7. SInv'
  <2>1. hold' \in Seq(Byte) /\ ended' \in BOOLEAN
    BY <1>1, <1>3, ConcatProperties DEF SInv, StateTypes
  <2>2. StateTypes'
    BY <1>1, <2>1 DEF SInv, StateTypes, keyVars, shellVars
  <2>3. Control'
    BY <1>1, <1>2, <1>4, <1>5, <1>6 DEF SInv, Control, shellVars, Dry
  <2>. QED
    BY <1>2, <2>2, <2>3 DEF SInv
<1>8. TypedIsReadOnce => TypedIsReadOnce'
  <2>1. ShellRead' = ShellRead
    BY <1>1 DEF ShellRead, ByShell, shellVars
  <2>2. (buffered \o hold \o InFlight)' = buffered \o hold \o InFlight
    <3>1. buffered \in Seq(Byte) /\ hold \in Seq(Byte) /\ GotBytes \in Seq(Byte)
      BY <1>3 DEF SInv, StateTypes
    <3>2. buffered \o (hold \o GotBytes) = buffered \o hold \o GotBytes
      BY <3>1, ByteJoin, Zenon
    <3>3. PICK s \in Seq(Byte) : s = buffered \o (hold \o GotBytes)
      BY <3>1, ConcatProperties
    <3>4. s \o << >> = s
      BY ByteLaws, Zenon
    <3>5. (buffered \o hold \o InFlight)' = buffered \o (hold \o GotBytes) \o << >>
      BY <1>1, <1>2
    <3>. QED
      BY <1>3, <3>2, <3>3, <3>4, <3>5
  <2>3. CatHas' = CatHas
    BY <1>1, <2>2 DEF CatHas, ByCat
  <2>. QED
    BY <1>1, <1>2, <1>7, <2>1, <2>3, ReadGoesOn DEF keyVars
<1>9. ScreenInOrder => ScreenInOrder'
  BY <1>1, <1>2, <1>3 DEF ScreenInOrder
<1>. QED
  BY <1>7, <1>8, <1>9 DEF Goes

LEMMA CatBuffersGoes ==
    ASSUME SInv, CatBuffers
    PROVE  Goes
<1>1. /\ pc = "running" /\ call = NoCall /\ hold # << >> /\ call.op = "none"
      /\ buffered' = buffered \o Chunk /\ hold' = From(hold, Len(Chunk) + 1) /\ ended' = FALSE
      /\ UNCHANGED <<inBuf, inClosed, outBuf, call>>
      /\ UNCHANGED <<keyVars, shellVars, program, copied, printed, screen>>
  BY DEF CatBuffers, ChunkReady, NoCall, callVars
<1>2. hold \in Seq(Byte) /\ buffered \in Seq(Byte)
  BY DEF SInv, StateTypes
<1>3. Chunk \in Seq(Byte) /\ hold' \in Seq(Byte) /\ hold = Chunk \o hold'
  BY <1>1, <1>2, ChunkAndRest
<1>4. program = "cat"
  BY <1>1 DEF SInv, Control, StateTypes
<1>5. CallInv' /\ InFlight' = InFlight /\ Unsent' = Unsent /\ InFlight = << >>
  <2>1. Dry => Dry'
    BY <1>1 DEF Dry
  <2>. QED
    BY <1>1, <2>1, CallStands DEF SInv, CallInv, InFlight
<1>6. SInv'
  <2>1. buffered' \in Seq(Byte)
    BY <1>1, <1>2, <1>3, ConcatProperties
  <2>2. StateTypes'
    BY <1>1, <1>3, <2>1 DEF SInv, StateTypes, keyVars, shellVars
  <2>3. Control'
    BY <1>1, <1>4, <1>5 DEF SInv, Control, shellVars, Dry
  <2>. QED
    BY <1>5, <2>2, <2>3 DEF SInv
<1>7. TypedIsReadOnce => TypedIsReadOnce'
  <2>1. ShellRead' = ShellRead
    BY <1>1, <1>5 DEF ShellRead, ByShell, shellVars
  <2>2. (buffered \o Chunk) \o hold' = buffered \o hold
    <3>1. (buffered \o Chunk) \o hold' = buffered \o (Chunk \o hold')
      BY <1>2, <1>3, ConcatAssociative
    <3>. QED
      BY <1>3, <3>1
  <2>3. (buffered \o hold \o InFlight)' = buffered \o hold \o InFlight
    BY <1>1, <1>5, <2>2, Zenon
  <2>4. CatHas' = CatHas
    BY <1>1, <2>3 DEF CatHas, ByCat
  <2>. QED
    BY <1>1, <1>6, <2>1, <2>4, ReadGoesOn DEF keyVars
<1>8. ScreenInOrder => ScreenInOrder'
  BY <1>1, <1>5 DEF ScreenInOrder
<1>. QED
  BY <1>6, <1>7, <1>8 DEF Goes

LEMMA ProgramWritesGoes ==
    ASSUME SInv, ProgramWrites
    PROVE  Goes
<1>1. /\ pc = "running" /\ (hold # << >> \/ buffered # << >>) /\ Writes(<<buffered, Chunk>>)
      /\ printed' = printed \o buffered \o Chunk
      /\ UNCHANGED <<keyVars, shellVars, programVars, screen>>
  BY DEF ProgramWrites, ChunkReady
<1>2. hold \in Seq(Byte) /\ buffered \in Seq(Byte)
  BY DEF SInv, StateTypes
<1>. DEFINE slices == <<buffered, Chunk>>
            text == buffered \o Chunk
<1>3. /\ slices \in Seq(Seq(Byte)) /\ FlattenSeq(slices) = text
      /\ Len(text) = Len(buffered) + Len(Chunk) /\ text # << >>
  BY <1>1, <1>2, WhatIsWritten
<1>4. Chunk \in Seq(Byte) /\ text \in Seq(Byte)
  BY <1>2, ChunkAndRest, ConcatProperties
<1>5. call = NoCall /\ call.op = "none" /\ UNCHANGED <<inBuf, inClosed, outBuf>>
  BY <1>1 DEF Writes, NoCall
<1>6. CallInv' /\ call'.op = "write" /\ InFlight' = << >> /\ Unsent' = text /\ Promised' = Len(text)
  <2>1. Writes(slices)
    BY <1>1
  <2>. HIDE DEF slices, text
  <2>. QED
    BY <1>3, <2>1, WriteStarts DEF SInv
<1>7. InFlight = << >> /\ Unsent = << >>
  BY <1>5 DEF InFlight, Unsent
<1>8. printed' = printed \o text
  <2>1. printed \in Seq(Byte)
    BY DEF SInv, StateTypes
  <2>2. (printed \o buffered) \o Chunk = printed \o text
    BY <1>2, <1>4, <2>1, ConcatAssociative
  <2>. HIDE DEF text
  <2>. QED
    BY <1>1, <2>2
<1>9. SInv'
  <2>1. printed' \in Seq(Byte)
    BY <1>4, <1>8, ConcatProperties DEF SInv, StateTypes
  <2>2. StateTypes'
    BY <1>1, <2>1 DEF SInv, StateTypes, keyVars, shellVars, programVars
  <2>3. Chunk' = Chunk
    BY <1>1 DEF Chunk, programVars
  <2>4. Control'
    BY <1>1, <1>3, <1>5, <1>6, <2>3 DEF SInv, Control, shellVars, programVars, Dry
  <2>. QED
    BY <1>6, <2>2, <2>4 DEF SInv
<1>10. TypedIsReadOnce => TypedIsReadOnce'
  <2>1. ShellRead' = ShellRead /\ CatHas' = CatHas
    BY <1>1, <1>6, <1>7 DEF ShellRead, CatHas, ByShell, ByCat, shellVars, programVars
  <2>. QED
    BY <1>1, <1>5, <1>9, <2>1, ReadGoesOn DEF keyVars
<1>11. ScreenInOrder => ScreenInOrder'
  <2>1. PICK s \in Seq(Byte) : s = screen \o outBuf
    BY ConcatProperties DEF SInv, StateTypes, CallInv
  <2>2. s \o << >> = s
    BY ByteLaws, Zenon
  <2>3. ScreenInOrder => printed = s
    BY <1>7, <2>1, <2>2 DEF ScreenInOrder
  <2>4. screen' \o outBuf' \o Unsent' = s \o text
    BY <1>1, <1>5, <1>6, <2>1
  <2>. QED
    BY <1>8, <2>3, <2>4 DEF ScreenInOrder
<1>. QED
  BY <1>9, <1>10, <1>11 DEF Goes

\* Two sequences, taken off to the end of the first and some of the second.
LEMMA TakenOff ==
    ASSUME NEW a \in Seq(Byte), NEW b \in Seq(Byte), NEW n \in 0..Len(b)
    PROVE  /\ From(a, Len(a) + n + 1) = << >>
           /\ From(b, n + 1) \in Seq(Byte) /\ FirstOf(a \o b, Len(a) + n) \in Seq(Byte)
           /\ FirstOf(a \o b, Len(a) + n) \o From(b, n + 1) = a \o b
<1>1. Len(a) \in Nat /\ Len(a) + n \in Nat /\ Len(a) + n >= Len(a)
  OBVIOUS
<1>2. From(a, Len(a) + n + 1) = << >>
  BY <1>1, FromBeyond
<1>3. From(b, n + 1) \in Seq(Byte) /\ FirstOf(b, n) \in Seq(Byte) /\ b = FirstOf(b, n) \o From(b, n + 1)
  BY FromType, FirstOfType, Cut
<1>4. FirstOf(a \o b, Len(a) + n) = a \o FirstOf(b, n)
  BY FirstOfBoth
<1>5. (a \o FirstOf(b, n)) \o From(b, n + 1) = a \o (FirstOf(b, n) \o From(b, n + 1))
  BY <1>3, ByteJoin, Zenon
<1>6. a \o FirstOf(b, n) \in Seq(Byte)
  BY <1>3, ConcatProperties
<1>. QED
  BY <1>2, <1>3, <1>4, <1>5, <1>6

LEMMA ProgramWroteGoes ==
    ASSUME SInv, ProgramWrote
    PROVE  Goes
<1>. DEFINE n == Len(Chunk)
            total == Len(buffered) + n
<1>1. hold \in Seq(Byte) /\ buffered \in Seq(Byte) /\ copied \in Seq(Byte) /\ Len(buffered) \in Nat
  BY DEF SInv, StateTypes
<1>2. n \in 0..Len(hold)
  BY <1>1, ChunkAndRest
<1>. HIDE DEF n
<1>3. /\ pc = "running" /\ call.op = "write" /\ call.state = "returned" /\ Resumes
      /\ UNCHANGED <<keyVars, shellVars, program, printed, screen>>
  BY DEF ProgramWrote, Returned
<1>4. Unsent = << >> /\ InFlight = << >> /\ call.total = total
  <2>1. Promised = total
    BY <1>3 DEF SInv, Control, n
  <2>. QED
    BY <1>3, <2>1, Over DEF InFlight
<1>5. /\ buffered' = From(buffered, total + 1) /\ hold' = From(hold, n + 1)
      /\ ended' = (ended /\ hold = << >>)
      /\ copied' = IF program = "cat" THEN copied \o FirstOf(buffered \o hold, total) ELSE copied
  <2>1. (IF total > Len(buffered) THEN total - Len(buffered) ELSE 0) = n
    BY <1>1, <1>2
  <2>. HIDE DEF total
  <2>. QED
    BY <1>4, <2>1 DEF ProgramWrote
<1>6. /\ buffered' = << >> /\ hold' \in Seq(Byte)
      /\ FirstOf(buffered \o hold, total) \in Seq(Byte)
      /\ FirstOf(buffered \o hold, total) \o hold' = buffered \o hold
  BY <1>1, <1>2, <1>5, TakenOff
<1>7. hold = << >> => hold' = << >>
  <2>1. hold = << >> => Len(hold) = 0
    BY EmptySeq
  <2>2. hold = << >> => Len(hold') = 0
    <3>1. Len(hold') = Len(hold) - n
      BY <1>1, <1>2, <1>5, FromType
    <3>. QED
      BY <1>2, <2>1, <3>1
  <2>. QED
    BY <1>6, <2>2, EmptySeq
<1>. HIDE DEF total
<1>8. CallInv' /\ call' = NoCall /\ InFlight' = << >> /\ Unsent' = << >> /\ UNCHANGED <<inBuf, inClosed, outBuf>>
  BY <1>3, CallResumes DEF SInv
<1>9. call'.op = "none"
  BY <1>8 DEF NoCall
<1>10. SInv'
  <2>1. copied' \in Seq(Byte) /\ buffered' \in Seq(Byte) /\ ended' \in BOOLEAN
    <3>1. copied' \in Seq(Byte)
      <4>1. copied \o FirstOf(buffered \o hold, total) \in Seq(Byte)
        BY <1>1, <1>6, ByteLaws, Zenon
      <4>. QED
        BY <1>1, <1>5, <4>1
    <3>. QED
      BY <1>5, <1>6, <3>1, ByteLaws DEF SInv, StateTypes
  <2>2. StateTypes'
    BY <1>3, <1>6, <2>1 DEF SInv, StateTypes, keyVars, shellVars
  <2>3. Control'
    BY <1>3, <1>5, <1>6, <1>7, <1>8, <1>9 DEF SInv, Control, StateTypes, shellVars, Dry
  <2>. QED
    BY <1>8, <2>2, <2>3 DEF SInv
<1>11. TypedIsReadOnce => TypedIsReadOnce'
  <2>1. ShellRead' = ShellRead
    BY <1>3 DEF ShellRead, ByShell, shellVars
  <2>2. CatHas' = CatHas
    <3>1. CASE program = "cat"
      <4>1. PICK f \in Seq(Byte) : f = FirstOf(buffered \o hold, total)
        BY <1>6
      <4>2. CatHas' = (copied \o f) \o (<< >> \o hold' \o << >>)
        BY <1>3, <1>5, <1>6, <1>8, <3>1, <4>1 DEF CatHas, ByCat
      <4>3. << >> \o hold' \o << >> = hold'
        <5>1. << >> \o hold' = hold' /\ hold' \o << >> = hold'
          BY <1>6, ConcatEmptySeq
        <5>. QED
          BY <5>1
      <4>4. (copied \o f) \o hold' = copied \o (f \o hold')
        <5>1. PICK r \in Seq(Byte) : r = hold'
          BY <1>6
        <5>2. PICK q \in Seq(Byte) : q = copied
          BY <1>1
        <5>3. Then(Then(q, f), r) = Then(q, Then(f, r))
          BY ThenLaws
        <5>. QED
          BY <5>1, <5>2, <5>3, Zenon DEF Then
      <4>5. CatHas = copied \o ((buffered \o hold) \o << >>)
        BY <1>4, <3>1 DEF CatHas, ByCat
      <4>6. (buffered \o hold) \o << >> = buffered \o hold
        BY <1>1, ByteLaws, ZenonT(40)
      <4>. QED
        BY <1>6, <4>1, <4>2, <4>3, <4>4, <4>5, <4>6
    <3>2. CASE program # "cat"
      BY <1>3, <1>5, <3>2 DEF CatHas, ByCat
    <3>. QED
      BY <3>1, <3>2
  <2>. QED
    BY <1>3, <1>8, <1>10, <2>1, <2>2, ReadGoesOn DEF keyVars
<1>12. ScreenInOrder => ScreenInOrder'
  BY <1>3, <1>4, <1>8 DEF ScreenInOrder
<1>. QED
  BY <1>10, <1>11, <1>12 DEF Goes

LEMMA ProgramEndsGoes ==
    ASSUME SInv, ProgramEnds
    PROVE  Goes
<1>1. /\ pc = "running" /\ call = NoCall /\ call.op = "none"
      /\ ended /\ hold = << >> /\ buffered = << >>
      /\ pc' = "prompt" /\ program' = "none"
      /\ UNCHANGED <<inBuf, inClosed, outBuf, call>>
      /\ UNCHANGED <<keyVars, pending, eof, ran, ranBytes, hold, ended, buffered, copied, printed, screen>>
  BY DEF ProgramEnds, NoCall, callVars
<1>2. CallInv' /\ InFlight' = InFlight /\ Unsent' = Unsent /\ InFlight = << >>
  <2>1. Dry => Dry'
    BY <1>1 DEF Dry
  <2>. QED
    BY <1>1, <2>1, CallStands DEF SInv, CallInv, InFlight
<1>3. SInv'
  <2>1. StateTypes'
    BY <1>1 DEF SInv, StateTypes, keyVars
  <2>2. Control'
    BY <1>1, <1>2 DEF SInv, Control, Dry
  <2>. QED
    BY <1>2, <2>1, <2>2 DEF SInv
<1>4. TypedIsReadOnce => TypedIsReadOnce'
  <2>1. << >> \o << >> \o << >> = << >>
    BY ByteLaws, Zenon
  <2>2. ByCat(buffered \o hold \o InFlight) = << >> /\ ByCat(buffered \o hold \o InFlight)' = << >>
    BY <1>1, <1>2, <2>1 DEF ByCat
  <2>3. ShellRead' = ShellRead /\ CatHas' = CatHas
    BY <1>1, <1>2, <2>2 DEF ShellRead, CatHas, ByShell
  <2>. QED
    BY <1>1, <1>3, <2>3, ReadGoesOn DEF keyVars
<1>5. ScreenInOrder => ScreenInOrder'
  BY <1>1, <1>2 DEF ScreenInOrder
<1>. QED
  BY <1>3, <1>4, <1>5 DEF Goes

-----------------------------------------------------------------------------
(* The calls' own steps.                                                     *)

LEMMA ReadServedGoes ==
    ASSUME SInv, ReadServed, UNCHANGED <<keyVars, shellVars, programVars, printed, screen>>
    PROVE  Goes
<1>1. /\ CallInv' /\ call'.op = "read" /\ call.op = "read"
      /\ InFlight' \o inBuf' = InFlight \o inBuf
      /\ Dry => Dry' /\ InFlight' = InFlight
      /\ Unsent' = << >> /\ Unsent = << >> /\ InFlight' \in Seq(Byte) /\ InFlight \in Seq(Byte)
  BY ReadIsServed DEF SInv, ReadServed
<1>2. outBuf' = outBuf
  BY DEF ReadServed
<1>3. SInv'
  <2>1. StateTypes'
    BY DEF SInv, StateTypes, keyVars, shellVars, programVars
  <2>2. Control'
    BY <1>1 DEF SInv, Control, shellVars, programVars
  <2>. QED
    BY <1>1, <2>1, <2>2 DEF SInv
<1>4. TypedIsReadOnce => TypedIsReadOnce'
  <2>1. StateLaws /\ StateLaws'
    BY StateLawsHold, PTL
  <2>2. /\ ranBytes \in Seq(Byte) /\ pending \in Seq(Byte) /\ copied \in Seq(Byte)
        /\ buffered \in Seq(Byte) /\ hold \in Seq(Byte)
        /\ inBuf \in Seq(Byte) /\ inBuf' \in Seq(Byte)
    BY <1>1 DEF SInv, StateTypes, CallInv
  <2>3. CASE pc = "running"
    <3>1. program = "cat" /\ program' = "cat" /\ pc' = "running"
      BY <1>1, <2>3 DEF SInv, Control, StateTypes, shellVars, programVars
    <3>2. ShellRead' = ShellRead
      BY <2>3 DEF ShellRead, ByShell, shellVars
    <3>3. PICK k \in Seq(Byte) : k = copied
      BY <2>2
    <3>4. PICK b \in Seq(Byte) : b = buffered \o hold
      BY <2>2, ConcatProperties
    <3>5. CatHas = k \o (b \o InFlight) /\ CatHas' = k \o (b \o InFlight')
      BY <3>1, <3>3, <3>4 DEF CatHas, ByCat, programVars
    <3>6. PICK s \in Seq(Byte) : s = ShellRead
      BY <1>3, <2>1 DEF StateLaws
    <3>7. ASSUME NEW x \in Seq(Byte), NEW y \in Seq(Byte)
          PROVE  (s \o (k \o (b \o x))) \o y = (s \o (k \o b)) \o (x \o y)
      <4>1. Then(Then(s, Then(k, Then(b, x))), y) = Then(Then(s, Then(k, b)), Then(x, y))
        BY ThenLaws
      <4>. QED
        BY <4>1, Zenon DEF Then
    <3>8. (ShellRead' \o CatHas') \o inBuf' = (ShellRead \o CatHas) \o inBuf
      <4>1. (s \o (k \o (b \o InFlight'))) \o inBuf' = (s \o (k \o b)) \o (InFlight' \o inBuf')
        BY <1>1, <2>2, <3>7
      <4>2. (s \o (k \o (b \o InFlight))) \o inBuf = (s \o (k \o b)) \o (InFlight \o inBuf)
        BY <1>1, <2>2, <3>7
      <4>. QED
        BY <1>1, <3>2, <3>5, <3>6, <4>1, <4>2, Zenon
    <3>. QED
      BY <1>3, <2>1, <3>8 DEF StateLaws, keyVars
  <2>4. CASE pc # "running"
    <3>1. pc = "next" /\ program = "none" /\ pc' = "next" /\ program' = "none"
      BY <1>1, <2>4 DEF SInv, Control, StateTypes, shellVars, programVars
    <3>2. CASE copied # << >>
      <4>1. Dry /\ Dry' /\ InFlight' = InFlight
        BY <1>1, <3>1, <3>2 DEF SInv, Control
      <4>2. inBuf' = inBuf
        BY <4>1 DEF Dry
      <4>3. ShellRead' = ShellRead /\ CatHas' = CatHas
        BY <3>1, <4>1 DEF ShellRead, CatHas, ByShell, ByCat, shellVars, programVars
      <4>. QED
        BY <1>3, <4>2, <4>3, ReadGoesOn DEF keyVars
    <3>3. CASE copied = << >>
      <4>1. PICK r \in Seq(Byte) : r = ranBytes \o pending
        BY <2>2, ConcatProperties
      <4>2. ShellRead = r \o InFlight /\ ShellRead' = r \o InFlight'
        BY <3>1, <4>1 DEF ShellRead, ByShell, shellVars
      <4>3. CatHas = << >> \o << >> /\ CatHas' = << >> \o << >>
        BY <3>1, <3>3 DEF CatHas, ByCat, programVars
      <4>4. << >> \o << >> = << >>
        BY ByteLaws, Zenon
      <4>5. ASSUME NEW x \in Seq(Byte), NEW y \in Seq(Byte)
            PROVE  ((r \o x) \o << >>) \o y = r \o (x \o y)
        <5>1. PICK d \in Seq(Byte) : d = r \o x
          BY ConcatProperties
        <5>2. d \o << >> = d
          BY ByteLaws, Zenon
        <5>3. (r \o x) \o y = r \o (x \o y)
          BY ByteJoin, Zenon
        <5>. QED
          BY <5>1, <5>2, <5>3
      <4>6. (ShellRead' \o CatHas') \o inBuf' = (ShellRead \o CatHas) \o inBuf
        <5>1. ((r \o InFlight') \o << >>) \o inBuf' = r \o (InFlight' \o inBuf')
          BY <1>1, <2>2, <4>5
        <5>2. ((r \o InFlight) \o << >>) \o inBuf = r \o (InFlight \o inBuf)
          BY <1>1, <2>2, <4>5
        <5>. QED
          BY <1>1, <4>2, <4>3, <4>4, <5>1, <5>2, Zenon
      <4>. QED
        BY <1>3, <2>1, <4>6 DEF StateLaws, keyVars
    <3>. QED
      BY <3>2, <3>3
  <2>. QED
    BY <2>3, <2>4
<1>5. ScreenInOrder => ScreenInOrder'
  BY <1>1, <1>2 DEF ScreenInOrder
<1>. QED
  BY <1>3, <1>4, <1>5 DEF Goes

LEMMA WriteServedGoes ==
    ASSUME SInv, WriteServed, UNCHANGED <<keyVars, shellVars, programVars, printed, screen>>
    PROVE  Goes
<1>1. /\ CallInv' /\ call'.op = "write" /\ call.op = "write"
      /\ outBuf' \o Unsent' = outBuf \o Unsent
      /\ Unsent \in Seq(Byte) /\ Unsent' \in Seq(Byte) /\ Promised' = Promised
      /\ UNCHANGED <<inBuf, inClosed>>
  BY WriteIsServed DEF SInv, WriteServed
<1>2. InFlight = << >> /\ InFlight' = << >>
  BY <1>1 DEF InFlight
<1>3. SInv'
  <2>1. StateTypes'
    BY DEF SInv, StateTypes, keyVars, shellVars, programVars
  <2>2. Chunk' = Chunk
    BY DEF Chunk, programVars
  <2>3. Control'
    BY <1>1, <1>2, <2>2 DEF SInv, Control, shellVars, programVars, Dry
  <2>. QED
    BY <1>1, <2>1, <2>3 DEF SInv
<1>4. TypedIsReadOnce => TypedIsReadOnce'
  <2>1. ShellRead' = ShellRead /\ CatHas' = CatHas
    BY <1>2 DEF ShellRead, CatHas, ByShell, ByCat, shellVars, programVars
  <2>. QED
    BY <1>1, <1>3, <2>1, ReadGoesOn DEF keyVars
<1>5. ScreenInOrder => ScreenInOrder'
  <2>1. PICK s \in Seq(Byte) : s = screen
    BY DEF SInv, StateTypes
  <2>2. outBuf \in Seq(Byte) /\ outBuf' \in Seq(Byte)
    BY <1>1 DEF SInv, CallInv
  <2>3. ASSUME NEW x \in Seq(Byte), NEW y \in Seq(Byte)  PROVE (s \o x) \o y = s \o (x \o y)
    BY ByteJoin, Zenon
  <2>4. (s \o outBuf') \o Unsent' = (s \o outBuf) \o Unsent
    <3>1. (s \o outBuf') \o Unsent' = s \o (outBuf' \o Unsent')
      BY <1>1, <2>2, <2>3
    <3>2. (s \o outBuf) \o Unsent = s \o (outBuf \o Unsent)
      BY <1>1, <2>2, <2>3
    <3>. QED
      BY <1>1, <3>1, <3>2, Zenon
  <2>. QED
    BY <2>1, <2>4, Zenon DEF ScreenInOrder
<1>. QED
  BY <1>3, <1>4, <1>5 DEF Goes

LEMMA LoopGoes ==
    ASSUME SInv, LoopTurns, UNCHANGED <<keyVars, shellVars, programVars, printed, screen>>
    PROVE  Goes
<1>0. call.op \in {"read", "write"}
  <2>1. call.state = "answered" /\ call \in Frame
    BY DEF LoopTurns, SInv, CallInv
  <2>2. call.op # "none"
    BY <2>1 DEF SInv, CallInv
  <2>. QED
    BY <2>1, <2>2 DEF Frame
<1>1. /\ CallInv' /\ call'.op = call.op /\ InFlight' = InFlight /\ Unsent' = Unsent
      /\ call.op = "write" => Promised' = Promised
      /\ UNCHANGED <<inBuf, inClosed, outBuf>>
  <2>1. CASE call.op = "read"
    BY <2>1, ReadTurns DEF SInv
  <2>2. CASE call.op = "write"
    BY <2>2, WriteTurns DEF SInv, InFlight
  <2>. QED
    BY <1>0, <2>1, <2>2
<1>2. SInv'
  <2>1. StateTypes'
    BY DEF SInv, StateTypes, keyVars, shellVars, programVars
  <2>2. Chunk' = Chunk
    BY DEF Chunk, programVars
  <2>3. Control'
    BY <1>1, <2>2 DEF SInv, Control, shellVars, programVars, Dry
  <2>. QED
    BY <1>1, <2>1, <2>3 DEF SInv
<1>. QED
  BY <1>1, <1>2, AllStands DEF keyVars

-----------------------------------------------------------------------------
(* The types, the reading and the screen, in every state.                    *)

LEMMA InitGoes == Init => SInv /\ TypedIsReadOnce /\ ScreenInOrder
<1>. SUFFICES ASSUME Init  PROVE SInv /\ TypedIsReadOnce /\ ScreenInOrder
  OBVIOUS
<1>1. << >> \in Seq(Byte) /\ << >> \o << >> = << >> /\ Len(<< >>) = 0
  BY ByteLaws
<1>2. CallInv /\ InFlight = << >> /\ Unsent = << >> /\ call.op = "none"
  <2>1. inBuf = << >> /\ inClosed = FALSE /\ outBuf = << >> /\ call = NoCall
    BY Zenon DEF Init, CallsInit
  <2>2. inBuf \in Seq(Byte) /\ inClosed \in BOOLEAN /\ outBuf \in Seq(Byte)
    BY <1>1, <2>1
  <2>3. Len(outBuf) <= Capacity
    BY <1>1, <2>1, WasiCallsAssumption
  <2>. QED
    BY <2>1, <2>2, <2>3, NoCallFrame DEF NoCall
<1>3. StateTypes
  <2>1. << >> \in Seq(Letter) /\ << >> \in Seq(Seq(Letter)) /\ << >> \in Seq(Seq(Byte))
    OBVIOUS
  <2>. QED
    BY <1>1, <2>1 DEF Init, StateTypes
<1>4. Control
  BY <1>2 DEF Init, Control
<1>5. SInv
  BY <1>2, <1>3, <1>4 DEF SInv
<1>6. TypedIsReadOnce
  BY <1>1, <1>2 DEF Init, CallsInit, TypedIsReadOnce, ByShell, ByCat
<1>7. ScreenInOrder
  BY <1>1, <1>2 DEF Init, CallsInit, ScreenInOrder
<1>. QED
  BY <1>5, <1>6, <1>7

LEMMA NextGoes == SInv /\ [Next]_vars => Goes
<1>. SUFFICES ASSUME SInv, [Next]_vars  PROVE Goes
  OBVIOUS
<1>1. CASE \E ch \in Letter : Types(ch)
  BY <1>1, KeysGo
<1>2. CASE Erases
  BY <1>2, KeysGo
<1>3. CASE Enters
  BY <1>3, EnterGoes
<1>4. CASE ClosesStdin
  BY <1>4, CloseGoes
<1>5. CASE Drains
  BY <1>5, DrainGoes
<1>6. CASE CallsRun
  <2>1. UNCHANGED <<keyVars, shellVars, programVars, printed, screen>>
    BY <1>6 DEF CallsRun
  <2>2. CASE ReadServed
    BY <2>1, <2>2, ReadServedGoes
  <2>3. CASE WriteServed
    BY <2>1, <2>3, WriteServedGoes
  <2>4. CASE LoopTurns
    BY <2>1, <2>4, LoopGoes
  <2>. QED
    BY <1>6, <2>2, <2>3, <2>4 DEF CallsRun, CallsGoOn
<1>7. CASE WritesPrompt
  BY <1>7, PromptGoes
<1>8. CASE PromptWritten
  BY <1>8, PromptedGoes
<1>9. CASE TakesLine \/ TakesLast
  BY <1>9, TakeGoes
<1>10. CASE ReadsChunk
  BY <1>10, ReadChunkGoes
<1>11. CASE ChunkRead
  BY <1>11, ChunkReadGoes
<1>12. CASE Exits
  BY <1>12, ExitGoes
<1>13. CASE CatReads
  BY <1>13, CatReadsGoes
<1>14. CASE CatRead
  BY <1>14, CatReadGoes
<1>15. CASE CatBuffers
  BY <1>15, CatBuffersGoes
<1>16. CASE ProgramWrites
  BY <1>16, ProgramWritesGoes
<1>17. CASE ProgramWrote
  BY <1>17, ProgramWroteGoes
<1>18. CASE ProgramEnds
  BY <1>18, ProgramEndsGoes
<1>19. CASE UNCHANGED vars
  <2>1. UNCHANGED <<callVars, keyVars, shellVars, programVars, printed, screen>>
    BY <1>19 DEF vars
  <2>2. CallInv' /\ InFlight' = InFlight /\ Unsent' = Unsent /\ Promised' = Promised
    <3>1. Dry => Dry'
      BY <2>1 DEF Dry, callVars
    <3>. QED
      BY <2>1, <3>1, CallStands DEF SInv, CallInv, callVars
  <2>3. StateTypes'
    BY <2>1 DEF SInv, StateTypes, keyVars, shellVars, programVars
  <2>4. Control'
    BY <2>1, <2>2 DEF SInv, Control, callVars, shellVars, programVars, Chunk, Dry
  <2>5. SInv'
    BY <2>2, <2>3, <2>4 DEF SInv
  <2>. QED
    BY <2>1, <2>2, <2>5, AllStands DEF callVars, keyVars
<1>. QED
  BY <1>1, <1>2, <1>3, <1>4, <1>5, <1>6, <1>7, <1>8, <1>9, <1>10, <1>11, <1>12, <1>13, <1>14,
     <1>15, <1>16, <1>17, <1>18, <1>19 DEF Next, ShellRuns, ProgramRuns

LEMMA SInvHolds == Spec => []SInv
<1>1. SInv /\ [Next]_vars => SInv'
  BY NextGoes DEF Goes
<1>. QED
  BY <1>1, InitGoes, PTL DEF Spec

\* The frame of a call, the streams and the discipline's, the shell's and the program's
\* state have the types they are declared with, whatever is typed.
THEOREM TerminalKeepsTypes == Spec => []TypeInvariant
BY SInvHolds, SInvTypes, PTL

\* Every byte that is typed is read once, in order, by the shell or by cat, however reads
\* and iovecs cut the stream.
THEOREM EveryByteIsReadOnce == Spec => []TypedIsReadOnce
<1>1. SInv /\ TypedIsReadOnce /\ [Next]_vars => TypedIsReadOnce'
  BY NextGoes DEF Goes
<1>. QED
  BY <1>1, InitGoes, SInvHolds, PTL DEF Spec

\* The screen, the pipe and what a write still waits to put into it are together what was
\* printed, in order.
THEOREM ScreenShowsAll == Spec => []ScreenInOrder
<1>1. SInv /\ ScreenInOrder /\ [Next]_vars => ScreenInOrder'
  BY NextGoes DEF Goes
<1>. QED
  BY <1>1, InitGoes, SInvHolds, PTL DEF Spec

-----------------------------------------------------------------------------
(* Lines.                                                                    *)

\* What the first of the lines entered came to, one line and one newline after the other.
Ended(l) == l \o <<NL>>
LinesTo(t) ==
    /\ t \in [0..Len(entered) -> Seq(Byte)]
    /\ t[0] = << >>
    /\ \A i \in 1..Len(entered) : t[i] = Then(t[i - 1], Ended(entered[i]))

\* What was sent is that, up to where a close cut it.
SentIs(t) ==
    \E gone \in Seq(Byte) : /\ t[Len(entered)] = sent \o gone
                            /\ ~inClosed => gone = << >>

\* The lines that were run are the first that were entered,
RunWhole(t) ==
    /\ Len(ran) <= Len(entered)
    /\ \A i \in 1..Len(ran) : ran[i] = entered[i]
    /\ ranBytes = t[Len(ran)]

\* or the last was cut, and there are no more.
CutShort == eof /\ pending = << >> /\ LinesAreWhole

LinesInv == \E t : LinesTo(t) /\ SentIs(t) /\ (RunWhole(t) \/ CutShort)

LEMMA LinesInvWhole == LinesInv => LinesAreWhole
<1>. SUFFICES ASSUME NEW t, RunWhole(t)  PROVE LinesAreWhole
  BY DEF LinesInv, CutShort
<1>. QED
  BY DEF RunWhole, LinesAreWhole

\* A sequence of bytes that starts as a line and a newline do: if it has a newline the line
\* is what comes before the first, and if not it is the first of the line.
LEMMA FirstLine ==
    ASSUME NEW line \in Seq(Letter), NEW p \in Seq(Byte), NEW x \in Seq(Byte), NEW z \in Seq(Byte),
           p \o x = Ended(line) \o z
    PROVE  /\ \A e \in 1..Len(p) : p[e] = NL /\ (\A i \in 1..Len(p) : p[i] = NL => e <= i)
                  => FirstOf(p, e - 1) = line /\ FirstOf(p, e) = Ended(line)
           /\ (\A i \in 1..Len(p) : p[i] # NL) => IsPrefix(p, line)
<1>. DEFINE n == Len(line)
            w == p \o x
            l == Ended(line)
<1>1. /\ line \in Seq(Byte) /\ n \in Nat /\ \A i \in 1..n : line[i] \in Letter /\ line[i] # NL
  BY SeqMonotonic, ElementOfSeq, TerminalAssumption
<1>2. /\ l \in Seq(Byte) /\ Len(l) = n + 1
      /\ \A i \in 1..n : l[i] = line[i]
      /\ l[n + 1] = NL
  <2>1. NL \in Byte
    BY TerminalAssumption
  <2>2. l = Append(line, NL)
    BY <1>1, <2>1, AppendIsConcat DEF Ended
  <2>. QED
    BY <1>1, <2>1, <2>2, AppendProperties
<1>. HIDE DEF l, n
<1>3. /\ Len(p) \in Nat /\ Len(x) \in Nat /\ Len(z) \in Nat
      /\ w \in Seq(Byte) /\ Len(w) = Len(p) + Len(x)
      /\ \A i \in 1..Len(p) : w[i] = p[i]
  <2>1. /\ w \in Seq(Byte) /\ Len(w) = Len(p) + Len(x)
        /\ \A i \in 1..Len(p) + Len(x) : w[i] = IF i <= Len(p) THEN p[i] ELSE x[i - Len(p)]
    BY ConcatProperties
  <2>2. Len(p) \in Nat /\ Len(x) \in Nat /\ Len(z) \in Nat
    OBVIOUS
  <2>. HIDE DEF w
  <2>. QED
    BY <2>1, <2>2
<1>4. w = l \o z /\ Len(w) = (n + 1) + Len(z) /\ \A i \in 1..n + 1 : w[i] = l[i]
  <2>1. w = l \o z
    BY DEF l
  <2>2. Len(l \o z) = Len(l) + Len(z) /\ \A i \in 1..Len(l) + Len(z) : (l \o z)[i] = IF i <= Len(l) THEN l[i] ELSE z[i - Len(l)]
    BY <1>2, ConcatProperties
  <2>. HIDE DEF w
  <2>. QED
    BY <1>1, <1>2, <1>3, <2>1, <2>2
<1>. HIDE DEF w
<1>5. \A i \in 1..Len(p) : i <= n => p[i] = line[i] /\ p[i] # NL
  BY <1>1, <1>2, <1>3, <1>4
<1>6. n + 1 <= Len(p) => p[n + 1] = NL
  BY <1>1, <1>2, <1>3, <1>4
<1>7. ASSUME NEW e \in 1..Len(p), p[e] = NL, \A i \in 1..Len(p) : p[i] = NL => e <= i
      PROVE  FirstOf(p, e - 1) = line /\ FirstOf(p, e) = Ended(line)
  <2>1. e = n + 1
    <3>1. ~(e <= n)
      BY <1>5, <1>7
    <3>2. n + 1 <= Len(p) /\ n + 1 \in 1..Len(p)
      BY <1>1, <1>3, <3>1
    <3>3. e <= n + 1
      BY <1>6, <1>7, <3>2
    <3>. QED
      BY <1>1, <3>1, <3>3
  <2>2. n \in 0..Len(p) /\ n + 1 \in 0..Len(p) /\ e - 1 = n
    BY <1>1, <1>3, <2>1
  <2>3. /\ FirstOf(p, n) \in Seq(Byte) /\ Len(FirstOf(p, n)) = n
        /\ \A i \in 1..n : FirstOf(p, n)[i] = p[i]
    BY <2>2, FirstOfType
  <2>4. /\ FirstOf(p, n + 1) \in Seq(Byte) /\ Len(FirstOf(p, n + 1)) = n + 1
        /\ \A i \in 1..n + 1 : FirstOf(p, n + 1)[i] = p[i]
    BY <2>2, FirstOfType
  <2>5. FirstOf(p, n) = line
    <3>1. Len(line) = n /\ \A i \in 1..n : FirstOf(p, n)[i] = line[i]
      BY <1>3, <1>5, <2>2, <2>3 DEF n
    <3>. QED
      BY <1>1, <2>3, <3>1, SeqEqual
  <2>6. FirstOf(p, n + 1) = l
    <3>1. \A i \in 1..n + 1 : FirstOf(p, n + 1)[i] = l[i]
      <4>. SUFFICES ASSUME NEW i \in 1..n + 1  PROVE FirstOf(p, n + 1)[i] = l[i]
        OBVIOUS
      <4>1. i \in 1..Len(p) /\ i \in 1..Len(p) + Len(x)
        BY <1>1, <1>3, <2>2
      <4>. QED
        BY <1>3, <1>4, <2>4, <4>1
    <3>. QED
      BY <1>2, <2>4, <3>1, SeqEqual
  <2>. QED
    BY <2>1, <2>2, <2>5, <2>6 DEF l
<1>8. ASSUME \A i \in 1..Len(p) : p[i] # NL  PROVE IsPrefix(p, line)
  <2>1. Len(p) <= n
    <3>1. n \in Nat /\ Len(p) \in Nat
      BY <1>1, <1>3
    <3>2. ASSUME n + 1 <= Len(p)  PROVE FALSE
      <4>1. n + 1 \in 1..Len(p)
        BY <3>1, <3>2
      <4>. QED
        BY <1>6, <1>8, <3>2, <4>1
    <3>. QED
      BY <3>1, <3>2
  <2>2. /\ FirstOf(p, Len(p)) = p
        /\ FirstOf(line, Len(p)) \in Seq(Byte) /\ Len(FirstOf(line, Len(p))) = Len(p)
        /\ \A i \in 1..Len(p) : FirstOf(line, Len(p))[i] = line[i]
    <3>1. Len(p) \in 0..Len(line)
      BY <1>1, <1>3, <2>1 DEF n
    <3>. QED
      BY <1>1, <3>1, FirstOfType, FromAll
  <2>3. p = FirstOf(line, Len(p))
    <3>1. \A i \in 1..Len(p) : p[i] = FirstOf(line, Len(p))[i]
      <4>. SUFFICES ASSUME NEW i \in 1..Len(p)  PROVE p[i] = FirstOf(line, Len(p))[i]
        OBVIOUS
      <4>1. i <= n
        BY <1>1, <1>3, <2>1
      <4>. QED
        BY <1>5, <2>2, <4>1
    <3>. QED
      BY <2>2, <3>1, SeqEqual
  <2>. QED
    BY <2>1, <2>2, <2>3 DEF IsPrefix, FirstOf, n
<1>. QED
  BY <1>7, <1>8


\* A line that was entered, with its newline, is bytes.
LEMMA EndedType ==
    ASSUME entered \in Seq(Seq(Letter)), NEW i \in 1..Len(entered)
    PROVE  Ended(entered[i]) \in Seq(Byte)
<1>1. entered[i] \in Seq(Letter)
  BY ElementOfSeq
<1>2. entered[i] \in Seq(Byte) /\ <<NL>> \in Seq(Byte)
  BY <1>1, SeqMonotonic, TerminalAssumption
<1>. QED
  BY <1>2, ConcatProperties DEF Ended

\* Five sequences of bytes one after the other, and four.
LEMMA FiveThen ==
    ASSUME NEW a \in Seq(Byte), NEW b \in Seq(Byte), NEW c \in Seq(Byte), NEW d \in Seq(Byte),
           NEW e \in Seq(Byte)
    PROVE  Then(Then(Then(Then(a, b), c), d), e) = Then(a, Then(b, Then(c, Then(d, e))))
<1>1. Then(a, b) \in Seq(Byte) /\ Then(Then(a, b), c) \in Seq(Byte) /\ Then(d, e) \in Seq(Byte)
      /\ Then(c, Then(d, e)) \in Seq(Byte)
  BY ThenLaws
<1>2. Then(Then(Then(Then(a, b), c), d), e) = Then(Then(Then(a, b), c), Then(d, e))
  BY <1>1, ThenLaws
<1>3. Then(Then(Then(a, b), c), Then(d, e)) = Then(Then(a, b), Then(c, Then(d, e)))
  BY <1>1, ThenLaws
<1>4. Then(Then(a, b), Then(c, Then(d, e))) = Then(a, Then(b, Then(c, Then(d, e))))
  BY <1>1, ThenLaws
<1>. QED
  BY <1>2, <1>3, <1>4

LEMMA FourThen ==
    ASSUME NEW a \in Seq(Byte), NEW b \in Seq(Byte), NEW c \in Seq(Byte), NEW d \in Seq(Byte)
    PROVE  /\ Then(Then(a, Then(b, c)), d) = Then(a, Then(b, Then(c, d)))
           /\ Then(c, d) \in Seq(Byte)
<1>1. Then(b, c) \in Seq(Byte) /\ Then(c, d) \in Seq(Byte)
  BY ThenLaws
<1>2. Then(Then(a, Then(b, c)), d) = Then(a, Then(Then(b, c), d))
  BY <1>1, ThenLaws
<1>3. Then(Then(b, c), d) = Then(b, Then(c, d))
  BY ThenLaws
<1>. QED
  BY <1>1, <1>2, <1>3

\* A line that was entered, with its newline, comes right after those before it.
LEMMA LineFollows ==
    ASSUME SInv, NEW t, LinesTo(t), NEW k \in 0..Len(entered) - 1
    PROVE  \E z \in Seq(Byte) : t[Len(entered)] = Then(t[k], Then(Ended(entered[k + 1]), z))
<1>. DEFINE n == Len(entered)
            l == Ended(entered[k + 1])
            P(j) == k + 1 + j <= n => \E z \in Seq(Byte) : t[k + 1 + j] = Then(t[k], Then(l, z))
            S == {j \in Nat : P(j)}
<1>1. /\ n \in Nat /\ k \in Nat /\ k + 1 <= n
      /\ \A i \in 1..n : Ended(entered[i]) \in Seq(Byte)
      /\ \A i \in 0..n : t[i] \in Seq(Byte)
      /\ \A i \in 1..n : t[i] = Then(t[i - 1], Ended(entered[i]))
  <2>1. entered \in Seq(Seq(Letter)) /\ n \in Nat
    BY DEF SInv, StateTypes
  <2>2. k \in Nat /\ k + 1 <= n
    BY <2>1
  <2>3. \A i \in 1..n : Ended(entered[i]) \in Seq(Byte)
    BY <2>1, EndedType
  <2>4. (\A i \in 0..n : t[i] \in Seq(Byte)) /\ \A i \in 1..n : t[i] = Then(t[i - 1], Ended(entered[i]))
    BY DEF LinesTo
  <2>. QED
    BY <2>1, <2>2, <2>3, <2>4
<1>2. l \in Seq(Byte) /\ t[k] \in Seq(Byte)
  BY <1>1
<1>. HIDE DEF l, n
<1>3. 0 \in S
  <2>1. t[k + 1] = Then(t[k], l)
    <3>1. k + 1 \in 1..n /\ (k + 1) - 1 = k
      BY <1>1
    <3>. QED
      BY <1>1, <3>1 DEF l
  <2>2. Then(l, << >>) = l /\ << >> \in Seq(Byte)
    BY <1>2, ThenLaws, ByteLaws
  <2>3. k + 1 + 0 = k + 1
    BY <1>1
  <2>4. t[k + 1 + 0] = Then(t[k], Then(l, << >>))
    BY <2>1, <2>2, <2>3, Zenon
  <2>. QED
    BY <2>2, <2>4
<1>4. ASSUME NEW j \in Nat, j \in S  PROVE j + 1 \in S
  <2>1. ASSUME k + 1 + (j + 1) <= n
        PROVE  \E z \in Seq(Byte) : t[k + 1 + (j + 1)] = Then(t[k], Then(l, z))
    <3>0. k + 1 + j <= n
      BY <1>1, <2>1
    <3>1. PICK z \in Seq(Byte) : t[k + 1 + j] = Then(t[k], Then(l, z))
      BY <1>4, <3>0
    <3>2. k + 1 + (j + 1) \in 1..n /\ (k + 1 + (j + 1)) - 1 = k + 1 + j
      BY <1>1, <2>1
    <3>3. PICK e \in Seq(Byte) : e = Ended(entered[k + 1 + (j + 1)])
      BY <1>1, <3>2
    <3>4. t[k + 1 + (j + 1)] = Then(t[k + 1 + j], e)
      BY <1>1, <3>2, <3>3
    <3>5. Then(Then(t[k], Then(l, z)), e) = Then(t[k], Then(l, Then(z, e))) /\ Then(z, e) \in Seq(Byte)
      BY <1>2, FourThen
    <3>. QED
      BY <3>1, <3>4, <3>5, Zenon
  <2>. QED
    BY <2>1
<1>. HIDE DEF S
<1>5. n - (k + 1) \in S
  <2>1. n - (k + 1) \in Nat
    BY <1>1
  <2>. QED
    BY <1>3, <1>4, <2>1, NatSetInduction
<1>6. k + 1 + (n - (k + 1)) = n
  BY <1>1
<1>7. P(n - (k + 1))
  BY <1>5 DEF S
<1>8. \E z \in Seq(Byte) : t[n] = Then(t[k], Then(l, z))
  BY <1>1, <1>6, <1>7
<1>. QED
  BY <1>8 DEF n, l

\* What the shell has not made a line of yet starts with the next line that was entered.
LEMMA NextLine ==
    ASSUME SInv, TypedIsReadOnce, NEW t, LinesTo(t), SentIs(t), RunWhole(t),
           call = NoCall, pending # << >>
    PROVE  /\ Len(ran) \in 0..Len(entered) - 1
           /\ \E x, z \in Seq(Byte) : pending \o x = Ended(entered[Len(ran) + 1]) \o z
<1>. DEFINE n == Len(entered)
            k == Len(ran)
<1>1. /\ ranBytes \in Seq(Byte) /\ pending \in Seq(Byte) /\ inBuf \in Seq(Byte) /\ CatHas \in Seq(Byte)
      /\ n \in Nat /\ k \in Nat
      /\ sent = (ShellRead \o CatHas) \o inBuf /\ InFlight = << >>
  <2>1. ranBytes \in Seq(Byte) /\ pending \in Seq(Byte) /\ inBuf \in Seq(Byte) /\ n \in Nat /\ k \in Nat
    BY DEF SInv, StateTypes, CallInv
  <2>2. call.op = "none"
    BY DEF NoCall
  <2>3. CatHas \in Seq(Byte) /\ sent = (ShellRead \o CatHas) \o inBuf /\ InFlight = << >>
    BY <2>2, StateLawsHold, Zenon DEF StateLaws
  <2>. QED
    BY <2>1, <2>3, Zenon
<1>2. PICK gone \in Seq(Byte) : t[n] = sent \o gone
  BY DEF SentIs
<1>3. ShellRead = ranBytes \o pending
  <2>1. ByShell(InFlight) = << >>
    BY <1>1 DEF ByShell
  <2>2. (ranBytes \o pending) \o << >> = ranBytes \o pending
    BY <1>1, ByteLaws, ZenonT(40)
  <2>. QED
    BY <2>1, <2>2, Zenon DEF ShellRead
<1>4. PICK c \in Seq(Byte) : c = CatHas
  BY <1>1
<1>. DEFINE x == c \o (inBuf \o gone)
<1>5. t[n] = ranBytes \o (pending \o x) /\ x \in Seq(Byte)
  <2>1. t[n] = (((ranBytes \o pending) \o c) \o inBuf) \o gone
    BY <1>1, <1>2, <1>3, <1>4, Zenon
  <2>2. (((ranBytes \o pending) \o c) \o inBuf) \o gone = ranBytes \o (pending \o (c \o (inBuf \o gone)))
    <3>1. Then(Then(Then(Then(ranBytes, pending), c), inBuf), gone)
              = Then(ranBytes, Then(pending, Then(c, Then(inBuf, gone))))
      BY <1>1, FiveThen
    <3>. QED
      BY <3>1, Zenon DEF Then
  <2>3. x \in Seq(Byte)
    BY <1>1, <1>2, <1>4, ByteLaws, Zenon
  <2>. QED
    BY <2>1, <2>2, <2>3, Zenon
<1>. HIDE DEF x
<1>6. From(ranBytes \o (pending \o x), Len(ranBytes) + 1) = pending \o x /\ pending \o x \in Seq(Byte)
  <2>1. pending \o x \in Seq(Byte)
    BY <1>1, <1>5, ConcatProperties
  <2>. QED
    BY <1>1, <2>1, FromSecond
<1>7. ranBytes = t[k] /\ k <= n
  BY DEF RunWhole
<1>8. k # n
  <2>. SUFFICES ASSUME k = n  PROVE FALSE
    OBVIOUS
  <2>1. ranBytes = ranBytes \o (pending \o x)
    BY <1>5, <1>7
  <2>2. pending \o x = << >>
    BY <1>1, <1>6, <2>1, FromAll
  <2>. QED
    BY <1>1, <1>5, <2>2, ConcatEqualIffEmpty
<1>9. k \in 0..n - 1
  BY <1>1, <1>7, <1>8
<1>10. PICK z \in Seq(Byte) : t[n] = t[k] \o (Ended(entered[k + 1]) \o z)
  <2>1. \E z \in Seq(Byte) : t[n] = Then(t[k], Then(Ended(entered[k + 1]), z))
    BY <1>9, LineFollows
  <2>. QED
    BY <2>1, Zenon DEF Then
<1>11. Ended(entered[k + 1]) \in Seq(Byte)
  <2>1. entered \in Seq(Seq(Letter)) /\ k + 1 \in 1..Len(entered)
    BY <1>1, <1>9 DEF SInv, StateTypes
  <2>. QED
    BY <2>1, EndedType
<1>12. pending \o x = Ended(entered[k + 1]) \o z
  <2>1. PICK y \in Seq(Byte) : y = Ended(entered[k + 1]) \o z
    BY <1>11, ConcatProperties
  <2>2. From(ranBytes \o y, Len(ranBytes) + 1) = y
    BY <1>1, FromSecond
  <2>3. ranBytes \o y = ranBytes \o (pending \o x)
    BY <1>5, <1>7, <1>10, <2>1
  <2>. QED
    BY <1>6, <2>1, <2>2, <2>3
<1>. QED
  BY <1>5, <1>9, <1>12

-----------------------------------------------------------------------------
(* The steps, and the lines.                                                 *)

\* A step that leaves the lines, what was sent and what the shell has of them alone.
LEMMA LinesStand ==
    ASSUME LinesInv, UNCHANGED <<entered, sent, inClosed, ran, ranBytes>>,
           eof => eof' /\ pending' = pending
    PROVE  LinesInv'
<1>1. PICK t : LinesTo(t) /\ SentIs(t) /\ (RunWhole(t) \/ CutShort)
  BY DEF LinesInv
<1>2. LinesTo(t)' /\ SentIs(t)'
  BY <1>1 DEF LinesTo, SentIs
<1>3. RunWhole(t) => RunWhole(t)'
  BY DEF RunWhole
<1>4. CutShort => CutShort'
  BY DEF CutShort, LinesAreWhole
<1>. QED
  BY <1>1, <1>2, <1>3, <1>4 DEF LinesInv

LEMMA EnterLines ==
    ASSUME SInv, LinesInv, Enters
    PROVE  LinesInv'
<1>. DEFINE n == Len(entered)
            l == Ended(editing)
<1>1. PICK t : LinesTo(t) /\ SentIs(t) /\ (RunWhole(t) \/ CutShort)
  BY DEF LinesInv
<1>2. /\ ~inClosed /\ inClosed' = inClosed /\ sent' = sent \o l
      /\ entered' = Append(entered, editing)
      /\ UNCHANGED shellVars
  BY DEF Enters, Ended
<1>3. /\ editing \in Seq(Letter) /\ l \in Seq(Byte) /\ sent \in Seq(Byte)
      /\ entered \in Seq(Seq(Letter)) /\ n \in Nat /\ ran \in Seq(Seq(Byte))
  <2>1. editing \in Seq(Letter) /\ sent \in Seq(Byte) /\ entered \in Seq(Seq(Letter)) /\ ran \in Seq(Seq(Byte))
    BY DEF SInv, StateTypes
  <2>2. editing \in Seq(Byte) /\ <<NL>> \in Seq(Byte)
    BY <2>1, SeqMonotonic, TerminalAssumption
  <2>3. l \in Seq(Byte)
    BY <2>2, ConcatProperties DEF Ended
  <2>. QED
    BY <2>1, <2>3
<1>4. /\ Len(entered') = n + 1 /\ entered'[n + 1] = editing
      /\ \A i \in 1..n : entered'[i] = entered[i]
  BY <1>2, <1>3, AppendProperties
<1>5. t[n] = sent /\ t \in [0..n -> Seq(Byte)]
  <2>1. PICK gone \in Seq(Byte) : t[n] = sent \o gone /\ gone = << >>
    BY <1>1, <1>2 DEF SentIs
  <2>2. sent \o << >> = sent
    BY <1>3, ByteLaws, Zenon
  <2>. QED
    BY <1>1, <2>1, <2>2, Zenon DEF LinesTo
<1>. HIDE DEF l, n
<1>6. PICK u : /\ u \in [0..n + 1 -> Seq(Byte)]
               /\ \A i \in 0..n : u[i] = t[i]
               /\ u[n + 1] = Then(t[n], l)
  <2>. DEFINE f == [i \in 0..n + 1 |-> IF i = n + 1 THEN Then(t[n], l) ELSE t[i]]
  <2>1. Then(t[n], l) \in Seq(Byte)
    BY <1>3, <1>5, ThenLaws
  <2>2. /\ f \in [0..n + 1 -> Seq(Byte)]
        /\ \A i \in 0..n : f[i] = t[i]
        /\ f[n + 1] = Then(t[n], l)
    BY <1>3, <1>5, <2>1
  <2>. QED
    BY <2>2
<1>7. LinesTo(u)'
  <2>1. u[0] = << >>
    BY <1>1, <1>3, <1>6 DEF LinesTo
  <2>2. ASSUME NEW i \in 1..n + 1  PROVE u[i] = Then(u[i - 1], Ended(entered'[i]))
    <3>1. CASE i = n + 1
      <4>1. u[i - 1] = t[n] /\ entered'[i] = editing
        BY <1>3, <1>4, <1>6, <3>1
      <4>. QED
        BY <1>6, <3>1, <4>1, Zenon DEF l
    <3>2. CASE i # n + 1
      <4>1. i \in 1..n /\ i - 1 \in 0..n /\ i \in 0..n
        BY <1>3, <3>2
      <4>2. t[i] = Then(t[i - 1], Ended(entered[i]))
        BY <1>1, <4>1 DEF LinesTo, n
      <4>. QED
        BY <1>4, <1>6, <4>1, <4>2, Zenon
    <3>. QED
      BY <3>1, <3>2
  <2>. QED
    BY <1>4, <1>6, <2>1, <2>2 DEF LinesTo
<1>8. SentIs(u)'
  <2>1. sent' = u[n + 1]
    BY <1>2, <1>5, <1>6, Zenon DEF Then
  <2>2. u[n + 1] = sent' \o << >> /\ << >> \in Seq(Byte)
    <3>1. sent' \in Seq(Byte)
      BY <1>3, <1>6, <2>1
    <3>. QED
      BY <2>1, <3>1, ByteLaws, Zenon
  <2>3. u[Len(entered')] = sent' \o << >>
    BY <1>4, <2>2, Zenon
  <2>. QED
    BY <2>2, <2>3, Zenon DEF SentIs
<1>9. ASSUME RunWhole(t)  PROVE RunWhole(u)'
  <2>1. Len(ran) \in 0..n
    BY <1>3, <1>9 DEF RunWhole, n
  <2>2. u[Len(ran)] = t[Len(ran)] /\ Len(ran) <= n + 1
    BY <1>3, <1>6, <2>1
  <2>3. \A i \in 1..Len(ran) : ran[i] = entered'[i]
    BY <1>3, <1>4, <1>9, <2>1 DEF RunWhole
  <2>4. ran' = ran /\ ranBytes' = ranBytes
    BY <1>2 DEF shellVars
  <2>5. ranBytes = u[Len(ran)]
    BY <1>9, <2>2 DEF RunWhole
  <2>. QED
    BY <1>4, <2>2, <2>3, <2>4, <2>5 DEF RunWhole
<1>10. ASSUME CutShort  PROVE CutShort'
  <2>1. ran' = ran /\ eof' = eof /\ pending' = pending
    BY <1>2 DEF shellVars
  <2>2. ASSUME NEW i \in 1..Len(ran)
        PROVE  i <= n + 1 /\ i \in 1..n /\ entered'[i] = entered[i]
    <3>1. i <= n
      BY <1>10 DEF CutShort, LinesAreWhole, n
    <3>. QED
      BY <1>3, <1>4, <3>1
  <2>3. LinesAreWhole'
    BY <1>4, <1>10, <2>1, <2>2 DEF CutShort, LinesAreWhole
  <2>. QED
    BY <1>10, <2>1, <2>3 DEF CutShort
<1>. QED
  BY <1>1, <1>7, <1>8, <1>9, <1>10 DEF LinesInv

LEMMA CloseLines ==
    ASSUME SInv, TypedIsReadOnce, LinesInv, ClosesStdin
    PROVE  LinesInv'
<1>. DEFINE kept == Lesser(Capacity, Len(inBuf))
            m == Len(sent) - (Len(inBuf) - kept)
<1>1. PICK t : LinesTo(t) /\ SentIs(t) /\ (RunWhole(t) \/ CutShort)
  BY DEF LinesInv
<1>2. /\ ~inClosed /\ inClosed' = TRUE
      /\ sent' = FirstOf(sent, m)
      /\ UNCHANGED <<entered, shellVars>>
  BY DEF ClosesStdin
<1>3. inBuf \in Seq(Byte) /\ sent \in Seq(Byte) /\ kept \in 0..Len(inBuf)
  <2>1. inBuf \in Seq(Byte) /\ sent \in Seq(Byte) /\ Capacity \in Nat
    BY WasiCallsAssumption DEF SInv, CallInv, StateTypes
  <2>. QED
    BY <2>1 DEF Lesser
<1>. HIDE DEF kept
<1>4. m \in 0..Len(sent)
  <2>1. PICK r \in Seq(Byte) : r = ShellRead \o CatHas
    BY StateLawsHold, ConcatProperties DEF StateLaws
  <2>2. sent = r \o inBuf
    BY <2>1, StateLawsHold DEF StateLaws
  <2>3. Len(sent) = Len(r) + Len(inBuf) /\ Len(r) \in Nat /\ Len(inBuf) \in Nat
    BY <1>3, <2>2, ConcatProperties
  <2>. QED
    BY <1>3, <2>3
<1>. HIDE DEF m
<1>5. sent = sent' \o From(sent, m + 1) /\ From(sent, m + 1) \in Seq(Byte)
  BY <1>2, <1>3, <1>4, Cut, FromType
<1>6. t[Len(entered)] = sent
  <2>1. PICK gone \in Seq(Byte) : t[Len(entered)] = sent \o gone /\ gone = << >>
    BY <1>1, <1>2 DEF SentIs
  <2>2. sent \o << >> = sent
    BY <1>3, ByteLaws, Zenon
  <2>. QED
    BY <2>1, <2>2, Zenon
<1>7. SentIs(t)'
  <2>1. Len(entered') = Len(entered)
    BY <1>2
  <2>2. t[Len(entered')] = sent' \o From(sent, m + 1)
    BY <1>5, <1>6, <2>1, Zenon
  <2>. QED
    BY <1>2, <1>5, <2>2, Zenon DEF SentIs
<1>8. LinesTo(t)'
  BY <1>1, <1>2 DEF LinesTo
<1>9. (RunWhole(t) => RunWhole(t)') /\ (CutShort => CutShort')
  BY <1>2 DEF RunWhole, CutShort, LinesAreWhole, shellVars
<1>. QED
  BY <1>1, <1>7, <1>8, <1>9 DEF LinesInv

\* The next line that has its newline is the next that was entered, whole.
LEMMA TakeLines ==
    ASSUME SInv, TypedIsReadOnce, LinesInv, TakesLine
    PROVE  LinesInv'
<1>. DEFINE k == Len(ran)
            line == FirstOf(pending, EndOfLine - 1)
            bytes == FirstOf(pending, EndOfLine)
<1>1. PICK t : LinesTo(t) /\ SentIs(t) /\ (RunWhole(t) \/ CutShort)
  BY DEF LinesInv
<1>2. /\ call = NoCall /\ HasLine
      /\ ran' = Append(ran, line) /\ ranBytes' = ranBytes \o bytes
      /\ UNCHANGED <<callVars, keyVars, eof>>
  BY DEF TakesLine, RunLine
<1>3. pending \in Seq(Byte) /\ ran \in Seq(Seq(Byte)) /\ k \in Nat /\ Len(pending) \in Nat
  BY DEF SInv, StateTypes
<1>4. /\ EndOfLine \in 1..Len(pending) /\ pending[EndOfLine] = NL
      /\ \A i \in 1..Len(pending) : pending[i] = NL => EndOfLine <= i
  BY <1>2, <1>3, FirstNewline
<1>. HIDE DEF EndOfLine
<1>5. pending # << >>
  BY <1>3, <1>4, EmptySeq
<1>6. RunWhole(t)
  BY <1>1, <1>5 DEF CutShort
<1>7. /\ k \in 0..Len(entered) - 1
      /\ \E x, z \in Seq(Byte) : pending \o x = Ended(entered[k + 1]) \o z
  BY <1>1, <1>2, <1>5, <1>6, NextLine
<1>8. k + 1 \in 1..Len(entered) /\ entered[k + 1] \in Seq(Letter)
  <2>1. entered \in Seq(Seq(Letter)) /\ k + 1 \in 1..Len(entered)
    BY <1>7 DEF SInv, StateTypes
  <2>. QED
    BY <2>1, ElementOfSeq
<1>9. line = entered[k + 1] /\ bytes = Ended(entered[k + 1])
  BY <1>3, <1>4, <1>7, <1>8, FirstLine
<1>10. /\ Len(ran') = k + 1 /\ ran'[k + 1] = line
       /\ \A i \in 1..k : ran'[i] = ran[i]
  <2>1. line \in Seq(Byte)
    BY <1>8, <1>9, SeqMonotonic, TerminalAssumption
  <2>. QED
    BY <1>2, <1>3, <2>1, AppendProperties
<1>11. ranBytes' = t[k + 1]
  <2>1. ranBytes = t[k]
    BY <1>6 DEF RunWhole
  <2>2. t[k + 1] = Then(t[(k + 1) - 1], Ended(entered[k + 1]))
    BY <1>1, <1>8 DEF LinesTo
  <2>3. (k + 1) - 1 = k
    BY <1>3
  <2>. QED
    BY <1>2, <1>9, <2>1, <2>2, <2>3, Zenon DEF Then
<1>. HIDE DEF k, line, bytes
<1>12. \A i \in 1..k + 1 : ran'[i] = entered[i]
  <2>1. \A i \in 1..k : ran[i] = entered[i]
    BY <1>6 DEF RunWhole, k
  <2>2. ASSUME NEW i \in 1..k + 1  PROVE i \in 1..k \/ i = k + 1
    BY <1>3
  <2>3. ran'[k + 1] = entered[k + 1]
    BY <1>9, <1>10
  <2>. QED
    BY <1>10, <2>1, <2>2, <2>3, Zenon
<1>13. entered' = entered /\ sent' = sent /\ inClosed' = inClosed
  BY <1>2 DEF keyVars, callVars
<1>14. RunWhole(t)'
  BY <1>8, <1>10, <1>11, <1>12, <1>13 DEF RunWhole
<1>15. LinesTo(t)' /\ SentIs(t)'
  BY <1>1, <1>13 DEF LinesTo, SentIs
<1>. QED
  BY <1>14, <1>15 DEF LinesInv

\* What is left at the end has no newline: it is the next line that was entered, or the
\* start of it.
LEMMA LastLine ==
    ASSUME SInv, TypedIsReadOnce, LinesInv, TakesLast
    PROVE  LinesInv'
<1>. DEFINE k == Len(ran)
<1>1. PICK t : LinesTo(t) /\ SentIs(t) /\ (RunWhole(t) \/ CutShort)
  BY DEF LinesInv
<1>2. /\ call = NoCall /\ ~HasLine /\ eof /\ pending # << >>
      /\ ran' = Append(ran, pending) /\ pending' = << >>
      /\ UNCHANGED <<callVars, keyVars, eof>>
  BY DEF TakesLast, RunLine
<1>3. pending \in Seq(Byte) /\ ran \in Seq(Seq(Byte)) /\ k \in Nat
  BY DEF SInv, StateTypes
<1>4. \A i \in 1..Len(pending) : pending[i] # NL
  BY <1>2 DEF HasLine, Contains
<1>5. RunWhole(t)
  BY <1>1, <1>2 DEF CutShort
<1>6. /\ k \in 0..Len(entered) - 1
      /\ \E x, z \in Seq(Byte) : pending \o x = Ended(entered[k + 1]) \o z
  BY <1>1, <1>2, <1>5, NextLine
<1>7. k + 1 \in 1..Len(entered) /\ entered[k + 1] \in Seq(Letter)
  <2>1. entered \in Seq(Seq(Letter)) /\ k + 1 \in 1..Len(entered)
    BY <1>6 DEF SInv, StateTypes
  <2>. QED
    BY <2>1, ElementOfSeq
<1>8. IsPrefix(pending, entered[k + 1])
  BY <1>3, <1>4, <1>6, <1>7, FirstLine
<1>9. /\ Len(ran') = k + 1 /\ ran'[k + 1] = pending
      /\ \A i \in 1..k : ran'[i] = ran[i]
  BY <1>2, <1>3, AppendProperties
<1>10. entered' = entered /\ sent' = sent /\ inClosed' = inClosed
  BY <1>2 DEF keyVars, callVars
<1>11. LinesAreWhole'
  <2>1. ASSUME NEW i \in 1..k + 1
        PROVE  /\ i <= Len(entered)
               /\ ran'[i] = entered[i] \/ (i = k + 1 /\ eof /\ IsPrefix(ran'[i], entered[i]))
    <3>1. CASE i = k + 1
      BY <1>2, <1>7, <1>8, <1>9, <3>1
    <3>2. CASE i # k + 1
      <4>1. i \in 1..k /\ i <= Len(entered)
        BY <1>3, <1>7, <3>2
      <4>. QED
        BY <1>5, <1>9, <4>1 DEF RunWhole
    <3>. QED
      BY <3>1, <3>2
  <2>. QED
    BY <1>2, <1>9, <1>10, <2>1 DEF LinesAreWhole
<1>12. CutShort'
  BY <1>2, <1>11 DEF CutShort
<1>13. LinesTo(t)' /\ SentIs(t)'
  BY <1>1, <1>10 DEF LinesTo, SentIs
<1>. QED
  BY <1>12, <1>13 DEF LinesInv

LEMMA LinesInit == Init => LinesInv
<1>. SUFFICES ASSUME Init  PROVE LinesInv
  OBVIOUS
<1>. DEFINE t == [i \in 0..0 |-> << >>]
<1>1. entered = << >> /\ sent = << >> /\ ran = << >> /\ ranBytes = << >> /\ Len(<< >>) = 0
  BY DEF Init
<1>2. t \in [0..Len(entered) -> Seq(Byte)] /\ t[0] = << >>
  BY <1>1
<1>. HIDE DEF t
<1>3. LinesTo(t)
  BY <1>1, <1>2 DEF LinesTo
<1>4. SentIs(t)
  <2>1. << >> \in Seq(Byte) /\ << >> \o << >> = << >>
    BY ByteLaws
  <2>2. t[Len(entered)] = sent \o << >>
    BY <1>1, <1>2, <2>1, Zenon
  <2>. QED
    BY <2>1, <2>2, Zenon DEF SentIs
<1>5. RunWhole(t)
  BY <1>1, <1>2 DEF RunWhole
<1>. QED
  BY <1>3, <1>4, <1>5 DEF LinesInv

LEMMA LinesNext ==
    ASSUME SInv, TypedIsReadOnce, LinesInv, [Next]_vars
    PROVE  LinesInv'
<1>1. CASE Enters
  BY <1>1, EnterLines
<1>2. CASE ClosesStdin
  BY <1>2, CloseLines
<1>3. CASE TakesLine
  BY <1>3, TakeLines
<1>4. CASE TakesLast
  BY <1>4, LastLine
<1>5. CASE ChunkRead
  <2>1. ~eof
    BY <1>5 DEF ChunkRead, Returned, SInv, Control
  <2>2. UNCHANGED <<entered, sent, inClosed, ran, ranBytes>>
    BY <1>5 DEF ChunkRead, Resumes, keyVars
  <2>. QED
    BY <2>1, <2>2, LinesStand
<1>6. CASE (\E ch \in Letter : Types(ch)) \/ Erases
  <2>1. UNCHANGED <<entered, sent, inClosed, ran, ranBytes, eof, pending>>
    BY <1>6 DEF Types, Erases, callVars, shellVars
  <2>. QED
    BY <2>1, LinesStand
<1>7. CASE Drains \/ CallsRun
  <2>1. UNCHANGED <<entered, sent, inClosed, ran, ranBytes, eof, pending>>
    BY <1>7 DEF Drains, CallsRun, CallsGoOn, ReadServed, WriteServed, LoopTurns, keyVars, shellVars
  <2>. QED
    BY <2>1, LinesStand
<1>8. CASE WritesPrompt \/ PromptWritten \/ ReadsChunk \/ Exits
  <2>1. UNCHANGED <<entered, sent, inClosed, ran, ranBytes, eof, pending>>
    BY <1>8 DEF WritesPrompt, PromptWritten, ReadsChunk, Exits, Writes, Reads, Resumes,
                callVars, keyVars, shellVars
  <2>. QED
    BY <2>1, LinesStand
<1>9. CASE ProgramRuns
  <2>1. UNCHANGED <<entered, sent, inClosed, ran, ranBytes, eof, pending>>
    BY <1>9 DEF ProgramRuns, CatReads, CatRead, CatBuffers, ProgramWrites, ProgramWrote, ProgramEnds,
                Writes, Reads, Resumes, callVars, keyVars, shellVars
  <2>. QED
    BY <2>1, LinesStand
<1>10. CASE UNCHANGED vars
  <2>1. UNCHANGED <<entered, sent, inClosed, ran, ranBytes, eof, pending>>
    BY <1>10 DEF vars, callVars, keyVars, shellVars
  <2>. QED
    BY <2>1, LinesStand
<1>. QED
  BY <1>1, <1>2, <1>3, <1>4, <1>5, <1>6, <1>7, <1>8, <1>9, <1>10 DEF Next, ShellRuns

\* The lines the shell runs are the lines that were entered, each whole and in order, however
\* they were typed and read; only the last may be cut, and then the input is at its end.
THEOREM LinesRunWhole == Spec => []LinesAreWhole
<1>1. SInv /\ TypedIsReadOnce /\ LinesInv /\ [Next]_vars => LinesInv'
  BY LinesNext
<1>. QED
  BY <1>1, LinesInit, LinesInvWhole, SInvHolds, EveryByteIsReadOnce, PTL DEF Spec
=============================================================================
