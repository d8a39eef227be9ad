---------------------------- MODULE DirScanProofs ----------------------------
(* Proofs about the walks of ls, rm -r and cp -r, for trees, names and       *)
(* buffers of any size: the listings stay a tree whatever the others do, a   *)
(* walk stays inside, ls lists each entry once, cp copies all there was, and *)
(* rm, when it is alone, does not fail.                                      *)
EXTENDS DirScan, FiniteSetTheorems, SequenceTheorems, TLAPS

-----------------------------------------------------------------------------
(* Paths.                                                                    *)

\* A path that is not empty is its directory's path and a name.
LEMMA FrontAndLast ==
    ASSUME NEW S, NEW s \in Seq(S), s # << >>
    PROVE  /\ Front(s) \in Seq(S)
           /\ Len(Front(s)) = Len(s) - 1
           /\ \A i \in 1..Len(s) - 1 : Front(s)[i] = s[i]
           /\ Last(s) \in S /\ Last(s) = s[Len(s)]
           /\ s = Append(Front(s), Last(s))
<1>1. Len(s) \in Nat \ {0} /\ \A i \in 1..Len(s) : s[i] \in S
  BY EmptySeq, ElementOfSeq
<1>2. /\ Front(s) \in Seq(S)
      /\ Len(Front(s)) = Len(s) - 1
      /\ \A i \in 1..Len(s) - 1 : Front(s)[i] = s[i]
  <2>1. PICK n \in Nat : n = Len(s) - 1
    BY <1>1
  <2>2. \A i \in 1..n : s[i] \in S
    BY <1>1, <2>1
  <2>3. /\ SubSeq(s, 1, n) \in Seq(S)
        /\ Len(SubSeq(s, 1, n)) = IF 1 <= n THEN n - 1 + 1 ELSE 0
        /\ \A i \in 1..n - 1 + 1 : SubSeq(s, 1, n)[i] = s[1 + i - 1]
    BY <2>2, SubSeqProperties
  <2>4. Front(s) = SubSeq(s, 1, n)
    BY <2>1 DEF Front
  <2>5. /\ Front(s) \in Seq(S)
        /\ Len(Front(s)) = n
        /\ \A i \in 1..n : Front(s)[i] = s[i]
    BY <2>3, <2>4
  <2>. QED
    BY <2>1, <2>5
<1>3. Last(s) \in S /\ Last(s) = s[Len(s)]
  BY <1>1 DEF Last
<1>4. s = Append(Front(s), Last(s))
  <2>1. /\ Append(Front(s), Last(s)) \in Seq(S)
        /\ Len(Append(Front(s), Last(s))) = Len(Front(s)) + 1
        /\ \A i \in 1..Len(Front(s)) : Append(Front(s), Last(s))[i] = Front(s)[i]
        /\ Append(Front(s), Last(s))[Len(Front(s)) + 1] = Last(s)
    BY <1>2, <1>3, AppendProperties
  <2>2. Len(s) = Len(Append(Front(s), Last(s)))
    BY <1>1, <1>2, <2>1
  <2>3. \A i \in 1..Len(s) : s[i] = Append(Front(s), Last(s))[i]
    BY <1>1, <1>2, <1>3, <2>1
  <2>. QED
    BY <2>1, <2>2, <2>3, SeqEqual
<1>. QED
  BY <1>2, <1>3, <1>4

\* One path begins with another when it begins with its names.
LEMMA PrefixNames ==
    ASSUME NEW S, NEW s \in Seq(S), NEW t \in Seq(S)
    PROVE  IsPrefix(s, t) <=> Len(s) <= Len(t) /\ \A i \in 1..Len(s) : s[i] = t[i]
<1>1. Len(s) \in Nat /\ Len(t) \in Nat /\ SubSeq(s, 1, Len(s)) = s
  BY LenProperties, SubSeqFull
<1>. SUFFICES ASSUME Len(s) <= Len(t)
              PROVE  s = SubSeq(t, 1, Len(s)) <=> \A i \in 1..Len(s) : s[i] = t[i]
  BY <1>1 DEF IsPrefix
<1>2. \A i \in 1..Len(s) : t[i] \in S
  BY <1>1, ElementOfSeq
<1>3. /\ SubSeq(t, 1, Len(s)) \in Seq(S)
      /\ Len(SubSeq(t, 1, Len(s))) = IF 1 <= Len(s) THEN Len(s) - 1 + 1 ELSE 0
      /\ \A i \in 1..Len(s) - 1 + 1 : SubSeq(t, 1, Len(s))[i] = t[1 + i - 1]
  <2>1. 1 \in Int /\ Len(s) \in Int
    BY <1>1
  <2>. QED
    BY <1>2, <2>1, SubSeqProperties
<1>4. Len(SubSeq(t, 1, Len(s))) = Len(s) /\ \A i \in 1..Len(s) : SubSeq(t, 1, Len(s))[i] = t[i]
  BY <1>1, <1>3
<1>. QED
  BY <1>3, <1>4, SeqEqual

\* What a longer path begins with, the shorter begins with, or is all of it.
LEMMA PrefixOfAppend ==
    ASSUME NEW S, NEW s \in Seq(S), NEW f \in Seq(S), NEW m \in S
    PROVE  IsPrefix(s, Append(f, m)) <=> IsPrefix(s, f) \/ s = Append(f, m)
<1>. DEFINE r == Append(f, m)
<1>1. PICK a \in Nat, b \in Nat : a = Len(s) /\ b = Len(f)
  BY LenProperties
<1>2. r \in Seq(S) /\ Len(r) = b + 1 /\ (\A i \in 1..b : r[i] = f[i]) /\ r[b + 1] = m
  BY <1>1, AppendProperties
<1>. HIDE DEF r
<1>3. ASSUME IsPrefix(s, f)  PROVE IsPrefix(s, r)
  <2>1. a <= b /\ \A i \in 1..a : s[i] = f[i]
    BY <1>1, <1>3, PrefixNames
  <2>2. a <= b + 1 /\ \A i \in 1..a : s[i] = r[i]
    BY <1>2, <2>1
  <2>. QED
    BY <1>1, <1>2, <2>2, PrefixNames
<1>4. ASSUME s = r  PROVE IsPrefix(s, r)
  BY <1>1, <1>2, <1>4, PrefixNames
<1>5. ASSUME IsPrefix(s, r), ~IsPrefix(s, f)  PROVE s = r
  <2>1. a <= b + 1 /\ \A i \in 1..a : s[i] = r[i]
    BY <1>1, <1>2, <1>5, PrefixNames
  <2>2. a = b + 1
    <3>. SUFFICES ASSUME a <= b  PROVE FALSE
      BY <2>1
    <3>1. \A i \in 1..a : s[i] = f[i]
      BY <1>2, <2>1
    <3>. QED
      BY <1>1, <1>5, <3>1, PrefixNames
  <2>. QED
    BY <1>1, <1>2, <2>1, <2>2, SeqEqual
<1>. QED
  BY <1>3, <1>4, <1>5 DEF r

\* A path is the root's or a child's, and a child has its own directory and name.
PathLaws ==
    /\ << >> \in Seq(Name)
    /\ \A p \in Seq(Name) : p # << >> =>
          Front(p) \in Seq(Name) /\ Last(p) \in Name /\ p = Child(Front(p), Last(p))
    /\ \A d \in Seq(Name), n \in Name :
          /\ Child(d, n) \in Seq(Name) /\ Child(d, n) # << >> /\ Child(d, n) # d
          /\ Front(Child(d, n)) = d /\ Last(Child(d, n)) = n

LEMMA PathLawsHold == PathLaws
<1>1. ASSUME NEW p \in Seq(Name), p # << >>
      PROVE  Front(p) \in Seq(Name) /\ Last(p) \in Name /\ p = Child(Front(p), Last(p))
  BY <1>1, FrontAndLast DEF Child
<1>2. ASSUME NEW d \in Seq(Name), NEW n \in Name
      PROVE  /\ Child(d, n) \in Seq(Name) /\ Child(d, n) # << >> /\ Child(d, n) # d
             /\ Front(Child(d, n)) = d /\ Last(Child(d, n)) = n
  <2>1. PICK c : c = Child(d, n)
    OBVIOUS
  <2>2. /\ c \in Seq(Name) /\ Len(c) = Len(d) + 1 /\ Len(d) \in Nat
        /\ \A i \in 1..Len(d) : c[i] = d[i]
        /\ c[Len(d) + 1] = n
    BY <2>1, AppendProperties DEF Child
  <2>3. c # << >> /\ c # d
    BY <2>2, EmptySeq
  <2>4. /\ Front(c) \in Seq(Name) /\ Len(Front(c)) = Len(c) - 1
        /\ \A i \in 1..Len(c) - 1 : Front(c)[i] = c[i]
        /\ Last(c) = c[Len(c)]
    BY <2>2, <2>3, FrontAndLast
  <2>5. Last(c) = n /\ Len(Front(c)) = Len(d) /\ \A i \in 1..Len(d) : Front(c)[i] = d[i]
    BY <2>2, <2>4
  <2>6. Front(c) = d
    BY <2>4, <2>5, SeqEqual
  <2>. QED
    BY <2>1, <2>2, <2>3, <2>5, <2>6
<1>3. << >> \in Seq(Name)
  OBVIOUS
<1>. QED
  BY <1>1, <1>2, <1>3 DEF PathLaws

LEMMA PathParts ==
    ASSUME NEW p \in Seq(Name), p # << >>
    PROVE  Front(p) \in Seq(Name) /\ Last(p) \in Name /\ p = Child(Front(p), Last(p)) /\ p # Front(p)
<1>1. Front(p) \in Seq(Name) /\ Last(p) \in Name /\ p = Child(Front(p), Last(p))
  BY PathLawsHold, Zenon DEF PathLaws
<1>2. Child(Front(p), Last(p)) # Front(p)
  BY <1>1, PathLawsHold, Zenon DEF PathLaws
<1>. QED
  BY <1>1, <1>2, Zenon

\* What is below a path, and what is not.
PrefixLaws ==
    /\ \A p \in Seq(Name) : IsPrefix(p, p)
    /\ \A p, d \in Seq(Name), n \in Name : IsPrefix(p, Child(d, n)) <=> IsPrefix(p, d) \/ p = Child(d, n)
    /\ \A p, q, r \in Seq(Name) : IsPrefix(p, q) /\ IsPrefix(q, r) => IsPrefix(p, r)

LEMMA PrefixLawsHold == PrefixLaws
<1>1. ASSUME NEW p \in Seq(Name)  PROVE IsPrefix(p, p)
  BY PrefixNames
<1>2. ASSUME NEW p \in Seq(Name), NEW d \in Seq(Name), NEW n \in Name
      PROVE  IsPrefix(p, Child(d, n)) <=> IsPrefix(p, d) \/ p = Child(d, n)
  BY PrefixOfAppend DEF Child
<1>3. ASSUME NEW p \in Seq(Name), NEW q \in Seq(Name), NEW r \in Seq(Name), IsPrefix(p, q), IsPrefix(q, r)
      PROVE  IsPrefix(p, r)
  <2>1. Len(p) <= Len(q) /\ \A i \in 1..Len(p) : p[i] = q[i]
    BY <1>3, PrefixNames
  <2>2. Len(q) <= Len(r) /\ \A i \in 1..Len(q) : q[i] = r[i]
    BY <1>3, PrefixNames
  <2>3. Len(p) <= Len(r) /\ \A i \in 1..Len(p) : p[i] = r[i]
    BY <2>1, <2>2
  <2>. QED
    BY <2>3, PrefixNames
<1>. QED
  BY <1>1, <1>2, <1>3 DEF PrefixLaws

-----------------------------------------------------------------------------
(* Listings.                                                                 *)

Has(s, e) == \E i \in 1..Len(s) : s[i] = e
Unique(s) == \A i, j \in 1..Len(s) : s[i].name = s[j].name => i = j
Dir(name)  == [name |-> name, type |-> "directory"]
File(name) == [name |-> name, type |-> "file"]

\* An entry that is added is the last.
LEMMA AddedLast ==
    ASSUME NEW s \in Seq(Entry), Unique(s), NEW e \in Entry,
           \A i \in 1..Len(s) : s[i].name # e.name
    PROVE  /\ Append(s, e) \in Seq(Entry) /\ Unique(Append(s, e))
           /\ \A x : Has(Append(s, e), x) <=> Has(s, x) \/ x = e
           /\ Len(Append(s, e)) = Len(s) + 1
           /\ \A i \in 1..Len(s) : Append(s, e)[i] = s[i]
           /\ Append(s, e)[Len(s) + 1] = e
           /\ IsPrefix(s, Append(s, e))
<1>1. PICK u : u = Append(s, e)
  OBVIOUS
<1>2. /\ u \in Seq(Entry) /\ Len(u) = Len(s) + 1 /\ Len(s) \in Nat
      /\ \A i \in 1..Len(s) : u[i] = s[i]
      /\ u[Len(s) + 1] = e
  BY <1>1, AppendProperties
<1>3. \A i \in 1..Len(u) : i \in 1..Len(s) \/ i = Len(s) + 1
  BY <1>2
<1>4. Unique(u)
  BY <1>2, <1>3 DEF Unique
<1>5. ASSUME NEW x  PROVE Has(u, x) <=> Has(s, x) \/ x = e
  BY <1>2, <1>3 DEF Has
<1>6. IsPrefix(s, u)
  BY <1>2, PrefixNames
<1>. QED
  BY <1>1, <1>2, <1>4, <1>5, <1>6

\* An entry that is removed leaves the others in their order.
LEMMA RemovedAt ==
    ASSUME NEW s \in Seq(Entry), Unique(s), NEW i \in 1..Len(s)
    PROVE  /\ RemoveAt(s, i) \in Seq(Entry) /\ Unique(RemoveAt(s, i))
           /\ \A x : Has(RemoveAt(s, i), x) <=> Has(s, x) /\ x # s[i]
           /\ Len(RemoveAt(s, i)) = Len(s) - 1
           /\ \A j \in 1..Len(s) - 1 : RemoveAt(s, i)[j] = IF j < i THEN s[j] ELSE s[j + 1]
<1>a. PICK n \in Nat : n = Len(s)
  OBVIOUS
<1>b. PICK a : a = SubSeq(s, 1, i - 1)
  OBVIOUS
<1>c. PICK b : b = SubSeq(s, i + 1, Len(s))
  OBVIOUS
<1>1. n = Len(s) /\ a = SubSeq(s, 1, i - 1) /\ b = SubSeq(s, i + 1, Len(s))
  BY <1>a, <1>b, <1>c
<1>2. i \in 1..n /\ i \in Int /\ n \in Int
  BY <1>1
<1>3. a \in Seq(Entry) /\ Len(a) = i - 1 /\ \A j \in 1..i - 1 : a[j] = s[j]
  <2>1. \A j \in 1..i - 1 : s[j] \in Entry
    BY <1>1, <1>2, ElementOfSeq
  <2>2. /\ a \in Seq(Entry)
        /\ Len(a) = IF 1 <= i - 1 THEN (i - 1) - 1 + 1 ELSE 0
        /\ \A j \in 1..(i - 1) - 1 + 1 : a[j] = s[1 + j - 1]
    <3>1. 1 \in Int /\ i - 1 \in Int
      BY <1>2
    <3>. QED
      BY <1>1, <2>1, <3>1, SubSeqProperties
  <2>. QED
    BY <1>2, <2>2
<1>4. b \in Seq(Entry) /\ Len(b) = n - i /\ \A j \in 1..n - i : b[j] = s[i + j]
  <2>1. PICK k \in Int : k = i + 1
    BY <1>2
  <2>2. b = SubSeq(s, k, n) /\ \A j \in k..n : s[j] \in Entry
    BY <1>1, <1>2, <2>1, ElementOfSeq
  <2>3. /\ b \in Seq(Entry)
        /\ Len(b) = IF k <= n THEN n - k + 1 ELSE 0
        /\ \A j \in 1..n - k + 1 : b[j] = s[k + j - 1]
    <3>1. n \in Int
      BY <1>2
    <3>. QED
      BY <2>2, <3>1, SubSeqProperties
  <2>. QED
    BY <1>2, <2>1, <2>3
<1>5. PICK r : r = RemoveAt(s, i)
  OBVIOUS
<1>6. /\ r \in Seq(Entry) /\ Len(r) = n - 1
      /\ \A j \in 1..n - 1 : r[j] = IF j <= i - 1 THEN a[j] ELSE b[j - (i - 1)]
  <2>1. r = a \o b
    BY <1>1, <1>5 DEF RemoveAt
  <2>2. /\ a \o b \in Seq(Entry) /\ Len(a \o b) = Len(a) + Len(b)
        /\ \A j \in 1..Len(a) + Len(b) : (a \o b)[j] = IF j <= Len(a) THEN a[j] ELSE b[j - Len(a)]
    BY <1>3, <1>4, ConcatProperties
  <2>3. Len(a) + Len(b) = n - 1 /\ Len(a) = i - 1
    BY <1>2, <1>3, <1>4
  <2>. QED
    BY <2>1, <2>2, <2>3
<1>7. ASSUME NEW j \in 1..n - 1  PROVE r[j] = IF j < i THEN s[j] ELSE s[j + 1]
  <2>1. CASE j < i
    <3>1. j \in 1..i - 1 /\ j <= i - 1
      BY <1>2, <2>1
    <3>. QED
      BY <1>3, <1>6, <2>1, <3>1
  <2>2. CASE ~(j < i)
    <3>1. ~(j <= i - 1) /\ j - (i - 1) \in 1..n - i /\ i + (j - (i - 1)) = j + 1
      BY <1>2, <2>2
    <3>. QED
      BY <1>4, <1>6, <2>2, <3>1
  <2>. QED
    BY <2>1, <2>2
<1>8. ASSUME NEW x  PROVE Has(r, x) <=> Has(s, x) /\ x # s[i]
  <2>1. ASSUME Has(r, x)  PROVE Has(s, x) /\ x # s[i]
    <3>1. PICK j \in 1..n - 1 : r[j] = x
      BY <1>6, <2>1 DEF Has
    <3>2. PICK k \in 1..n : k # i /\ s[k] = x
      <4>1. (IF j < i THEN j ELSE j + 1) \in 1..n /\ (IF j < i THEN j ELSE j + 1) # i
        BY <1>2
      <4>2. s[IF j < i THEN j ELSE j + 1] = x
        BY <1>7, <3>1
      <4>. QED
        BY <4>1, <4>2
    <3>3. s[k] # s[i]
      BY <1>1, <1>2, <3>2 DEF Unique
    <3>. QED
      BY <1>1, <3>2, <3>3 DEF Has
  <2>2. ASSUME Has(s, x), x # s[i]  PROVE Has(r, x)
    <3>1. PICK j \in 1..n : s[j] = x
      BY <1>1, <2>2 DEF Has
    <3>2. CASE j < i
      <4>1. j \in 1..n - 1
        BY <1>2, <3>2
      <4>. QED
        BY <1>6, <1>7, <3>1, <3>2, <4>1 DEF Has
    <3>3. CASE ~(j < i)
      <4>1. j # i
        BY <2>2, <3>1
      <4>2. j - 1 \in 1..n - 1 /\ ~(j - 1 < i) /\ (j - 1) + 1 = j
        BY <1>2, <3>3, <4>1
      <4>. QED
        BY <1>6, <1>7, <3>1, <4>2 DEF Has
    <3>. QED
      BY <3>2, <3>3
  <2>. QED
    BY <2>1, <2>2
<1>9. Unique(r)
  <2>. SUFFICES ASSUME NEW j \in 1..n - 1, NEW k \in 1..n - 1, r[j].name = r[k].name  PROVE j = k
    BY <1>6 DEF Unique
  <2>1. PICK jj \in 1..n, kk \in 1..n :
           /\ jj = (IF j < i THEN j ELSE j + 1) /\ r[j] = s[jj]
           /\ kk = (IF k < i THEN k ELSE k + 1) /\ r[k] = s[kk]
    <3>1. (IF j < i THEN j ELSE j + 1) \in 1..n /\ (IF k < i THEN k ELSE k + 1) \in 1..n
      BY <1>2
    <3>. QED
      BY <1>7, <3>1
  <2>2. jj = kk
    BY <1>1, <2>1 DEF Unique
  <2>. QED
    BY <1>2, <2>1, <2>2
<1>. QED
  BY <1>1, <1>5, <1>6, <1>7, <1>8, <1>9

-----------------------------------------------------------------------------
(* Trees: the first part of TypeInvariant, said of any listing.              *)

IsTree(t) ==
    /\ << >> \in DOMAIN t
    /\ \A d \in DOMAIN t : d \in Seq(Name) /\ t[d] \in Seq(Entry) /\ Unique(t[d])
    /\ \A d \in DOMAIN t : d # << >> => Front(d) \in DOMAIN t /\ Has(t[Front(d)], Dir(Last(d)))
    /\ \A d \in DOMAIN t, name \in Name : Has(t[d], Dir(name)) => Child(d, name) \in DOMAIN t

\* What is at a path, and one listing says it.
LEMMA WhatIsThere ==
    ASSUME NEW t, IsTree(t), NEW p \in Seq(Name)
    PROVE  /\ TypeIn(t, p) \in {"file", "directory", "none"}
           /\ TypeIn(t, p) = "directory" <=> p \in DOMAIN t
           /\ TypeIn(t, p) = "file" <=> /\ p # << >> /\ Front(p) \in DOMAIN t
                                        /\ Has(t[Front(p)], File(Last(p)))
           /\ p # << >> /\ Front(p) \in DOMAIN t =>
                /\ TypeIn(t, p) = "directory" <=> Has(t[Front(p)], Dir(Last(p)))
                /\ TypeIn(t, p) = "none" <=> \A i \in 1..Len(t[Front(p)]) : t[Front(p)][i].name # Last(p)
<1>. DEFINE f == Front(p)
            l == Last(p)
<1>1. ASSUME NEW s \in Seq(Entry), Unique(s), NEW i \in 1..Len(s), NEW name, s[i].name = name
      PROVE  /\ s[i] \in Entry
             /\ s[i].type \in {"file", "directory"}
             /\ s[i].type = "file" => s[i] = File(name)
             /\ s[i].type = "directory" => s[i] = Dir(name)
  <2>1. s[i] \in Entry
    BY <1>1, ElementOfSeq
  <2>. QED
    BY <1>1, <2>1 DEF Entry, File, Dir
<1>2. ASSUME NEW s \in Seq(Entry), Unique(s), NEW name
      PROVE  /\ Has(s, File(name)) => ~Has(s, Dir(name))
             /\ (\E i \in 1..Len(s) : s[i].name = name) <=> Has(s, File(name)) \/ Has(s, Dir(name))
  <2>1. ASSUME Has(s, File(name)), Has(s, Dir(name))  PROVE FALSE
    <3>1. PICK i \in 1..Len(s) : s[i] = File(name)
      BY <2>1 DEF Has
    <3>2. PICK j \in 1..Len(s) : s[j] = Dir(name)
      BY <2>1 DEF Has
    <3>3. s[i].name = s[j].name
      BY <3>1, <3>2 DEF File, Dir
    <3>4. i = j
      BY <1>2, <3>3 DEF Unique
    <3>. QED
      BY <3>1, <3>2, <3>4 DEF File, Dir
  <2>2. ASSUME NEW i \in 1..Len(s), s[i].name = name  PROVE Has(s, File(name)) \/ Has(s, Dir(name))
    BY <1>1, <1>2, <2>2 DEF Has
  <2>3. Has(s, File(name)) \/ Has(s, Dir(name)) => \E i \in 1..Len(s) : s[i].name = name
    BY DEF Has, File, Dir
  <2>. QED
    BY <2>1, <2>2, <2>3
<1>3. ASSUME p # << >>, f \in DOMAIN t
      PROVE  /\ t[f] \in Seq(Entry) /\ Unique(t[f]) /\ DOMAIN t[f] = 1..Len(t[f])
             /\ l \in Name /\ p = Child(f, l)
             /\ p \in DOMAIN t <=> Has(t[f], Dir(l))
  <2>1. t[f] \in Seq(Entry) /\ Unique(t[f])
    BY <1>3 DEF IsTree
  <2>2. l \in Name /\ p = Child(f, l)
    BY <1>3, PathLawsHold DEF PathLaws
  <2>3. p \in DOMAIN t => Has(t[f], Dir(l))
    BY <1>3 DEF IsTree
  <2>4. Has(t[f], Dir(l)) => p \in DOMAIN t
    <3>. HIDE DEF f, l
    <3>. QED
      BY <1>3, <2>2 DEF IsTree
  <2>5. DOMAIN t[f] = 1..Len(t[f])
    BY <2>1, LenProperties
  <2>. QED
    BY <2>1, <2>2, <2>3, <2>4, <2>5
<1>. HIDE DEF f, l
<1>4. TypeIn(t, p) = IF p \in DOMAIN t THEN "directory"
                     ELSE IF p # << >> /\ f \in DOMAIN t /\ \E i \in DOMAIN t[f] : t[f][i].name = l
                          THEN "file" ELSE "none"
  BY Zenon DEF TypeIn, f, l
<1>5. TypeIn(t, p) \in {"file", "directory", "none"} /\ (TypeIn(t, p) = "directory" <=> p \in DOMAIN t)
  BY <1>4
<1>6. p \in DOMAIN t /\ p # << >> => f \in DOMAIN t
  BY DEF IsTree, f
<1>7. CASE p # << >> /\ f \in DOMAIN t
  <2>1. /\ p \in DOMAIN t <=> Has(t[f], Dir(l))
        /\ Has(t[f], File(l)) => ~Has(t[f], Dir(l))
        /\ (\E i \in 1..Len(t[f]) : t[f][i].name = l) <=> Has(t[f], File(l)) \/ Has(t[f], Dir(l))
        /\ DOMAIN t[f] = 1..Len(t[f])
    BY <1>2, <1>3, <1>7
  <2>2. PICK named \in BOOLEAN : named = \E i \in 1..Len(t[f]) : t[f][i].name = l
    OBVIOUS
  <2>3. TypeIn(t, p) = IF p \in DOMAIN t THEN "directory" ELSE IF named THEN "file" ELSE "none"
    BY <1>4, <1>7, <2>1, <2>2
  <2>4. named <=> Has(t[f], File(l)) \/ Has(t[f], Dir(l))
    BY <2>1, <2>2
  <2>5. ~named <=> \A i \in 1..Len(t[f]) : t[f][i].name # l
    BY <2>2
  <2>. QED
    BY <1>5, <1>7, <2>1, <2>3, <2>4, <2>5 DEF f, l
<1>8. CASE ~(p # << >> /\ f \in DOMAIN t)
  BY <1>4, <1>5, <1>6, <1>8 DEF f, l
<1>. QED
  BY <1>7, <1>8

\* A tree u that lists p, of a type, last in its directory, and is otherwise t.
Adds(t, u, p, type) ==
    /\ DOMAIN u = IF type = "directory" THEN DOMAIN t \union {p} ELSE DOMAIN t
    /\ \A d \in DOMAIN t : u[d] = IF d = Front(p) THEN Append(t[d], [name |-> Last(p), type |-> type])
                                  ELSE t[d]
    /\ type = "directory" => u[p] = << >>

LEMMA AddsToTree ==
    ASSUME NEW t, NEW u, IsTree(t), NEW p \in Seq(Name), NEW type \in {"file", "directory"},
           p # << >>, Front(p) \in DOMAIN t, TypeIn(t, p) = "none", Adds(t, u, p, type)
    PROVE  /\ IsTree(u)
           /\ \A q \in Seq(Name) : TypeIn(u, q) = IF q = p THEN type ELSE TypeIn(t, q)
           /\ \A d \in DOMAIN t : d \in DOMAIN u /\ IsPrefix(t[d], u[d])
<1>. DEFINE f == Front(p)
            e == [name |-> Last(p), type |-> type]
<1>1. /\ f \in Seq(Name) /\ Last(p) \in Name /\ p = Child(f, Last(p)) /\ p # f
      /\ e \in Entry /\ e.name = Last(p)
  <2>1. f \in Seq(Name) /\ Last(p) \in Name /\ p = Child(f, Last(p)) /\ p # f
    BY PathParts
  <2>. QED
    BY <2>1 DEF Entry
<1>2. p \notin DOMAIN t /\ \A i \in 1..Len(t[f]) : t[f][i].name # Last(p)
  BY WhatIsThere
<1>3. t[f] \in Seq(Entry) /\ Unique(t[f])
  BY DEF IsTree
<1>4. /\ u[f] \in Seq(Entry) /\ Unique(u[f])
      /\ \A x : Has(u[f], x) <=> Has(t[f], x) \/ x = e
      /\ IsPrefix(t[f], u[f])
  <2>1. u[f] = Append(t[f], e)
    BY DEF Adds
  <2>2. \A i \in 1..Len(t[f]) : t[f][i].name # e.name
    BY <1>1, <1>2
  <2>. HIDE DEF e, f
  <2>. QED
    BY <1>1, <1>3, <2>1, <2>2, AddedLast
<1>5. \A d \in DOMAIN t : d # f => u[d] = t[d]
  BY DEF Adds
<1>6. \A d \in DOMAIN u : d \in DOMAIN t \/ (d = p /\ type = "directory" /\ u[d] = << >>)
  BY DEF Adds
<1>7. DOMAIN t \subseteq DOMAIN u /\ (p \in DOMAIN u <=> type = "directory")
  BY <1>2 DEF Adds
<1>8. e = File(Last(p)) <=> type = "file"
  BY DEF File
<1>9. e = Dir(Last(p)) <=> type = "directory"
  BY DEF Dir
<1>10. \A name : (e = Dir(name) => name = Last(p)) /\ (e = File(name) => name = Last(p))
  BY DEF Dir, File
<1>. HIDE DEF f, e
<1>11. \A d, x : d \in DOMAIN u =>
          (Has(u[d], x) <=> d \in DOMAIN t /\ (Has(t[d], x) \/ (d = f /\ x = e)))
  <2>. SUFFICES ASSUME NEW d \in DOMAIN u, NEW x
                PROVE  Has(u[d], x) <=> d \in DOMAIN t /\ (Has(t[d], x) \/ (d = f /\ x = e))
    OBVIOUS
  <2>1. CASE d \in DOMAIN t
    BY <1>4, <1>5, <2>1
  <2>2. CASE d \notin DOMAIN t
    <3>1. u[d] = << >>
      BY <1>6, <2>2
    <3>. QED
      BY <2>2, <3>1 DEF Has
  <2>. QED
    BY <2>1, <2>2
<1>12. IsTree(u)
  <2>1. << >> \in DOMAIN u
    BY <1>7 DEF IsTree
  <2>2. ASSUME NEW d \in DOMAIN u  PROVE d \in Seq(Name) /\ u[d] \in Seq(Entry) /\ Unique(u[d])
    <3>1. CASE d = f
      BY <1>1, <1>4, <3>1
    <3>2. CASE d \in DOMAIN t /\ d # f
      BY <1>5, <3>2 DEF IsTree
    <3>3. CASE u[d] = << >> /\ d = p
      BY <3>3 DEF Unique
    <3>. QED
      BY <1>6, <3>1, <3>2, <3>3
  <2>3. ASSUME NEW d \in DOMAIN u, d # << >>  PROVE Front(d) \in DOMAIN u /\ Has(u[Front(d)], Dir(Last(d)))
    <3>1. CASE d \in DOMAIN t
      <4>1. Front(d) \in DOMAIN t /\ Has(t[Front(d)], Dir(Last(d)))
        BY <2>3, <3>1 DEF IsTree
      <4>. QED
        BY <1>7, <1>11, <4>1
    <3>2. CASE d = p /\ type = "directory"
      <4>1. f \in DOMAIN t /\ Front(d) = f /\ Dir(Last(d)) = e
        BY <1>9, <3>2 DEF f
      <4>2. f \in DOMAIN u /\ Has(u[f], e)
        BY <1>4, <1>7, <4>1
      <4>. QED
        BY <4>1, <4>2
    <3>. QED
      BY <1>6, <3>1, <3>2
  <2>4. ASSUME NEW d \in DOMAIN u, NEW name \in Name, Has(u[d], Dir(name))
        PROVE  Child(d, name) \in DOMAIN u
    <3>1. CASE d \in DOMAIN t /\ Has(t[d], Dir(name))
      BY <1>7, <3>1 DEF IsTree
    <3>2. CASE d = f /\ Dir(name) = e
      <4>1. name = Last(p) /\ type = "directory"
        BY <1>9, <1>10, <3>2
      <4>. QED
        BY <1>1, <1>7, <3>2, <4>1
    <3>. QED
      BY <1>11, <2>4, <3>1, <3>2
  <2>. QED
    BY <2>1, <2>2, <2>3, <2>4 DEF IsTree
<1>13. ASSUME NEW q \in Seq(Name)  PROVE TypeIn(u, q) = IF q = p THEN type ELSE TypeIn(t, q)
  <2>1. /\ TypeIn(u, q) \in {"file", "directory", "none"}
        /\ TypeIn(u, q) = "directory" <=> q \in DOMAIN u
        /\ TypeIn(u, q) = "file" <=> /\ q # << >> /\ Front(q) \in DOMAIN u
                                     /\ Has(u[Front(q)], File(Last(q)))
    BY <1>12, WhatIsThere
  <2>2. /\ TypeIn(t, q) \in {"file", "directory", "none"}
        /\ TypeIn(t, q) = "directory" <=> q \in DOMAIN t
        /\ TypeIn(t, q) = "file" <=> /\ q # << >> /\ Front(q) \in DOMAIN t
                                     /\ Has(t[Front(q)], File(Last(q)))
    BY WhatIsThere
  <2>3. CASE q = p
    BY <1>1, <1>7, <1>8, <1>11, <2>1, <2>3 DEF f
  <2>4. CASE q # p
    <3>1. q \in DOMAIN u <=> q \in DOMAIN t
      BY <1>6, <1>7, <2>4
    <3>2. q # << >> => (Front(q) = f => Last(q) # Last(p))
      BY <1>1, <2>4, PathLawsHold, Zenon DEF PathLaws
    <3>3. q # << >> => (Front(q) \in DOMAIN u /\ Has(u[Front(q)], File(Last(q)))
                           <=> Front(q) \in DOMAIN t /\ Has(t[Front(q)], File(Last(q))))
      BY <1>7, <1>10, <1>11, <3>2
    <3>. QED
      BY <2>1, <2>2, <2>4, <3>1, <3>3
  <2>. QED
    BY <2>3, <2>4
<1>14. ASSUME NEW d \in DOMAIN t  PROVE d \in DOMAIN u /\ IsPrefix(t[d], u[d])
  <2>1. CASE d = f
    BY <1>4, <1>7, <2>1
  <2>2. CASE d # f
    <3>1. t[d] \in Seq(Entry)
      BY DEF IsTree
    <3>. QED
      BY <1>5, <1>7, <2>2, <3>1, PrefixNames
  <2>. QED
    BY <2>1, <2>2
<1>. QED
  BY <1>12, <1>13, <1>14

\* A tree u without p, in its directory's listing at place i, that is otherwise t.
Loses(t, u, p, i) ==
    /\ DOMAIN u = DOMAIN t \ {p}
    /\ i \in 1..Len(t[Front(p)]) /\ t[Front(p)][i].name = Last(p)
    /\ \A d \in DOMAIN u : u[d] = IF d = Front(p) THEN RemoveAt(t[d], i) ELSE t[d]

LEMMA LosesFromTree ==
    ASSUME NEW t, NEW u, IsTree(t), NEW p \in Seq(Name), NEW i, p # << >>, Front(p) \in DOMAIN t,
           p \in DOMAIN t => t[p] = << >>,
           Loses(t, u, p, i)
    PROVE  /\ IsTree(u)
           /\ \A q \in Seq(Name) : TypeIn(u, q) = IF q = p THEN "none" ELSE TypeIn(t, q)
           /\ \A d, x : d \in DOMAIN u =>
                 (Has(u[d], x) <=> /\ Has(t[d], x)
                                   /\ d = Front(p) => x \notin {File(Last(p)), Dir(Last(p))})
<1>. DEFINE f == Front(p)
            e == t[f][i]
<1>1. /\ f \in Seq(Name) /\ Last(p) \in Name /\ p = Child(f, Last(p)) /\ p # f
  BY PathParts
<1>2. f \in DOMAIN t /\ t[f] \in Seq(Entry) /\ Unique(t[f]) /\ i \in 1..Len(t[f]) /\ e.name = Last(p)
  BY DEF IsTree, Loses
<1>3. e \in Entry /\ e \in {File(Last(p)), Dir(Last(p))} /\ Has(t[f], e)
  <2>1. e \in Entry
    BY <1>2, ElementOfSeq
  <2>2. e = [name |-> e.name, type |-> e.type] /\ e.type \in {"file", "directory"}
    BY <2>1 DEF Entry
  <2>3. Has(t[f], e)
    BY <1>2 DEF Has
  <2>. HIDE DEF e
  <2>. QED
    BY <1>2, <2>1, <2>2, <2>3 DEF File, Dir
<1>4. f \in DOMAIN u /\ DOMAIN u = DOMAIN t \ {p}
  BY <1>1, <1>2 DEF Loses
<1>5. /\ u[f] \in Seq(Entry) /\ Unique(u[f])
      /\ \A x : Has(u[f], x) <=> Has(t[f], x) /\ x # e
  <2>1. u[f] = RemoveAt(t[f], i)
    BY <1>4 DEF Loses
  <2>2. PICK s : s = t[f]
    OBVIOUS
  <2>3. s \in Seq(Entry) /\ Unique(s) /\ i \in 1..Len(s) /\ e = s[i]
    BY <1>2, <2>2
  <2>4. /\ RemoveAt(s, i) \in Seq(Entry) /\ Unique(RemoveAt(s, i))
        /\ \A x : Has(RemoveAt(s, i), x) <=> Has(s, x) /\ x # s[i]
    BY <2>3, RemovedAt
  <2>. QED
    BY <2>1, <2>2, <2>3, <2>4
<1>6. \A d \in DOMAIN u : d # f => u[d] = t[d]
  BY DEF Loses
<1>. HIDE DEF f, e
<1>7. \A x \in {File(Last(p)), Dir(Last(p))} : Has(t[f], x) => x = e
  <2>. SUFFICES ASSUME NEW x \in {File(Last(p)), Dir(Last(p))}, Has(t[f], x)  PROVE x = e
    OBVIOUS
  <2>1. PICK j \in 1..Len(t[f]) : t[f][j] = x
    BY DEF Has
  <2>2. x.name = Last(p)
    BY DEF File, Dir
  <2>3. j = i
    BY <1>2, <2>1, <2>2 DEF Unique, e
  <2>. QED
    BY <2>1, <2>3 DEF e
<1>8. \A d, x : d \in DOMAIN u => (Has(u[d], x) <=> Has(t[d], x) /\ (d = f => x # e))
  BY <1>5, <1>6
<1>9. \A d, x : d \in DOMAIN u =>
         (Has(u[d], x) <=> /\ Has(t[d], x)
                           /\ d = f => x \notin {File(Last(p)), Dir(Last(p))})
  BY <1>3, <1>7, <1>8
<1>10. IsTree(u)
  <2>1. << >> \in DOMAIN u
    BY <1>4 DEF IsTree
  <2>2. ASSUME NEW d \in DOMAIN u  PROVE d \in Seq(Name) /\ u[d] \in Seq(Entry) /\ Unique(u[d])
    <3>1. CASE d = f
      BY <1>1, <1>5, <3>1
    <3>2. CASE d # f
      BY <1>4, <1>6, <3>2 DEF IsTree
    <3>. QED
      BY <3>1, <3>2
  <2>3. ASSUME NEW d \in DOMAIN u, d # << >>  PROVE Front(d) \in DOMAIN u /\ Has(u[Front(d)], Dir(Last(d)))
    <3>1. d \in DOMAIN t /\ d # p /\ Front(d) \in DOMAIN t /\ Has(t[Front(d)], Dir(Last(d)))
      BY <1>4, <2>3 DEF IsTree
    <3>2. Front(d) # p
      BY <3>1 DEF Has
    <3>3. d \in Seq(Name) /\ d = Child(Front(d), Last(d))
      <4>1. d \in Seq(Name)
        BY <3>1 DEF IsTree
      <4>. QED
        BY <2>3, <4>1, PathLawsHold, Zenon DEF PathLaws
    <3>4. Front(d) = f => Last(d) # Last(p)
      BY <1>1, <3>1, <3>3
    <3>5. Last(d) # Last(p) => Dir(Last(d)) \notin {File(Last(p)), Dir(Last(p))}
      BY DEF File, Dir
    <3>. QED
      BY <1>4, <1>9, <3>1, <3>2, <3>4, <3>5
  <2>4. ASSUME NEW d \in DOMAIN u, NEW name \in Name, Has(u[d], Dir(name))
        PROVE  Child(d, name) \in DOMAIN u
    <3>1. d \in DOMAIN t /\ Has(t[d], Dir(name)) /\ (d = f => Dir(name) \notin {File(Last(p)), Dir(Last(p))})
      BY <1>4, <1>9, <2>4
    <3>2. Child(d, name) \in DOMAIN t
      BY <3>1 DEF IsTree
    <3>3. Child(d, name) # p
      <4>. SUFFICES ASSUME Child(d, name) = p  PROVE FALSE
        OBVIOUS
      <4>1. d \in Seq(Name)
        BY <3>1 DEF IsTree
      <4>2. d = f /\ name = Last(p)
        BY <4>1, PathLawsHold DEF PathLaws, f
      <4>. QED
        BY <3>1, <4>2
    <3>. QED
      BY <1>4, <3>2, <3>3
  <2>. QED
    BY <2>1, <2>2, <2>3, <2>4 DEF IsTree
<1>11. ASSUME NEW q \in Seq(Name)  PROVE TypeIn(u, q) = IF q = p THEN "none" ELSE TypeIn(t, q)
  <2>1. /\ TypeIn(u, q) \in {"file", "directory", "none"}
        /\ TypeIn(u, q) = "directory" <=> q \in DOMAIN u
        /\ TypeIn(u, q) = "file" <=> /\ q # << >> /\ Front(q) \in DOMAIN u
                                     /\ Has(u[Front(q)], File(Last(q)))
    BY <1>10, WhatIsThere
  <2>2. /\ TypeIn(t, q) \in {"file", "directory", "none"}
        /\ TypeIn(t, q) = "directory" <=> q \in DOMAIN t
        /\ TypeIn(t, q) = "file" <=> /\ q # << >> /\ Front(q) \in DOMAIN t
                                     /\ Has(t[Front(q)], File(Last(q)))
    BY WhatIsThere
  <2>3. CASE q = p
    <3>1. q \notin DOMAIN u /\ Front(q) = f
      BY <1>4, <2>3 DEF f
    <3>2. ~Has(u[f], File(Last(q)))
      BY <1>4, <1>9, <2>3
    <3>. QED
      BY <2>1, <2>3, <3>1, <3>2
  <2>4. CASE q # p
    <3>1. q \in DOMAIN u <=> q \in DOMAIN t
      BY <1>4, <2>4
    <3>2. q # << >> => (Front(q) = f => Last(q) # Last(p))
      BY <1>1, <2>4, PathLawsHold, Zenon DEF PathLaws
    <3>3. Last(q) # Last(p) => File(Last(q)) \notin {File(Last(p)), Dir(Last(p))}
      BY DEF File, Dir
    <3>4. Front(q) \in DOMAIN t /\ Has(t[Front(q)], File(Last(q))) => Front(q) # p
      BY DEF Has
    <3>5. q # << >> => (Front(q) \in DOMAIN u /\ Has(u[Front(q)], File(Last(q)))
                           <=> Front(q) \in DOMAIN t /\ Has(t[Front(q)], File(Last(q))))
      BY <1>4, <1>9, <3>2, <3>3, <3>4
    <3>. QED
      BY <2>1, <2>2, <2>4, <3>1, <3>5
  <2>. QED
    BY <2>3, <2>4
<1>. QED
  BY <1>9, <1>10, <1>11 DEF f

-----------------------------------------------------------------------------
(* Steps on the listings.                                                    *)

\* What a creation at p leaves: p is there, the rest as it was, and no listing is shorter.
Grown(p) ==
    /\ IsTree(listing')
    /\ TypeIn(listing, p) = "none" /\ TypeIn(listing', p) # "none"
    /\ \A q \in Seq(Name) : q # p => TypeIn(listing', q) = TypeIn(listing, q)
    /\ \A d \in DOMAIN listing : d \in DOMAIN listing' /\ IsPrefix(listing[d], listing'[d])

LEMMA Making ==
    ASSUME IsTree(listing), NEW p \in Seq(Name), CanMake(p)
    PROVE  /\ MakesFile(p) => Grown(p) /\ TypeIn(listing', p) = "file"
           /\ MakesDir(p) => Grown(p) /\ TypeIn(listing', p) = "directory"
<1>1. /\ p # << >> /\ TypeIn(listing, p) = "none" /\ Front(p) \in DOMAIN listing
      /\ Front(p) \in Seq(Name)
  <2>1. p # << >> /\ TypeIn(listing, p) = "none" /\ TypeIn(listing, Front(p)) = "directory"
    BY DEF CanMake, TypeOf
  <2>2. Front(p) \in Seq(Name)
    BY <2>1, PathParts
  <2>. QED
    BY <2>1, <2>2, WhatIsThere
<1>2. ASSUME NEW type \in {"file", "directory"}, Adds(listing, listing', p, type)
      PROVE  Grown(p) /\ TypeIn(listing', p) = type
  <2>1. /\ IsTree(listing')
        /\ \A q \in Seq(Name) : TypeIn(listing', q) = IF q = p THEN type ELSE TypeIn(listing, q)
        /\ \A d \in DOMAIN listing : d \in DOMAIN listing' /\ IsPrefix(listing[d], listing'[d])
    BY <1>1, <1>2, AddsToTree
  <2>. QED
    BY <1>1, <2>1 DEF Grown
<1>3. MakesFile(p) => Adds(listing, listing', p, "file")
  BY <1>1 DEF MakesFile, Listed, Adds
<1>4. ASSUME MakesDir(p)  PROVE Adds(listing, listing', p, "directory")
  <2>1. p \notin DOMAIN listing
    BY <1>1, WhatIsThere
  <2>2. DOMAIN listing' = DOMAIN listing \union {p} /\ listing'[p] = << >>
    BY <1>4 DEF MakesDir
  <2>3. \A d \in DOMAIN listing : listing'[d] = Listed(p, "directory")[d]
    BY <1>4, <2>1 DEF MakesDir
  <2>4. \A d \in DOMAIN listing :
           Listed(p, "directory")[d] = IF d = Front(p)
                                       THEN Append(listing[d], [name |-> Last(p), type |-> "directory"])
                                       ELSE listing[d]
    BY DEF Listed
  <2>. QED
    BY <2>2, <2>3, <2>4 DEF Adds
<1>. QED
  BY <1>2, <1>3, <1>4

\* What a removal of p leaves: all but p, in the order it had.
Shrunk(p) ==
    /\ IsTree(listing')
    /\ TypeIn(listing', p) = "none"
    /\ \A q \in Seq(Name) : q # p => TypeIn(listing', q) = TypeIn(listing, q)
    /\ DOMAIN listing' = DOMAIN listing \ {p}
    /\ \A d \in DOMAIN listing' : d # Front(p) => listing'[d] = listing[d]
    /\ \A x : Has(listing'[Front(p)], x) <=> /\ Has(listing[Front(p)], x)
                                             /\ x \notin {File(Last(p)), Dir(Last(p))}
    /\ Len(listing'[Front(p)]) = Len(listing[Front(p)]) - 1

LEMMA Removing ==
    ASSUME IsTree(listing), NEW p \in Seq(Name), CanUnlink(p) \/ CanRmdir(p), Removes(p)
    PROVE  Shrunk(p) /\ p # << >> /\ Front(p) \in DOMAIN listing /\ Front(p) \in DOMAIN listing'
<1>1. p # << >> /\ Front(p) \in DOMAIN listing /\ (p \in DOMAIN listing => listing[p] = << >>)
  <2>1. CASE CanUnlink(p)
    BY <2>1, WhatIsThere DEF CanUnlink, TypeOf
  <2>2. CASE CanRmdir(p)
    <3>1. p # << >> /\ p \in DOMAIN listing /\ listing[p] = << >>
      BY <2>2, WhatIsThere DEF CanRmdir, TypeOf, Emptied
    <3>. QED
      BY <3>1 DEF IsTree
  <2>. QED
    BY <2>1, <2>2
<1>2. p # Front(p)
  BY <1>1, PathParts
<1>3. listing[Front(p)] \in Seq(Entry) /\ Unique(listing[Front(p)])
  BY <1>1 DEF IsTree
<1>4. PICK i \in DOMAIN listing[Front(p)] :
         /\ listing[Front(p)][i].name = Last(p)
         /\ listing' = [d \in DOMAIN listing \ {p} |->
                           IF d = Front(p) THEN RemoveAt(listing[d], i) ELSE listing[d]]
  BY DEF Removes
<1>5. i \in 1..Len(listing[Front(p)])
  BY <1>3, <1>4, LenProperties
<1>6. Loses(listing, listing', p, i)
  BY <1>4, <1>5 DEF Loses
<1>7. /\ IsTree(listing')
      /\ \A q \in Seq(Name) : TypeIn(listing', q) = IF q = p THEN "none" ELSE TypeIn(listing, q)
      /\ \A d, x : d \in DOMAIN listing' =>
            (Has(listing'[d], x) <=> /\ Has(listing[d], x)
                                     /\ d = Front(p) => x \notin {File(Last(p)), Dir(Last(p))})
  BY <1>1, <1>6, LosesFromTree
<1>8. /\ DOMAIN listing' = DOMAIN listing \ {p} /\ Front(p) \in DOMAIN listing'
      /\ \A d \in DOMAIN listing' : d # Front(p) => listing'[d] = listing[d]
      /\ listing'[Front(p)] = RemoveAt(listing[Front(p)], i)
  BY <1>1, <1>2, <1>4
<1>9. Len(listing'[Front(p)]) = Len(listing[Front(p)]) - 1
  BY <1>3, <1>5, <1>8, RemovedAt
<1>. QED
  BY <1>1, <1>7, <1>8, <1>9 DEF Shrunk

-----------------------------------------------------------------------------
(* Pages.  Size is defined by recursion: that it is a number needs that what *)
(* is defined so exists.                                                     *)

LEMMA NatSetInduction ==
  ASSUME NEW S, 0 \in S, \A n \in Nat : n \in S => n+1 \in S
  PROVE \A n \in Nat : n \in S
<1> SUFFICES ASSUME NEW n \in Nat, n \notin S PROVE FALSE
  OBVIOUS
<1> DEFINE U == {m \in 0..n : m \notin S}
           V == U \ {n}
           f == [m \in U |-> m - 1]
<1>1. IsFiniteSet(U)
  <2>1. IsFiniteSet(0..n)  BY FS_Interval
  <2>2. U \in SUBSET (0..n)  OBVIOUS
  <2>3. QED  BY <2>1, <2>2, FS_Subset
<1>2. f \in Injection(U, V)
  <2>1. \A m \in U : m - 1 \in V
    <3> TAKE m \in U
    <3>1. m # 0 /\ m - 1 \in Nat /\ (m - 1) + 1 = m  OBVIOUS
    <3>2. m - 1 \notin S  BY <3>1
    <3>3. QED BY <3>1, <3>2
  <2>2. f \in [U -> V]  BY <2>1
  <2>3. \A a, b \in U : f[a] = f[b] => a = b  OBVIOUS
  <2>4. QED  BY <2>2, <2>3, Zenon DEF Injection, IsInjective
<1>3. n \in U  OBVIOUS
<1>4. V \in SUBSET U /\ V # U  BY <1>3
<1>5. IsFiniteSet(V) /\ Cardinality(V) <= Cardinality(U) /\ Cardinality(V) # Cardinality(U)
  BY <1>1, <1>4, FS_Subset
<1>6. Cardinality(U) <= Cardinality(V)
  BY <1>2, <1>5, FS_Injection
<1>7. Cardinality(U) \in Nat /\ Cardinality(V) \in Nat
  BY <1>1, <1>5, FS_CardinalityType
<1>8. QED BY <1>5, <1>6, <1>7

\* A function defined by recursion on its argument exists.
Turns(X) == [Nat -> [X -> X]]
Iterates(X, a, G, n) ==
    \E g \in [0..n -> X] : g[0] = a /\ \A i \in 1..n : g[i] = G[i][g[i - 1]]

\* A function that is defined by what it was one step before is there.
LEMMA Recursion ==
    ASSUME NEW X, NEW a \in X, NEW G \in Turns(X), NEW n \in Nat
    PROVE  Iterates(X, a, G, n)
<1>. USE DEF Turns, Iterates
<1>. DEFINE S == {k \in Nat : \E g \in [0..k -> X] :
                    g[0] = a /\ \A i \in 1..k : g[i] = G[i][g[i - 1]]}
<1>1. 0 \in S
  <2>. DEFINE g == [i \in 0..0 |-> a]
  <2>1. g \in [0..0 -> X] /\ g[0] = a /\ \A i \in 1..0 : g[i] = G[i][g[i - 1]]
    OBVIOUS
  <2>. QED
    BY <2>1
<1>2. ASSUME NEW k \in Nat, k \in S  PROVE k + 1 \in S
  <2>1. PICK g \in [0..k -> X] : g[0] = a /\ \A i \in 1..k : g[i] = G[i][g[i - 1]]
    BY <1>2
  <2>. DEFINE h == [i \in 0..k + 1 |-> IF i = k + 1 THEN G[k + 1][g[k]] ELSE g[i]]
  <2>2. G[k + 1][g[k]] \in X
    <3>1. g[k] \in X /\ k + 1 \in Nat
      BY <2>1
    <3>2. G[k + 1] \in [X -> X]
      BY <3>1
    <3>. QED
      BY <3>1, <3>2
  <2>3. h \in [0..k + 1 -> X]
    BY <2>1, <2>2
  <2>4. h[0] = a
    BY <2>1
  <2>5. \A i \in 1..k + 1 : h[i] = G[i][h[i - 1]]
    <3>. SUFFICES ASSUME NEW i \in 1..k + 1  PROVE h[i] = G[i][h[i - 1]]
      OBVIOUS
    <3>1. h[i - 1] = g[i - 1]
      OBVIOUS
    <3>2. CASE i = k + 1
      BY <3>1, <3>2
    <3>3. CASE i \in 1..k
      BY <3>1, <3>3, <2>1
    <3>. QED
      BY <3>2, <3>3
  <2>. HIDE DEF h
  <2>. QED
    BY <2>3, <2>4, <2>5
<1>. HIDE DEF S
<1>3. n \in S
  BY <1>1, <1>2, NatSetInduction
<1>. QED
  BY <1>3 DEF S

\* The length of entries is a number; of none it is 0, and of one its own.
LEMMA Sizes ==
    ASSUME NEW s \in Seq(Entry)
    PROVE  /\ Size(s) \in Nat
           /\ s = << >> => Size(s) = 0
           /\ Len(s) = 1 => Size(s) = HeaderLen + NameLen[s[1].name]
<1>. DEFINE n == Len(s)
            len(i) == HeaderLen + NameLen[s[i].name]
            R(h) == [i \in 0..n |-> IF i = 0 THEN 0 ELSE h[i - 1] + HeaderLen + NameLen[s[i].name]]
            G == [i \in Nat |-> [x \in Nat |-> IF i \in 1..n THEN x + len(i) ELSE x]]
            upTo == CHOOSE h : h = R(h)
<1>1. n \in Nat /\ \A i \in 1..n : len(i) \in Nat /\ NameLen[s[i].name] \in Nat
  <2>1. \A i \in 1..n : s[i].name \in Name
    <3>. SUFFICES ASSUME NEW i \in 1..n  PROVE s[i].name \in Name
      OBVIOUS
    <3>. HIDE DEF len, R, G, upTo
    <3>1. s[i] \in Entry
      BY ElementOfSeq
    <3>. QED
      BY <3>1 DEF Entry
  <2>. QED
    BY <2>1, DirScanAssumption DEF HeaderLen
<1>2. G \in [Nat -> [Nat -> Nat]]
  <2>. HIDE DEF len, n
  <2>1. \A i \in Nat, x \in Nat : (IF i \in 1..n THEN x + len(i) ELSE x) \in Nat
    BY <1>1
  <2>. QED
    BY <2>1
<1>3. PICK g \in [0..n -> Nat] : g[0] = 0 /\ \A i \in 1..n : g[i] = G[i][g[i - 1]]
  <2>. HIDE DEF n, G
  <2>1. Iterates(Nat, 0, G, n)
    BY <1>1, <1>2, Recursion DEF Turns
  <2>. QED
    BY <2>1 DEF Iterates
<1>4. ASSUME NEW i \in 1..n  PROVE g[i] = g[i - 1] + HeaderLen + NameLen[s[i].name]
  <2>. HIDE DEF n
  <2>1. i - 1 \in 0..n /\ i \in Nat
    BY <1>1
  <2>2. g[i - 1] \in Nat
    BY <1>3, <2>1
  <2>3. G[i][g[i - 1]] = g[i - 1] + len(i)
    BY <2>1, <2>2
  <2>. HIDE DEF G
  <2>4. g[i] = g[i - 1] + len(i)
    BY <1>3, <2>3
  <2>. HIDE DEF R, upTo
  <2>5. NameLen[s[i].name] \in Nat
    BY <1>1
  <2>6. PICK x \in Nat, y \in Nat : x = g[i - 1] /\ y = NameLen[s[i].name]
    BY <2>2, <2>5
  <2>7. g[i] = x + (HeaderLen + y)
    BY <2>4, <2>6
  <2>. HIDE DEF len
  <2>8. x + (HeaderLen + y) = x + HeaderLen + y
    BY DEF HeaderLen
  <2>. QED
    BY <2>6, <2>7, <2>8
<1>5. g = R(g)
  <2>1. \A i \in 0..n : g[i] = R(g)[i]
    BY <1>3, <1>4
  <2>2. DOMAIN R(g) = 0..n /\ DOMAIN g = 0..n
    BY <1>3
  <2>. HIDE DEF n
  <2>. QED
    BY <1>3, <2>1, <2>2
<1>6. upTo = R(upTo)
  <2>. HIDE DEF R
  <2>. QED
    BY <1>5
<1>7. /\ upTo[0] = 0
      /\ \A i \in 1..n : upTo[i] = upTo[i - 1] + HeaderLen + NameLen[s[i].name]
  <2>. HIDE DEF upTo
  <2>1. \A i \in 0..n : upTo[i] = R(upTo)[i]
    BY <1>6
  <2>. QED
    BY <1>1, <2>1
<1>8. Size(s) = upTo[n]
  BY DEF Size
<1>. HIDE DEF upTo
<1>9. \A k \in Nat : k \in {m \in Nat : m <= n => upTo[m] \in Nat}
  <2>. DEFINE S == {m \in Nat : m <= n => upTo[m] \in Nat}
  <2>1. 0 \in S
    BY <1>7
  <2>2. ASSUME NEW m \in Nat, m \in S  PROVE m + 1 \in S
    <3>. SUFFICES ASSUME m + 1 <= n  PROVE upTo[m + 1] \in Nat
      OBVIOUS
    <3>1. m + 1 \in 1..n /\ upTo[m] \in Nat /\ (m + 1) - 1 = m
      BY <1>1, <2>2
    <3>2. upTo[m + 1] = upTo[m] + HeaderLen + NameLen[s[m + 1].name]
      BY <1>7, <3>1
    <3>. QED
      BY <1>1, <3>1, <3>2 DEF HeaderLen
  <2>. HIDE DEF S
  <2>3. \A k \in Nat : k \in S
    BY <2>1, <2>2, NatSetInduction
  <2>. QED
    BY <2>3 DEF S
<1>10. Size(s) \in Nat
  BY <1>1, <1>8, <1>9
<1>11. s = << >> => Size(s) = 0
  BY <1>7, <1>8
<1>12. ASSUME n = 1  PROVE Size(s) = HeaderLen + NameLen[s[1].name]
  <2>1. 1 \in 1..n /\ 1 - 1 = 0
    BY <1>12
  <2>2. upTo[1] = 0 + HeaderLen + NameLen[s[1].name]
    BY <1>7, <2>1
  <2>. QED
    BY <1>1, <1>8, <1>12, <2>1, <2>2 DEF HeaderLen
<1>. QED
  BY <1>10, <1>11, <1>12

\* The start of a sequence.
LEMMA Starting ==
    ASSUME NEW S, NEW s \in Seq(S), NEW n \in 0..Len(s)
    PROVE  /\ SubSeq(s, 1, n) \in Seq(S) /\ Len(SubSeq(s, 1, n)) = n
           /\ \A i \in 1..n : SubSeq(s, 1, n)[i] = s[i]
           /\ IsPrefix(SubSeq(s, 1, n), s)
<1>1. PICK t : t = SubSeq(s, 1, n)
  OBVIOUS
<1>2. /\ t \in Seq(S)
      /\ Len(t) = IF 1 <= n THEN n - 1 + 1 ELSE 0
      /\ \A i \in 1..n - 1 + 1 : t[i] = s[1 + i - 1]
  <2>1. 1 \in Int /\ n \in Int
    OBVIOUS
  <2>2. \A i \in 1..n : s[i] \in S
    BY ElementOfSeq
  <2>. QED
    BY <1>1, <2>1, <2>2, SubSeqProperties
<1>3. Len(t) = n /\ \A i \in 1..n : t[i] = s[i]
  BY <1>2
<1>4. IsPrefix(t, s)
  BY <1>2, <1>3, PrefixNames
<1>. QED
  BY <1>1, <1>2, <1>3, <1>4

\* A page is a start of what is to be listed: all of it, or what there is room for.
LEMMA WholePart ==
    ASSUME NEW s \in Seq(Entry)
    PROVE  /\ WholeOf(s) \in Seq(Entry) /\ IsPrefix(WholeOf(s), s)
           /\ WholeOf(s) = << >> /\ s # << >> => HeaderLen + NameLen[s[1].name] > BufLen
<1>. DEFINE Whole(n) == /\ Size(SubSeq(s, 1, n)) <= BufLen
                        /\ n = Len(s) \/ Size(SubSeq(s, 1, n + 1)) > BufLen
            len == Len(s)
<1>1. len \in Nat /\ BufLen \in Nat
  BY DirScanAssumption
<1>2. \A n \in 0..len : Size(SubSeq(s, 1, n)) \in Nat
  BY Starting, Sizes
<1>3. \E n \in 0..len : Whole(n)
  <2>. SUFFICES ASSUME \A n \in 0..len : ~Whole(n)  PROVE FALSE
    OBVIOUS
  <2>. DEFINE S == {n \in Nat : n <= len => Size(SubSeq(s, 1, n)) <= BufLen}
  <2>1. 0 \in S
    <3>1. 0 \in 0..len
      BY <1>1
    <3>2. SubSeq(s, 1, 0) \in Seq(Entry) /\ Len(SubSeq(s, 1, 0)) = 0
      BY <3>1, Starting
    <3>3. Size(SubSeq(s, 1, 0)) = 0
      BY <3>2, EmptySeq, Sizes
    <3>. QED
      BY <1>1, <3>3
  <2>2. ASSUME NEW n \in Nat, n \in S  PROVE n + 1 \in S
    <3>. SUFFICES ASSUME n + 1 <= len  PROVE Size(SubSeq(s, 1, n + 1)) <= BufLen
      OBVIOUS
    <3>1. n \in 0..len /\ n # len /\ n + 1 \in 0..len /\ Size(SubSeq(s, 1, n)) <= BufLen
      BY <1>1, <2>2
    <3>2. ~(Size(SubSeq(s, 1, n + 1)) > BufLen)
      BY <3>1
    <3>. QED
      BY <1>1, <1>2, <3>1, <3>2
  <2>3. \A n \in Nat : n \in S
    <3>. HIDE DEF S
    <3>. QED
      BY <2>1, <2>2, NatSetInduction
  <2>4. Whole(len)
    BY <1>1, <2>3
  <2>. QED
    BY <1>1, <2>4
<1>4. PICK n : n = CHOOSE m \in 0..len : Whole(m)
  OBVIOUS
<1>5. n \in 0..len /\ Whole(n)
  BY <1>3, <1>4
<1>6. WholeOf(s) = SubSeq(s, 1, n)
  BY <1>4 DEF WholeOf
<1>7. WholeOf(s) \in Seq(Entry) /\ IsPrefix(WholeOf(s), s) /\ Len(WholeOf(s)) = n
  BY <1>5, <1>6, Starting
<1>8. ASSUME WholeOf(s) = << >>, s # << >>  PROVE HeaderLen + NameLen[s[1].name] > BufLen
  <2>1. n = 0 /\ len # 0 /\ 1 \in 0..len /\ n + 1 = 1
    BY <1>1, <1>7, <1>8, EmptySeq
  <2>2. Size(SubSeq(s, 1, 1)) > BufLen
    BY <1>5, <2>1
  <2>3. /\ SubSeq(s, 1, 1) \in Seq(Entry) /\ Len(SubSeq(s, 1, 1)) = 1
        /\ SubSeq(s, 1, 1)[1] = s[1]
    BY <2>1, Starting
  <2>. QED
    BY <2>2, <2>3, Sizes
<1>. QED
  BY <1>7, <1>8

-----------------------------------------------------------------------------
(* The inductive invariant of the walks.                                     *)

\* What is on a stack or in post_dirs is below src.
Below(paths) == \A i \in 1..Len(paths) : IsPrefix(src, paths[i])

Typed ==
    /\ changes \in 0..MaxChanges /\ others \subseteq {"added", "removed"}
    /\ cmd \in {"none", "ls", "rm", "cp"} /\ src \in Seq(Name) /\ dest \in Seq(Name)
    /\ pc \in {"idle", "start", "pop", "open", "list", "entry", "source", "copy", "done"}
    /\ stack \in Seq(Seq(Name)) /\ post \in Seq(Seq(Name))
    /\ scan \in [dir : Seq(Name), gone : BOOLEAN, cookie : Nat]
    /\ page \in Seq(Entry) /\ printed \in Seq(Entry)
    /\ result \in {"none", "ok", "failed", "trapped"}
    /\ pc = "done" <=> result # "none"

Control ==
    /\ cmd = "none" <=> pc = "idle"
    /\ pc \in {"open", "source", "copy"} => cmd = "cp"
    /\ pc = "pop" => cmd \in {"rm", "cp"}
    /\ pc = "open" => stack # << >>
    /\ cmd = "rm" /\ pc \in {"pop", "list", "entry"} => stack # << >> \/ post # << >>
    /\ pc = "entry" => page # << >>
    /\ pc \in {"idle", "start", "pop", "open", "list"} => page = << >>
    /\ pc \in {"idle", "start", "pop", "open"} => scan.dir = << >>
    /\ pc \in {"idle", "start"} => stack = << >> /\ post = << >> /\ printed = << >>

Trees ==
    /\ IsTree(listing) /\ IsTree(before)
    /\ ~scan.gone => scan.dir \in DOMAIN listing

Inside ==
    cmd = "rm" => /\ Below(stack) /\ Below(post)
                  /\ pc \in {"list", "entry"} => IsPrefix(src, scan.dir)

WInv == Typed /\ Control /\ Trees /\ Inside

\* What a step does, when it is one of the program's: StaysInside.
Stays ==
    changes' = changes =>
        /\ cmd \in {"none", "ls"} => UNCHANGED listing
        /\ cmd = "rm" => Outside(src) /\ DOMAIN listing' \subseteq DOMAIN listing
        /\ cmd = "cp" => Outside(dest) /\ DOMAIN listing \subseteq DOMAIN listing'

LEMMA TypesOfWInv == WInv => TypeInvariant
<1>. SUFFICES ASSUME WInv  PROVE TypeInvariant
  OBVIOUS
<1>1. IsTree(listing) /\ Typed
  BY DEF WInv, Trees
<1>2. ASSUME NEW d \in DOMAIN listing
      PROVE  /\ d \in Seq(Name) /\ listing[d] \in Seq(Entry)
             /\ \A i, j \in DOMAIN listing[d] : listing[d][i].name = listing[d][j].name => i = j
             /\ d # << >> => /\ Front(d) \in DOMAIN listing
                             /\ Contains(listing[Front(d)], [name |-> Last(d), type |-> "directory"])
             /\ \A i \in DOMAIN listing[d] :
                   listing[d][i].type = "directory" => Child(d, listing[d][i].name) \in DOMAIN listing
  <2>1. /\ d \in Seq(Name) /\ listing[d] \in Seq(Entry) /\ Unique(listing[d])
        /\ d # << >> => Front(d) \in DOMAIN listing /\ Has(listing[Front(d)], Dir(Last(d)))
        /\ \A name \in Name : Has(listing[d], Dir(name)) => Child(d, name) \in DOMAIN listing
    BY <1>1 DEF IsTree
  <2>2. DOMAIN listing[d] = 1..Len(listing[d])
    BY <2>1, LenProperties
  <2>3. d # << >> => Contains(listing[Front(d)], [name |-> Last(d), type |-> "directory"])
    BY <2>1 DEF Has, Dir, Contains
  <2>4. \A i, j \in DOMAIN listing[d] : listing[d][i].name = listing[d][j].name => i = j
    BY <2>1, <2>2 DEF Unique
  <2>5. ASSUME NEW i \in DOMAIN listing[d], listing[d][i].type = "directory"
        PROVE  Child(d, listing[d][i].name) \in DOMAIN listing
    <3>1. listing[d][i] \in Entry
      BY <2>1, <2>2, ElementOfSeq
    <3>2. PICK e : e = listing[d][i]
      OBVIOUS
    <3>3. e.name \in Name /\ e = Dir(e.name)
      BY <2>5, <3>1, <3>2 DEF Entry, Dir
    <3>4. Has(listing[d], Dir(e.name))
      BY <2>2, <3>2, <3>3 DEF Has
    <3>. QED
      BY <2>1, <3>2, <3>3, <3>4
  <2>. QED
    BY <2>1, <2>3, <2>4, <2>5
<1>. QED
  BY <1>1, <1>2 DEF Typed, TypeInvariant

\* What is not below where a step is has not changed.
LEMMA OutsideOf ==
    ASSUME NEW top \in Seq(Name), NEW q \in Seq(Name), IsPrefix(top, q), IsTree(listing), IsTree(listing'),
           \A r \in Seq(Name) : r # q => TypeIn(listing', r) = TypeIn(listing, r)
    PROVE  Outside(top)
<1>. SUFFICES ASSUME NEW p \in DOMAIN listing \union DOMAIN listing', NEW name \in Name
              PROVE  \/ IsPrefix(top, Child(p, name))
                     \/ TypeIn(listing, Child(p, name)) = TypeIn(listing', Child(p, name))
  BY DEF Outside
<1>1. p \in Seq(Name)
  BY DEF IsTree
<1>2. Child(p, name) \in Seq(Name)
  BY <1>1, PathLawsHold DEF PathLaws
<1>. QED
  BY <1>2

LEMMA StillStays == listing' = listing => Stays
BY DEF Stays, Outside

LEMMA RmStays ==
    ASSUME IsTree(listing), cmd = "rm", src \in Seq(Name), NEW q \in Seq(Name), IsPrefix(src, q), Shrunk(q)
    PROVE  Stays
BY OutsideOf DEF Stays, Shrunk

LEMMA CpStays ==
    ASSUME IsTree(listing), cmd = "cp", dest \in Seq(Name), NEW q \in Seq(Name), IsPrefix(dest, q), Grown(q)
    PROVE  Stays
<1>1. Outside(dest)
  BY OutsideOf DEF Grown
<1>2. DOMAIN listing \subseteq DOMAIN listing'
  BY DEF Grown
<1>. QED
  BY <1>1, <1>2 DEF Stays

\* What is made for a path is at the destination or below it.
LEMMA DestIsBelow ==
    ASSUME dest \in Seq(Name), src \in Seq(Name), NEW p \in Seq(Name)
    PROVE  Dest(p) \in Seq(Name) /\ IsPrefix(dest, Dest(p)) /\ Dest(src) = dest
<1>1. ASSUME NEW r \in Seq(Name)
      PROVE  SubSeq(r, Len(src) + 1, Len(r)) \in Seq(Name)
  <2>1. PICK m \in Int, n \in Int : m = Len(src) + 1 /\ n = Len(r)
    BY LenProperties
  <2>2. m >= 1
    BY <2>1
  <2>3. \A i \in m..n : r[i] \in Name
    BY <2>1, <2>2, ElementOfSeq
  <2>. QED
    BY <2>1, <2>3, SubSeqProperties
<1>2. SubSeq(src, Len(src) + 1, Len(src)) = << >>
  <2>1. PICK t : t = SubSeq(src, Len(src) + 1, Len(src))
    OBVIOUS
  <2>2. PICK n \in Int : n = Len(src)
    BY LenProperties
  <2>3. n + 1 \in Int /\ ~(n + 1 <= n) /\ \A i \in n + 1..n : src[i] \in Name
    OBVIOUS
  <2>4. t \in Seq(Name) /\ Len(t) = IF n + 1 <= n THEN n - (n + 1) + 1 ELSE 0
    BY <2>1, <2>2, <2>3, SubSeqProperties
  <2>. QED
    BY <2>1, <2>3, <2>4, EmptySeq
<1>3. PICK t : t = SubSeq(p, Len(src) + 1, Len(p))
  OBVIOUS
<1>4. /\ dest \o t \in Seq(Name) /\ Len(dest \o t) = Len(dest) + Len(t)
      /\ \A i \in 1..Len(dest) + Len(t) : (dest \o t)[i] = IF i <= Len(dest) THEN dest[i] ELSE t[i - Len(dest)]
      /\ Len(t) \in Nat /\ Len(dest) \in Nat
  BY <1>1, <1>3, ConcatProperties, LenProperties
<1>5. PICK u : u = dest \o t
  OBVIOUS
<1>6. u \in Seq(Name) /\ IsPrefix(dest, u)
  <2>1. u \in Seq(Name) /\ Len(dest) <= Len(u) /\ \A i \in 1..Len(dest) : dest[i] = u[i]
    BY <1>4, <1>5
  <2>. QED
    BY <2>1, PrefixNames
<1>7. dest \o << >> = dest
  OBVIOUS
<1>. QED
  BY <1>2, <1>3, <1>5, <1>6, <1>7 DEF Dest

\* Paths put on a stack and taken off it.
LEMMA PathsBelow ==
    ASSUME NEW s \in Seq(Seq(Name))
    PROVE  /\ \A x \in Seq(Name) : /\ Append(s, x) \in Seq(Seq(Name)) /\ Append(s, x) # << >>
                                   /\ Below(s) /\ IsPrefix(src, x) => Below(Append(s, x))
           /\ s # << >> => /\ Front(s) \in Seq(Seq(Name)) /\ Last(s) \in Seq(Name)
                           /\ Below(s) => Below(Front(s)) /\ IsPrefix(src, Last(s))
           /\ Below(<< >>)
<1>1. PICK n \in Nat : n = Len(s)
  BY LenProperties
<1>2. ASSUME NEW x \in Seq(Name)
      PROVE  /\ Append(s, x) \in Seq(Seq(Name)) /\ Append(s, x) # << >>
             /\ Below(s) /\ IsPrefix(src, x) => Below(Append(s, x))
  <2>1. PICK u : u = Append(s, x)
    OBVIOUS
  <2>2. u \in Seq(Seq(Name)) /\ Len(u) = n + 1 /\ (\A i \in 1..n : u[i] = s[i]) /\ u[n + 1] = x
    BY <1>1, <2>1, AppendProperties
  <2>3. u # << >>
    BY <2>2, EmptySeq
  <2>4. ASSUME Below(s), IsPrefix(src, x), NEW i \in 1..n + 1  PROVE IsPrefix(src, u[i])
    <3>1. CASE i = n + 1
      BY <2>2, <2>4, <3>1
    <3>2. CASE i \in 1..n
      BY <1>1, <2>2, <2>4, <3>2 DEF Below
    <3>. QED
      BY <3>1, <3>2
  <2>. QED
    BY <2>1, <2>2, <2>3, <2>4 DEF Below
<1>3. ASSUME s # << >>
      PROVE  /\ Front(s) \in Seq(Seq(Name)) /\ Last(s) \in Seq(Name)
             /\ Below(s) => Below(Front(s)) /\ IsPrefix(src, Last(s))
  <2>1. /\ Front(s) \in Seq(Seq(Name)) /\ Len(Front(s)) = n - 1
        /\ \A i \in 1..n - 1 : Front(s)[i] = s[i]
        /\ Last(s) \in Seq(Name) /\ Last(s) = s[n]
    BY <1>1, <1>3, FrontAndLast
  <2>2. n # 0
    BY <1>1, <1>3, EmptySeq
  <2>3. Below(s) => Below(Front(s))
    BY <1>1, <2>1 DEF Below
  <2>4. Below(s) => IsPrefix(src, s[n])
    BY <1>1, <2>2 DEF Below
  <2>. QED
    BY <2>1, <2>3, <2>4
<1>4. Below(<< >>)
  BY DEF Below
<1>. QED
  BY <1>2, <1>3, <1>4

\* The entry at hand.
LEMMA AtHand ==
    ASSUME WInv, page # << >>
    PROVE  /\ Head(page) \in Entry /\ Head(page).name \in Name
           /\ Tail(page) \in Seq(Entry) /\ Len(Tail(page)) = Len(page) - 1
           /\ Len(page) = 1 <=> Tail(page) = << >>
           /\ Current \in Seq(Name) /\ Current # << >>
           /\ Front(Current) = scan.dir /\ Last(Current) = Head(page).name
           /\ IsPrefix(src, scan.dir) => IsPrefix(src, Current)
<1>1. page \in Seq(Entry) /\ scan.dir \in Seq(Name) /\ src \in Seq(Name)
  BY DEF WInv, Typed
<1>2. /\ Head(page) \in Entry /\ Tail(page) \in Seq(Entry) /\ Len(Tail(page)) = Len(page) - 1
      /\ Len(page) \in Nat
  BY <1>1, HeadTailProperties
<1>3. Len(page) = 1 <=> Tail(page) = << >>
  <2>1. PICK t \in Seq(Entry), n \in Nat : t = Tail(page) /\ n = Len(page) /\ Len(t) = n - 1
    BY <1>2
  <2>2. t = << >> <=> Len(t) = 0
    BY <2>1, EmptySeq
  <2>. QED
    BY <2>1, <2>2
<1>4. Head(page).name \in Name
  BY <1>2 DEF Entry
<1>5. /\ Current \in Seq(Name) /\ Current # << >>
      /\ Front(Current) = scan.dir /\ Last(Current) = Head(page).name
  BY <1>1, <1>4, PathLawsHold DEF PathLaws, Current
<1>6. IsPrefix(src, scan.dir) => IsPrefix(src, Current)
  BY <1>1, <1>4, PrefixLawsHold DEF PrefixLaws, Current
<1>. QED
  BY <1>2, <1>3, <1>4, <1>5, <1>6

Goes == WInv' /\ Stays

\* The open directory.
LEMMA ScanTypes ==
    /\ NoScan \in [dir : Seq(Name), gone : BOOLEAN, cookie : Nat]
    /\ NoScan.dir = << >>
    /\ \A p \in Seq(Name) :
          Opens(p) => /\ scan' \in [dir : Seq(Name), gone : BOOLEAN, cookie : Nat]
                      /\ scan'.dir = p /\ scan'.gone = FALSE /\ scan'.cookie = 0
    /\ \A n \in Nat :
          scan \in [dir : Seq(Name), gone : BOOLEAN, cookie : Nat]
            => /\ [scan EXCEPT !.cookie = @ + n] \in [dir : Seq(Name), gone : BOOLEAN, cookie : Nat]
               /\ [scan EXCEPT !.cookie = @ + n].dir = scan.dir
               /\ [scan EXCEPT !.cookie = @ + n].gone = scan.gone
               /\ [scan EXCEPT !.cookie = @ + n].cookie = scan.cookie + n
<1>1. NoScan \in [dir : Seq(Name), gone : BOOLEAN, cookie : Nat] /\ NoScan.dir = << >>
  <2>1. << >> \in Seq(Name)
    OBVIOUS
  <2>. QED
    BY <2>1 DEF NoScan
<1>2. ASSUME NEW p \in Seq(Name), Opens(p)
      PROVE  /\ scan' \in [dir : Seq(Name), gone : BOOLEAN, cookie : Nat]
             /\ scan'.dir = p /\ scan'.gone = FALSE /\ scan'.cookie = 0
  <2>1. scan' = [dir |-> p, gone |-> FALSE, cookie |-> 0]
    BY <1>2 DEF Opens, NoScan
  <2>. QED
    BY <2>1
<1>3. ASSUME NEW n \in Nat, scan \in [dir : Seq(Name), gone : BOOLEAN, cookie : Nat]
      PROVE  /\ [scan EXCEPT !.cookie = @ + n] \in [dir : Seq(Name), gone : BOOLEAN, cookie : Nat]
             /\ [scan EXCEPT !.cookie = @ + n].dir = scan.dir
             /\ [scan EXCEPT !.cookie = @ + n].gone = scan.gone
             /\ [scan EXCEPT !.cookie = @ + n].cookie = scan.cookie + n
  <2>1. [scan EXCEPT !.cookie = @ + n] = [dir |-> scan.dir, gone |-> scan.gone, cookie |-> scan.cookie + n]
    BY <1>3
  <2>2. scan.cookie + n \in Nat /\ scan.dir \in Seq(Name) /\ scan.gone \in BOOLEAN
    BY <1>3
  <2>. QED
    BY <2>1, <2>2
<1>. QED
  BY <1>1, <1>2, <1>3

\* Steps that leave the listings alone.
LEMMA LsOpensGoes ==
    ASSUME WInv, LsOpens
    PROVE  Goes
<1>. USE DEF WInv
<1>1. Stays
  BY StillStays DEF LsOpens, Untouched
<1>2. Typed'
  <2>1. scan' \in [dir : Seq(Name), gone : BOOLEAN, cookie : Nat]
    BY ScanTypes DEF LsOpens, Typed
  <2>. QED
    BY <2>1 DEF LsOpens, Untouched, othersVars, operands, Typed, Ends
<1>3. Control'
  BY DEF LsOpens, Untouched, operands, Control, Ends
<1>4. Trees'
  <2>1. TypeOf(src) = "directory" => src \in DOMAIN listing
    BY WhatIsThere DEF TypeOf, Trees, Typed
  <2>2. listing' = listing /\ before' = before
    BY DEF LsOpens, Untouched, operands
  <2>3. CASE TypeOf(src) = "directory" /\ Opens(src)
    <3>1. scan'.dir = src /\ src \in DOMAIN listing
      BY <2>1, <2>3, ScanTypes DEF Typed
    <3>. QED
      BY <2>2, <3>1 DEF Trees
  <2>4. CASE UNCHANGED scan
    BY <2>2, <2>4 DEF Trees
  <2>. QED
    BY <2>3, <2>4 DEF LsOpens
<1>5. Inside'
  BY DEF LsOpens, Untouched, operands, Inside
<1>. QED
  BY <1>1, <1>2, <1>3, <1>4, <1>5 DEF Goes

LEMMA ListsGoes ==
    ASSUME WInv, Lists
    PROVE  Goes /\ page' \in Seq(Entry) /\ page' # << >> /\ Rest \in Seq(Entry) /\ IsPrefix(page', Rest)
<1>. USE DEF WInv
<1>1. Rest \in Seq(Entry)
  <2>1. CASE scan.gone
    BY <2>1 DEF Rest
  <2>2. CASE ~scan.gone
    <3>1. listing[scan.dir] \in Seq(Entry) /\ scan.cookie \in Nat
      BY <2>2 DEF Trees, IsTree, Typed
    <3>2. PICK s \in Seq(Entry), k \in Nat : s = listing[scan.dir] /\ k = scan.cookie
      BY <3>1
    <3>3. \A i \in k + 1..Len(s) : s[i] \in Entry
      BY ElementOfSeq
    <3>4. k + 1 \in Int /\ Len(s) \in Int
      BY LenProperties
    <3>5. SubSeq(s, k + 1, Len(s)) \in Seq(Entry)
      BY <3>3, <3>4, SubSeqProperties
    <3>. QED
      BY <2>2, <3>2, <3>5 DEF Rest, Skipped
  <2>. QED
    BY <2>1, <2>2 DEF Typed
<1>2. page' \in Seq(Entry) /\ page' # << >> /\ IsPrefix(page', Rest)
  BY <1>1, WholePart DEF Lists, NothingWhole
<1>3. Stays
  BY StillStays DEF Lists, Untouched
<1>4. Typed'
  BY <1>2 DEF Lists, Untouched, othersVars, operands, Typed
<1>5. Control'
  BY <1>2 DEF Lists, Untouched, operands, Control
<1>6. Trees'
  BY DEF Lists, Untouched, operands, Trees, IsTree
<1>7. Inside'
  BY DEF Lists, Untouched, operands, Inside, Below
<1>. QED
  BY <1>1, <1>2, <1>3, <1>4, <1>5, <1>6, <1>7 DEF Goes

LEMMA ListsNoneGoes ==
    ASSUME WInv, ListsNone
    PROVE  Goes
<1>. USE DEF WInv
<1>1. Stays
  BY StillStays DEF ListsNone, Untouched
<1>2. << >> \in Seq(Name)
  OBVIOUS
<1>3. Typed'
  BY <1>2 DEF ListsNone, Untouched, othersVars, operands, Typed, NoScan, Ends
<1>4. Control'
  <2>1. cmd' = cmd /\ page' = page /\ stack' = stack /\ post' = post /\ page = << >> /\ cmd # "none"
    BY DEF ListsNone, Untouched, operands, Control
  <2>3. IF cmd = "ls" THEN pc' = "done" ELSE pc' = "pop"
    BY DEF ListsNone, Ends
  <2>4. scan'.dir = << >>
    BY ScanTypes DEF ListsNone
  <2>. QED
    BY <2>1, <2>3, <2>4 DEF Control, Typed, ListsNone
<1>5. Trees'
  BY DEF ListsNone, Untouched, operands, Trees, IsTree, NoScan
<1>6. Inside'
  BY DEF ListsNone, Untouched, operands, Inside, Below, Ends
<1>. QED
  BY <1>1, <1>3, <1>4, <1>5, <1>6 DEF Goes

LEMMA LsPrintsGoes ==
    ASSUME WInv, LsPrints
    PROVE  Goes
<1>. USE DEF WInv
<1>1. Stays
  BY StillStays DEF LsPrints, Untouched
<1>2. printed \o page \in Seq(Entry) /\ Len(page) \in Nat
  BY ConcatProperties DEF Typed
<1>3. scan' \in [dir : Seq(Name), gone : BOOLEAN, cookie : Nat] /\ scan'.dir = scan.dir /\ scan'.gone = scan.gone
  BY <1>2, ScanTypes DEF LsPrints, Typed
<1>4. Typed'
  BY <1>2, <1>3 DEF LsPrints, Untouched, othersVars, operands, Typed
<1>5. Control'
  BY DEF LsPrints, Untouched, operands, Control
<1>6. Trees'
  BY <1>3 DEF LsPrints, Untouched, operands, Trees, IsTree
<1>7. Inside'
  BY DEF LsPrints, Untouched, operands, Inside
<1>. QED
  BY <1>1, <1>4, <1>5, <1>6, <1>7 DEF Goes

LEMMA PushesGoes ==
    ASSUME WInv, Pushes
    PROVE  Goes
<1>. USE DEF WInv
<1>1. Stays
  BY StillStays DEF Pushes, Untouched
<1>2. page # << >> /\ pc = "entry" /\ cmd \in {"rm", "cp"}
  BY DEF Pushes, AtEntry
<1>3. /\ Current \in Seq(Name) /\ Tail(page) \in Seq(Entry) /\ (Len(page) = 1 <=> Tail(page) = << >>)
      /\ IsPrefix(src, scan.dir) => IsPrefix(src, Current)
  BY <1>2, AtHand
<1>4. /\ stack' = Append(stack, Current) /\ stack' \in Seq(Seq(Name)) /\ stack' # << >>
      /\ Below(stack) /\ IsPrefix(src, Current) => Below(stack')
  BY <1>3, PathsBelow DEF Pushes, Typed
<1>5. /\ scan' \in [dir : Seq(Name), gone : BOOLEAN, cookie : Nat]
      /\ scan'.dir = scan.dir /\ scan'.gone = scan.gone
  BY ScanTypes DEF Pushes, Advances, Typed
<1>6. Typed'
  BY <1>2, <1>3, <1>4, <1>5 DEF Pushes, Advances, Untouched, othersVars, operands, Typed
<1>7. Control'
  BY <1>2, <1>3, <1>4 DEF Pushes, Advances, Untouched, operands, Control
<1>8. Trees'
  BY <1>5 DEF Pushes, Untouched, operands, Trees, IsTree
<1>9. Inside'
  BY <1>2, <1>3, <1>4, <1>5 DEF Pushes, Untouched, operands, Inside, Below
<1>. QED
  BY <1>1, <1>6, <1>7, <1>8, <1>9 DEF Goes

LEMMA StartsGoes ==
    ASSUME WInv, Commands
    PROVE  Goes
<1>. USE DEF WInv
<1>1. PICK c \in {"ls", "rm", "cp"}, p \in Operands, q \in Seq(Name) : Starts(c, p, q)
  <2>1. << >> \in Seq(Name) /\ Operands \subseteq Seq(Name)
    BY DirScanAssumption
  <2>2. PICK p \in Operands :
           \/ Starts("ls", p, << >>)
           \/ Starts("rm", p, << >>)
           \/ \E q \in Operands : ~IsStrictPrefix(p, q) /\ Starts("cp", p, q)
    BY DEF Commands
  <2>. QED
    BY <2>1, <2>2
<1>2. p \in Seq(Name)
  BY DirScanAssumption
<1>3. Stays
  BY <1>1, StillStays DEF Starts
<1>4. pc = "idle" /\ page = << >>
  BY <1>1 DEF Starts, Control
<1>5. Typed'
  BY <1>1, <1>2, <1>4 DEF Starts, othersVars, walkVars, Typed
<1>6. Control'
  BY <1>1, <1>4 DEF Starts, walkVars, Control
<1>7. Trees'
  BY <1>1 DEF Starts, walkVars, Trees
<1>8. Inside'
  <2>1. stack' = << >> /\ post' = << >> /\ pc' = "start"
    BY <1>1, <1>4 DEF Starts, walkVars, Control
  <2>. QED
    BY <2>1 DEF Inside, Below
<1>. QED
  BY <1>3, <1>5, <1>6, <1>7, <1>8 DEF Goes

LEMMA CpProbesGoes ==
    ASSUME WInv, CpProbes
    PROVE  Goes
<1>. USE DEF WInv
<1>1. Stays
  BY StillStays DEF CpProbes, Untouched
<1>2. <<src>> \in Seq(Seq(Name)) /\ <<src>> # << >>
  <2>1. src \in Seq(Name)
    BY DEF Typed
  <2>. QED
    BY <2>1
<1>3. Typed'
  BY <1>2 DEF CpProbes, Untouched, othersVars, operands, Typed, Ends, CpFails
<1>4. Control'
  BY <1>2 DEF CpProbes, Untouched, operands, Control, Ends, CpFails
<1>5. Trees'
  BY DEF CpProbes, Untouched, operands, Trees, Ends, CpFails
<1>6. Inside'
  BY DEF CpProbes, Untouched, operands, Inside
<1>. QED
  BY <1>1, <1>3, <1>4, <1>5, <1>6 DEF Goes

LEMMA RmUnlinksGoes ==
    ASSUME WInv, RmUnlinks
    PROVE  Goes
<1>. USE DEF WInv
<1>1. src \in Seq(Name) /\ cmd = "rm" /\ IsTree(listing) /\ IsPrefix(src, src)
  BY PrefixLawsHold DEF PrefixLaws, RmUnlinks, Typed, Trees
<1>2. CASE CanUnlink(src) /\ Removes(src)
  <2>1. Shrunk(src)
    BY <1>1, <1>2, Removing
  <2>2. TypeOf(src) = "file"
    BY <1>2 DEF CanUnlink
  <2>3. Stays
    BY <1>1, <2>1, RmStays
  <2>4. pc' = "done" /\ stack' = stack /\ result' = "ok"
    BY <2>2 DEF RmUnlinks, Ends
  <2>5. Typed'
    BY <2>4 DEF RmUnlinks, othersVars, operands, Typed
  <2>6. Control'
    BY <2>4 DEF RmUnlinks, operands, Control
  <2>7. Trees'
    <3>1. scan' = scan /\ before' = before /\ scan.dir = << >>
      BY DEF RmUnlinks, operands, Control
    <3>2. IsTree(listing')
      BY <2>1 DEF Shrunk
    <3>3. << >> \in DOMAIN listing'
      BY <3>2 DEF IsTree
    <3>. QED
      BY <3>1, <3>2, <3>3 DEF Trees
  <2>8. Inside'
    BY <2>4 DEF RmUnlinks, operands, Inside, Below
  <2>. QED
    BY <2>3, <2>5, <2>6, <2>7, <2>8 DEF Goes
<1>3. CASE UNCHANGED listing
  <2>1. Stays
    BY <1>3, StillStays
  <2>2. \/ pc' = "done" /\ result' = "failed" /\ stack' = stack
        \/ pc' = "pop" /\ result' = result /\ stack' = <<src>>
        \/ pc' = "done" /\ result' = "ok" /\ stack' = stack
    BY <1>3 DEF RmUnlinks, Ends
  <2>3. /\ UNCHANGED <<othersVars, operands, post, scan, page, printed>>
        /\ pc = "start"
    BY DEF RmUnlinks
  <2>4. <<src>> \in Seq(Seq(Name)) /\ <<src>> # << >> /\ Below(<<src>>)
    <3>1. <<src>> \in Seq(Seq(Name)) /\ Len(<<src>>) = 1 /\ <<src>>[1] = src /\ <<src>> # << >>
      BY <1>1
    <3>. QED
      BY <1>1, <3>1 DEF Below
  <2>5. Typed'
    BY <2>2, <2>3, <2>4 DEF othersVars, operands, Typed
  <2>6. Control'
    BY <1>1, <2>2, <2>3, <2>4 DEF operands, Control
  <2>7. Trees'
    BY <1>3, <2>3 DEF operands, Trees
  <2>8. Inside'
    BY <2>2, <2>3, <2>4 DEF operands, Inside, Below
  <2>. QED
    BY <2>1, <2>5, <2>6, <2>7, <2>8 DEF Goes
<1>. QED
  BY <1>2, <1>3 DEF RmUnlinks

LEMMA RmPopsGoes ==
    ASSUME WInv, RmPops
    PROVE  Goes
<1>. USE DEF WInv
<1>1. Stays
  BY StillStays DEF RmPops, Untouched
<1>2. cmd = "rm" /\ stack # << >> /\ stack \in Seq(Seq(Name)) /\ post \in Seq(Seq(Name))
  BY DEF RmPops, Typed
<1>3. /\ Below(stack) /\ Below(post)
      /\ Front(stack) \in Seq(Seq(Name)) /\ Last(stack) \in Seq(Name)
      /\ Below(stack) => Below(Front(stack)) /\ IsPrefix(src, Last(stack))
  BY <1>2, PathsBelow DEF Inside
<1>4. /\ Append(post, Last(stack)) \in Seq(Seq(Name)) /\ Append(post, Last(stack)) # << >>
      /\ Below(Append(post, Last(stack)))
  BY <1>2, <1>3, PathsBelow
<1>5. /\ stack' = Front(stack) /\ post' = Append(post, Last(stack))
      /\ UNCHANGED <<listing, othersVars, operands, page, printed>>
  BY DEF RmPops, Untouched
<1>6. \/ /\ pc' = "list" /\ result' = result /\ Last(stack) \in DOMAIN listing
         /\ scan' \in [dir : Seq(Name), gone : BOOLEAN, cookie : Nat] /\ scan'.dir = Last(stack)
      \/ pc' = "done" /\ result' = "failed" /\ scan' = scan
  <2>1. TypeOf(Last(stack)) = "directory" => Last(stack) \in DOMAIN listing
    BY <1>3, WhatIsThere DEF TypeOf, Trees
  <2>. QED
    BY <1>3, <2>1, ScanTypes DEF RmPops, Ends
<1>7. Typed'
  BY <1>3, <1>4, <1>5, <1>6 DEF RmPops, othersVars, operands, Typed
<1>8. Control'
  BY <1>4, <1>5, <1>6 DEF RmPops, operands, Control
<1>9. Trees'
  BY <1>5, <1>6 DEF operands, Trees
<1>10. Inside'
  <2>1. Below(stack') /\ Below(post') /\ src' = src /\ (pc' \in {"list", "entry"} => IsPrefix(src, scan'.dir))
    BY <1>3, <1>4, <1>5, <1>6 DEF operands
  <2>. QED
    BY <2>1 DEF Inside, Below
<1>. QED
  BY <1>1, <1>7, <1>8, <1>9, <1>10 DEF Goes

LEMMA RmUnlinksEntryGoes ==
    ASSUME WInv, RmUnlinksEntry
    PROVE  Goes /\ (CanUnlink(Current) => Shrunk(Current))
<1>. USE DEF WInv
<1>1. cmd = "rm" /\ pc = "entry" /\ page # << >> /\ src \in Seq(Name) /\ IsTree(listing)
  BY DEF RmUnlinksEntry, AtEntry, Typed, Trees
<1>2. /\ Current \in Seq(Name) /\ Current # << >> /\ Front(Current) = scan.dir /\ IsPrefix(src, Current)
      /\ Tail(page) \in Seq(Entry) /\ (Len(page) = 1 <=> Tail(page) = << >>)
  BY <1>1, AtHand DEF Inside
<1>3. UNCHANGED <<othersVars, operands, stack, post, printed>>
  BY DEF RmUnlinksEntry
<1>4. CASE CanUnlink(Current)
  <2>1. Removes(Current) /\ Advances /\ result' = result
    BY <1>4 DEF RmUnlinksEntry
  <2>2. Shrunk(Current) /\ scan.dir \in DOMAIN listing'
    BY <1>1, <1>2, <1>4, <2>1, Removing
  <2>3. Stays
    BY <1>1, <1>2, <2>2, RmStays
  <2>4. /\ scan' \in [dir : Seq(Name), gone : BOOLEAN, cookie : Nat]
        /\ scan'.dir = scan.dir /\ scan'.gone = scan.gone
    BY <2>1, ScanTypes DEF Advances, Typed
  <2>5. page' = Tail(page) /\ pc' = IF Tail(page) = << >> THEN "list" ELSE "entry"
    BY <1>2, <2>1 DEF Advances
  <2>6. Typed'
    BY <1>1, <1>2, <1>3, <2>1, <2>4, <2>5 DEF othersVars, operands, Typed
  <2>7. Control'
    BY <1>1, <1>3, <2>5 DEF operands, Control
  <2>8. Trees'
    <3>1. IsTree(listing')
      BY <2>2 DEF Shrunk
    <3>. QED
      BY <1>3, <2>2, <2>4, <3>1 DEF operands, Trees
  <2>9. Inside'
    BY <1>1, <1>3, <2>4 DEF operands, Inside, Below
  <2>. QED
    BY <2>2, <2>3, <2>6, <2>7, <2>8, <2>9 DEF Goes
<1>5. CASE ~CanUnlink(Current)
  <2>1. UNCHANGED <<listing, page, scan>> /\ pc' = "done" /\ result' = "failed"
    BY <1>5 DEF RmUnlinksEntry, Ends
  <2>2. Stays
    BY <2>1, StillStays
  <2>3. Typed'
    BY <1>3, <2>1 DEF othersVars, operands, Typed
  <2>4. Control'
    BY <1>1, <1>3, <2>1 DEF operands, Control
  <2>5. Trees'
    BY <1>3, <2>1 DEF operands, Trees
  <2>6. Inside'
    BY <1>3, <2>1 DEF operands, Inside, Below
  <2>. QED
    BY <1>5, <2>2, <2>3, <2>4, <2>5, <2>6 DEF Goes
<1>. QED
  BY <1>4, <1>5

LEMMA RmRmdirsGoes ==
    ASSUME WInv, RmRmdirs
    PROVE  /\ Goes
           /\ post # << >> /\ Last(post) \in Seq(Name)
           /\ CanRmdir(Last(post)) => Shrunk(Last(post))
<1>. USE DEF WInv
<1>1. /\ cmd = "rm" /\ pc = "pop" /\ stack = << >> /\ post # << >> /\ scan.dir = << >> /\ Below(post)
      /\ src \in Seq(Name) /\ post \in Seq(Seq(Name)) /\ IsTree(listing)
  BY DEF RmRmdirs, Control, Inside, Typed, Trees
<1>2. /\ Front(post) \in Seq(Seq(Name)) /\ Last(post) \in Seq(Name)
      /\ Below(Front(post)) /\ IsPrefix(src, Last(post))
  BY <1>1, PathsBelow
<1>3. UNCHANGED <<othersVars, operands, stack, scan, page, printed>> /\ post' = Front(post)
  BY DEF RmRmdirs
<1>4. IsLast <=> Front(post) = << >>
  <2>1. Front(post) \in Seq(Seq(Name)) /\ Len(Front(post)) = Len(post) - 1 /\ Len(post) \in Nat
    BY <1>1, FrontAndLast, LenProperties
  <2>2. Front(post) = << >> <=> Len(Front(post)) = 0
    BY <2>1, EmptySeq
  <2>. QED
    BY <2>1, <2>2 DEF IsLast
<1>5. \/ /\ CanRmdir(Last(post)) /\ Shrunk(Last(post))
         /\ IF IsLast THEN pc' = "done" /\ result' = "ok" ELSE pc' = pc /\ result' = result
      \/ /\ ~CanRmdir(Last(post)) /\ listing' = listing
         /\ pc' = "done" /\ result' = "failed"
  <2>1. \/ /\ CanRmdir(Last(post)) /\ Removes(Last(post))
           /\ IF IsLast THEN pc' = "done" /\ result' = "ok" ELSE pc' = pc /\ result' = result
        \/ ~CanRmdir(Last(post)) /\ pc' = "done" /\ result' = "failed" /\ listing' = listing
    BY DEF RmRmdirs, NextToRemove, Ends
  <2>. QED
    BY <1>1, <1>2, <2>1, Removing
<1>6. Stays
  BY <1>1, <1>2, <1>5, RmStays, StillStays
<1>7. Typed'
  BY <1>1, <1>2, <1>3, <1>5 DEF othersVars, operands, Typed
<1>8. Control'
  BY <1>1, <1>3, <1>4, <1>5 DEF operands, Control
<1>9. Trees'
  <2>1. IsTree(listing')
    BY <1>1, <1>5 DEF Shrunk
  <2>2. << >> \in DOMAIN listing'
    BY <2>1 DEF IsTree
  <2>. QED
    BY <1>1, <1>3, <2>1, <2>2 DEF operands, Trees
<1>10. Inside'
  BY <1>1, <1>2, <1>3, <1>5 DEF operands, Inside, Below
<1>. QED
  BY <1>1, <1>2, <1>5, <1>6, <1>7, <1>8, <1>9, <1>10 DEF Goes

LEMMA CpMakesDirGoes ==
    ASSUME WInv, CpMakesDir
    PROVE  /\ Goes
           /\ Last(stack) \in Seq(Name) /\ Dest(Last(stack)) \in Seq(Name)
           /\ \/ Grown(Dest(Last(stack))) /\ pc' = "open"
              \/ listing' = listing /\ TypeOf(Dest(Last(stack))) # "none" /\ pc' = "open"
              \/ listing' = listing /\ pc' = "done" /\ result' \in {"failed", "trapped"}
<1>. USE DEF WInv
<1>1. /\ cmd = "cp" /\ pc = "pop" /\ stack # << >> /\ IsTree(listing)
      /\ src \in Seq(Name) /\ dest \in Seq(Name) /\ stack \in Seq(Seq(Name))
  BY DEF CpMakesDir, Typed, Trees
<1>2. PICK p : p = Dest(Last(stack))
  OBVIOUS
<1>3. p \in Seq(Name) /\ IsPrefix(dest, p) /\ Last(stack) \in Seq(Name)
  <2>1. Last(stack) \in Seq(Name)
    BY <1>1, PathsBelow
  <2>. QED
    BY <1>1, <1>2, <2>1, DestIsBelow
<1>4. \/ CanMake(p) /\ MakesDir(p) /\ pc' = "open" /\ result' = result
      \/ TypeOf(p) # "none" /\ pc' = "open" /\ listing' = listing /\ result' = result
      \/ pc' = "done" /\ result' \in {"failed", "trapped"} /\ listing' = listing
  BY <1>2 DEF CpMakesDir, Ends, CpFails
<1>5. \/ Grown(p) /\ pc' = "open" /\ result' = result
      \/ TypeOf(p) # "none" /\ listing' = listing /\ pc' = "open" /\ result' = result
      \/ listing' = listing /\ pc' = "done" /\ result' \in {"failed", "trapped"}
  BY <1>1, <1>3, <1>4, Making
<1>6. UNCHANGED <<othersVars, operands, walkVars, printed>>
  BY DEF CpMakesDir
<1>7. Stays
  BY <1>1, <1>3, <1>5, CpStays, StillStays
<1>8. Typed'
  BY <1>1, <1>5, <1>6 DEF othersVars, operands, walkVars, Typed
<1>9. Control'
  BY <1>1, <1>5, <1>6 DEF operands, walkVars, Control
<1>10. Trees'
  BY <1>1, <1>5, <1>6 DEF operands, walkVars, Trees, Grown
<1>11. Inside'
  BY <1>1, <1>6 DEF operands, Inside
<1>. QED
  BY <1>2, <1>3, <1>5, <1>7, <1>8, <1>9, <1>10, <1>11 DEF Goes

LEMMA CpOpensGoes ==
    ASSUME WInv, CpOpens
    PROVE  /\ Goes
           /\ stack # << >> /\ Last(stack) \in Seq(Name) /\ Front(stack) \in Seq(Seq(Name))
           /\ pc' = "list" => scan'.dir = Last(stack) /\ scan'.gone = FALSE /\ scan'.cookie = 0
<1>. USE DEF WInv
<1>1. Stays
  BY StillStays DEF CpOpens, Untouched
<1>2. cmd = "cp" /\ pc = "open" /\ stack # << >> /\ stack \in Seq(Seq(Name))
  BY DEF CpOpens, Typed, Control
<1>3. Front(stack) \in Seq(Seq(Name)) /\ Last(stack) \in Seq(Name)
  BY <1>2, PathsBelow
<1>4. stack' = Front(stack) /\ UNCHANGED <<listing, othersVars, operands, post, page, printed>>
  BY DEF CpOpens, Untouched
<1>5. \/ /\ pc' = "list" /\ result' = result /\ Last(stack) \in DOMAIN listing
         /\ scan' \in [dir : Seq(Name), gone : BOOLEAN, cookie : Nat] /\ scan'.dir = Last(stack)
         /\ scan'.gone = FALSE /\ scan'.cookie = 0
      \/ pc' = "done" /\ result' \in {"failed", "trapped"} /\ scan' = scan
  <2>1. TypeOf(Last(stack)) = "directory" => Last(stack) \in DOMAIN listing
    BY <1>3, WhatIsThere DEF TypeOf, Trees
  <2>. QED
    BY <1>3, <2>1, ScanTypes DEF CpOpens, Ends, CpFails
<1>6. Typed'
  BY <1>3, <1>4, <1>5 DEF CpOpens, othersVars, operands, Typed
<1>7. Control'
  BY <1>2, <1>4, <1>5 DEF operands, Control
<1>8. Trees'
  BY <1>4, <1>5 DEF operands, Trees
<1>9. Inside'
  BY <1>2, <1>4 DEF operands, Inside
<1>. QED
  BY <1>1, <1>2, <1>3, <1>5, <1>6, <1>7, <1>8, <1>9 DEF Goes

\* The steps of cp that only move on.
LEMMA CpMovesOn ==
    ASSUME WInv, CpTakesFile \/ CpOpensSource \/ CpEnds
    PROVE  Goes
<1>. USE DEF WInv
<1>1. /\ UNCHANGED <<listing, othersVars, operands, walkVars, printed>> /\ cmd = "cp"
      /\ pc \in {"entry", "source", "pop"}
      /\ \/ pc' = "done" /\ result' \in {"ok", "failed", "trapped"}
         \/ pc' \in {"source", "copy"} /\ result' = result
  BY DEF CpTakesFile, CpOpensSource, CpEnds, Untouched, AtEntry, Ends, CpFails, Control
<1>2. Stays
  BY <1>1, StillStays
<1>3. Typed'
  BY <1>1 DEF othersVars, operands, walkVars, Typed
<1>4. Control'
  BY <1>1 DEF operands, walkVars, Control
<1>5. Trees'
  BY <1>1 DEF operands, walkVars, Trees
<1>6. Inside'
  BY <1>1 DEF operands, walkVars, Inside
<1>. QED
  BY <1>2, <1>3, <1>4, <1>5, <1>6 DEF Goes

LEMMA CpCopiesGoes ==
    ASSUME WInv, CpCopies
    PROVE  /\ Goes
           /\ Dest(Copied) \in Seq(Name) /\ (listing' = listing \/ Grown(Dest(Copied)))
           /\ result' \notin {"failed", "trapped"} =>
                 /\ TypeIn(listing', Dest(Copied)) = "file"
                 /\ \/ page # << >> /\ Advances /\ result' = result
                    \/ page = << >> /\ result' = "ok" /\ pc' = "done"
<1>. USE DEF WInv
<1>1. /\ cmd = "cp" /\ pc = "copy" /\ IsTree(listing) /\ src \in Seq(Name) /\ dest \in Seq(Name)
  BY DEF CpCopies, Typed, Trees, Control
<1>2. PICK p : p = Dest(Copied)
  OBVIOUS
<1>3. p \in Seq(Name) /\ IsPrefix(dest, p)
  <2>1. Copied \in Seq(Name)
    BY <1>1, AtHand DEF Copied
  <2>. QED
    BY <1>1, <1>2, <2>1, DestIsBelow
<1>4. UNCHANGED <<othersVars, operands, stack, post, printed>>
  BY DEF CpCopies
<1>5. \/ /\ CanMake(p) \/ TypeOf(p) = "file"
         /\ IF CanMake(p) THEN MakesFile(p) ELSE UNCHANGED listing
         /\ \/ page # << >> /\ Advances /\ result' = result
            \/ page = << >> /\ pc' = "done" /\ result' = "ok" /\ UNCHANGED <<page, scan>>
      \/ /\ pc' = "done" /\ result' \in {"failed", "trapped"}
         /\ UNCHANGED <<listing, page, scan>>
  BY <1>2 DEF CpCopies, Ends, CpFails
<1>6. CASE /\ CanMake(p) \/ TypeOf(p) = "file"
           /\ IF CanMake(p) THEN MakesFile(p) ELSE UNCHANGED listing
           /\ \/ page # << >> /\ Advances /\ result' = result
              \/ page = << >> /\ pc' = "done" /\ result' = "ok" /\ UNCHANGED <<page, scan>>
  <2>1. TypeIn(listing', p) = "file" /\ (listing' = listing \/ Grown(p))
    BY <1>1, <1>3, <1>6, Making DEF TypeOf
  <2>2. Stays
    BY <1>1, <1>3, <2>1, CpStays, StillStays
  <2>3. /\ scan' \in [dir : Seq(Name), gone : BOOLEAN, cookie : Nat]
        /\ scan'.dir = scan.dir /\ scan'.gone = scan.gone
    BY <1>6, ScanTypes DEF Advances, Typed
  <2>4. /\ \/ pc' \in {"list", "entry"} /\ result' = result /\ (pc' = "list" => page' = << >>)
              /\ (pc' = "entry" => page' # << >>)
           \/ pc' = "done" /\ result' = "ok"
        /\ page' \in Seq(Entry)
    <3>1. CASE page # << >> /\ Advances /\ result' = result
      <4>1. Tail(page) \in Seq(Entry) /\ (Len(page) = 1 <=> Tail(page) = << >>)
        BY <3>1, AtHand
      <4>. QED
        BY <3>1, <4>1 DEF Advances
    <3>2. CASE page = << >> /\ pc' = "done" /\ result' = "ok" /\ UNCHANGED <<page, scan>>
      BY <3>2 DEF Typed
    <3>. QED
      BY <1>6, <3>1, <3>2
  <2>5. Typed'
    BY <1>1, <1>4, <2>3, <2>4 DEF othersVars, operands, Typed
  <2>6. Control'
    BY <1>1, <1>4, <2>4 DEF operands, Control
  <2>7. Trees'
    <3>1. IsTree(listing') /\ (scan.dir \in DOMAIN listing => scan.dir \in DOMAIN listing')
      BY <1>1, <2>1 DEF Grown
    <3>. QED
      BY <1>4, <2>3, <3>1 DEF operands, Trees
  <2>8. Inside'
    BY <1>1, <1>4 DEF operands, Inside
  <2>. QED
    BY <1>2, <1>3, <1>6, <2>1, <2>2, <2>5, <2>6, <2>7, <2>8 DEF Goes
<1>7. CASE /\ pc' = "done" /\ result' \in {"failed", "trapped"}
           /\ UNCHANGED <<listing, page, scan>>
  <2>1. Stays
    BY <1>7, StillStays
  <2>2. Typed'
    BY <1>4, <1>7 DEF othersVars, operands, Typed
  <2>3. Control'
    BY <1>1, <1>4, <1>7 DEF operands, Control
  <2>4. Trees'
    BY <1>4, <1>7 DEF operands, Trees
  <2>5. Inside'
    BY <1>1, <1>4 DEF operands, Inside
  <2>. QED
    BY <1>2, <1>3, <1>7, <2>1, <2>2, <2>3, <2>4, <2>5 DEF Goes
<1>. QED
  BY <1>5, <1>6, <1>7

\* The others.
LEMMA OthersGo ==
    ASSUME WInv, OthersRun
    PROVE  /\ Goes /\ UNCHANGED <<operands, pc, stack, post, page, printed, result>>
           /\ others \subseteq others' /\ result = "none"
           /\ \/ cmd # "none" /\ "removed" \in others'
              \/ scan' = scan /\ (cmd # "none" => "added" \in others') /\ \E p \in Seq(Name) : Grown(p)
              \/ cmd = "none"
<1>. USE DEF WInv
<1>1. PICK p \in Path : OtherCreates(p) \/ OtherRemoves(p)
  BY DEF OthersRun
<1>2. p \in Seq(Name) /\ IsTree(listing)
  BY DirScanAssumption DEF Trees
<1>3. /\ UNCHANGED <<operands, pc, stack, post, page, printed, result>> /\ result = "none"
      /\ changes' = changes + 1 /\ changes < MaxChanges
      /\ others' \in {others, others \union {"added"}, others \union {"removed"}}
      /\ cmd # "none" => /\ OtherCreates(p) => others' = others \union {"added"}
                         /\ OtherRemoves(p) => others' = others \union {"removed"}
  BY <1>1 DEF OtherCreates, OtherRemoves, Changes
<1>4. Stays
  <2>1. changes \in Nat
    BY DirScanAssumption DEF Typed
  <2>. QED
    BY <1>3, <2>1 DEF Stays
<1>5. /\ IsTree(listing')
      /\ scan' \in [dir : Seq(Name), gone : BOOLEAN, cookie : Nat] /\ scan'.dir = scan.dir
      /\ scan.gone => scan'.gone
      /\ ~scan'.gone => scan'.dir \in DOMAIN listing'
      /\ OtherCreates(p) => scan' = scan /\ Grown(p)
  <2>1. CASE OtherCreates(p)
    <3>1. Grown(p) /\ scan' = scan
      BY <1>2, <2>1, Making DEF OtherCreates
    <3>2. IsTree(listing') /\ (scan.dir \in DOMAIN listing => scan.dir \in DOMAIN listing')
      BY <3>1 DEF Grown
    <3>. QED
      BY <3>1, <3>2 DEF Typed, Trees
  <2>2. CASE OtherRemoves(p) /\ ~OtherCreates(p)
    <3>1. Shrunk(p)
      BY <1>2, <2>2, Removing DEF OtherRemoves
    <3>2. IsTree(listing') /\ DOMAIN listing' = DOMAIN listing \ {p}
      BY <3>1 DEF Shrunk
    <3>3. scan' = IF p = scan.dir THEN [scan EXCEPT !.gone = TRUE] ELSE scan
      BY <2>2 DEF OtherRemoves
    <3>4. CASE p = scan.dir
      <4>1. scan' = [dir |-> scan.dir, gone |-> TRUE, cookie |-> scan.cookie]
        BY <3>3, <3>4 DEF Typed
      <4>. QED
        BY <2>2, <3>2, <4>1 DEF Typed
    <3>5. CASE p # scan.dir
      BY <2>2, <3>2, <3>3, <3>5 DEF Typed, Trees
    <3>. QED
      BY <3>4, <3>5
  <2>. QED
    BY <1>1, <2>1, <2>2
<1>6. Typed'
  <2>1. changes' \in 0..MaxChanges
    BY <1>3, DirScanAssumption DEF Typed
  <2>2. others' \subseteq {"added", "removed"}
    BY <1>3 DEF Typed
  <2>. QED
    BY <1>3, <1>5, <2>1, <2>2 DEF operands, Typed
<1>7. Control'
  BY <1>3, <1>5 DEF operands, Control
<1>8. Trees'
  BY <1>3, <1>5 DEF operands, Trees
<1>9. Inside'
  BY <1>3, <1>5 DEF operands, Inside, Below
<1>. QED
  BY <1>1, <1>2, <1>3, <1>4, <1>5, <1>6, <1>7, <1>8, <1>9 DEF Goes

-----------------------------------------------------------------------------
(* The listings are a tree, and a walk stays inside.                         *)

LEMMA InitGoes == Init => WInv
<1>. SUFFICES ASSUME Init  PROVE WInv
  OBVIOUS
<1>1. << >> \in Seq(Name) /\ << >> \in Seq(Entry) /\ << >> \in Seq(Seq(Name))
  OBVIOUS
<1>2. Typed
  BY <1>1, ScanTypes, DirScanAssumption DEF Init, Typed
<1>3. Control
  BY ScanTypes DEF Init, Control
<1>4. IsTree(listing)
  <2>1. DOMAIN listing = {<< >>} /\ listing[<< >>] = << >>
    BY DEF Init
  <2>2. Len(<< >>) = 0
    OBVIOUS
  <2>3. \A d \in DOMAIN listing : d = << >> /\ listing[d] = << >>
    BY <2>1
  <2>4. \A d \in DOMAIN listing : Unique(listing[d]) /\ \A x : ~Has(listing[d], x)
    BY <2>2, <2>3 DEF Unique, Has
  <2>. QED
    BY <1>1, <2>1, <2>3, <2>4 DEF IsTree
<1>5. Trees
  BY <1>4, ScanTypes DEF Init, Trees, IsTree
<1>6. Inside
  BY DEF Init, Inside
<1>. QED
  BY <1>2, <1>3, <1>5, <1>6 DEF WInv

LEMMA StandsStill ==
    ASSUME WInv, UNCHANGED vars
    PROVE  WInv'
BY DEF vars, othersVars, operands, commandVars, walkVars, WInv, Typed, Control, Trees, Inside, Below

LEMMA NextGoes == WInv /\ Next => Goes
BY OthersGo, StartsGoes, LsOpensGoes, LsPrintsGoes, ListsGoes, ListsNoneGoes, PushesGoes, RmUnlinksGoes,
   RmPopsGoes, RmUnlinksEntryGoes, RmRmdirsGoes, CpProbesGoes, CpMakesDirGoes, CpOpensGoes, CpMovesOn,
   CpCopiesGoes
   DEF Next, CommandRuns, Ls, Rm, Cp

LEMMA WInvHolds == Spec => []WInv
<1>1. WInv /\ [Next]_vars => WInv'
  BY NextGoes, StandsStill DEF Goes
<1>. QED
  BY <1>1, InitGoes, PTL DEF Spec

\* Whatever is made and removed under the walks, the listings are a tree: a name is listed
\* once, and what is listed as a directory is one (MemoryFs's children maps).
THEOREM ListingsStayATree == Spec => []TypeInvariant
<1>1. WInv => TypeInvariant
  BY TypesOfWInv
<1>. QED
  BY <1>1, WInvHolds, PTL

\* rm -r removes nothing but what is below its operand, cp -r makes nothing but what is below
\* its destination, and ls changes nothing, whatever the others have made of the paths on the
\* stack since they were put there (cp/main.zig's and rm/main.zig's stacks).
THEOREM WalksStayInside == Spec => StaysInside
<1>1. WInv /\ [Next]_vars => [Stays]_vars
  BY NextGoes DEF Goes
<1>2. [][Stays]_vars => StaysInside
  <2>1. [Stays]_vars => [changes' = changes =>
          /\ cmd \in {"none", "ls"} => UNCHANGED listing
          /\ cmd = "rm" => Outside(src) /\ DOMAIN listing' \subseteq DOMAIN listing
          /\ cmd = "cp" => Outside(dest) /\ DOMAIN listing \subseteq DOMAIN listing']_vars
    BY DEF Stays
  <2>. QED
    BY <2>1, PTL DEF StaysInside
<1>. QED
  BY <1>1, <1>2, WInvHolds, PTL DEF Spec

-----------------------------------------------------------------------------
(* ls lists each entry once.                                                 *)

LEMMA PrefixOrder ==
    ASSUME NEW S, NEW s \in Seq(S)
    PROVE  /\ IsPrefix(s, s) /\ IsPrefix(<< >>, s)
           /\ \A t, u \in Seq(S) : IsPrefix(s, t) /\ IsPrefix(t, u) => IsPrefix(s, u)
<1>1. IsPrefix(s, s)
  BY PrefixNames
<1>2. IsPrefix(<< >>, s)
  <2>0. << >> \in Seq(S) /\ Len(<< >>) = 0
    OBVIOUS
  <2>1. PICK e : e \in Seq(S) /\ e = << >> /\ Len(e) = 0
    BY <2>0
  <2>2. e \in Seq(S) /\ Len(s) \in Nat /\ Len(e) <= Len(s) /\ \A i \in 1..Len(e) : e[i] = s[i]
    BY <2>1, LenProperties
  <2>3. IsPrefix(e, s)
    BY <2>2, PrefixNames
  <2>. QED
    BY <2>1, <2>3
<1>3. ASSUME NEW t \in Seq(S), NEW u \in Seq(S), IsPrefix(s, t), IsPrefix(t, u)
      PROVE  IsPrefix(s, u)
  <2>1. Len(s) <= Len(t) /\ \A i \in 1..Len(s) : s[i] = t[i]
    BY <1>3, PrefixNames
  <2>2. Len(t) <= Len(u) /\ \A i \in 1..Len(t) : t[i] = u[i]
    BY <1>3, PrefixNames
  <2>3. Len(s) <= Len(u) /\ \A i \in 1..Len(s) : s[i] = u[i]
    BY <2>1, <2>2
  <2>. QED
    BY <2>3, PrefixNames
<1>. QED
  BY <1>1, <1>2, <1>3

\* What is left of t after its start s, and what s makes with the start of that.
LEMMA GoesOn ==
    ASSUME NEW S, NEW s \in Seq(S), NEW t \in Seq(S), IsPrefix(s, t)
    PROVE  /\ SubSeq(t, Len(s) + 1, Len(t)) \in Seq(S)
           /\ \A u \in Seq(S) : IsPrefix(u, SubSeq(t, Len(s) + 1, Len(t))) => IsPrefix(s \o u, t)
           /\ SubSeq(t, Len(s) + 1, Len(t)) = << >> => s = t
           /\ SubSeq(t, Len(s) + 1, Len(t)) # << >>
                 => Len(s) + 1 \in 1..Len(t) /\ SubSeq(t, Len(s) + 1, Len(t))[1] = t[Len(s) + 1]
<1>1. PICK k \in Nat : k = Len(s)
  OBVIOUS
<1>2. PICK n \in Nat : n = Len(t)
  OBVIOUS
<1>3. k <= n /\ \A i \in 1..k : s[i] = t[i]
  BY <1>1, <1>2, PrefixNames
<1>4. PICK r : r = SubSeq(t, k + 1, n)
  OBVIOUS
<1>5. r \in Seq(S) /\ Len(r) = n - k /\ \A i \in 1..n - k : r[i] = t[k + i]
  <2>1. k + 1 \in Int /\ n \in Int /\ \A i \in k + 1..n : t[i] \in S
    BY <1>2, ElementOfSeq
  <2>2. /\ r \in Seq(S) /\ Len(r) = IF k + 1 <= n THEN n - (k + 1) + 1 ELSE 0
        /\ \A i \in 1..n - (k + 1) + 1 : r[i] = t[(k + 1) + i - 1]
    BY <1>4, <2>1, SubSeqProperties
  <2>. QED
    BY <1>3, <2>2
<1>6. ASSUME NEW u \in Seq(S), IsPrefix(u, r)  PROVE IsPrefix(s \o u, t)
  <2>1. PICK m \in Nat : m = Len(u)
    OBVIOUS
  <2>2. m <= n - k /\ \A i \in 1..m : u[i] = r[i]
    BY <1>5, <1>6, <2>1, PrefixNames
  <2>3. PICK v : v = s \o u
    OBVIOUS
  <2>4. /\ v \in Seq(S) /\ Len(v) = k + m
        /\ \A i \in 1..k + m : v[i] = IF i <= k THEN s[i] ELSE u[i - k]
    BY <1>1, <2>1, <2>3, ConcatProperties
  <2>5. ASSUME NEW i \in 1..k + m  PROVE v[i] = t[i]
    <3>1. CASE i <= k
      BY <1>3, <2>4, <3>1
    <3>2. CASE ~(i <= k)
      <4>1. i - k \in 1..m /\ i - k \in 1..n - k /\ k + (i - k) = i
        BY <2>2, <3>2
      <4>. QED
        BY <1>5, <2>2, <2>4, <3>2, <4>1
    <3>. QED
      BY <3>1, <3>2
  <2>6. k + m <= n
    BY <2>2
  <2>. QED
    BY <1>2, <2>3, <2>4, <2>5, <2>6, PrefixNames
<1>7. ASSUME r = << >>  PROVE s = t
  <2>1. n = k
    BY <1>5, <1>7, EmptySeq
  <2>. QED
    BY <1>1, <1>2, <1>3, <2>1, SeqEqual
<1>8. ASSUME r # << >>  PROVE k + 1 \in 1..n /\ r[1] = t[k + 1]
  <2>1. n - k # 0
    BY <1>5, <1>8, EmptySeq
  <2>. QED
    BY <1>3, <1>5, <2>1
<1>. QED
  BY <1>1, <1>2, <1>4, <1>5, <1>6, <1>7, <1>8

\* What was there when the command started is there, in its order.
NothingGone ==
    cmd \in {"ls", "cp"} /\ "removed" \notin others =>
        \A d \in DOMAIN before : d \in DOMAIN listing /\ IsPrefix(before[d], listing[d])

\* No listing loses an entry but where the others remove one, or rm does.
Lengthens ==
    /\ \A d \in DOMAIN listing : d \in DOMAIN listing' /\ IsPrefix(listing[d], listing'[d])
    /\ \A q \in Seq(Name) : TypeIn(listing, q) # "none" => TypeIn(listing', q) = TypeIn(listing, q)

LEMMA NoneShortens ==
    ASSUME WInv, Next, cmd' \in {"ls", "cp"}, "removed" \notin others'
    PROVE  Lengthens /\ (cmd = "none" => before' = listing) /\ (cmd # "none" => UNCHANGED <<operands>>)
           /\ "removed" \notin others
<1>1. ASSUME \/ listing' = listing
             \/ \E p \in Seq(Name) : Grown(p)
      PROVE  Lengthens
  <2>1. CASE listing' = listing
    <3>1. \A d \in DOMAIN listing : listing[d] \in Seq(Entry)
      BY DEF WInv, Trees, IsTree
    <3>. QED
      BY <2>1, <3>1, PrefixOrder DEF Lengthens
  <2>2. CASE \E p \in Seq(Name) : Grown(p)
    BY <2>2 DEF Grown, Lengthens
  <2>. QED
    BY <1>1, <2>1, <2>2
<1>2. CASE OthersRun
  <2>1. cmd' = cmd /\ UNCHANGED <<operands>> /\ others \subseteq others' /\ cmd # "none"
    BY <1>2, OthersGo DEF operands
  <2>2. \E p \in Seq(Name) : Grown(p)
    BY <1>2, <2>1, OthersGo
  <2>. QED
    BY <1>1, <2>1, <2>2
<1>3. CASE Commands
  BY <1>1, <1>3 DEF Commands, Starts, othersVars
<1>4. CASE CommandRuns
  <2>1. UNCHANGED <<othersVars, operands>>
    BY <1>4 DEF CommandRuns, Ls, Rm, Cp, LsOpens, LsPrints, Lists, ListsNone, Pushes, RmUnlinks, RmPops,
          RmUnlinksEntry, RmRmdirs, CpProbes, CpMakesDir, CpOpens, CpTakesFile, CpOpensSource, CpCopies,
          CpEnds, Untouched
  <2>2. cmd \in {"ls", "cp"}
    BY <2>1 DEF operands
  <2>3. \/ listing' = listing
        \/ \E p \in Seq(Name) : Grown(p)
    <3>1. CASE CpMakesDir
      BY <3>1, CpMakesDirGoes
    <3>2. CASE CpCopies
      BY <3>2, CpCopiesGoes
    <3>3. CASE Ls \/ Lists \/ ListsNone \/ Pushes \/ CpProbes \/ CpOpens \/ CpTakesFile \/ CpOpensSource \/ CpEnds
      BY <3>3 DEF Ls, LsOpens, LsPrints, Lists, ListsNone, Pushes, CpProbes, CpOpens, CpTakesFile,
            CpOpensSource, CpEnds, Untouched
    <3>4. ~Rm
      BY <2>2 DEF Rm, RmUnlinks, RmPops, RmUnlinksEntry, RmRmdirs, AtEntry
    <3>. QED
      BY <1>4, <3>1, <3>2, <3>3, <3>4 DEF CommandRuns, Cp
  <2>. QED
    BY <1>1, <2>1, <2>2, <2>3 DEF othersVars
<1>. QED
  BY <1>2, <1>3, <1>4 DEF Next

LEMMA NothingGoes ==
    ASSUME WInv, NothingGone, Next
    PROVE  NothingGone'
<1>. SUFFICES ASSUME cmd' \in {"ls", "cp"}, "removed" \notin others', NEW d \in DOMAIN before'
              PROVE  d \in DOMAIN listing' /\ IsPrefix(before'[d], listing'[d])
  BY DEF NothingGone
<1>1. WInv'
  BY NextGoes DEF Goes
<1>2. Lengthens /\ (cmd = "none" => before' = listing) /\ (cmd # "none" => UNCHANGED <<operands>>)
      /\ "removed" \notin others
  BY NoneShortens
<1>3. CASE cmd = "none"
  BY <1>2, <1>3 DEF Lengthens
<1>4. CASE cmd # "none"
  <2>1. before' = before /\ cmd' = cmd
    BY <1>2, <1>4 DEF operands
  <2>2. d \in DOMAIN listing /\ IsPrefix(before[d], listing[d])
    BY <1>2, <2>1 DEF NothingGone
  <2>3. d \in DOMAIN listing' /\ IsPrefix(listing[d], listing'[d])
    BY <1>2, <2>2 DEF Lengthens
  <2>4. before[d] \in Seq(Entry) /\ listing[d] \in Seq(Entry) /\ listing'[d] \in Seq(Entry)
    BY <1>1, <2>1, <2>2, <2>3 DEF WInv, Trees, IsTree
  <2>. QED
    BY <2>1, <2>2, <2>3, <2>4, PrefixOrder
<1>. QED
  BY <1>3, <1>4

\* What ls has printed and what it has read are the first entries of its directory.
LsInv ==
    /\ cmd = "ls" /\ pc \in {"list", "entry"} /\ "removed" \notin others =>
          /\ scan.dir = src /\ ~scan.gone
          /\ Len(printed) = scan.cookie
          /\ IsPrefix(printed \o page, listing[src])
    /\ cmd = "ls" /\ result = "ok" /\ "removed" \notin others /\ AllFit(listing) =>
          src \in DOMAIN listing /\ printed = listing[src]

LEMMA LsNext ==
    ASSUME WInv, LsInv, Next
    PROVE  LsInv'
<1>. SUFFICES ASSUME cmd' = "ls", "removed" \notin others'  PROVE LsInv'
  BY DEF LsInv
<1>1. WInv' /\ Lengthens /\ (cmd # "none" => UNCHANGED <<operands>>) /\ "removed" \notin others
  BY NextGoes, NoneShortens DEF Goes
<1>2. CASE OthersRun
  <2>1. /\ UNCHANGED <<operands, pc, stack, post, page, printed, result>> /\ result = "none"
        /\ scan' = scan /\ cmd = "ls"
    <3>1. UNCHANGED <<operands, pc, stack, post, page, printed, result>> /\ result = "none"
      BY <1>2, OthersGo
    <3>2. cmd = "ls"
      BY <3>1 DEF operands
    <3>. QED
      BY <1>2, <3>1, <3>2, OthersGo
  <2>2. ASSUME pc \in {"list", "entry"}
        PROVE  scan.dir = src /\ ~scan.gone /\ Len(printed) = scan.cookie /\ IsPrefix(printed \o page, listing'[src])
    <3>1. scan.dir = src /\ ~scan.gone /\ Len(printed) = scan.cookie /\ IsPrefix(printed \o page, listing[src])
      BY <1>1, <2>1, <2>2 DEF LsInv
    <3>2. src \in DOMAIN listing /\ src \in DOMAIN listing' /\ IsPrefix(listing[src], listing'[src])
      BY <1>1, <3>1 DEF WInv, Trees, Lengthens
    <3>3. listing[src] \in Seq(Entry) /\ listing'[src] \in Seq(Entry) /\ printed \o page \in Seq(Entry)
      BY <1>1, <3>2, ConcatProperties DEF WInv, Trees, IsTree, Typed
    <3>. QED
      BY <3>1, <3>2, <3>3, PrefixOrder
  <2>3. result' = "none" /\ src' = src /\ printed' = printed /\ page' = page /\ pc' = pc
    BY <2>1 DEF operands
  <2>. QED
    BY <2>1, <2>2, <2>3 DEF LsInv
<1>3. CASE Commands
  <2>1. pc' = "start" /\ result' = result /\ pc = "idle"
    BY <1>3 DEF Commands, Starts, WInv, Control
  <2>2. result' # "ok"
    BY <2>1 DEF WInv, Typed
  <2>. QED
    BY <2>1, <2>2 DEF LsInv
<1>4. CASE CommandRuns
  <2>1. cmd = "ls" /\ src' = src /\ others' = others /\ listing' = listing
        /\ (LsOpens \/ LsPrints \/ Lists \/ ListsNone)
    <3>1. UNCHANGED <<othersVars, operands>>
      BY <1>4 DEF CommandRuns, Ls, Rm, Cp, LsOpens, LsPrints, Lists, ListsNone, Pushes, RmUnlinks, RmPops,
            RmUnlinksEntry, RmRmdirs, CpProbes, CpMakesDir, CpOpens, CpTakesFile, CpOpensSource, CpCopies,
            CpEnds, Untouched
    <3>2. cmd = "ls" /\ src' = src /\ others' = others
      BY <3>1 DEF othersVars, operands
    <3>3. pc \in {"open", "source", "copy"} => cmd = "cp"
      BY DEF WInv, Control
    <3>4. LsOpens \/ LsPrints \/ Lists \/ ListsNone
      BY <1>4, <3>2, <3>3 DEF CommandRuns, Ls, Rm, Cp, Pushes, RmUnlinks, RmPops, RmUnlinksEntry, RmRmdirs,
            CpProbes, CpMakesDir, CpOpens, CpTakesFile, CpOpensSource, CpCopies, CpEnds, AtEntry
    <3>. QED
      BY <3>2, <3>4 DEF LsOpens, LsPrints, Lists, ListsNone, Untouched
  <2>2. result = "none"
    BY <1>4, <2>1 DEF LsOpens, LsPrints, Lists, ListsNone, WInv, Typed
  <2>3. CASE LsOpens
    <3>1. CASE TypeOf(src) = "directory" /\ Opens(src) /\ pc' = "list" /\ result' = result
      <4>1. scan'.dir = src /\ scan'.gone = FALSE /\ scan'.cookie = 0 /\ src \in DOMAIN listing
        BY <3>1, ScanTypes, WhatIsThere DEF WInv, Typed, Trees, TypeOf
      <4>2. printed' = << >> /\ page' = << >>
        BY <2>3 DEF LsOpens, WInv, Control
      <4>3. << >> \o << >> = << >> /\ Len(<< >>) = 0
        OBVIOUS
      <4>4. IsPrefix(<< >>, listing[src])
        BY <4>1, PrefixOrder DEF WInv, Trees, IsTree
      <4>5. IsPrefix(printed' \o page', listing[src]) /\ Len(printed') = 0
        BY <4>2, <4>3, <4>4
      <4>. QED
        BY <2>1, <2>2, <3>1, <4>1, <4>5 DEF LsInv
    <3>2. CASE pc' = "done" /\ result' = "failed"
      BY <3>2 DEF LsInv
    <3>. QED
      BY <2>3, <3>1, <3>2 DEF LsOpens, Ends
  <2>4. ASSUME pc \in {"list", "entry"}
        PROVE  /\ scan.dir = src /\ ~scan.gone /\ Len(printed) = scan.cookie
               /\ IsPrefix(printed \o page, listing[src])
               /\ src \in DOMAIN listing
               /\ listing[src] \in Seq(Entry) /\ printed \in Seq(Entry) /\ page \in Seq(Entry)
    <3>1. /\ scan.dir = src /\ ~scan.gone /\ Len(printed) = scan.cookie
          /\ IsPrefix(printed \o page, listing[src])
      BY <1>1, <2>1, <2>4 DEF LsInv
    <3>. QED
      BY <3>1 DEF WInv, Trees, IsTree, Typed
  <2>5. CASE LsPrints
    <3>1. printed' = printed \o page /\ page' = << >> /\ pc = "entry" /\ pc' = "list" /\ result' = result
          /\ scan' = [scan EXCEPT !.cookie = @ + Len(page)]
      BY <2>5 DEF LsPrints
    <3>2. Len(page) \in Nat /\ Len(printed \o page) = Len(printed) + Len(page) /\ printed \o page \in Seq(Entry)
      BY <2>4, <3>1, ConcatProperties
    <3>3. scan'.dir = src /\ scan'.gone = scan.gone /\ scan'.cookie = Len(printed')
      BY <2>4, <3>1, <3>2, ScanTypes DEF WInv, Typed
    <3>4. printed' \o page' = printed'
      BY <3>1, <3>2
    <3>. QED
      BY <2>1, <2>2, <2>4, <3>1, <3>3, <3>4 DEF LsInv
  <2>6. ASSUME pc = "list"
        PROVE  /\ page = << >> /\ IsPrefix(printed, listing[src])
               /\ Rest \in Seq(Entry)
               /\ \A u \in Seq(Entry) : IsPrefix(u, Rest) => IsPrefix(printed \o u, listing[src])
               /\ Rest = << >> => printed = listing[src]
               /\ Rest # << >> => \E i \in 1..Len(listing[src]) : Rest[1] = listing[src][i]
    <3>1. page = << >>
      BY <2>6 DEF WInv, Control
    <3>2. printed \o page = printed
      BY <2>4, <2>6, <3>1
    <3>3. IsPrefix(printed, listing[src]) /\ listing[src] \in Seq(Entry) /\ printed \in Seq(Entry)
      BY <2>4, <2>6, <3>2
    <3>4. Rest = SubSeq(listing[src], Len(printed) + 1, Len(listing[src]))
      BY <2>4, <2>6 DEF Rest, Skipped
    <3>5. PICK s \in Seq(Entry) : s = printed
      BY <3>3
    <3>6. PICK t \in Seq(Entry) : t = listing[src]
      BY <3>3
    <3>7. PICK r : r = SubSeq(t, Len(s) + 1, Len(t))
      OBVIOUS
    <3>8. /\ r \in Seq(Entry)
          /\ \A u \in Seq(Entry) : IsPrefix(u, r) => IsPrefix(s \o u, t)
          /\ r = << >> => s = t
          /\ r # << >> => Len(s) + 1 \in 1..Len(t) /\ r[1] = t[Len(s) + 1]
      BY <3>3, <3>5, <3>6, <3>7, GoesOn
    <3>9. Rest = r
      BY <3>4, <3>5, <3>6, <3>7
    <3>. QED
      BY <3>1, <3>3, <3>5, <3>6, <3>8, <3>9
  <2>7. CASE Lists
    <3>1. pc = "list" /\ pc' = "entry" /\ result' = result /\ printed' = printed /\ scan' = scan
      BY <2>7 DEF Lists
    <3>2. page' \in Seq(Entry) /\ IsPrefix(page', Rest)
      BY <2>7, ListsGoes
    <3>3. IsPrefix(printed \o page', listing[src])
      BY <2>6, <3>1, <3>2
    <3>. QED
      BY <2>1, <2>2, <2>4, <3>1, <3>3 DEF LsInv
  <2>8. CASE ListsNone
    <3>1. pc = "list" /\ pc' = "done" /\ result' = "ok" /\ printed' = printed /\ WholeOf(Rest) = << >>
      BY <2>1, <2>8 DEF ListsNone, Ends, NothingWhole
    <3>2. ASSUME AllFit(listing)  PROVE printed = listing[src]
      <4>1. Rest \in Seq(Entry)
        BY <2>6, <3>1
      <4>2. Rest = << >>
        <5>. SUFFICES ASSUME Rest # << >>  PROVE FALSE
          OBVIOUS
        <5>1. HeaderLen + NameLen[Rest[1].name] > BufLen
          BY <3>1, <4>1, WholePart
        <5>2. PICK i \in 1..Len(listing[src]) : Rest[1] = listing[src][i]
          BY <2>6, <3>1
        <5>3. i \in DOMAIN listing[src] /\ src \in DOMAIN listing
          BY <2>4, <3>1, LenProperties
        <5>4. HeaderLen + NameLen[Rest[1].name] <= BufLen
          BY <3>2, <5>2, <5>3 DEF AllFit, EntryFits
        <5>5. HeaderLen + NameLen[Rest[1].name] \in Int /\ BufLen \in Int
          <6>1. listing[src][i] \in Entry
            BY <2>4, <3>1, <5>2, ElementOfSeq
          <6>2. Rest[1].name \in Name
            BY <5>2, <6>1 DEF Entry
          <6>. QED
            BY <6>2, DirScanAssumption DEF HeaderLen
        <5>. QED
          BY <5>1, <5>4, <5>5
      <4>. QED
        BY <2>6, <3>1, <4>2
    <3>. QED
      BY <2>1, <2>4, <3>1, <3>2 DEF LsInv
  <2>. QED
    BY <2>1, <2>3, <2>5, <2>7, <2>8
<1>. QED
  BY <1>2, <1>3, <1>4 DEF Next

LEMMA LsHolds == Spec => [](WInv /\ NothingGone /\ LsInv)
<1>1. Init => NothingGone /\ LsInv
  BY DEF Init, NothingGone, LsInv
<1>2. WInv /\ NothingGone /\ LsInv /\ [Next]_vars => NothingGone' /\ LsInv'
  <2>1. WInv /\ NothingGone /\ LsInv /\ Next => NothingGone' /\ LsInv'
    BY LsNext, NothingGoes
  <2>2. NothingGone /\ LsInv /\ UNCHANGED vars => NothingGone' /\ LsInv'
    BY DEF vars, othersVars, operands, commandVars, walkVars, NothingGone, LsInv, AllFit
  <2>. QED
    BY <2>1, <2>2
<1>. QED
  BY <1>1, <1>2, WInvHolds, PTL DEF Spec

\* However many pages it takes, and whatever is added meanwhile, ls prints each entry that was
\* there when it started once and in order, and nothing after them but what was added
\* (ls/main.zig's loop over fd_readdir, SyscallHandler's readdir).
THEOREM EntriesAreListedOnce == Spec => []ListedOnce
<1>1. ASSUME WInv, NothingGone, LsInv, cmd = "ls", result = "ok", "removed" \notin others, AllFit(listing)
      PROVE  (src \in DOMAIN before => IsPrefix(before[src], printed)) /\ IsPrefix(printed, listing[src])
  <2>1. src \in DOMAIN listing /\ printed = listing[src] /\ printed \in Seq(Entry)
    BY <1>1 DEF LsInv, WInv, Typed
  <2>2. src \in DOMAIN before => IsPrefix(before[src], listing[src])
    BY <1>1 DEF NothingGone
  <2>. QED
    BY <2>1, <2>2, PrefixOrder
<1>2. WInv /\ NothingGone /\ LsInv => ListedOnce
  BY <1>1 DEF ListedOnce
<1>. QED
  BY <1>2, LsHolds, PTL

-----------------------------------------------------------------------------
(* cp -r copies all there was.                                               *)

\* Above a directory of a tree are directories, each listed in the one before.
LEMMA AboveIsListed ==
    ASSUME NEW t, IsTree(t), NEW a \in Seq(Name), NEW d \in DOMAIN t, IsPrefix(a, d)
    PROVE  /\ a \in DOMAIN t
           /\ a # d => \E i \in 1..Len(t[a]) : /\ t[a][i].name \in Name /\ t[a][i].type = "directory"
                                               /\ Child(a, t[a][i].name) \in DOMAIN t
                                               /\ IsPrefix(Child(a, t[a][i].name), d)
<1>. DEFINE Under(c) == \E i \in 1..Len(t[a]) : /\ t[a][i].name \in Name /\ t[a][i].type = "directory"
                                                /\ Child(a, t[a][i].name) \in DOMAIN t
                                                /\ IsPrefix(Child(a, t[a][i].name), c)
            S == {n \in Nat : \A c \in DOMAIN t : Len(c) = n /\ IsPrefix(a, c)
                                                     => a \in DOMAIN t /\ (a # c => Under(c))}
<1>1. ASSUME NEW c \in DOMAIN t, IsPrefix(a, c), a # c
      PROVE  /\ c \in Seq(Name) /\ c # << >> /\ Front(c) \in DOMAIN t /\ Front(c) \in Seq(Name)
             /\ Last(c) \in Name /\ c = Child(Front(c), Last(c))
             /\ Len(Front(c)) = Len(c) - 1 /\ IsPrefix(a, Front(c))
             /\ Has(t[Front(c)], Dir(Last(c)))
  <2>1. c \in Seq(Name)
    BY DEF IsTree
  <2>2. c # << >>
    <3>. SUFFICES ASSUME c = << >>  PROVE FALSE
      OBVIOUS
    <3>1. Len(a) <= Len(c) /\ Len(a) \in Nat
      BY <1>1, <2>1, PrefixNames, LenProperties
    <3>2. Len(c) = 0
      BY <2>1, EmptySeq
    <3>3. a = << >>
      BY <3>1, <3>2, EmptySeq
    <3>. QED
      BY <1>1, <3>3
  <2>3. Front(c) \in Seq(Name) /\ Last(c) \in Name /\ c = Child(Front(c), Last(c))
    BY <2>1, <2>2, PathParts
  <2>4. Len(Front(c)) = Len(c) - 1
    BY <2>1, <2>2, FrontAndLast
  <2>5. Front(c) \in DOMAIN t /\ Has(t[Front(c)], Dir(Last(c)))
    BY <2>2 DEF IsTree
  <2>6. IsPrefix(a, Front(c))
    <3>1. PICK f \in Seq(Name) : f = Front(c)
      BY <2>3
    <3>2. PICK l \in Name : l = Last(c)
      BY <2>3
    <3>3. IsPrefix(a, Child(f, l)) <=> IsPrefix(a, f) \/ a = Child(f, l)
      BY PrefixLawsHold DEF PrefixLaws
    <3>. QED
      BY <1>1, <2>3, <3>1, <3>2, <3>3
  <2>. QED
    BY <2>1, <2>2, <2>3, <2>4, <2>5, <2>6
<1>2. ASSUME NEW c \in DOMAIN t, IsPrefix(a, c), a # c, a = Front(c)  PROVE Under(c)
  <2>1. PICK i \in 1..Len(t[a]) : t[a][i] = Dir(Last(c))
    BY <1>1, <1>2 DEF Has
  <2>2. t[a][i].name = Last(c) /\ t[a][i].type = "directory" /\ Child(a, t[a][i].name) = c
    BY <1>1, <1>2, <2>1 DEF Dir
  <2>3. IsPrefix(c, c) /\ Last(c) \in Name
    BY <1>1, <1>2, PrefixLawsHold DEF PrefixLaws
  <2>. QED
    BY <2>2, <2>3
<1>3. ASSUME NEW c \in DOMAIN t, IsPrefix(a, c), a # c, Under(Front(c))  PROVE Under(c)
  <2>1. PICK i \in 1..Len(t[a]) :
           /\ t[a][i].name \in Name /\ t[a][i].type = "directory"
           /\ Child(a, t[a][i].name) \in DOMAIN t
           /\ IsPrefix(Child(a, t[a][i].name), Front(c))
    BY <1>3
  <2>2. PICK b \in Seq(Name) : b = Child(a, t[a][i].name)
    BY <2>1 DEF IsTree
  <2>3. PICK f \in Seq(Name) : f = Front(c)
    BY <1>1, <1>3
  <2>4. PICK l \in Name : l = Last(c)
    BY <1>1, <1>3
  <2>5. IsPrefix(b, Child(f, l)) <=> IsPrefix(b, f) \/ b = Child(f, l)
    BY PrefixLawsHold DEF PrefixLaws
  <2>6. IsPrefix(b, c)
    BY <1>1, <1>3, <2>1, <2>2, <2>3, <2>4, <2>5
  <2>. QED
    BY <2>1, <2>2, <2>6
<1>. HIDE DEF Under
<1>4. 0 \in S
  <2>. SUFFICES ASSUME NEW c \in DOMAIN t, Len(c) = 0, IsPrefix(a, c)  PROVE a \in DOMAIN t /\ (a # c => Under(c))
    OBVIOUS
  <2>1. a = c
    <3>1. c \in Seq(Name)
      BY DEF IsTree
    <3>2. Len(a) <= Len(c) /\ Len(a) \in Nat
      BY <3>1, PrefixNames, LenProperties
    <3>3. a = << >> /\ c = << >>
      BY <3>1, <3>2, EmptySeq
    <3>. QED
      BY <3>3
  <2>. QED
    BY <2>1
<1>5. ASSUME NEW n \in Nat, n \in S  PROVE n + 1 \in S
  <2>. SUFFICES ASSUME NEW c \in DOMAIN t, Len(c) = n + 1, IsPrefix(a, c)
                PROVE  a \in DOMAIN t /\ (a # c => Under(c))
    OBVIOUS
  <2>1. CASE a = c
    BY <2>1
  <2>2. CASE a # c
    <3>1. Front(c) \in DOMAIN t /\ Len(Front(c)) = n /\ IsPrefix(a, Front(c))
      BY <1>1, <2>2
    <3>2. a \in DOMAIN t /\ (a # Front(c) => Under(Front(c)))
      BY <1>5, <3>1
    <3>. QED
      BY <1>2, <1>3, <2>2, <3>2
  <2>. QED
    BY <2>1, <2>2
<1>6. Len(d) \in S
  <2>1. Len(d) \in Nat
    <3>1. d \in Seq(Name)
      BY DEF IsTree
    <3>. QED
      BY <3>1
  <2>. HIDE DEF S
  <2>. QED
    BY <1>4, <1>5, <2>1, NatSetInduction
<1>. QED
  BY <1>6 DEF Under

\* What is left of a sequence after its first k.
LEMMA Remaining ==
    ASSUME NEW S, NEW t \in Seq(S), NEW k \in 0..Len(t)
    PROVE  /\ SubSeq(t, k + 1, Len(t)) \in Seq(S)
           /\ Len(SubSeq(t, k + 1, Len(t))) = Len(t) - k
           /\ \A i \in 1..Len(t) - k : SubSeq(t, k + 1, Len(t))[i] = t[k + i]
<1>1. PICK n \in Nat : n = Len(t)
  OBVIOUS
<1>2. PICK r : r = SubSeq(t, k + 1, n)
  OBVIOUS
<1>3. k + 1 \in Int /\ n \in Int /\ \A i \in k + 1..n : t[i] \in S
  BY <1>1, ElementOfSeq
<1>4. /\ r \in Seq(S) /\ Len(r) = IF k + 1 <= n THEN n - (k + 1) + 1 ELSE 0
      /\ \A i \in 1..n - (k + 1) + 1 : r[i] = t[(k + 1) + i - 1]
  BY <1>2, <1>3, SubSeqProperties
<1>. QED
  BY <1>1, <1>2, <1>4

Copying == cmd = "cp" /\ "removed" \notin others /\ AllFit(listing)

\* The open directory, and a walk.
Scanned == pc \in {"list", "entry"} \/ (pc \in {"source", "copy"} /\ page # << >>)
Walking == pc \in {"pop", "open"} \/ Scanned

\* A directory is at the destination, and its first k entries that are files.
Visited(d) == TypeOf(Dest(d)) # "none"
FilesTo(d, k) ==
    \A i \in 1..Len(before[d]) : i <= k /\ before[d][i].type = "file"
                                    => TypeOf(Dest(Child(d, before[d][i].name))) = "file"
Done(d) == Visited(d) /\ FilesTo(d, Len(before[d]))

\* It is yet to come: from the stack, or in the open directory, which it may be.
Stacked(d) == \E i \in 1..Len(stack) : IsPrefix(stack[i], d)
Ahead(d) ==
    /\ Scanned /\ IsPrefix(scan.dir, d)
    /\ \A i \in 1..scan.cookie : ~IsPrefix(Child(scan.dir, listing[scan.dir][i].name), d)

Cover == \A d \in DOMAIN before : IsPrefix(src, d) => Stacked(d) \/ Ahead(d) \/ Done(d)

AtScan ==
    /\ ~scan.gone /\ Visited(scan.dir)
    /\ scan.cookie + Len(page) <= Len(listing[scan.dir])
    /\ \A j \in 1..Len(page) : page[j] = listing[scan.dir][scan.cookie + j]
    /\ scan.dir \in DOMAIN before => FilesTo(scan.dir, scan.cookie)

DestThere == TypeOf(dest) # "none" \/ (pc = "pop" /\ stack # << >> /\ Last(stack) = src)

Complete ==
    /\ TypeOf(dest) # "none"
    /\ \A d \in DOMAIN before : \A i \in DOMAIN before[d] :
          LET p == Child(d, before[d][i].name)
          IN  IsPrefix(src, p) =>
                  \/ TypeOf(Dest(p)) = "file"
                  \/ before[d][i].type = "directory" /\ TypeOf(Dest(p)) = "directory"

CpParts ==
    /\ Scanned => AtScan
    /\ Walking => src \in DOMAIN listing /\ Cover /\ DestThere
    /\ pc = "open" => Visited(Last(stack))
    /\ pc \in {"source", "copy"} => IF page = << >> THEN src \notin DOMAIN before
                                    ELSE Head(page).type = "file"
    /\ result = "ok" => Complete

CpInv == Copying => CpParts

\* A step of cp, or of the others while it runs, when nothing is removed.
CpStep ==
    /\ WInv /\ WInv' /\ NothingGone /\ NothingGone' /\ Copying /\ Copying' /\ CpParts
    /\ Lengthens /\ UNCHANGED <<operands>>

LEMMA DestStays ==
    ASSUME UNCHANGED <<operands>>
    PROVE  \A p : TypeOf(Dest(p))' = TypeIn(listing', Dest(p))
<1>1. \A p : Dest(p)' = Dest(p)
  BY DEF Dest, operands
<1>. QED
  BY <1>1 DEF TypeOf

\* What is done stays done.
LEMMA DoneStays ==
    ASSUME CpStep
    PROVE  /\ \A p \in Seq(Name) : TypeOf(Dest(p)) # "none" => TypeOf(Dest(p))' = TypeOf(Dest(p))
           /\ \A p \in Seq(Name) : Visited(p) => Visited(p)'
           /\ \A d \in DOMAIN before, k \in Nat : FilesTo(d, k) => FilesTo(d, k)'
           /\ \A d \in DOMAIN before : Done(d) => Done(d)'
           /\ TypeOf(dest) # "none" => TypeOf(dest)' # "none"
           /\ src \in DOMAIN listing => src' \in DOMAIN listing'
<1>1. src \in Seq(Name) /\ dest \in Seq(Name) /\ IsTree(before) /\ src' = src /\ dest' = dest /\ before' = before
  BY DEF CpStep, WInv, Typed, Trees, operands
<1>2. ASSUME NEW p \in Seq(Name), TypeOf(Dest(p)) # "none"
      PROVE  TypeOf(Dest(p))' = TypeOf(Dest(p))
  <2>1. Dest(p) \in Seq(Name)
    BY <1>1, DestIsBelow
  <2>2. TypeIn(listing', Dest(p)) = TypeIn(listing, Dest(p))
    BY <1>2, <2>1 DEF CpStep, Lengthens, TypeOf
  <2>3. TypeOf(Dest(p))' = TypeIn(listing', Dest(p))
    BY DestStays DEF CpStep
  <2>. QED
    BY <2>2, <2>3 DEF TypeOf
<1>3. ASSUME NEW p \in Seq(Name), Visited(p)  PROVE Visited(p)'
  BY <1>2, <1>3 DEF Visited
<1>4. ASSUME NEW d \in DOMAIN before, NEW k \in Nat, FilesTo(d, k)  PROVE FilesTo(d, k)'
  <2>. SUFFICES ASSUME NEW i \in 1..Len(before[d]), i <= k, before[d][i].type = "file"
                PROVE  TypeOf(Dest(Child(d, before[d][i].name)))' = "file"
    BY <1>1 DEF FilesTo
  <2>1. Child(d, before[d][i].name) \in Seq(Name)
    <3>1. d \in Seq(Name) /\ before[d] \in Seq(Entry)
      BY <1>1 DEF IsTree
    <3>2. before[d][i].name \in Name
      <4>1. before[d][i] \in Entry
        BY <3>1, ElementOfSeq
      <4>. QED
        BY <4>1 DEF Entry
    <3>. QED
      BY <3>1, <3>2, PathLawsHold DEF PathLaws
  <2>2. PICK p \in Seq(Name) : p = Child(d, before[d][i].name)
    BY <2>1
  <2>3. TypeOf(Dest(p)) = "file"
    BY <1>4, <2>2 DEF FilesTo
  <2>4. TypeOf(Dest(p))' = "file"
    BY <1>2, <2>3
  <2>5. Child(d, before[d][i].name)' = p
    BY <1>1, <2>2
  <2>. QED
    BY <2>4, <2>5
<1>5. ASSUME NEW d \in DOMAIN before, Done(d)  PROVE Done(d)'
  <2>1. d \in Seq(Name) /\ Len(before[d]) \in Nat
    BY <1>1 DEF IsTree
  <2>2. Visited(d)'
    BY <1>3, <1>5, <2>1 DEF Done
  <2>3. PICK k \in Nat : k = Len(before[d])
    BY <2>1
  <2>4. FilesTo(d, k)'
    BY <1>4, <1>5, <2>3 DEF Done
  <2>5. Len(before[d])' = k
    BY <1>1, <2>3
  <2>. QED
    BY <2>2, <2>4, <2>5 DEF Done
<1>6. TypeOf(dest) # "none" => TypeOf(dest)' # "none"
  BY <1>1 DEF CpStep, Lengthens, TypeOf
<1>7. src \in DOMAIN listing => src' \in DOMAIN listing'
  BY <1>1 DEF CpStep, Lengthens
<1>. QED
  BY <1>2, <1>3, <1>4, <1>5, <1>6, <1>7

LEMMA ScanStays ==
    ASSUME CpStep, Scanned
    PROVE  /\ scan.dir \in Seq(Name) /\ scan.cookie \in Nat /\ Len(page) \in Nat /\ page \in Seq(Entry)
           /\ scan.dir \in DOMAIN listing /\ listing[scan.dir] \in Seq(Entry)
           /\ scan.dir \in DOMAIN listing' /\ listing'[scan.dir] \in Seq(Entry)
           /\ Len(listing[scan.dir]) \in Nat /\ Len(listing'[scan.dir]) \in Nat
           /\ Len(listing[scan.dir]) <= Len(listing'[scan.dir])
           /\ \A i \in 1..Len(listing[scan.dir]) : listing'[scan.dir][i] = listing[scan.dir][i]
           /\ scan.dir \in DOMAIN before =>
                 /\ Len(before[scan.dir]) \in Nat
                 /\ Len(before[scan.dir]) <= Len(listing[scan.dir])
                 /\ \A i \in 1..Len(before[scan.dir]) : before[scan.dir][i] = listing[scan.dir][i]
<1>1. /\ scan.dir \in Seq(Name) /\ scan.cookie \in Nat /\ Len(page) \in Nat /\ page \in Seq(Entry)
      /\ ~scan.gone
  BY DEF CpStep, CpParts, AtScan, WInv, Typed
<1>2. /\ scan.dir \in DOMAIN listing /\ IsTree(listing) /\ IsTree(listing') /\ IsTree(before)
      /\ Lengthens /\ cmd = "cp" /\ "removed" \notin others
  BY <1>1 DEF CpStep, WInv, Trees, Copying
<1>3. scan.dir \in DOMAIN listing' /\ IsPrefix(listing[scan.dir], listing'[scan.dir])
  BY <1>2 DEF Lengthens
<1>4. listing[scan.dir] \in Seq(Entry) /\ listing'[scan.dir] \in Seq(Entry)
  BY <1>2, <1>3 DEF IsTree
<1>5. scan.dir \in DOMAIN before =>
         before[scan.dir] \in Seq(Entry) /\ IsPrefix(before[scan.dir], listing[scan.dir])
  BY <1>2 DEF IsTree, NothingGone, CpStep
<1>6. /\ Len(listing[scan.dir]) <= Len(listing'[scan.dir])
      /\ \A i \in 1..Len(listing[scan.dir]) : listing'[scan.dir][i] = listing[scan.dir][i]
  BY <1>3, <1>4, PrefixNames
<1>7. scan.dir \in DOMAIN before =>
         /\ Len(before[scan.dir]) <= Len(listing[scan.dir])
         /\ \A i \in 1..Len(before[scan.dir]) : before[scan.dir][i] = listing[scan.dir][i]
  BY <1>4, <1>5, PrefixNames
<1>. QED
  BY <1>1, <1>2, <1>3, <1>4, <1>5, <1>6, <1>7, LenProperties

\* A step on which the walk stands: the others', or one of cp's on a file.
LEMMA ScanStands ==
    ASSUME CpStep, Scanned, scan' = scan, page' = page
    PROVE  AtScan'
<1>1. AtScan
  BY DEF CpStep, CpParts
<1>2. scan.cookie + Len(page) <= Len(listing'[scan.dir])
  BY <1>1, ScanStays DEF AtScan
<1>3. \A j \in 1..Len(page) : page[j] = listing'[scan.dir][scan.cookie + j]
  <2>. SUFFICES ASSUME NEW j \in 1..Len(page)  PROVE page[j] = listing'[scan.dir][scan.cookie + j]
    OBVIOUS
  <2>1. scan.cookie + j \in 1..Len(listing[scan.dir])
    BY <1>1, ScanStays DEF AtScan
  <2>. QED
    BY <1>1, <2>1, ScanStays DEF AtScan
<1>4. Visited(scan.dir)' /\ (scan.dir \in DOMAIN before => FilesTo(scan.dir, scan.cookie)')
  <2>1. PICK d \in Seq(Name) : d = scan.dir
    BY ScanStays
  <2>2. PICK k \in Nat : k = scan.cookie
    BY ScanStays
  <2>3. Visited(d)' /\ (d \in DOMAIN before => FilesTo(d, k)')
    BY <1>1, <2>1, <2>2, DoneStays DEF AtScan
  <2>4. scan'.dir = d /\ scan'.cookie = k
    BY <2>1, <2>2
  <2>. QED
    BY <2>1, <2>2, <2>3, <2>4 DEF Visited, FilesTo
<1>5. before' = before /\ ~scan.gone
  BY <1>1 DEF CpStep, operands, AtScan
<1>. QED
  BY <1>2, <1>3, <1>4, <1>5 DEF AtScan

LEMMA CoverStands ==
    ASSUME CpStep, stack' = stack, scan' = scan, Cover, Scanned' <=> Scanned
    PROVE  Cover'
<1>. SUFFICES ASSUME NEW d \in DOMAIN before', IsPrefix(src', d)
              PROVE  Stacked(d)' \/ Ahead(d)' \/ Done(d)'
  BY DEF Cover
<1>1. before' = before /\ src' = src
  BY DEF CpStep, operands
<1>2. d \in DOMAIN before /\ (Stacked(d) \/ Ahead(d) \/ Done(d))
  BY <1>1 DEF Cover
<1>3. Stacked(d) => Stacked(d)'
  BY DEF Stacked
<1>4. Done(d) => Done(d)'
  BY <1>2, DoneStays
<1>5. ASSUME Ahead(d)  PROVE Ahead(d)'
  <2>1. Scanned /\ AtScan
    BY <1>5 DEF Ahead, CpStep, CpParts
  <2>a. /\ scan.cookie \in Nat /\ Len(page) \in Nat /\ Len(listing[scan.dir]) \in Nat
        /\ \A i \in 1..Len(listing[scan.dir]) : listing'[scan.dir][i] = listing[scan.dir][i]
    BY <2>1, ScanStays
  <2>b. scan.cookie + Len(page) <= Len(listing[scan.dir])
    BY <2>1 DEF AtScan
  <2>2. \A i \in 1..scan.cookie : listing'[scan.dir][i] = listing[scan.dir][i]
    BY <2>a, <2>b
  <2>3. \A i \in 1..scan.cookie : ~IsPrefix(Child(scan.dir, listing'[scan.dir][i].name), d)
    BY <1>5, <2>2 DEF Ahead
  <2>. QED
    BY <1>5, <2>1, <2>3 DEF Ahead, Child
<1>. QED
  BY <1>2, <1>3, <1>4, <1>5

LEMMA CompleteStands ==
    ASSUME CpStep, listing' = listing, Complete
    PROVE  Complete'
BY DEF CpStep, operands, Complete, TypeOf, Dest, TypeIn, Child

\* The others, while cp runs.
LEMMA OthersCopied ==
    ASSUME CpStep, OthersRun
    PROVE  CpParts'
<1>1. /\ UNCHANGED <<operands, pc, stack, post, page, printed, result>> /\ result = "none" /\ scan' = scan
  <2>1. cmd # "none" /\ "removed" \notin others'
    BY DEF CpStep, Copying
  <2>. QED
    BY <2>1, OthersGo DEF CpStep
<1>2. (Scanned' <=> Scanned) /\ (Walking' <=> Walking)
  BY <1>1 DEF Scanned, Walking
<1>3. Scanned => AtScan'
  BY <1>1, ScanStands
<1>4. Walking => Cover'
  BY <1>1, <1>2, CoverStands DEF CpStep, CpParts
<1>5. Walking => src' \in DOMAIN listing' /\ DestThere'
  BY <1>1, DoneStays DEF CpStep, CpParts, DestThere, operands
<1>6. pc = "open" => Visited(Last(stack))'
  <2>. SUFFICES ASSUME pc = "open"  PROVE Visited(Last(stack))'
    OBVIOUS
  <2>1. PICK p : p = Last(stack)
    OBVIOUS
  <2>2. p \in Seq(Name) /\ Visited(p)
    BY <2>1, PathsBelow DEF CpStep, CpParts, WInv, Typed, Control
  <2>3. Visited(p)' /\ Last(stack)' = p
    BY <1>1, <2>1, <2>2, DoneStays
  <2>. QED
    BY <2>3 DEF Visited
<1>7. pc \in {"source", "copy"} => IF page = << >> THEN src \notin DOMAIN before ELSE Head(page).type = "file"
  BY DEF CpStep, CpParts
<1>. QED
  BY <1>1, <1>2, <1>3, <1>4, <1>5, <1>6, <1>7 DEF CpParts, operands

\* The entry at hand is the next of the open directory's listing.
LEMMA NextEntry ==
    ASSUME CpStep, Scanned, page # << >>
    PROVE  /\ scan.cookie + 1 \in 1..Len(listing[scan.dir])
           /\ Head(page) = listing[scan.dir][scan.cookie + 1]
           /\ Len(Tail(page)) = Len(page) - 1 /\ Len(page) \in Nat \ {0}
           /\ \A j \in 1..Len(page) - 1 : Tail(page)[j] = page[j + 1]
           /\ Current = Child(scan.dir, Head(page).name) /\ Current \in Seq(Name)
<1>1. AtScan /\ WInv
  BY DEF CpStep, CpParts
<1>2. /\ Len(page) \in Nat \ {0} /\ Len(Tail(page)) = Len(page) - 1
      /\ \A j \in 1..Len(page) - 1 : Tail(page)[j] = page[j + 1]
      /\ Head(page) = page[1]
  <2>1. page \in Seq(Entry)
    BY ScanStays
  <2>2. Len(page) \in Nat /\ Len(page) # 0
    BY <2>1, EmptySeq, LenProperties
  <2>. QED
    BY <2>1, <2>2, HeadTailProperties
<1>3. scan.cookie \in Nat /\ Len(listing[scan.dir]) \in Nat
  BY ScanStays
<1>4. scan.cookie + 1 \in 1..Len(listing[scan.dir]) /\ 1 \in 1..Len(page)
  BY <1>1, <1>2, <1>3 DEF AtScan
<1>5. page[1] = listing[scan.dir][scan.cookie + 1]
  BY <1>1, <1>4 DEF AtScan
<1>6. Current \in Seq(Name)
  BY <1>1, AtHand
<1>. QED
  BY <1>2, <1>4, <1>5, <1>6 DEF Current

LEMMA CpAdvances ==
    ASSUME CpStep, Scanned, page # << >>, Advances,
           stack' = stack \/ stack' = Append(stack, Current),
           \A d \in DOMAIN before : IsPrefix(Current, d) => Stacked(d)',
           Head(page).type = "file" => TypeIn(listing', Dest(Current)) = "file"
    PROVE  AtScan' /\ Cover' /\ Scanned'
<1>1. AtScan /\ Cover /\ WInv /\ before' = before /\ src' = src
  BY DEF CpStep, CpParts, Walking, operands
<1>2. PICK s \in Seq(Name) : s = scan.dir
  BY ScanStays
<1>3. PICK k \in Nat : k = scan.cookie
  BY ScanStays
<1>4. /\ page' = Tail(page) /\ scan'.dir = s /\ scan'.gone = scan.gone /\ scan'.cookie = k + 1
  BY <1>1, <1>2, <1>3, ScanTypes DEF Advances, WInv, Typed
<1>5. Scanned'
  BY DEF Advances, Scanned
<1>6. /\ k + Len(page) <= Len(listing[s])
      /\ Len(page) \in Nat \ {0} /\ Len(listing[s]) \in Nat /\ Len(listing'[s]) \in Nat
      /\ Len(listing[s]) <= Len(listing'[s])
      /\ \A i \in 1..Len(listing[s]) : listing'[s][i] = listing[s][i]
      /\ k + 1 \in 1..Len(listing[s]) /\ Head(page) = listing[s][k + 1]
      /\ Len(Tail(page)) = Len(page) - 1
      /\ \A j \in 1..Len(page) - 1 : Tail(page)[j] = page[j + 1]
      /\ \A j \in 1..Len(page) : page[j] = listing[s][k + j]
      /\ Current = Child(s, Head(page).name) /\ Current \in Seq(Name)
  BY <1>1, <1>2, <1>3, ScanStays, NextEntry DEF AtScan
<1>7. AtScan'
  <2>1. Visited(s)'
    <3>1. Visited(s)
      BY <1>1, <1>2 DEF AtScan
    <3>. QED
      BY <3>1, DoneStays
  <2>2. (k + 1) + Len(Tail(page)) <= Len(listing'[s])
    BY <1>6
  <2>3. \A j \in 1..Len(Tail(page)) : Tail(page)[j] = listing'[s][(k + 1) + j]
    <3>. SUFFICES ASSUME NEW j \in 1..Len(page) - 1  PROVE Tail(page)[j] = listing'[s][(k + 1) + j]
      BY <1>6
    <3>a. PICK m \in Nat : m = Len(page)
      BY <1>6
    <3>b. PICK n \in Nat : n = Len(listing[s])
      BY <1>6
    <3>c. k + m <= n /\ j \in 1..m - 1
      BY <1>6, <3>a, <3>b
    <3>1. j + 1 \in 1..m /\ k + (j + 1) = (k + 1) + j /\ (k + 1) + j \in 1..n
      BY <3>c
    <3>2. Tail(page)[j] = page[j + 1] /\ page[j + 1] = listing[s][k + (j + 1)]
      BY <1>6, <3>1, <3>a
    <3>3. listing'[s][(k + 1) + j] = listing[s][(k + 1) + j]
      BY <1>6, <3>1, <3>b
    <3>. QED
      BY <3>1, <3>2, <3>3
  <2>4. ASSUME s \in DOMAIN before  PROVE FilesTo(s, k + 1)'
    <3>1. FilesTo(s, k)'
      <4>1. FilesTo(s, k)
        BY <1>1, <1>2, <1>3, <2>4 DEF AtScan
      <4>. QED
        BY <2>4, <4>1, DoneStays
    <3>2. /\ Len(before[s]) \in Nat
          /\ \A i \in 1..Len(before[s]) : before[s][i] = listing[s][i]
      BY <1>2, <2>4, ScanStays
    <3>. SUFFICES ASSUME NEW i \in 1..Len(before[s]), i <= k + 1, before[s][i].type = "file"
                  PROVE  TypeOf(Dest(Child(s, before[s][i].name)))' = "file"
      BY <1>1 DEF FilesTo
    <3>3. CASE i <= k
      BY <1>1, <3>1, <3>3 DEF FilesTo
    <3>4. CASE i = k + 1
      <4>1. before[s][i] = Head(page)
        BY <1>6, <3>2, <3>4
      <4>2. Child(s, before[s][i].name) = Current
        BY <1>6, <4>1
      <4>3. PICK p : p = Current
        OBVIOUS
      <4>4. TypeIn(listing', Dest(p)) = "file"
        BY <4>1, <4>3
      <4>5. TypeOf(Dest(p))' = TypeIn(listing', Dest(p))
        BY DestStays DEF CpStep
      <4>6. Child(s, before[s][i].name)' = p
        BY <1>1, <4>2, <4>3
      <4>. QED
        BY <4>4, <4>5, <4>6
    <3>. QED
      BY <1>3, <3>3, <3>4
  <2>5. ~scan'.gone
    BY <1>1, <1>4 DEF AtScan
  <2>6. Visited(scan.dir)' /\ (scan'.dir \in DOMAIN before' => FilesTo(scan.dir, scan.cookie)')
    BY <1>1, <1>4, <2>1, <2>4 DEF Visited, FilesTo
  <2>. QED
    BY <1>4, <2>2, <2>3, <2>5, <2>6 DEF AtScan
<1>8. ASSUME NEW d \in DOMAIN before, IsPrefix(src, d)  PROVE Stacked(d)' \/ Ahead(d)' \/ Done(d)'
  <2>1. Stacked(d) \/ Ahead(d) \/ Done(d)
    BY <1>1, <1>8 DEF Cover
  <2>2. Done(d) => Done(d)'
    BY DoneStays
  <2>3. Stacked(d) => Stacked(d)'
    <3>1. stack \in Seq(Seq(Name)) /\ Current \in Seq(Name)
      BY <1>1, <1>6 DEF WInv, Typed
    <3>2. Len(stack) \in Nat /\ Len(Append(stack, Current)) = Len(stack) + 1
          /\ \A i \in 1..Len(stack) : Append(stack, Current)[i] = stack[i]
      BY <3>1, AppendProperties, LenProperties
    <3>3. \A i \in 1..Len(stack) : i \in 1..Len(stack') /\ stack'[i] = stack[i]
      BY <3>2
    <3>. QED
      BY <3>3 DEF Stacked
  <2>4. ASSUME Ahead(d), ~IsPrefix(Current, d)  PROVE Ahead(d)'
    <3>1. ASSUME NEW i \in 1..k + 1  PROVE ~IsPrefix(Child(s, listing'[s][i].name), d)
      <4>1. CASE i = k + 1
        BY <1>6, <2>4, <4>1
      <4>2. CASE i \in 1..k
        <5>1. listing'[s][i] = listing[s][i]
          BY <1>6, <4>2
        <5>. QED
          BY <1>2, <1>3, <2>4, <4>2, <5>1 DEF Ahead
      <4>. QED
        BY <4>1, <4>2
    <3>2. IsPrefix(s, d)
      BY <1>2, <2>4 DEF Ahead
    <3>. QED
      BY <1>4, <1>5, <3>1, <3>2 DEF Ahead, Child
  <2>. QED
    BY <2>1, <2>2, <2>3, <2>4
<1>9. Cover'
  BY <1>1, <1>8 DEF Cover
<1>. QED
  BY <1>5, <1>7, <1>9

\* The steps of cp.
LEMMA ProbesCopied ==
    ASSUME CpStep, CpProbes
    PROVE  CpParts'
<1>1. /\ pc = "start" /\ page' = << >> /\ result = "none" /\ src \in Seq(Name) /\ IsTree(listing)
      /\ listing' = listing /\ before' = before /\ src' = src
  BY DEF CpStep, CpProbes, Untouched, operands, WInv, Typed, Control, Trees
<1>2. CASE TypeOf(src) = "file" /\ pc' = "source" /\ result' = result
  <2>1. src \notin DOMAIN listing
    BY <1>1, <1>2, WhatIsThere DEF TypeOf
  <2>2. src \notin DOMAIN before
    BY <2>1 DEF CpStep, NothingGone, Copying
  <2>. QED
    BY <1>1, <1>2, <2>2 DEF CpParts, Scanned, Walking
<1>3. CASE pc' = "done" /\ result' \in {"failed", "trapped"}
  BY <1>3 DEF CpParts, Scanned, Walking
<1>4. CASE TypeOf(src) = "directory" /\ stack' = <<src>> /\ pc' = "pop" /\ result' = result
  <2>1. src \in DOMAIN listing
    BY <1>1, <1>4, WhatIsThere DEF TypeOf
  <2>2. PICK st \in Seq(Seq(Name)) : st = <<src>> /\ Len(st) = 1 /\ st[1] = src /\ st # << >> /\ Last(st) = src
    <3>1. <<src>> \in Seq(Seq(Name)) /\ Len(<<src>>) = 1 /\ <<src>>[1] = src /\ <<src>> # << >>
      BY <1>1
    <3>2. Last(<<src>>) = src
      BY <3>1 DEF Last
    <3>. QED
      BY <3>1, <3>2
  <2>3. \A d : IsPrefix(src, d) => \E i \in 1..Len(st) : IsPrefix(st[i], d)
    BY <2>2
  <2>4. Cover'
    BY <1>1, <1>4, <2>2, <2>3 DEF Cover, Stacked
  <2>5. DestThere'
    BY <1>1, <1>4, <2>2 DEF DestThere
  <2>. QED
    BY <1>1, <1>4, <2>1, <2>4, <2>5 DEF CpParts, Scanned, Walking
<1>. QED
  BY <1>2, <1>3, <1>4 DEF CpProbes, Ends, CpFails

LEMMA MakesDirCopied ==
    ASSUME CpStep, CpMakesDir
    PROVE  CpParts'
<1>1. /\ pc = "pop" /\ stack # << >> /\ UNCHANGED <<othersVars, operands, walkVars, printed>>
      /\ result = "none" /\ src \in Seq(Name) /\ dest \in Seq(Name) /\ stack \in Seq(Seq(Name)) /\ WInv
  BY DEF CpStep, CpMakesDir, WInv, Typed
<1>2. \/ pc' = "open" /\ TypeIn(listing', Dest(Last(stack))) # "none"
      \/ pc' = "done" /\ result' \in {"failed", "trapped"}
  BY <1>1, CpMakesDirGoes DEF Grown, TypeOf
<1>3. CASE pc' = "done" /\ result' \in {"failed", "trapped"}
  BY <1>3 DEF CpParts, Scanned, Walking
<1>4. CASE pc' = "open" /\ TypeIn(listing', Dest(Last(stack))) # "none"
  <2>1. src' \in DOMAIN listing' /\ Cover'
    <3>1. Walking /\ ~Scanned /\ ~Scanned'
      BY <1>1, <1>4 DEF Walking, Scanned
    <3>. QED
      BY <1>1, <3>1, CoverStands, DoneStays DEF CpStep, CpParts, walkVars
  <2>2. PICK p : p = Last(stack)
    OBVIOUS
  <2>3. TypeOf(Dest(p))' # "none"
    BY <1>4, <2>2, DestStays DEF CpStep
  <2>4. Visited(Last(stack))'
    <3>1. Last(stack)' = p
      BY <1>1, <2>2 DEF walkVars
    <3>. QED
      BY <2>3, <3>1 DEF Visited
  <2>5. TypeOf(dest)' # "none"
    <3>1. CASE TypeOf(dest) # "none"
      BY <3>1, DoneStays
    <3>2. CASE Last(stack) = src
      <4>1. Dest(src) = dest
        BY <1>1, DestIsBelow
      <4>2. TypeOf(dest)' = TypeIn(listing', dest)
        BY <1>1 DEF operands, TypeOf
      <4>. QED
        BY <1>4, <3>2, <4>1, <4>2
    <3>. QED
      BY <1>1, <3>1, <3>2 DEF CpStep, CpParts, Walking, DestThere
  <2>6. result' = "none"
    <3>1. WInv'
      BY DEF CpStep
    <3>. QED
      BY <1>4, <3>1 DEF WInv, Typed
  <2>. QED
    BY <1>4, <2>1, <2>4, <2>5, <2>6 DEF CpParts, DestThere, Scanned, Walking
<1>. QED
  BY <1>2, <1>3, <1>4

LEMMA OpensCopied ==
    ASSUME CpStep, CpOpens
    PROVE  CpParts'
<1>1. /\ pc = "open" /\ stack' = Front(stack) /\ page' = page /\ page = << >>
      /\ listing' = listing /\ UNCHANGED <<operands>>
      /\ result = "none" /\ stack \in Seq(Seq(Name)) /\ stack # << >> /\ WInv /\ WInv'
  BY DEF CpStep, CpOpens, Untouched, WInv, Typed, Control
<1>2. \/ /\ pc' = "list" /\ result' = result
         /\ scan'.dir = Last(stack) /\ scan'.gone = FALSE /\ scan'.cookie = 0
      \/ pc' = "done" /\ result' \in {"failed", "trapped"}
  <2>1. pc' = "list" => scan'.dir = Last(stack) /\ scan'.gone = FALSE /\ scan'.cookie = 0
    BY <1>1, CpOpensGoes
  <2>. QED
    BY <2>1 DEF CpOpens, Ends, CpFails
<1>3. CASE pc' = "done" /\ result' \in {"failed", "trapped"}
  BY <1>3 DEF CpParts, Scanned, Walking
<1>4. CASE /\ pc' = "list" /\ result' = result
           /\ scan'.dir = Last(stack) /\ scan'.gone = FALSE /\ scan'.cookie = 0
  <2>1. PICK c \in Seq(Name) : c = Last(stack)
    BY <1>1, PathsBelow
  <2>2. src' \in DOMAIN listing' /\ Cover /\ TypeOf(dest) # "none" /\ Visited(c)
    BY <1>1, <2>1, DoneStays DEF CpStep, CpParts, Walking, DestThere
  <2>3. AtScan'
    <3>1. c \in DOMAIN listing'
      BY <1>1, <1>4, <2>1 DEF WInv, Trees
    <3>2. Len(listing'[c]) \in Nat /\ Len(<< >>) = 0
      <4>1. listing'[c] \in Seq(Entry)
        BY <1>1, <3>1 DEF WInv, Trees, IsTree
      <4>. QED
        BY <4>1, LenProperties
    <3>3. Visited(c)'
      BY <2>2, DoneStays
    <3>4. Visited(scan.dir)'
      BY <1>4, <2>1, <3>3 DEF Visited
    <3>5. scan'.dir \in DOMAIN before' => FilesTo(scan.dir, scan.cookie)'
      BY <1>1, <1>4 DEF FilesTo
    <3>6. scan'.cookie + Len(page') <= Len(listing'[scan'.dir]) /\ \A j \in 1..Len(page') : FALSE
      BY <1>1, <1>4, <2>1, <3>2
    <3>. QED
      BY <1>4, <3>4, <3>5, <3>6 DEF AtScan
  <2>4. ASSUME NEW d \in DOMAIN before, IsPrefix(src, d)  PROVE Stacked(d)' \/ Ahead(d)' \/ Done(d)'
    <3>1. CASE Ahead(d)
      BY <1>1, <3>1 DEF Ahead, Scanned
    <3>2. CASE Done(d)
      BY <3>2, DoneStays
    <3>3. CASE Stacked(d)
      <4>1. PICK i \in 1..Len(stack) : IsPrefix(stack[i], d)
        BY <3>3 DEF Stacked
      <4>2. /\ Len(stack) \in Nat
            /\ Len(Front(stack)) = Len(stack) - 1
            /\ \A j \in 1..Len(stack) - 1 : Front(stack)[j] = stack[j]
            /\ c = stack[Len(stack)]
        BY <1>1, <2>1, FrontAndLast, LenProperties
      <4>3. CASE i = Len(stack)
        <5>1. IsPrefix(c, d)
          BY <4>1, <4>2, <4>3
        <5>2. Ahead(d)'
          BY <1>4, <2>1, <5>1 DEF Ahead, Scanned
        <5>. QED
          BY <5>2
      <4>4. CASE i \in 1..Len(stack) - 1
        BY <1>1, <4>1, <4>2, <4>4 DEF Stacked
      <4>. QED
        BY <4>2, <4>3, <4>4
    <3>. QED
      BY <2>2, <2>4, <3>1, <3>2, <3>3 DEF Cover
  <2>5. Cover'
    BY <1>1, <2>4 DEF Cover, operands
  <2>6. DestThere'
    BY <2>2, DoneStays DEF DestThere
  <2>. QED
    BY <1>1, <1>4, <2>2, <2>3, <2>5, <2>6 DEF CpParts, Scanned, Walking
<1>. QED
  BY <1>2, <1>3, <1>4

\* What is still to be read of the open directory.
LEMMA RestIsAhead ==
    ASSUME CpStep, pc = "list"
    PROVE  /\ Scanned /\ page = << >> /\ AtScan /\ scan.cookie \in 0..Len(listing[scan.dir])
           /\ Rest \in Seq(Entry) /\ Len(Rest) = Len(listing[scan.dir]) - scan.cookie
           /\ \A j \in 1..Len(Rest) : Rest[j] = listing[scan.dir][scan.cookie + j]
<1>1. Scanned /\ AtScan /\ page = << >>
  BY DEF Scanned, CpStep, CpParts, WInv, Control
<1>2. /\ scan.cookie \in Nat /\ Len(listing[scan.dir]) \in Nat /\ listing[scan.dir] \in Seq(Entry)
      /\ Len(page) \in Nat
  BY <1>1, ScanStays
<1>3. scan.cookie <= Len(listing[scan.dir])
  BY <1>1, <1>2 DEF AtScan
<1>4. Rest = SubSeq(listing[scan.dir], scan.cookie + 1, Len(listing[scan.dir]))
  BY <1>1 DEF Rest, AtScan, Skipped
<1>5. PICK t \in Seq(Entry) : t = listing[scan.dir]
  BY <1>2
<1>6. PICK k \in 0..Len(t) : k = scan.cookie
  BY <1>2, <1>3, <1>5
<1>7. PICK r : r = SubSeq(t, k + 1, Len(t))
  OBVIOUS
<1>8. r \in Seq(Entry) /\ Len(r) = Len(t) - k /\ \A j \in 1..Len(t) - k : r[j] = t[k + j]
  BY <1>7, Remaining
<1>. QED
  BY <1>1, <1>2, <1>3, <1>4, <1>5, <1>6, <1>7, <1>8

LEMMA ListsCopied ==
    ASSUME CpStep, Lists
    PROVE  CpParts'
<1>1. /\ pc = "list" /\ pc' = "entry" /\ listing' = listing /\ UNCHANGED <<operands, stack, scan, result>>
      /\ result = "none" /\ WInv
  BY DEF CpStep, Lists, Untouched, WInv, Typed
<1>2. page' \in Seq(Entry) /\ IsPrefix(page', Rest)
  BY <1>1, ListsGoes
<1>3. PICK u \in Seq(Entry) : u = page'
  BY <1>2
<1>4. PICK r \in Seq(Entry) : r = Rest
  BY <1>1, RestIsAhead
<1>5. Len(u) <= Len(r) /\ \A j \in 1..Len(u) : u[j] = r[j]
  BY <1>2, <1>3, <1>4, PrefixNames
<1>6. /\ scan.cookie \in Nat /\ Len(listing[scan.dir]) \in Nat /\ Len(u) \in Nat /\ Len(r) \in Nat
      /\ Len(r) = Len(listing[scan.dir]) - scan.cookie
      /\ \A j \in 1..Len(r) : r[j] = listing[scan.dir][scan.cookie + j]
  <2>1. scan.cookie \in Nat /\ Len(listing[scan.dir]) \in Nat
    BY <1>1, RestIsAhead, ScanStays, LenProperties
  <2>2. Len(u) \in Nat /\ Len(r) \in Nat
    BY LenProperties
  <2>3. /\ Len(r) = Len(listing[scan.dir]) - scan.cookie
        /\ \A j \in 1..Len(r) : r[j] = listing[scan.dir][scan.cookie + j]
    BY <1>1, <1>4, RestIsAhead
  <2> QED BY <2>1, <2>2, <2>3
<1>7. /\ scan.cookie + Len(u) <= Len(listing[scan.dir])
      /\ \A j \in 1..Len(u) : u[j] = listing[scan.dir][scan.cookie + j]
  <2>1. scan.cookie + Len(u) <= Len(listing[scan.dir])
    BY <1>5, <1>6
  <2>2. \A j \in 1..Len(u) : j \in 1..Len(r)
    BY <1>5, <1>6
  <2>3. \A j \in 1..Len(u) : u[j] = listing[scan.dir][scan.cookie + j]
    BY <1>5, <1>6, <2>2
  <2> QED BY <2>1, <2>3
<1>8. AtScan'
  <2>1. AtScan
    BY <1>1, RestIsAhead
  <2>2. Visited(scan.dir)' /\ (scan.dir \in DOMAIN before => FilesTo(scan.dir, scan.cookie)')
    <3>1. PICK d \in Seq(Name) : d = scan.dir
      BY <1>1, RestIsAhead, ScanStays
    <3>2. PICK k \in Nat : k = scan.cookie
      BY <1>6
    <3>3. Visited(d)' /\ (d \in DOMAIN before => FilesTo(d, k)')
      BY <2>1, <3>1, <3>2, DoneStays DEF AtScan
    <3>4. scan'.dir = d /\ scan'.cookie = k
      BY <1>1, <3>1, <3>2
    <3>. QED
      BY <3>1, <3>2, <3>3, <3>4 DEF Visited, FilesTo
  <2>. QED
    BY <1>1, <1>3, <1>7, <2>1, <2>2 DEF AtScan, operands
<1>9. Scanned /\ Scanned' /\ Walking
  BY <1>1 DEF Scanned, Walking
<1>10. Cover'
  BY <1>1, <1>9, CoverStands DEF CpStep, CpParts
<1>11. src' \in DOMAIN listing' /\ DestThere'
  BY <1>1, <1>9, DoneStays DEF CpStep, CpParts, DestThere, operands
<1>. QED
  BY <1>1, <1>8, <1>9, <1>10, <1>11 DEF CpParts

\* When all names fit, a page with nothing on it means that there is nothing left.
LEMMA EndOfScan ==
    ASSUME CpStep, pc = "list", NothingWhole
    PROVE  scan.cookie = Len(listing[scan.dir])
<1>1. Rest \in Seq(Entry)
  BY RestIsAhead
<1>2. CASE Rest = << >>
  <2>1. Len(Rest) = 0 /\ Len(listing[scan.dir]) \in Nat /\ scan.cookie \in Nat
    BY <1>1, <1>2, EmptySeq, RestIsAhead, ScanStays
  <2>. QED
    BY <2>1, RestIsAhead
<1>3. CASE Rest # << >>
  <2>1. HeaderLen + NameLen[Rest[1].name] > BufLen
    BY <1>1, <1>3, WholePart DEF NothingWhole
  <2>2. 1 \in 1..Len(Rest)
    <3>1. Len(Rest) \in Nat /\ Len(Rest) # 0
      BY <1>1, <1>3, EmptySeq, LenProperties
    <3>. QED
      BY <3>1
  <2>3. /\ listing[scan.dir] \in Seq(Entry) /\ scan.dir \in DOMAIN listing
        /\ Len(listing[scan.dir]) \in Nat /\ scan.cookie \in Nat
    BY RestIsAhead, ScanStays
  <2>4. scan.cookie + 1 \in 1..Len(listing[scan.dir]) /\ Rest[1] = listing[scan.dir][scan.cookie + 1]
    BY <2>2, <2>3, RestIsAhead
  <2>5. PICK i \in 1..Len(listing[scan.dir]) : Rest[1] = listing[scan.dir][i]
    BY <2>4
  <2>6. AllFit(listing) /\ i \in DOMAIN listing[scan.dir] /\ Rest[1] \in Entry
    BY <2>3, <2>5, LenProperties, ElementOfSeq DEF CpStep, Copying
  <2>7. HeaderLen + NameLen[Rest[1].name] <= BufLen
    BY <2>3, <2>5, <2>6 DEF AllFit, EntryFits
  <2>8. HeaderLen + NameLen[Rest[1].name] \in Int /\ BufLen \in Int
    <3>1. Rest[1].name \in Name
      BY <2>6 DEF Entry
    <3>. QED
      BY <3>1, DirScanAssumption DEF HeaderLen
  <2>. QED
    BY <2>1, <2>7, <2>8
<1>. QED
  BY <1>2, <1>3

LEMMA ListsNoneCopied ==
    ASSUME CpStep, ListsNone
    PROVE  CpParts'
<1>1. /\ pc = "list" /\ pc' = "pop" /\ listing' = listing /\ UNCHANGED <<operands, stack, page, result>>
      /\ result = "none" /\ NothingWhole /\ page = << >>
  BY DEF CpStep, ListsNone, Untouched, WInv, Typed, Control, Copying
<1>2. Scanned /\ Walking /\ ~Scanned' /\ AtScan /\ IsTree(before)
  BY <1>1 DEF Scanned, Walking, CpStep, CpParts, WInv, Trees
<1>3. PICK s \in Seq(Name) : s = scan.dir
  BY <1>2, ScanStays
<1>4. scan.cookie = Len(listing[s]) /\ scan.cookie \in Nat
  BY <1>1, <1>2, <1>3, EndOfScan, ScanStays
<1>5. s \in DOMAIN before => /\ Len(before[s]) \in Nat /\ Len(before[s]) <= Len(listing[s])
                             /\ \A i \in 1..Len(before[s]) : before[s][i] = listing[s][i]
  BY <1>2, <1>3, ScanStays
<1>6. ASSUME NEW d \in DOMAIN before, Ahead(d)  PROVE Done(d)
  <2>1. IsPrefix(s, d) /\ \A i \in 1..scan.cookie : ~IsPrefix(Child(s, listing[s][i].name), d)
    BY <1>3, <1>6 DEF Ahead
  <2>2. s \in DOMAIN before
    BY <1>2, <2>1, AboveIsListed
  <2>3. s = d
    <3>. SUFFICES ASSUME s # d  PROVE FALSE
      OBVIOUS
    <3>1. PICK i \in 1..Len(before[s]) : IsPrefix(Child(s, before[s][i].name), d)
      BY <1>2, <2>1, AboveIsListed
    <3>2. i \in 1..scan.cookie /\ before[s][i] = listing[s][i]
      BY <1>4, <1>5, <2>2
    <3>. QED
      BY <2>1, <3>1, <3>2
  <2>4. FilesTo(s, scan.cookie) /\ Visited(s)
    BY <1>2, <1>3, <2>2 DEF AtScan
  <2>5. FilesTo(s, Len(before[s]))
    <3>1. \A i \in 1..Len(before[s]) : i <= Len(before[s]) => i <= scan.cookie
      BY <1>4, <1>5, <2>2
    <3>. QED
      BY <2>4, <3>1 DEF FilesTo
  <2>. QED
    BY <2>3, <2>4, <2>5 DEF Done
<1>7. Cover'
  <2>. SUFFICES ASSUME NEW d \in DOMAIN before, IsPrefix(src, d)  PROVE Stacked(d)' \/ Done(d)'
    BY <1>1 DEF Cover, operands
  <2>1. Stacked(d) \/ Ahead(d) \/ Done(d)
    BY <1>2 DEF CpStep, CpParts, Cover
  <2>2. Stacked(d) => Stacked(d)'
    BY <1>1 DEF Stacked
  <2>. QED
    BY <1>6, <2>1, <2>2, DoneStays
<1>8. src' \in DOMAIN listing' /\ DestThere'
  BY <1>1, <1>2, DoneStays DEF CpStep, CpParts, DestThere, operands
<1>. QED
  BY <1>1, <1>2, <1>7, <1>8 DEF CpParts

LEMMA PushesCopied ==
    ASSUME CpStep, Pushes
    PROVE  CpParts'
<1>1. /\ pc = "entry" /\ page # << >> /\ Head(page).type = "directory" /\ Advances
      /\ stack' = Append(stack, Current) /\ listing' = listing /\ UNCHANGED <<operands, result>>
      /\ result = "none" /\ stack \in Seq(Seq(Name))
  BY DEF CpStep, Pushes, AtEntry, Untouched, WInv, Typed
<1>2. Scanned /\ Walking /\ (pc' = "list" \/ pc' = "entry")
  BY <1>1 DEF Scanned, Walking, Advances
<1>3. \A d \in DOMAIN before : IsPrefix(Current, d) => Stacked(d)'
  <2>1. Current \in Seq(Name)
    BY <1>1, <1>2, NextEntry
  <2>2. Len(stack') \in Nat \ {0} /\ stack'[Len(stack')] = Current
    <3>1. Len(stack) \in Nat /\ Len(Append(stack, Current)) = Len(stack) + 1
          /\ Append(stack, Current)[Len(stack) + 1] = Current
      BY <1>1, <2>1, AppendProperties, LenProperties
    <3>. QED
      BY <1>1, <3>1
  <2>3. Len(stack') \in 1..Len(stack')
    BY <2>2
  <2>. QED
    BY <2>2, <2>3 DEF Stacked
<1>4. AtScan' /\ Cover' /\ Scanned'
  BY <1>1, <1>2, <1>3, CpAdvances
<1>5. src' \in DOMAIN listing' /\ DestThere'
  BY <1>1, <1>2, DoneStays DEF CpStep, CpParts, DestThere, operands
<1>. QED
  BY <1>1, <1>2, <1>4, <1>5 DEF CpParts

\* The file at hand is taken, and its source opened.
LEMMA SourceCopied ==
    ASSUME CpStep, CpTakesFile \/ CpOpensSource
    PROVE  CpParts'
<1>1. /\ UNCHANGED <<listing, othersVars, operands, walkVars, printed>> /\ result = "none"
      /\ \/ pc' = "done" /\ result' \in {"failed", "trapped"}
         \/ /\ pc' \in {"source", "copy"} /\ result' = result
            /\ pc \in {"entry", "source"}
            /\ pc = "entry" => page # << >> /\ Head(page).type = "file"
  BY DEF CpStep, CpTakesFile, CpOpensSource, Untouched, AtEntry, Ends, CpFails, WInv, Typed
<1>2. CASE pc' = "done" /\ result' \in {"failed", "trapped"}
  BY <1>2 DEF CpParts, Scanned, Walking
<1>3. CASE /\ pc' \in {"source", "copy"} /\ result' = result
           /\ pc \in {"entry", "source"}
           /\ pc = "entry" => page # << >> /\ Head(page).type = "file"
  <2>1. page' = page /\ stack' = stack /\ scan' = scan
    BY <1>1 DEF walkVars
  <2>2. (Scanned' <=> Scanned) /\ (Walking <=> Scanned) /\ (Walking' <=> Scanned')
    BY <1>3, <2>1 DEF Scanned, Walking
  <2>3. IF page' = << >> THEN src' \notin DOMAIN before' ELSE Head(page').type = "file"
    BY <1>1, <1>3, <2>1 DEF CpStep, CpParts, operands
  <2>4. Scanned => AtScan' /\ Cover' /\ src' \in DOMAIN listing' /\ TypeOf(dest)' # "none"
    <3>. SUFFICES ASSUME Scanned  PROVE AtScan' /\ Cover' /\ src' \in DOMAIN listing' /\ TypeOf(dest)' # "none"
      OBVIOUS
    <3>1. Cover /\ src \in DOMAIN listing /\ TypeOf(dest) # "none"
      BY <1>3, <2>2 DEF CpStep, CpParts, DestThere
    <3>. QED
      BY <2>1, <2>2, <3>1, ScanStands, CoverStands, DoneStays
  <2>. QED
    BY <1>1, <1>3, <2>2, <2>3, <2>4 DEF CpParts, DestThere
<1>. QED
  BY <1>1, <1>2, <1>3

LEMMA FileCopied ==
    ASSUME CpStep, CpCopies
    PROVE  CpParts'
<1>1. /\ pc = "copy" /\ result = "none" /\ WInv /\ IsTree(before) /\ IsTree(listing)
      /\ src \in Seq(Name) /\ dest \in Seq(Name)
      /\ UNCHANGED <<othersVars, operands, stack, post, printed>>
  BY DEF CpStep, CpCopies, WInv, Typed, Trees
<1>2. \/ pc' = "done" /\ result' \in {"failed", "trapped"}
      \/ /\ TypeIn(listing', Dest(Copied)) = "file"
         /\ \/ page # << >> /\ Advances /\ result' = result
            \/ page = << >> /\ result' = "ok" /\ pc' = "done"
  <2>1. result' \in {"failed", "trapped"} => pc' = "done"
    BY <1>1 DEF CpStep, WInv, Typed
  <2>. QED
    BY <1>1, <2>1, CpCopiesGoes
<1>3. CASE pc' = "done" /\ result' \in {"failed", "trapped"}
  BY <1>3 DEF CpParts, Scanned, Walking
<1>4. CASE TypeIn(listing', Dest(Copied)) = "file" /\ page # << >> /\ Advances /\ result' = result
  <2>1. Scanned /\ Walking /\ Copied = Current /\ Head(page).type = "file" /\ (pc' = "list" \/ pc' = "entry")
    BY <1>1, <1>4 DEF Scanned, Walking, Copied, CpStep, CpParts, Advances
  <2>2. TypeIn(listing', Dest(Current)) = "file"
    BY <1>4, <2>1
  <2>3. ASSUME NEW d \in DOMAIN before, IsPrefix(Current, d)  PROVE FALSE
    <3>1. /\ Current \in Seq(Name) /\ Current # << >> /\ Front(Current) = scan.dir
          /\ Last(Current) = Head(page).name /\ Head(page) \in Entry
      BY <1>1, <1>4, AtHand
    <3>2. Current \in DOMAIN before
      BY <1>1, <2>3, <3>1, AboveIsListed
    <3>3. Current \in DOMAIN listing
      BY <3>2 DEF CpStep, NothingGone, Copying
    <3>4. /\ scan.dir \in DOMAIN listing
          /\ scan.cookie + 1 \in 1..Len(listing[scan.dir])
          /\ Head(page) = listing[scan.dir][scan.cookie + 1]
      BY <1>4, <2>1, ScanStays, NextEntry
    <3>5. Has(listing[scan.dir], Head(page))
      BY <3>4 DEF Has
    <3>6. Head(page) = File(Last(Current))
      BY <2>1, <3>1 DEF Entry, File
    <3>7. TypeIn(listing, Current) = "file" /\ TypeIn(listing, Current) = "directory"
      BY <1>1, <3>1, <3>3, <3>4, <3>5, <3>6, WhatIsThere
    <3>. QED
      BY <3>7
  <2>4. AtScan' /\ Cover' /\ Scanned'
    BY <1>1, <1>4, <2>1, <2>2, <2>3, CpAdvances
  <2>5. src' \in DOMAIN listing' /\ DestThere'
    BY <1>1, <2>1, DoneStays DEF CpStep, CpParts, DestThere, operands
  <2>. QED
    BY <1>1, <1>4, <2>1, <2>4, <2>5 DEF CpParts
<1>5. CASE TypeIn(listing', Dest(Copied)) = "file" /\ page = << >> /\ result' = "ok" /\ pc' = "done"
  <2>1. src \notin DOMAIN before /\ Copied = src /\ Dest(src) = dest
    BY <1>1, <1>5, DestIsBelow DEF CpStep, CpParts, Copied
  <2>2. TypeOf(dest)' = "file"
    <3>1. TypeOf(dest)' = TypeIn(listing', dest)
      BY <1>1 DEF operands, TypeOf
    <3>. QED
      BY <1>5, <2>1, <3>1
  <2>3. ASSUME NEW d \in DOMAIN before, NEW i \in DOMAIN before[d],
               IsPrefix(src, Child(d, before[d][i].name))
        PROVE  TypeOf(Dest(Child(d, before[d][i].name)))' = "file"
    <3>1. d \in Seq(Name) /\ before[d][i].name \in Name
      <4>1. d \in Seq(Name) /\ before[d] \in Seq(Entry)
        BY <1>1 DEF IsTree
      <4>2. before[d][i] \in Entry
        BY <4>1, ElementOfSeq, LenProperties
      <4>. QED
        BY <4>1, <4>2 DEF Entry
    <3>2. PICK n \in Name : n = before[d][i].name
      BY <3>1
    <3>3. IsPrefix(src, d) \/ src = Child(d, n)
      BY <1>1, <2>3, <3>1, <3>2, PrefixLawsHold DEF PrefixLaws
    <3>4. ~IsPrefix(src, d)
      BY <1>1, <2>1, AboveIsListed
    <3>5. PICK p : p = src
      OBVIOUS
    <3>6. TypeOf(Dest(p))' = TypeIn(listing', Dest(p))
      BY DestStays DEF CpStep
    <3>7. Child(d, before[d][i].name)' = p
      BY <1>1, <3>2, <3>3, <3>4, <3>5 DEF operands
    <3>. QED
      BY <1>5, <2>1, <3>5, <3>6, <3>7
  <2>4. Complete'
    <3>1. before' = before /\ src' = src
      BY <1>1 DEF operands
    <3>. QED
      BY <2>2, <2>3, <3>1 DEF Complete, Child
  <2>. QED
    BY <1>5, <2>4 DEF CpParts, Scanned, Walking
<1>. QED
  BY <1>2, <1>3, <1>4, <1>5

LEMMA EndCopied ==
    ASSUME CpStep, CpEnds
    PROVE  CpParts'
<1>1. /\ pc = "pop" /\ stack = << >> /\ pc' = "done" /\ result' = "ok" /\ WInv
      /\ UNCHANGED <<listing, operands>> /\ IsTree(before) /\ IsTree(listing) /\ src \in Seq(Name)
      /\ NothingGone /\ cmd = "cp" /\ "removed" \notin others
  BY DEF CpStep, CpEnds, Ends, CpFails, Untouched, WInv, Trees, Typed, Copying
<1>2. src \in DOMAIN listing /\ Cover /\ TypeOf(dest) # "none"
  BY <1>1 DEF CpStep, CpParts, Walking, DestThere
<1>3. ASSUME NEW d \in DOMAIN before, IsPrefix(src, d)  PROVE Done(d)
  <2>1. Stacked(d) \/ Ahead(d) \/ Done(d)
    BY <1>2, <1>3 DEF Cover
  <2>2. ~Stacked(d)
    BY <1>1 DEF Stacked
  <2>3. ~Ahead(d)
    BY <1>1 DEF Ahead, Scanned
  <2>. QED
    BY <2>1, <2>2, <2>3
<1>4. ASSUME NEW d \in DOMAIN before, NEW i \in DOMAIN before[d],
             IsPrefix(src, Child(d, before[d][i].name))
      PROVE  \/ TypeOf(Dest(Child(d, before[d][i].name))) = "file"
             \/ /\ before[d][i].type = "directory"
                /\ TypeOf(Dest(Child(d, before[d][i].name))) = "directory"
  <2>1. d \in Seq(Name) /\ before[d] \in Seq(Entry) /\ i \in 1..Len(before[d])
    BY <1>1, LenProperties DEF IsTree
  <2>2. PICK e \in Entry : e = before[d][i]
    BY <2>1, ElementOfSeq
  <2>3. PICK n \in Name : n = e.name
    BY <2>2 DEF Entry
  <2>4. PICK p \in Seq(Name) : p = Child(d, n)
    BY <2>1, PathLawsHold DEF PathLaws
  <2>5. IsPrefix(src, d) \/ src = p
    BY <1>1, <1>4, <2>1, <2>2, <2>3, <2>4, PrefixLawsHold DEF PrefixLaws
  <2>6. IsPrefix(src, p)
    BY <1>4, <2>2, <2>3, <2>4
  <2>7. CASE e.type = "directory"
    <3>1. Has(before[d], Dir(n))
      <4>1. e = Dir(n)
        BY <2>2, <2>3, <2>7 DEF Entry, Dir
      <4>. QED
        BY <2>1, <2>2, <4>1 DEF Has
    <3>2. p \in DOMAIN before
      BY <1>1, <2>4, <3>1 DEF IsTree
    <3>3. TypeOf(Dest(p)) # "none"
      BY <1>3, <2>6, <3>2 DEF Done, Visited
    <3>4. TypeOf(Dest(p)) \in {"file", "directory", "none"}
      <4>1. Dest(p) \in Seq(Name)
        BY <1>1, DestIsBelow DEF WInv, Typed
      <4>. QED
        BY <1>1, <4>1, WhatIsThere DEF TypeOf
    <3>. QED
      BY <2>2, <2>3, <2>4, <2>7, <3>3, <3>4
  <2>8. CASE e.type = "file" /\ IsPrefix(src, d)
    <3>1. FilesTo(d, Len(before[d]))
      BY <1>3, <2>8 DEF Done
    <3>2. i <= Len(before[d])
      BY <2>1
    <3>. QED
      BY <2>1, <2>2, <2>8, <3>1, <3>2 DEF FilesTo
  <2>9. CASE e.type = "file" /\ src = p
    <3>1. Has(before[d], File(n))
      <4>1. e = File(n)
        BY <2>2, <2>3, <2>9 DEF Entry, File
      <4>. QED
        BY <2>1, <2>2, <4>1 DEF Has
    <3>2. d \in DOMAIN listing /\ listing[d] \in Seq(Entry) /\ IsPrefix(before[d], listing[d])
      BY <1>1 DEF NothingGone, IsTree
    <3>3. Has(listing[d], File(n))
      BY <2>1, <3>1, <3>2, PrefixNames DEF Has
    <3>4. p # << >> /\ Front(p) = d /\ Last(p) = n
      BY <2>1, <2>4, PathLawsHold DEF PathLaws
    <3>5. TypeIn(listing, p) = "file" /\ TypeIn(listing, p) = "directory"
      BY <1>1, <1>2, <2>9, <3>2, <3>3, <3>4, WhatIsThere
    <3>. QED
      BY <3>5
  <2>. QED
    BY <2>2, <2>5, <2>7, <2>8, <2>9 DEF Entry
<1>5. Complete
  BY <1>2, <1>4 DEF Complete
<1>6. Complete'
  BY <1>1, <1>5, CompleteStands DEF CpStep
<1>. QED
  BY <1>1, <1>6 DEF CpParts, Scanned, Walking

LEMMA CpNext ==
    ASSUME WInv, NothingGone, CpInv, Next
    PROVE  CpInv'
<1>. SUFFICES ASSUME Copying'  PROVE CpParts'
  BY DEF CpInv
<1>1. cmd' = "cp" /\ "removed" \notin others' /\ AllFit(listing')
  BY DEF Copying
<1>2. WInv' /\ NothingGone'
  BY NextGoes, NothingGoes DEF Goes
<1>3. Lengthens /\ (cmd # "none" => UNCHANGED <<operands>>) /\ "removed" \notin others
  BY <1>1, NoneShortens
<1>4. AllFit(listing)
  <2>. SUFFICES ASSUME NEW d \in DOMAIN listing, NEW i \in DOMAIN listing[d]
                PROVE  EntryFits(listing[d][i])
    BY DEF AllFit
  <2>1. d \in DOMAIN listing' /\ IsPrefix(listing[d], listing'[d])
    BY <1>3 DEF Lengthens
  <2>2. listing[d] \in Seq(Entry) /\ listing'[d] \in Seq(Entry)
    BY <1>2, <2>1 DEF WInv, Trees, IsTree
  <2>3. /\ DOMAIN listing[d] = 1..Len(listing[d]) /\ DOMAIN listing'[d] = 1..Len(listing'[d])
        /\ Len(listing[d]) \in Nat /\ Len(listing'[d]) \in Nat
    BY <2>2, LenProperties
  <2>4. Len(listing[d]) <= Len(listing'[d]) /\ \A j \in 1..Len(listing[d]) : listing[d][j] = listing'[d][j]
    BY <2>1, <2>2, PrefixNames
  <2>5. i \in DOMAIN listing'[d] /\ listing'[d][i] = listing[d][i]
    BY <2>3, <2>4
  <2>6. EntryFits(listing'[d][i])
    BY <1>1, <2>1, <2>5 DEF AllFit
  <2>. QED
    BY <2>5, <2>6
<1>5. CASE Commands
  <2>1. pc' = "start" /\ result' = result /\ pc = "idle"
    BY <1>5 DEF Commands, Starts, WInv, Control
  <2>2. result' # "ok"
    BY <2>1 DEF WInv, Typed
  <2>. QED
    BY <2>1, <2>2 DEF CpParts, Scanned, Walking
<1>6. ASSUME cmd # "none"
      PROVE  CpStep
  <2>1. UNCHANGED <<operands>> /\ cmd' = cmd
    BY <1>3, <1>6 DEF operands
  <2>2. Copying
    BY <1>1, <1>3, <1>4, <2>1 DEF Copying
  <2>3. CpParts
    BY <2>2 DEF CpInv
  <2>. QED
    BY <1>2, <1>3, <2>1, <2>2, <2>3 DEF CpStep
<1>7. CASE OthersRun
  <2>1. cmd # "none"
    <3>1. UNCHANGED <<operands>>
      BY <1>7, OthersGo
    <3>. QED
      BY <1>1, <3>1 DEF operands
  <2>. QED
    BY <1>6, <1>7, <2>1, OthersCopied
<1>8. CASE CommandRuns
  <2>1. cmd = "cp"
    <3>1. UNCHANGED <<operands>>
      BY <1>8 DEF CommandRuns, Ls, Rm, Cp, LsOpens, LsPrints, Lists, ListsNone, Pushes, RmUnlinks, RmPops,
            RmUnlinksEntry, RmRmdirs, CpProbes, CpMakesDir, CpOpens, CpTakesFile, CpOpensSource, CpCopies,
            CpEnds, Untouched
    <3>. QED
      BY <1>1, <3>1 DEF operands
  <2>2. CpStep
    BY <1>6, <2>1
  <2>3. ~Ls /\ ~Rm
    BY <2>1 DEF Ls, LsOpens, LsPrints, Rm, RmUnlinks, RmPops, RmUnlinksEntry, RmRmdirs, AtEntry
  <2>. QED
    BY <1>8, <2>2, <2>3, ProbesCopied, MakesDirCopied, OpensCopied, ListsCopied, ListsNoneCopied,
       PushesCopied, SourceCopied, FileCopied, EndCopied DEF CommandRuns, Cp
<1>. QED
  BY <1>5, <1>7, <1>8 DEF Next

LEMMA CpStands ==
    ASSUME CpInv, UNCHANGED vars
    PROVE  CpInv'
<1>1. UNCHANGED <<listing, others, before, cmd, src, dest, pc, stack, post, scan, page, printed, result>>
  BY DEF vars, othersVars, operands, commandVars, walkVars
<1>2. Copying' <=> Copying
  BY <1>1 DEF Copying, AllFit
<1>3. (Scanned' <=> Scanned) /\ (Walking' <=> Walking)
  BY <1>1 DEF Scanned, Walking
<1>4. \A p : (Visited(p)' <=> Visited(p)) /\ TypeOf(Dest(p))' = TypeOf(Dest(p))
  BY <1>1 DEF Visited, TypeOf, TypeIn, Dest
<1>5. \A d, k : FilesTo(d, k)' <=> FilesTo(d, k)
  BY <1>1 DEF FilesTo, TypeOf, TypeIn, Dest, Child
<1>6. AtScan' <=> AtScan
  BY <1>1, <1>4, <1>5 DEF AtScan
<1>7. Cover' <=> Cover
  <2>1. \A d : (Stacked(d)' <=> Stacked(d)) /\ (Ahead(d)' <=> Ahead(d))
    BY <1>1, <1>3 DEF Stacked, Ahead, Child
  <2>2. \A d : Done(d)' <=> Done(d)
    BY <1>1, <1>4, <1>5 DEF Done
  <2>. QED
    BY <1>1, <2>1, <2>2 DEF Cover
<1>8. DestThere' <=> DestThere
  BY <1>1 DEF DestThere, TypeOf, TypeIn
<1>9. Complete' <=> Complete
  BY <1>1 DEF Complete, TypeOf, TypeIn, Dest, Child
<1>10. CpParts' <=> CpParts
  <2>1. Visited(Last(stack))' <=> Visited(Last(stack))
    BY <1>1 DEF Visited, TypeOf, TypeIn, Dest
  <2>. QED
    BY <1>1, <1>3, <1>6, <1>7, <1>8, <1>9, <2>1 DEF CpParts
<1>. QED
  BY <1>2, <1>10 DEF CpInv

LEMMA CpHolds == Spec => [](WInv /\ NothingGone /\ CpInv)
<1>1. Init => NothingGone /\ CpInv
  BY DEF Init, NothingGone, CpInv, Copying
<1>2. WInv /\ NothingGone /\ CpInv /\ [Next]_vars => NothingGone' /\ CpInv'
  <2>1. WInv /\ NothingGone /\ CpInv /\ Next => NothingGone' /\ CpInv'
    BY CpNext, NothingGoes
  <2>2. NothingGone /\ UNCHANGED vars => NothingGone'
    BY DEF vars, othersVars, operands, NothingGone
  <2>3. CpInv /\ UNCHANGED vars => CpInv'
    BY CpStands
  <2>. QED
    BY <2>1, <2>2, <2>3
<1>. QED
  BY <1>1, <1>2, WInvHolds, PTL DEF Spec

\* When cp -r ends well, whatever its pages cut the directories into and whatever the others
\* made meanwhile, each file that was below the source when it started is a file at the
\* destination, and each directory is there (cp/main.zig's copyTree and copyFile over
\* fd_readdir).
THEOREM CopiesAreComplete == Spec => []CopyComplete
<1>1. CpInv => CopyComplete
  BY DEF CpInv, Copying, CpParts, Complete, CopyComplete
<1>. QED
  BY <1>1, CpHolds, PTL

-----------------------------------------------------------------------------
(* rm -r with nobody else at work does not fail.                             *)

\* The assumptions of RmAlone, but that rm has failed.
Alone ==
    /\ cmd = "rm" /\ others = {} /\ src # << >> /\ TypeIn(before, src) # "none"
    /\ \A d \in DOMAIN before : IsPrefix(src, d) => WholeOf(before[d]) = before[d]

Opened == pc \in {"list", "entry"}

\* A directory below which nothing has been touched, and the entries of the open one that
\* have not been dealt with.
Intact(p) ==
    /\ p \in DOMAIN before
    /\ \A d \in DOMAIN before : IsPrefix(p, d) => d \in DOMAIN listing /\ listing[d] = before[d]
Left == IF pc = "list" /\ scan.cookie = 0 THEN before[scan.dir] ELSE page

Distinct(s) == \A i, j \in 1..Len(s) : s[i] = s[j] => i = j

\* What is on the stack is a child of what is in post_dirs, and not above it.
OnStack ==
    /\ Distinct(stack)
    /\ \A p : Has(stack, p) => /\ Intact(p)
                               /\ p = src \/ Has(post, Front(p))
                               /\ \A q : Has(post, q) => ~IsPrefix(p, q)

\* What a directory of post_dirs still lists is a directory that is to be visited, or that is
\* removed before it.
Waits(e, k) ==
    /\ e.type = "directory"
    /\ \/ Has(stack, Child(post[k], e.name))
       \/ \E m \in 1..Len(post) : k < m /\ post[m] = Child(post[k], e.name)

InPost ==
    /\ Distinct(post)
    /\ \A k \in 1..Len(post) : post[k] \in DOMAIN listing
    /\ \A k \in 1..Len(post) : k < Len(post) \/ ~Opened => \A e : Has(listing[post[k]], e) => Waits(e, k)

\* The open directory is the last of post_dirs, and lists what is left to deal with and what
\* has been put on the stack.
Fresh(e) ==
    /\ Has(before[scan.dir], e) /\ Has(listing[scan.dir], e)
    /\ e.type = "directory" => /\ Intact(Child(scan.dir, e.name))
                               /\ ~Has(stack, Child(scan.dir, e.name))
InScan ==
    /\ ~scan.gone /\ post # << >> /\ scan.dir = Last(post) /\ scan.dir \in DOMAIN before
    /\ \A q : Has(post, q) => q = scan.dir \/ ~IsPrefix(scan.dir, q)
    /\ Unique(Left)
    /\ \A e : Has(Left, e) => Fresh(e)
    /\ \A e : Has(listing[scan.dir], e) =>
                 Has(Left, e) \/ (e.type = "directory" /\ Has(stack, Child(scan.dir, e.name)))
    /\ pc = "list" => \/ scan.cookie = 0 /\ listing[scan.dir] = before[scan.dir]
                      \/ scan.cookie >= Len(listing[scan.dir])
    /\ pc = "entry" => scan.cookie + Len(page) >= Len(listing[scan.dir])

RmParts ==
    /\ result # "failed"
    /\ pc = "start" => listing = before
    /\ pc \in {"pop", "list", "entry"} => OnStack /\ InPost
    /\ Opened => InScan

RmInv == Alone => RmParts

\* A step of rm, alone.
RmStep == WInv /\ WInv' /\ Alone /\ RmParts /\ UNCHANGED <<operands>>

\* Paths put on a list and taken off it.
LEMMA PutOn ==
    ASSUME NEW S, NEW s \in Seq(S), NEW x \in S
    PROVE  /\ \A p : Has(Append(s, x), p) <=> Has(s, p) \/ p = x
           /\ Distinct(s) /\ ~Has(s, x) => Distinct(Append(s, x))
<1>1. PICK u : u = Append(s, x)
  OBVIOUS
<1>2. PICK n \in Nat : n = Len(s)
  BY LenProperties
<1>3. Len(u) = n + 1 /\ (\A i \in 1..n : u[i] = s[i]) /\ u[n + 1] = x
  BY <1>1, <1>2, AppendProperties
<1>4. \A i \in 1..n + 1 : i \in 1..n \/ i = n + 1
  BY <1>2
<1>5. \A p : Has(u, p) <=> Has(s, p) \/ p = x
  BY <1>2, <1>3, <1>4 DEF Has
<1>6. ASSUME Distinct(s), ~Has(s, x)  PROVE Distinct(u)
  <2>. SUFFICES ASSUME NEW i \in 1..n + 1, NEW j \in 1..n + 1, u[i] = u[j]  PROVE i = j
    BY <1>3 DEF Distinct
  <2>1. CASE i \in 1..n /\ j \in 1..n
    BY <1>2, <1>3, <1>6, <2>1 DEF Distinct
  <2>2. CASE i = n + 1 /\ j \in 1..n
    BY <1>2, <1>3, <1>6, <2>2 DEF Has
  <2>3. CASE i \in 1..n /\ j = n + 1
    BY <1>2, <1>3, <1>6, <2>3 DEF Has
  <2>. QED
    BY <1>4, <2>1, <2>2, <2>3
<1>. QED
  BY <1>1, <1>5, <1>6

LEMMA TakenOff ==
    ASSUME NEW S, NEW s \in Seq(S), s # << >>
    PROVE  /\ \A p : Has(s, p) <=> Has(Front(s), p) \/ p = Last(s)
           /\ Distinct(s) => Distinct(Front(s)) /\ ~Has(Front(s), Last(s))
<1>1. PICK f, l : f = Front(s) /\ l = Last(s)
  OBVIOUS
<1>2. PICK n \in Nat \ {0} : n = Len(s)
  BY EmptySeq, LenProperties
<1>3. Len(f) = n - 1 /\ (\A i \in 1..n - 1 : f[i] = s[i]) /\ l = s[n] /\ n \in 1..n
  BY <1>1, <1>2, FrontAndLast
<1>4. \A i \in 1..n : i \in 1..n - 1 \/ i = n
  BY <1>2
<1>5. \A i \in 1..n - 1 : i \in 1..n /\ i # n
  BY <1>2
<1>6. \A p : Has(s, p) <=> Has(f, p) \/ p = l
  BY <1>2, <1>3, <1>4, <1>5 DEF Has
<1>7. ASSUME Distinct(s)  PROVE Distinct(f) /\ ~Has(f, l)
  BY <1>2, <1>3, <1>5, <1>7 DEF Distinct, Has
<1>. QED
  BY <1>1, <1>6, <1>7

\* Of two paths neither is longer than the other unless it goes on.
LEMMA PrefixBothWays ==
    ASSUME NEW p \in Seq(Name), NEW q \in Seq(Name), IsPrefix(p, q), IsPrefix(q, p)
    PROVE  p = q
<1>1. Len(p) = Len(q) /\ \A i \in 1..Len(p) : p[i] = q[i]
  <2>1. Len(p) <= Len(q) /\ Len(q) <= Len(p) /\ \A i \in 1..Len(p) : p[i] = q[i]
    BY PrefixNames
  <2>2. Len(p) \in Nat /\ Len(q) \in Nat
    BY LenProperties
  <2>. QED
    BY <2>1, <2>2
<1>. QED
  BY <1>1, SeqEqual

LEMMA ChildIsBelow ==
    ASSUME NEW d \in Seq(Name), NEW n \in Name
    PROVE  IsPrefix(d, Child(d, n)) /\ ~IsPrefix(Child(d, n), d)
<1>1. PICK c \in Seq(Name) : c = Child(d, n) /\ c # d
  BY PathLawsHold DEF PathLaws
<1>2. IsPrefix(d, c)
  BY <1>1, PrefixLawsHold DEF PrefixLaws
<1>. QED
  BY <1>1, <1>2, PrefixBothWays

\* Nobody else at work, before a step or after it.
LEMMA AloneRuns ==
    ASSUME WInv, Next, Alone'
    PROVE  \/ Commands /\ pc = "idle"
           \/ CommandRuns /\ Alone /\ cmd = "rm" /\ UNCHANGED <<operands>>
<1>1. cmd' = "rm" /\ others' = {} /\ pc \in {"open", "source", "copy"} => cmd = "cp"
  BY DEF Alone, WInv, Control
<1>2. CASE OthersRun
  <2>1. UNCHANGED <<operands>>
    BY <1>2, OthersGo
  <2>2. cmd # "none" => others' # {}
    BY <1>2, OthersGo DEF WInv, Typed, OthersRun, OtherCreates, OtherRemoves, Changes
  <2>3. cmd = "rm" /\ others' = {}
    BY <2>1 DEF operands, Alone
  <2>. QED
    BY <2>2, <2>3
<1>3. CASE Commands
  BY <1>3 DEF Commands, Starts, WInv, Control
<1>4. CASE CommandRuns
  <2>1. UNCHANGED <<othersVars, operands>>
    BY <1>4 DEF CommandRuns, Ls, Rm, Cp, LsOpens, LsPrints, Lists, ListsNone, Pushes, RmUnlinks, RmPops,
          RmUnlinksEntry, RmRmdirs, CpProbes, CpMakesDir, CpOpens, CpTakesFile, CpOpensSource, CpCopies,
          CpEnds, Untouched
  <2>2. cmd' = cmd /\ src' = src /\ before' = before /\ others' = others
    BY <2>1 DEF othersVars, operands
  <2>3. Alone
    BY <2>2 DEF Alone
  <2>. QED
    BY <1>4, <2>1, <2>3 DEF Alone
<1>. QED
  BY <1>2, <1>3, <1>4 DEF Next

LEMMA StartsAlone ==
    ASSUME WInv, WInv', Commands, pc = "idle"
    PROVE  RmParts'
<1>1. pc' = "start" /\ listing' = before' /\ result' = result
  BY DEF Commands, Starts
<1>2. result' # "failed"
  BY <1>1 DEF WInv, Typed
<1>. QED
  BY <1>1, <1>2 DEF RmParts, Opened

LEMMA UnlinksAlone ==
    ASSUME RmStep, RmUnlinks
    PROVE  RmParts'
<1>1. /\ listing = before /\ IsTree(before) /\ src \in Seq(Name) /\ TypeIn(before, src) # "none"
      /\ result # "failed" /\ post' = << >> /\ UNCHANGED <<operands>>
  BY DEF RmStep, RmUnlinks, RmParts, Alone, WInv, Typed, Trees, Control
<1>2. CASE pc' = "done" /\ result' = "ok"
  BY <1>2 DEF RmParts, Opened
<1>3. CASE TypeOf(src) = "directory" /\ stack' = <<src>> /\ pc' = "pop" /\ listing' = listing /\ result' = result
  <2>1. src \in DOMAIN before
    BY <1>1, <1>3, WhatIsThere DEF TypeOf
  <2>2. Intact(src)'
    BY <1>1, <1>3, <2>1 DEF Intact, operands
  <2>3. Distinct(stack') /\ \A p : Has(stack', p) <=> p = src
    <3>1. Len(<<src>>) = 1 /\ <<src>>[1] = src
      OBVIOUS
    <3>. QED
      BY <1>3, <3>1 DEF Distinct, Has
  <2>4. Len(post') = 0
    BY <1>1
  <2>5. \A q : ~Has(post', q)
    BY <2>4 DEF Has
  <2>6. src' = src
    BY <1>1 DEF operands
  <2>7. OnStack'
    <3>1. \A p : p = src => Intact(p)'
      BY <2>2, <2>6
    <3>. QED
      BY <2>3, <2>5, <2>6, <3>1 DEF OnStack
  <2>8. InPost'
    BY <2>4 DEF InPost, Distinct
  <2>. QED
    BY <1>1, <1>3, <2>7, <2>8 DEF RmParts, Opened
<1>. QED
  BY <1>1, <1>2, <1>3 DEF RmUnlinks, Ends, TypeOf

LEMMA PopsAlone ==
    ASSUME RmStep, RmPops
    PROVE  RmParts'
<1>1. /\ pc = "pop" /\ stack # << >> /\ stack' = Front(stack) /\ post' = Append(post, Last(stack))
      /\ listing' = listing /\ before' = before /\ src' = src
      /\ stack \in Seq(Seq(Name)) /\ post \in Seq(Seq(Name)) /\ src \in Seq(Name) /\ src # << >>
      /\ IsTree(before) /\ IsTree(listing) /\ OnStack /\ InPost /\ result # "failed"
      /\ Below(stack) /\ Below(post)
  BY DEF RmStep, RmPops, RmParts, Alone, Untouched, operands, WInv, Typed, Trees, Inside
<1>2. PICK p \in Seq(Name) : p = Last(stack)
  BY <1>1, PathsBelow
<1>3. PICK f \in Seq(Seq(Name)) : f = Front(stack)
  BY <1>1, PathsBelow
<1>4. (\A q : Has(stack, q) <=> Has(f, q) \/ q = p) /\ Distinct(f) /\ ~Has(f, p)
  BY <1>1, <1>2, <1>3, TakenOff DEF OnStack
<1>5. /\ Intact(p) /\ (p = src \/ Has(post, Front(p))) /\ (\A q : Has(post, q) => ~IsPrefix(p, q))
      /\ IsPrefix(src, p) /\ IsPrefix(p, p)
  <2>1. IsPrefix(src, p)
    BY <1>1, <1>2, PathsBelow
  <2>. QED
    BY <1>1, <1>4, <2>1, PrefixLawsHold DEF OnStack, PrefixLaws
<1>6. p \in DOMAIN before /\ p \in DOMAIN listing /\ listing[p] = before[p]
  BY <1>5 DEF Intact
<1>7. /\ pc' = "list" /\ result' = result /\ scan'.dir = p /\ scan'.gone = FALSE /\ scan'.cookie = 0
  <2>1. TypeOf(p) = "directory"
    BY <1>1, <1>6, WhatIsThere DEF TypeOf
  <2>. QED
    BY <1>2, <2>1, ScanTypes DEF RmPops
<1>8. PICK n \in Nat : n = Len(post)
  BY <1>1, LenProperties
<1>9. PICK g : g = Append(post, p)
  OBVIOUS
<1>10. /\ stack' = f /\ post' = g /\ g \in Seq(Seq(Name)) /\ Len(g) = n + 1 /\ g[n + 1] = p
       /\ \A k \in 1..n : g[k] = post[k]
       /\ \A q : Has(g, q) <=> Has(post, q) \/ q = p
       /\ ~Has(post, p) /\ Distinct(g)
       /\ g # << >> /\ Last(g) = p
  <2>1. stack' = f /\ post' = g
    BY <1>1, <1>2, <1>3, <1>9
  <2>2. ~Has(post, p)
    BY <1>5
  <2>3. /\ g \in Seq(Seq(Name)) /\ Len(g) = n + 1 /\ g[n + 1] = p /\ \A k \in 1..n : g[k] = post[k]
    BY <1>1, <1>8, <1>9, AppendProperties
  <2>4. (\A q : Has(g, q) <=> Has(post, q) \/ q = p) /\ Distinct(g)
    BY <1>1, <1>9, <2>2, PutOn DEF InPost
  <2>5. g # << >> /\ Last(g) = p
    BY <2>3, EmptySeq DEF Last
  <2>. QED
    BY <2>1, <2>2, <2>3, <2>4, <2>5
<1>11. \A q : Intact(q) => Intact(q)'
  BY <1>1 DEF Intact
<1>12. ASSUME NEW q, Has(f, q)  PROVE ~IsPrefix(q, p)
  <2>. SUFFICES ASSUME IsPrefix(q, p)  PROVE FALSE
    OBVIOUS
  <2>1. q \in Seq(Name) /\ q # p
    BY <1>3, <1>4, <1>12, ElementOfSeq DEF Has
  <2>2. Has(stack, q) /\ \A r : Has(post, r) => ~IsPrefix(q, r)
    BY <1>1, <1>4, <1>12 DEF OnStack
  <2>3. CASE p = src
    <3>1. IsPrefix(src, q)
      BY <1>1, <2>2 DEF Below, Has
    <3>. QED
      BY <1>1, <2>1, <2>3, <3>1, PrefixBothWays
  <2>4. CASE Has(post, Front(p))
    <3>1. p # << >>
      <4>1. src # p => p # << >>
        <5>. SUFFICES ASSUME p = << >>  PROVE src = p
          OBVIOUS
        <5>1. IsPrefix(<< >>, src)
          BY <1>1, PrefixOrder
        <5>. QED
          BY <1>1, <1>5, <5>1, PrefixBothWays
      <4>. QED
        BY <1>1, <4>1
    <3>2. Front(p) \in Seq(Name) /\ Last(p) \in Name /\ p = Child(Front(p), Last(p))
      BY <3>1, PathParts
    <3>3. IsPrefix(q, Front(p))
      BY <2>1, <3>2, PrefixLawsHold DEF PrefixLaws
    <3>. QED
      BY <2>2, <2>4, <3>3
  <2>. QED
    BY <1>5, <2>3, <2>4
<1>13. OnStack'
  <2>1. ASSUME NEW q, Has(f, q)
        PROVE  /\ Intact(q)' /\ (q = src \/ Has(g, Front(q))) /\ \A r : Has(g, r) => ~IsPrefix(q, r)
    <3>1. Has(stack, q)
      BY <1>4, <2>1
    <3>2. Intact(q) /\ (q = src \/ Has(post, Front(q))) /\ \A r : Has(post, r) => ~IsPrefix(q, r)
      BY <1>1, <3>1 DEF OnStack
    <3>. QED
      BY <1>10, <1>11, <1>12, <2>1, <3>2
  <2>. QED
    BY <1>1, <1>4, <1>10, <2>1 DEF OnStack
<1>14. InPost'
  <2>1. ASSUME NEW k \in 1..n + 1  PROVE g[k] \in DOMAIN listing
    <3>1. k \in 1..n \/ k = n + 1
      BY <1>8
    <3>2. \A j \in 1..n : post[j] \in DOMAIN listing
      BY <1>1, <1>8 DEF InPost
    <3>. QED
      BY <1>6, <1>10, <3>1, <3>2
  <2>2. ASSUME NEW k \in 1..n + 1, k < n + 1, NEW e, Has(listing[g[k]], e)
        PROVE  Waits(e, k)'
    <3>1. k \in 1..n /\ n + 1 \in 1..n + 1 /\ g[k] = post[k] /\ ~Opened
      BY <1>1, <1>10, <2>2 DEF Opened
    <3>2. Waits(e, k)
      BY <1>1, <1>8, <2>2, <3>1 DEF InPost
    <3>3. CASE Has(stack, Child(post[k], e.name))
      <4>1. Has(f, Child(g[k], e.name)) \/ g[n + 1] = Child(g[k], e.name)
        BY <1>4, <1>10, <3>1, <3>3
      <4>. QED
        BY <1>10, <2>2, <3>1, <3>2, <4>1 DEF Waits
    <3>4. CASE \E m \in 1..Len(post) : k < m /\ post[m] = Child(post[k], e.name)
      <4>1. PICK m \in 1..n : k < m /\ post[m] = Child(post[k], e.name)
        BY <1>8, <3>4
      <4>2. m \in 1..n + 1 /\ g[m] = Child(g[k], e.name)
        BY <1>10, <3>1, <4>1
      <4>. QED
        BY <1>10, <3>2, <4>1, <4>2 DEF Waits
    <3>. QED
      BY <3>2, <3>3, <3>4 DEF Waits
  <2>3. Opened'
    BY <1>7 DEF Opened
  <2>. QED
    BY <1>1, <1>10, <2>1, <2>2, <2>3 DEF InPost
<1>15. InScan'
  <2>1. PICK s \in Seq(Entry) : s = before[p] /\ Unique(s)
    BY <1>1, <1>6 DEF IsTree
  <2>2. Left' = s
    BY <1>1, <1>7, <2>1 DEF Left
  <2>3. \A q : Has(g, q) => q = p \/ ~IsPrefix(p, q)
    BY <1>5, <1>10
  <2>4. ASSUME NEW e, Has(s, e)  PROVE Fresh(e)'
    <3>1. e \in Entry
      BY <2>1, <2>4, ElementOfSeq DEF Has
    <3>2. Has(before[p], e) /\ Has(listing[p], e)
      BY <1>6, <2>1, <2>4
    <3>3. ASSUME e.type = "directory"
          PROVE  Intact(Child(p, e.name)) /\ ~Has(f, Child(p, e.name))
      <4>1. e.name \in Name /\ e = Dir(e.name)
        BY <3>1, <3>3 DEF Entry, Dir
      <4>2. PICK c \in Seq(Name) : c = Child(p, e.name) /\ c # << >> /\ Front(c) = p
        BY <4>1, PathLawsHold DEF PathLaws
      <4>3. IsPrefix(p, c) /\ ~IsPrefix(c, p)
        BY <4>1, <4>2, ChildIsBelow
      <4>4. c \in DOMAIN before
        BY <1>1, <1>6, <3>2, <4>1, <4>2 DEF IsTree
      <4>5. Intact(c)
        <5>1. \A d \in DOMAIN before : IsPrefix(c, d) => IsPrefix(p, d)
          BY <1>1, <4>2, <4>3, PrefixLawsHold DEF PrefixLaws, IsTree
        <5>. QED
          BY <1>5, <4>4, <5>1 DEF Intact
      <4>6. ~Has(f, c)
        <5>. SUFFICES ASSUME Has(f, c)  PROVE FALSE
          OBVIOUS
        <5>1. c = src \/ Has(post, Front(c))
          BY <1>1, <1>4 DEF OnStack
        <5>2. c # src
          BY <1>5, <4>3
        <5>. QED
          BY <1>5, <4>2, <5>1, <5>2
      <4>. QED
        BY <4>2, <4>5, <4>6
    <3>4. e.type = "directory" => Intact(Child(p, e.name))' /\ ~Has(f, Child(p, e.name))
      BY <1>11, <3>3
    <3>5. scan'.dir = p /\ before' = before /\ listing' = listing /\ stack' = f
      BY <1>1, <1>7, <1>10
    <3>6. PICK c : c = Child(p, e.name)
      OBVIOUS
    <3>7. e.type = "directory" => Intact(c)' /\ ~Has(f, c)
      BY <3>4, <3>6
    <3>. QED
      BY <3>2, <3>5, <3>6, <3>7 DEF Fresh
  <2>5. \A e : Has(listing[p], e) => Has(s, e)
    BY <1>6, <2>1
  <2>6. scan'.dir = p /\ ~scan'.gone /\ scan'.cookie = 0 /\ pc' = "list" /\ before' = before /\ listing' = listing
    BY <1>1, <1>7
  <2>8. \A e : Has(Left', e) => Fresh(e)'
    BY <2>2, <2>4
  <2>. QED
    BY <1>6, <1>10, <2>1, <2>2, <2>3, <2>5, <2>6, <2>8 DEF InScan
<1>16. result' # "failed" /\ pc' = "list"
  BY <1>1, <1>7
<1>. QED
  BY <1>13, <1>14, <1>15, <1>16 DEF RmParts

\* What rm reads of the open directory: all of it, and then nothing.
LEMMA ReadsAlone ==
    ASSUME RmStep, pc = "list"
    PROVE  /\ OnStack /\ InPost /\ InScan /\ page = << >>
           /\ \/ scan.cookie = 0 /\ WholeOf(Rest) = before[scan.dir] /\ Left = before[scan.dir]
              \/ WholeOf(Rest) = << >> /\ (scan.cookie = 0 => Len(listing[scan.dir]) = 0)
           /\ scan.dir \in Seq(Name) /\ IsPrefix(src, scan.dir)
           /\ listing[scan.dir] \in Seq(Entry) /\ before[scan.dir] \in Seq(Entry)
           /\ scan.dir \in DOMAIN listing
<1>1. /\ OnStack /\ InPost /\ InScan /\ page = << >> /\ scan.dir \in DOMAIN before /\ ~scan.gone
      /\ scan.dir \in DOMAIN listing /\ scan.cookie \in Nat
  BY DEF RmStep, RmParts, Opened, InScan, WInv, Typed, Control, Trees
<1>2. PICK d \in DOMAIN before : d = scan.dir
  BY <1>1
<1>3. d \in Seq(Name) /\ IsPrefix(src, d) /\ before[d] \in Seq(Entry) /\ listing[d] \in Seq(Entry)
  BY <1>1, <1>2 DEF RmStep, Alone, WInv, Inside, Trees, IsTree
<1>4. PICK t \in Seq(Entry), k \in Nat : t = listing[d] /\ k = scan.cookie
  BY <1>1, <1>3
<1>5. Rest = SubSeq(t, k + 1, Len(t)) /\ Len(t) \in Nat
  BY <1>1, <1>2, <1>4, LenProperties DEF Rest, Skipped
<1>6. CASE k = 0 /\ t = before[d]
  <2>1. Rest = t
    <3>1. k + 1 = 1
      BY <1>6
    <3>. QED
      BY <1>5, <3>1, SubSeqFull
  <2>2. WholeOf(before[d]) = before[d]
    BY <1>3 DEF RmStep, Alone
  <2>. QED
    BY <1>1, <1>2, <1>3, <1>4, <1>6, <2>1, <2>2 DEF Left
<1>7. CASE k >= Len(t)
  <2>1. Rest = << >>
    <3>1. /\ SubSeq(t, k + 1, Len(t)) \in Seq(Entry)
          /\ Len(SubSeq(t, k + 1, Len(t))) = IF k + 1 <= Len(t) THEN Len(t) - (k + 1) + 1 ELSE 0
      <4>1. k + 1 \in Int /\ Len(t) \in Int /\ \A i \in k + 1..Len(t) : t[i] \in Entry
        BY <1>5, <1>7
      <4>. QED
        BY <4>1, SubSeqProperties
    <3>2. Len(SubSeq(t, k + 1, Len(t))) = 0
      BY <1>5, <1>7, <3>1
    <3>. QED
      BY <1>5, <3>1, <3>2, EmptySeq
  <2>2. WholeOf(<< >>) = << >>
    <3>1. << >> \in Seq(Entry)
      OBVIOUS
    <3>2. WholeOf(<< >>) \in Seq(Entry) /\ IsPrefix(WholeOf(<< >>), << >>)
      BY <3>1, WholePart
    <3>3. Len(WholeOf(<< >>)) <= Len(<< >>) /\ Len(<< >>) = 0 /\ Len(WholeOf(<< >>)) \in Nat
      BY <3>1, <3>2, PrefixNames, LenProperties
    <3>4. Len(WholeOf(<< >>)) = 0
      BY <3>3
    <3>. QED
      BY <3>2, <3>4, EmptySeq
  <2>3. k = 0 => Len(t) = 0
    BY <1>5, <1>7
  <2>. QED
    BY <1>1, <1>2, <1>3, <1>4, <2>1, <2>2, <2>3
<1>8. (k = 0 /\ t = before[d]) \/ k >= Len(t)
  BY <1>1, <1>2, <1>4 DEF InScan
<1>. QED
  BY <1>6, <1>7, <1>8

LEMMA ListsAlone ==
    ASSUME RmStep, Lists
    PROVE  RmParts'
<1>1. /\ pc = "list" /\ WholeOf(Rest) # << >> /\ page' = WholeOf(Rest) /\ pc' = "entry"
      /\ UNCHANGED <<listing, operands, stack, post, scan, result>>
  BY DEF Lists, NothingWhole, Untouched
<1>2. /\ OnStack /\ InPost /\ InScan /\ scan.cookie = 0 /\ page' = before[scan.dir] /\ Left = before[scan.dir]
      /\ listing[scan.dir] \in Seq(Entry) /\ before[scan.dir] \in Seq(Entry)
  BY <1>1, ReadsAlone
<1>3. Opened /\ Opened' /\ result # "failed" /\ before' = before /\ src' = src
  BY <1>1 DEF Opened, RmStep, RmParts, operands
<1>4. OnStack'
  BY <1>1, <1>2, <1>3 DEF OnStack, Intact
<1>5. InPost'
  BY <1>1, <1>2, <1>3 DEF InPost, Waits
<1>6. InScan'
  <2>1. Left' = Left
    BY <1>1, <1>2, <1>3 DEF Left
  <2>2. \A e : Fresh(e) => Fresh(e)'
    BY <1>1, <1>3 DEF Fresh, Intact
  <2>3. scan.cookie + Len(page') >= Len(listing[scan.dir])
    <3>1. listing[scan.dir] = before[scan.dir] \/ scan.cookie >= Len(listing[scan.dir])
      BY <1>1, <1>2 DEF InScan
    <3>2. Len(listing[scan.dir]) \in Nat /\ Len(before[scan.dir]) \in Nat
      BY <1>2, LenProperties
    <3>. QED
      BY <1>2, <3>1, <3>2
  <2>4. scan' = scan /\ listing' = listing /\ pc' = "entry" /\ post' = post /\ stack' = stack
    BY <1>1
  <2>5. /\ ~scan.gone /\ post # << >> /\ scan.dir = Last(post) /\ scan.dir \in DOMAIN before
        /\ \A q : Has(post, q) => q = scan.dir \/ ~IsPrefix(scan.dir, q)
        /\ Unique(Left)
        /\ \A e : Has(Left, e) => Fresh(e)
        /\ \A e : Has(listing[scan.dir], e) =>
                     Has(Left, e) \/ (e.type = "directory" /\ Has(stack, Child(scan.dir, e.name)))
    BY <1>2 DEF InScan
  <2>. QED
    BY <1>3, <2>1, <2>2, <2>3, <2>4, <2>5 DEF InScan
<1>. QED
  BY <1>1, <1>3, <1>4, <1>5, <1>6 DEF RmParts

LEMMA ListsNoneAlone ==
    ASSUME RmStep, ListsNone
    PROVE  RmParts'
<1>1. /\ pc = "list" /\ WholeOf(Rest) = << >> /\ pc' = "pop"
      /\ UNCHANGED <<listing, operands, stack, post, page, result>>
  BY DEF ListsNone, NothingWhole, Untouched, RmStep, Alone
<1>2. /\ OnStack /\ InPost /\ InScan /\ page = << >> /\ listing[scan.dir] \in Seq(Entry)
      /\ before[scan.dir] \in Seq(Entry)
      /\ (scan.cookie = 0 => Left = << >> \/ Len(listing[scan.dir]) = 0)
  BY <1>1, ReadsAlone
<1>3. Opened /\ ~Opened' /\ result # "failed" /\ before' = before /\ src' = src
  BY <1>1 DEF Opened, RmStep, RmParts, operands
<1>4. OnStack'
  BY <1>1, <1>2, <1>3 DEF OnStack, Intact
<1>5. PICK n \in Nat \ {0} : n = Len(post)
  BY <1>2, EmptySeq, LenProperties DEF InScan, RmStep, WInv, Typed
<1>6. post[n] = scan.dir
  BY <1>2, <1>5 DEF InScan, Last
<1>7. ASSUME NEW e, Has(listing[scan.dir], e)
      PROVE  e.type = "directory" /\ Has(stack, Child(scan.dir, e.name))
  <2>1. ~Has(<< >>, e)
    BY DEF Has
  <2>2. Len(listing[scan.dir]) # 0
    BY <1>7 DEF Has
  <2>3. Left = << >>
    BY <1>2, <2>2 DEF Left
  <2>. QED
    BY <1>2, <1>7, <2>1, <2>3 DEF InScan
<1>8. InPost'
  <2>1. ASSUME NEW k \in 1..n, NEW e, Has(listing[post[k]], e)
        PROVE  Waits(e, k)
    <3>1. CASE k < n
      BY <1>2, <1>5, <2>1, <3>1 DEF InPost
    <3>2. CASE ~(k < n)
      <4>1. k = n
        BY <3>2
      <4>. QED
        BY <1>6, <1>7, <2>1, <4>1 DEF Waits
    <3>. QED
      BY <3>1, <3>2
  <2>2. \A e : \A k \in 1..n : Waits(e, k) => Waits(e, k)'
    BY <1>1 DEF Waits
  <2>. QED
    BY <1>1, <1>2, <1>5, <2>1, <2>2 DEF InPost
<1>. QED
  BY <1>1, <1>3, <1>4, <1>8 DEF RmParts, Opened

\* The next entry, when the one at hand has been dealt with.
LEMMA TurnsAlone ==
    ASSUME RmStep, pc = "entry", page # << >>, Advances
    PROVE  /\ OnStack /\ InPost /\ InScan /\ Opened /\ Opened' /\ (pc' = "list" \/ pc' = "entry")
           /\ page' = Tail(page) /\ Left = page /\ Left' = Tail(page)
           /\ scan'.dir = scan.dir /\ scan'.gone = scan.gone /\ scan'.cookie = scan.cookie + 1
           /\ scan.cookie \in Nat /\ Len(page) \in Nat /\ Len(Tail(page)) = Len(page) - 1
           /\ pc' = "list" => Len(page) = 1
           /\ Unique(Tail(page))
           /\ \A e : Has(page, e) <=> e = Head(page) \/ Has(Tail(page), e)
           /\ \A e : Has(Tail(page), e) => e \in Entry /\ e.name # Head(page).name
           /\ Fresh(Head(page))
<1>1. OnStack /\ InPost /\ InScan /\ Opened
  BY DEF RmStep, RmParts, Opened
<1>2. page \in Seq(Entry) /\ scan \in [dir : Seq(Name), gone : BOOLEAN, cookie : Nat]
  BY DEF RmStep, WInv, Typed
<1>3. /\ page' = Tail(page) /\ pc' = (IF Len(page) = 1 THEN "list" ELSE "entry")
      /\ scan'.dir = scan.dir /\ scan'.gone = scan.gone /\ scan'.cookie = scan.cookie + 1
      /\ scan.cookie \in Nat
  <2>1. scan' = [scan EXCEPT !.cookie = @ + 1] /\ 1 \in Nat
    BY DEF Advances
  <2>. QED
    BY <1>2, <2>1, ScanTypes DEF Advances
<1>4. Left = page /\ Left' = Tail(page)
  <2>1. scan'.cookie # 0
    BY <1>3
  <2>. QED
    BY <1>3, <2>1 DEF Left
<1>5. PICK h, t : h = Head(page) /\ t = Tail(page)
  OBVIOUS
<1>6. PICK n \in Nat \ {0} : n = Len(page)
  BY <1>2, EmptySeq, LenProperties
<1>7. t \in Seq(Entry) /\ Len(t) = n - 1 /\ (\A j \in 1..n - 1 : t[j] = page[j + 1]) /\ page[1] = h
  BY <1>2, <1>5, <1>6, HeadTailProperties
<1>8. \A i \in 1..n : i = 1 \/ i - 1 \in 1..n - 1
  BY <1>6
<1>9. \A j \in 1..n - 1 : j + 1 \in 1..n /\ j + 1 # 1
  BY <1>6
<1>10. \A e : Has(page, e) <=> e = h \/ Has(t, e)
  <2>1. ASSUME NEW e, Has(page, e)  PROVE e = h \/ Has(t, e)
    <3>1. PICK i \in 1..n : page[i] = e
      BY <1>6, <2>1 DEF Has
    <3>2. CASE i = 1
      BY <1>7, <3>1, <3>2
    <3>3. CASE i - 1 \in 1..n - 1
      <4>1. (i - 1) + 1 = i
        BY <1>6
      <4>2. t[i - 1] = e
        BY <1>7, <3>1, <3>3, <4>1
      <4>. QED
        BY <1>7, <3>3, <4>2 DEF Has
    <3>. QED
      BY <1>8, <3>2, <3>3
  <2>2. ASSUME NEW e, Has(t, e)  PROVE Has(page, e)
    BY <1>6, <1>7, <1>9, <2>2 DEF Has
  <2>3. Has(page, h)
    <3>1. 1 \in 1..n
      BY <1>6
    <3>. QED
      BY <1>6, <1>7, <3>1 DEF Has
  <2>. QED
    BY <2>1, <2>2, <2>3
<1>11. Unique(page)
  BY <1>1, <1>4 DEF InScan
<1>12. Unique(t)
  <2>. SUFFICES ASSUME NEW i \in 1..n - 1, NEW j \in 1..n - 1, t[i].name = t[j].name  PROVE i = j
    BY <1>7 DEF Unique
  <2>1. i + 1 = j + 1
    BY <1>6, <1>7, <1>9, <1>11 DEF Unique
  <2>. QED
    BY <2>1
<1>13. ASSUME NEW e, Has(t, e)  PROVE e \in Entry /\ e.name # h.name
  <2>1. PICK j \in 1..n - 1 : t[j] = e
    BY <1>7, <1>13 DEF Has
  <2>2. e \in Entry
    BY <1>7, <2>1, ElementOfSeq
  <2>3. page[j + 1] = e /\ j + 1 \in 1..n /\ j + 1 # 1 /\ 1 \in 1..n
    BY <1>6, <1>7, <1>9, <2>1
  <2>. QED
    BY <1>6, <1>7, <1>11, <2>2, <2>3 DEF Unique
<1>14. Fresh(h)
  BY <1>1, <1>4, <1>10 DEF InScan
<1>15. Opened' /\ (pc' = "list" \/ pc' = "entry") /\ (pc' = "list" => n = 1)
  BY <1>3, <1>6 DEF Opened
<1>. QED
  BY <1>1, <1>3, <1>4, <1>5, <1>6, <1>7, <1>10, <1>12, <1>13, <1>14, <1>15

\* It leaves the rest of the open directory as it was.
LEMMA ScanAlone ==
    ASSUME RmStep, pc = "entry", page # << >>, Advances, post' = post,
           Len(listing'[scan.dir]) \in Nat, Len(listing[scan.dir]) \in Nat,
           Len(listing'[scan.dir]) <= Len(listing[scan.dir]),
           \A e : Has(listing'[scan.dir], e) =>
                     /\ Has(listing[scan.dir], e)
                     /\ e = Head(page) => e.type = "directory" /\ Has(stack', Current),
           \A e : Has(listing[scan.dir], e) /\ e # Head(page) => Has(listing'[scan.dir], e),
           \A p : Has(stack, p) => Has(stack', p),
           \A p : Has(stack', p) => Has(stack, p) \/ p = Current,
           \A p \in Seq(Name) : Intact(p) /\ ~IsPrefix(p, scan.dir) => Intact(p)'
    PROVE  InScan'
<1>1. PICK d \in Seq(Name) : d = scan.dir
  BY DEF RmStep, WInv, Typed
<1>2. /\ before' = before /\ d \in DOMAIN before /\ InScan /\ scan'.dir = d /\ scan'.gone = scan.gone
      /\ (pc' = "list" \/ pc' = "entry") /\ Left = page /\ Left' = Tail(page) /\ page' = Tail(page)
  <2>1. before' = before
    BY DEF RmStep, operands
  <2>. QED
    BY <1>1, <2>1, TurnsAlone DEF InScan
<1>3. PICK h : h = Head(page)
  OBVIOUS
<1>4. h.name \in Name /\ Current = Child(d, h.name)
  BY <1>1, <1>3, AtHand DEF RmStep, Current
<1>5. ASSUME NEW e, Has(Tail(page), e)  PROVE Fresh(e)'
  <2>1. e \in Entry /\ e.name # h.name /\ Fresh(e)
    <3>1. Has(page, e)
      BY <1>5, TurnsAlone
    <3>. QED
      BY <1>2, <1>3, <1>5, <3>1, TurnsAlone DEF InScan
  <2>2. e.name \in Name /\ Has(before[d], e) /\ Has(listing'[d], e)
    BY <1>1, <1>3, <2>1 DEF Fresh, Entry
  <2>3. PICK c \in Seq(Name) : c = Child(d, e.name) /\ ~IsPrefix(c, d) /\ c # Current
    <3>1. Child(d, e.name) \in Seq(Name) /\ Last(Child(d, e.name)) = e.name /\ Last(Child(d, h.name)) = h.name
      BY <1>4, <2>2, PathLawsHold DEF PathLaws
    <3>2. ~IsPrefix(Child(d, e.name), d)
      BY <2>2, ChildIsBelow
    <3>. QED
      BY <1>4, <2>1, <3>1, <3>2
  <2>4. e.type = "directory" => Intact(c) /\ ~Has(stack, c)
    BY <1>1, <2>1, <2>3 DEF Fresh
  <2>5. e.type = "directory" => Intact(c)' /\ ~Has(stack', c)
    BY <1>1, <2>3, <2>4
  <2>. QED
    BY <1>2, <2>2, <2>3, <2>5 DEF Fresh
<1>6. ASSUME NEW e, Has(listing'[d], e)
      PROVE  Has(Tail(page), e) \/ (e.type = "directory" /\ Has(stack', Child(d, e.name)))
  <2>1. Has(listing[d], e) /\ (e = h => e.type = "directory" /\ Has(stack', Current))
    BY <1>1, <1>3, <1>6
  <2>2. Has(page, e) \/ (e.type = "directory" /\ Has(stack, Child(d, e.name)))
    BY <1>1, <1>2, <2>1 DEF InScan
  <2>3. Has(page, e) => e = h \/ Has(Tail(page), e)
    BY <1>3, TurnsAlone
  <2>4. PICK c : c = Child(d, e.name)
    OBVIOUS
  <2>5. e = h => Has(stack', c)
    BY <1>4, <2>1, <2>4
  <2>6. Has(stack, c) => Has(stack', c)
    OBVIOUS
  <2>. QED
    BY <2>1, <2>2, <2>3, <2>4, <2>5, <2>6
<1>7. /\ pc' = "list" => scan'.cookie >= Len(listing'[d])
      /\ pc' = "entry" => scan'.cookie + Len(page') >= Len(listing'[d])
  <2>1. PICK a \in Nat, k \in Nat, l \in Nat, m \in Nat :
           a = Len(page) /\ k = scan.cookie /\ l = Len(listing[d]) /\ m = Len(listing'[d])
    BY <1>1, TurnsAlone
  <2>2. k + a >= l
    BY <1>1, <1>2, <2>1 DEF InScan
  <2>3. m <= l /\ scan'.cookie = k + 1 /\ Len(page') = a - 1 /\ (pc' = "list" => a = 1)
    BY <1>1, <1>2, <2>1, TurnsAlone
  <2>4. (k + 1) + (a - 1) >= m /\ (a = 1 => k + 1 >= m)
    <3>1. k + a >= m
      BY <2>2, <2>3
    <3>. QED
      BY <3>1
  <2>. QED
    BY <2>1, <2>3, <2>4
<1>8. Unique(Left') /\ \A e : Has(Left', e) => Fresh(e)'
  BY <1>2, <1>5, TurnsAlone
<1>9. ~scan.gone /\ post # << >> /\ d = Last(post) /\ \A q : Has(post, q) => q = d \/ ~IsPrefix(d, q)
  BY <1>1, <1>2 DEF InScan
<1>. QED
  BY <1>2, <1>6, <1>7, <1>8, <1>9 DEF InScan

LEMMA PushesAlone ==
    ASSUME RmStep, Pushes
    PROVE  RmParts'
<1>1. /\ pc = "entry" /\ page # << >> /\ Head(page).type = "directory" /\ Advances
      /\ stack' = Append(stack, Current) /\ post' = post /\ listing' = listing /\ result' = result
      /\ before' = before /\ src' = src /\ result # "failed"
      /\ stack \in Seq(Seq(Name)) /\ post \in Seq(Seq(Name)) /\ scan.dir \in Seq(Name)
  BY DEF Pushes, AtEntry, Untouched, RmStep, RmParts, WInv, Typed, operands
<1>2. /\ OnStack /\ InPost /\ InScan /\ Opened /\ Opened' /\ Fresh(Head(page))
      /\ (pc' = "list" \/ pc' = "entry")
  BY <1>1, TurnsAlone
<1>3. PICK c \in Seq(Name) : c = Current /\ c # << >> /\ Front(c) = scan.dir
  BY <1>1, AtHand DEF RmStep
<1>4. Current = Child(scan.dir, Head(page).name) /\ Head(page).name \in Name
  BY <1>1, AtHand DEF RmStep, Current
<1>5. Intact(c) /\ ~Has(stack, c) /\ ~IsPrefix(c, scan.dir)
  BY <1>1, <1>2, <1>3, <1>4, ChildIsBelow DEF Fresh
<1>6. PICK u : u = Append(stack, c)
  OBVIOUS
<1>7. stack' = u /\ (\A p : Has(u, p) <=> Has(stack, p) \/ p = c) /\ Distinct(u)
  BY <1>1, <1>2, <1>3, <1>5, <1>6, PutOn DEF OnStack
<1>8. \A q : Intact(q) => Intact(q)'
  BY <1>1 DEF Intact
<1>9. Has(post, scan.dir) /\ \A q : Has(post, q) => ~IsPrefix(c, q)
  <2>1. post # << >> /\ scan.dir = Last(post) /\ \A q : Has(post, q) => q = scan.dir \/ ~IsPrefix(scan.dir, q)
    BY <1>2 DEF InScan
  <2>2. Has(post, scan.dir)
    BY <1>1, <2>1, TakenOff
  <2>3. ASSUME NEW q, Has(post, q), IsPrefix(c, q)  PROVE FALSE
    <3>1. q \in Seq(Name)
      BY <1>1, <2>3, ElementOfSeq DEF Has
    <3>2. IsPrefix(scan.dir, c)
      BY <1>3, <1>4, <1>1, ChildIsBelow
    <3>3. IsPrefix(scan.dir, q)
      BY <1>1, <2>3, <3>1, <3>2, PrefixLawsHold DEF PrefixLaws
    <3>. QED
      BY <1>5, <2>1, <2>3, <3>3
  <2>. QED
    BY <2>2, <2>3
<1>10. OnStack'
  <2>1. ASSUME NEW p, Has(u, p)
        PROVE  /\ Intact(p)' /\ (p = src \/ Has(post, Front(p))) /\ \A q : Has(post, q) => ~IsPrefix(p, q)
    <3>1. CASE Has(stack, p)
      BY <1>2, <1>8, <3>1 DEF OnStack
    <3>2. CASE p = c
      BY <1>3, <1>5, <1>8, <1>9, <3>2
    <3>. QED
      BY <1>7, <2>1, <3>1, <3>2
  <2>. QED
    BY <1>1, <1>7, <2>1 DEF OnStack
<1>11. InPost'
  <2>1. \A e, k : Waits(e, k) => Waits(e, k)'
    BY <1>1, <1>7 DEF Waits
  <2>. QED
    BY <1>1, <1>2, <2>1 DEF InPost
<1>12. InScan'
  <2>1. Len(listing[scan.dir]) \in Nat
    BY <1>2, LenProperties DEF InScan, RmStep, WInv, Trees, IsTree
  <2>2. /\ Len(listing'[scan.dir]) \in Nat /\ Len(listing'[scan.dir]) <= Len(listing[scan.dir])
        /\ \A e : Has(listing'[scan.dir], e) <=> Has(listing[scan.dir], e)
    BY <1>1, <2>1
  <2>3. Has(stack', Current)
    BY <1>3, <1>7
  <2>. QED
    BY <1>1, <1>3, <1>7, <1>8, <2>1, <2>2, <2>3, ScanAlone
<1>. QED
  BY <1>1, <1>2, <1>10, <1>11, <1>12 DEF RmParts

LEMMA UnlinksEntryAlone ==
    ASSUME RmStep, RmUnlinksEntry
    PROVE  RmParts'
<1>1. /\ pc = "entry" /\ page # << >> /\ Head(page).type = "file"
      /\ stack' = stack /\ post' = post /\ before' = before /\ src' = src /\ result # "failed"
      /\ stack \in Seq(Seq(Name)) /\ post \in Seq(Seq(Name)) /\ scan.dir \in Seq(Name)
      /\ IsTree(listing) /\ IsTree(before)
  BY DEF RmUnlinksEntry, AtEntry, RmStep, RmParts, WInv, Typed, Trees, operands
<1>2. OnStack /\ InPost /\ InScan /\ Opened /\ Left = page
  BY <1>1 DEF RmStep, RmParts, Opened, Left
<1>3. PICK c \in Seq(Name) : c = Current /\ c # << >> /\ Front(c) = scan.dir /\ Last(c) = Head(page).name
  BY <1>1, AtHand DEF RmStep
<1>4. PICK h \in Entry : h = Head(page) /\ h = File(Last(c))
  <2>1. Head(page) \in Entry
    BY <1>1, AtHand DEF RmStep
  <2>. QED
    BY <1>1, <1>3, <2>1 DEF Entry, File
<1>5. Has(listing[scan.dir], h) /\ scan.dir \in DOMAIN listing
  <2>1. Has(page, h)
    <3>1. page \in Seq(Entry)
      BY DEF RmStep, WInv, Typed
    <3>2. Len(page) \in Nat /\ Len(page) # 0 /\ Head(page) = page[1]
      BY <1>1, <3>1, EmptySeq, HeadTailProperties, LenProperties
    <3>3. 1 \in 1..Len(page)
      BY <3>2
    <3>. QED
      BY <1>4, <3>2, <3>3 DEF Has
  <2>2. Has(listing[scan.dir], h)
    BY <1>2, <2>1 DEF InScan, Fresh
  <2>. QED
    BY <1>2, <2>2 DEF InScan, RmStep, WInv, Trees
<1>6. TypeIn(listing, c) = "file" /\ c \notin DOMAIN listing
  <2>1. TypeIn(listing, c) = "file"
    BY <1>1, <1>3, <1>4, <1>5, WhatIsThere
  <2>. QED
    BY <1>1, <2>1, WhatIsThere
<1>7. Advances /\ result' = result /\ Shrunk(c)
  <2>1. CanUnlink(Current)
    BY <1>3, <1>6 DEF CanUnlink, TypeOf
  <2>. QED
    BY <1>3, <2>1, RmUnlinksEntryGoes DEF RmStep, RmUnlinksEntry
<1>8. Opened' /\ (pc' = "list" \/ pc' = "entry")
  BY <1>1, <1>7, TurnsAlone
<1>9. /\ DOMAIN listing' = DOMAIN listing
      /\ \A d \in DOMAIN listing : d # scan.dir => listing'[d] = listing[d]
      /\ \A x : Has(listing'[scan.dir], x) <=> /\ Has(listing[scan.dir], x)
                                               /\ x \notin {File(Last(c)), Dir(Last(c))}
      /\ Len(listing'[scan.dir]) = Len(listing[scan.dir]) - 1
  BY <1>3, <1>6, <1>7 DEF Shrunk
<1>10. Has(post, scan.dir)
  <2>1. post # << >> /\ scan.dir = Last(post)
    BY <1>2 DEF InScan
  <2>. QED
    BY <1>1, <2>1, TakenOff
<1>11. ASSUME NEW p, Intact(p), ~IsPrefix(p, scan.dir)  PROVE Intact(p)'
  BY <1>1, <1>9, <1>11 DEF Intact
<1>12. OnStack'
  <2>1. \A p : Has(stack, p) => Intact(p)'
    BY <1>2, <1>10, <1>11 DEF OnStack
  <2>. QED
    BY <1>1, <1>2, <2>1 DEF OnStack
<1>13. InPost'
  <2>1. PICK n \in Nat \ {0} : n = Len(post)
    BY <1>1, <1>2, EmptySeq, LenProperties DEF InScan
  <2>2. post[n] = scan.dir /\ n \in 1..n
    BY <1>2, <2>1 DEF InScan, Last
  <2>3. ASSUME NEW k \in 1..n, k < n  PROVE listing'[post[k]] = listing[post[k]]
    <3>1. post[k] # scan.dir /\ post[k] \in DOMAIN listing
      BY <1>2, <2>1, <2>2, <2>3 DEF InPost, Distinct
    <3>. QED
      BY <1>9, <3>1
  <2>4. \A e, k : Waits(e, k) => Waits(e, k)'
    BY <1>1 DEF Waits
  <2>5. ASSUME NEW k \in 1..n, k < n, NEW e, Has(listing'[post[k]], e)  PROVE Waits(e, k)'
    BY <1>2, <2>1, <2>3, <2>4, <2>5 DEF InPost
  <2>6. Distinct(post) /\ \A k \in 1..n : post[k] \in DOMAIN listing'
    BY <1>2, <1>9, <2>1 DEF InPost
  <2>. QED
    BY <1>1, <1>8, <2>1, <2>5, <2>6 DEF InPost
<1>14. InScan'
  <2>1. /\ Len(listing[scan.dir]) \in Nat /\ Len(listing'[scan.dir]) \in Nat
        /\ Len(listing'[scan.dir]) <= Len(listing[scan.dir])
    <3>1. listing[scan.dir] \in Seq(Entry) /\ listing'[scan.dir] \in Seq(Entry)
      BY <1>5, <1>9 DEF RmStep, WInv, Trees, IsTree
    <3>2. PICK a \in Nat, b \in Nat : a = Len(listing[scan.dir]) /\ b = Len(listing'[scan.dir])
      BY <3>1, LenProperties
    <3>3. b = a - 1
      BY <1>9, <3>2
    <3>4. b <= a
      BY <3>3
    <3>. QED
      BY <3>2, <3>4
  <2>2. \A e : Has(listing'[scan.dir], e) => Has(listing[scan.dir], e) /\ e # Head(page)
    BY <1>4, <1>9
  <2>3. ASSUME NEW e, Has(listing[scan.dir], e), e # Head(page)  PROVE Has(listing'[scan.dir], e)
    <3>1. e # Dir(Last(c))
      <4>. SUFFICES ASSUME e = Dir(Last(c))  PROVE FALSE
        OBVIOUS
      <4>1. TypeIn(listing, c) = "directory"
        BY <1>1, <1>3, <1>5, <2>3, WhatIsThere
      <4>. QED
        BY <1>6, <4>1
    <3>. QED
      BY <1>4, <1>9, <2>3, <3>1
  <2>. QED
    BY <1>1, <1>7, <1>11, <2>1, <2>2, <2>3, ScanAlone
<1>. QED
  BY <1>1, <1>7, <1>8, <1>12, <1>13, <1>14 DEF RmParts

LEMMA RmdirsAlone ==
    ASSUME RmStep, RmRmdirs
    PROVE  RmParts'
<1>1. /\ pc = "pop" /\ stack = << >> /\ stack' = << >> /\ post' = Front(post) /\ post # << >>
      /\ before' = before /\ src' = src /\ result # "failed" /\ post \in Seq(Seq(Name))
      /\ IsTree(listing) /\ IsTree(before) /\ Below(post) /\ src # << >> /\ src \in Seq(Name)
  BY RmRmdirsGoes DEF RmRmdirs, RmStep, RmParts, Alone, WInv, Typed, Trees, Inside, operands
<1>2. OnStack /\ InPost /\ ~Opened
  BY <1>1 DEF RmStep, RmParts, Opened
<1>3. PICK n \in Nat \ {0} : n = Len(post)
  BY <1>1, EmptySeq, LenProperties
<1>4. PICK f : f = Front(post)
  OBVIOUS
<1>5. PICK p \in Seq(Name) : p = Last(post)
  BY RmRmdirsGoes DEF RmStep
<1>6. f \in Seq(Seq(Name)) /\ Len(f) = n - 1 /\ (\A k \in 1..n - 1 : f[k] = post[k]) /\ p = post[n]
  BY <1>1, <1>3, <1>4, <1>5, FrontAndLast
<1>7. n \in 1..n /\ \A k \in 1..n - 1 : k \in 1..n /\ k # n
  BY <1>3
<1>8. ASSUME NEW q  PROVE ~Has(<< >>, q)
  BY DEF Has
<1>9. p \in DOMAIN listing /\ listing[p] \in Seq(Entry) /\ listing[p] = << >>
  <2>1. p \in DOMAIN listing
    BY <1>2, <1>3, <1>6, <1>7 DEF InPost
  <2>2. listing[p] \in Seq(Entry)
    BY <1>1, <2>1 DEF IsTree
  <2>3. Len(listing[p]) = 0
    <3>. SUFFICES ASSUME Len(listing[p]) # 0  PROVE FALSE
      OBVIOUS
    <3>1. Len(listing[p]) \in Nat
      BY <2>2, LenProperties
    <3>2. 1 \in 1..Len(listing[p])
      BY <3>1
    <3>3. PICK e : e = listing[p][1]
      OBVIOUS
    <3>4. Has(listing[post[n]], e)
      BY <1>6, <3>2, <3>3 DEF Has
    <3>5. Waits(e, n)
      BY <1>2, <1>3, <1>7, <3>4 DEF InPost
    <3>6. ~\E m \in 1..n : n < m
      BY <1>3
    <3>. QED
      BY <1>1, <1>3, <1>8, <3>5, <3>6 DEF Waits
  <2>. QED
    BY <2>1, <2>2, <2>3, EmptySeq
<1>10. p # << >> /\ CanRmdir(p)
  <2>1. IsPrefix(src, p)
    BY <1>1, <1>3, <1>6, <1>7 DEF Below
  <2>2. p # << >>
    <3>. SUFFICES ASSUME p = << >>  PROVE FALSE
      OBVIOUS
    <3>1. IsPrefix(p, src)
      BY <1>1, PrefixOrder
    <3>. QED
      BY <1>1, <2>1, <3>1, PrefixBothWays
  <2>3. TypeOf(p) = "directory"
    BY <1>1, <1>9, WhatIsThere DEF TypeOf
  <2>. QED
    BY <1>9, <2>2, <2>3 DEF CanRmdir, Emptied
<1>11. Shrunk(p) /\ (pc' = "pop" \/ pc' = "done") /\ result' # "failed"
  <2>1. Shrunk(p)
    BY <1>5, <1>10, RmRmdirsGoes DEF RmStep
  <2>2. CanRmdir(NextToRemove)
    BY <1>5, <1>10 DEF NextToRemove
  <2>. QED
    BY <1>1, <2>1, <2>2 DEF RmRmdirs, Ends
<1>12. OnStack'
  <2>1. Len(stack') = 0
    BY <1>1
  <2>. QED
    BY <2>1 DEF OnStack, Distinct, Has
<1>13. /\ DOMAIN listing' = DOMAIN listing \ {p}
       /\ \A d \in DOMAIN listing' : \A x : Has(listing'[d], x) =>
             Has(listing[d], x) /\ (d = Front(p) => x # Dir(Last(p)))
  BY <1>11 DEF Shrunk
<1>14. InPost'
  <2>1. ASSUME NEW k \in 1..n - 1  PROVE f[k] \in DOMAIN listing'
    <3>1. k \in 1..n /\ k # n /\ f[k] = post[k]
      BY <1>6, <1>7
    <3>2. post[k] \in DOMAIN listing /\ post[k] # post[n]
      BY <1>2, <1>3, <1>7, <3>1 DEF InPost, Distinct
    <3>. QED
      BY <1>6, <1>13, <3>1, <3>2
  <2>2. Distinct(f)
    BY <1>1, <1>2, <1>4, TakenOff DEF InPost
  <2>3. ASSUME NEW k \in 1..n - 1, NEW e, Has(listing'[f[k]], e)
        PROVE  Waits(e, k)'
    <3>1. Has(listing[post[k]], e) /\ (f[k] = Front(p) => e # Dir(Last(p)))
      BY <1>6, <1>13, <2>1, <2>3
    <3>2. Waits(e, k)
      BY <1>2, <1>3, <1>7, <3>1 DEF InPost
    <3>3. PICK m \in 1..n : k < m /\ post[m] = Child(post[k], e.name)
      BY <1>1, <1>3, <1>8, <3>2 DEF Waits
    <3>4. m # n
      <4>. SUFFICES ASSUME m = n  PROVE FALSE
        OBVIOUS
      <4>1. post[k] \in DOMAIN listing
        BY <1>2, <1>3, <1>7 DEF InPost
      <4>2. post[k] \in Seq(Name) /\ listing[post[k]] \in Seq(Entry)
        BY <1>1, <4>1 DEF IsTree
      <4>3. e \in Entry
        BY <3>1, <4>2, ElementOfSeq DEF Has
      <4>4. e.name \in Name /\ e = Dir(e.name)
        BY <3>2, <4>3 DEF Waits, Entry, Dir
      <4>5. p = Child(post[k], e.name)
        BY <1>6, <3>3
      <4>6. Front(p) = post[k] /\ Last(p) = e.name
        BY <4>2, <4>4, <4>5, PathLawsHold DEF PathLaws
      <4>. QED
        BY <1>6, <3>1, <4>4, <4>6
    <3>5. m \in 1..n - 1
      BY <1>3, <3>3, <3>4
    <3>6. f[m] = Child(f[k], e.name)
      BY <1>6, <3>3, <3>5
    <3>7. Len(post') = n - 1 /\ post' = f
      BY <1>1, <1>4, <1>6
    <3>. QED
      BY <3>2, <3>3, <3>5, <3>6, <3>7 DEF Waits
  <2>. QED
    BY <1>1, <1>4, <1>6, <2>1, <2>2, <2>3 DEF InPost
<1>. QED
  BY <1>11, <1>12, <1>14 DEF RmParts, Opened

LEMMA RmNext ==
    ASSUME WInv, RmInv, Next
    PROVE  RmInv'
<1>. SUFFICES ASSUME Alone'  PROVE RmParts'
  BY DEF RmInv
<1>1. WInv'
  BY NextGoes DEF Goes
<1>2. CASE Commands /\ pc = "idle"
  BY <1>1, <1>2, StartsAlone
<1>3. CASE CommandRuns /\ Alone /\ cmd = "rm" /\ UNCHANGED <<operands>>
  <2>1. RmStep
    BY <1>1, <1>3 DEF RmStep, RmInv
  <2>2. ~Ls /\ ~Cp
    BY <1>3 DEF Ls, LsOpens, LsPrints, Cp, CpProbes, CpMakesDir, CpOpens, CpTakesFile, CpOpensSource,
          CpCopies, CpEnds, AtEntry, WInv, Control
  <2>. QED
    BY <1>3, <2>1, <2>2, UnlinksAlone, PopsAlone, ListsAlone, ListsNoneAlone, PushesAlone,
       UnlinksEntryAlone, RmdirsAlone DEF CommandRuns, Rm
<1>. QED
  BY <1>2, <1>3, AloneRuns

LEMMA RmHolds == Spec => [](WInv /\ RmInv)
<1>1. Init => RmInv
  BY DEF Init, RmInv, Alone
<1>2. WInv /\ RmInv /\ [Next]_vars => RmInv'
  <2>1. WInv /\ RmInv /\ Next => RmInv'
    BY RmNext
  <2>2. ASSUME RmInv, UNCHANGED vars  PROVE RmInv'
    <3>1. UNCHANGED <<listing, others, before, cmd, src, pc, stack, post, scan, page, result>>
      BY <2>2 DEF vars, othersVars, operands, commandVars, walkVars
    <3>2. (Alone' <=> Alone) /\ (Opened' <=> Opened) /\ Left' = Left
      BY <3>1 DEF Alone, Opened, Left
    <3>3. OnStack' <=> OnStack
      BY <3>1 DEF OnStack, Intact
    <3>4. InPost' <=> InPost
      BY <3>1, <3>2 DEF InPost, Waits
    <3>5. InScan' <=> InScan
      <4>1. \A e : Fresh(e)' <=> Fresh(e)
        BY <3>1 DEF Fresh, Intact
      <4>. QED
        BY <3>1, <3>2, <4>1 DEF InScan
    <3>6. RmParts' <=> RmParts
      BY <3>1, <3>2, <3>3, <3>4, <3>5 DEF RmParts
    <3>. QED
      BY <2>2, <3>2, <3>6 DEF RmInv
  <2>. QED
    BY <2>1, <2>2
<1>. QED
  BY <1>1, <1>2, WInvHolds, PTL DEF Spec

\* With nobody else at work rm -r does not fail on a tree each of whose directories fits a
\* page: what it unlinks while it lists is of the page it has read, and each directory is
\* empty when its turn comes (rm/main.zig's removeTree: stack, then post_dirs backwards).
THEOREM RemovesAll == Spec => []RmAlone
<1>1. RmInv => RmAlone
  BY DEF RmInv, Alone, RmParts, RmAlone
<1>. QED
  BY <1>1, RmHolds, PTL
=============================================================================
