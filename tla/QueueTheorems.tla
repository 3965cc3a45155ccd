----------------------------- MODULE QueueTheorems -----------------------------
(* Facts about sequences that hold each entry at most once, as the ready rings *)
(* and the lists of waiters of lib_fiber do.                                   *)
EXTENDS Naturals, Sequences, FiniteSets, FiniteSetTheorems,
        SequenceTheorems, TLAPS

Items(q) == {q[i] : i \in 1 .. Len(q)}
NoTwice(q) == \A i, j \in 1 .. Len(q) : q[i] = q[j] => i = j

\* The empty queue holds nothing.
LEMMA EmptyQueue == Items(<<>>) = {} /\ NoTwice(<<>>)
BY DEF Items, NoTwice

\* What a queue of members of S holds are members of S, and none only if it is
\* empty.
LEMMA ItemsType ==
  ASSUME NEW S, NEW q \in Seq(S)
  PROVE  /\ Items(q) \subseteq S
         /\ q # <<>> => Head(q) \in Items(q)
         /\ q = <<>> <=> Items(q) = {}
<1>1. q # <<>> => Len(q) >= 1 /\ Head(q) = q[1]
  OBVIOUS
<1> QED
  BY <1>1 DEF Items

\* An entry goes to the end of a queue (ring_prepend).
LEMMA AppendItems ==
  ASSUME NEW S, NEW q \in Seq(S), NEW x \in S
  PROVE  /\ Append(q, x) \in Seq(S)
         /\ Items(Append(q, x)) = Items(q) \cup {x}
         /\ NoTwice(q) /\ x \notin Items(q) => NoTwice(Append(q, x))
<1>1. /\ Append(q, x) \in Seq(S) /\ Len(Append(q, x)) = Len(q) + 1
      /\ \A i \in 1 .. Len(q) + 1 :
           Append(q, x)[i] = IF i = Len(q) + 1 THEN x ELSE q[i]
  OBVIOUS
<1>2. Len(q) \in Nat
  OBVIOUS
<1>3. \A i \in 1 .. Len(q) + 1 : i \in 1 .. Len(q) \/ i = Len(q) + 1
  BY <1>2
<1>4. 1 .. Len(q) \subseteq 1 .. Len(q) + 1 /\ Len(q) + 1 \in 1 .. Len(q) + 1
      /\ Len(q) + 1 \notin 1 .. Len(q)
  BY <1>2
<1>5. Items(Append(q, x)) = Items(q) \cup {x}
  <2>1. ASSUME NEW y \in Items(q) \cup {x} PROVE y \in Items(Append(q, x))
    <3>1. CASE y = x
      BY <3>1, <1>1, <1>4 DEF Items
    <3>2. CASE y \in Items(q)
      <4>1. PICK i \in 1 .. Len(q) : y = q[i]
        BY <3>2 DEF Items
      <4> QED
        BY <4>1, <1>1, <1>4 DEF Items
    <3> QED
      BY <2>1, <3>1, <3>2
  <2>2. ASSUME NEW y \in Items(Append(q, x)) PROVE y \in Items(q) \cup {x}
    <3>1. PICK i \in 1 .. Len(q) + 1 : y = Append(q, x)[i]
      BY <1>1 DEF Items
    <3> QED
      BY <3>1, <1>1, <1>3 DEF Items
  <2> QED
    BY <2>1, <2>2
<1>6. ASSUME NoTwice(q), x \notin Items(q) PROVE NoTwice(Append(q, x))
  BY <1>1, <1>3, <1>4, <1>6 DEF Items, NoTwice
<1> QED
  BY <1>1, <1>5, <1>6

\* The first entry leaves a queue (ring_pop_head).
LEMMA TailItems ==
  ASSUME NEW S, NEW q \in Seq(S), q # <<>>
  PROVE  /\ Head(q) \in S /\ Tail(q) \in Seq(S)
         /\ Items(q) = Items(Tail(q)) \cup {Head(q)}
         /\ NoTwice(q) => NoTwice(Tail(q)) /\ Head(q) \notin Items(Tail(q))
<1>1. /\ Head(q) \in S /\ Head(q) = q[1] /\ Tail(q) \in Seq(S)
      /\ Len(q) \in Nat \ {0} /\ Len(Tail(q)) = Len(q) - 1
      /\ \A i \in 1 .. Len(q) - 1 : Tail(q)[i] = q[i + 1]
  OBVIOUS
<1>2. \A i \in 1 .. Len(q) : i = 1 \/ (i - 1 \in 1 .. Len(q) - 1 /\ i = (i - 1) + 1)
  BY <1>1
<1>3. 1 \in 1 .. Len(q) /\ \A i \in 1 .. Len(q) - 1 : i + 1 \in 1 .. Len(q) /\ i + 1 # 1
  BY <1>1
<1>4. Items(q) = Items(Tail(q)) \cup {Head(q)}
  <2>1. ASSUME NEW y \in Items(q) PROVE y \in Items(Tail(q)) \cup {Head(q)}
    <3>1. PICK i \in 1 .. Len(q) : y = q[i]
      BY <2>1 DEF Items
    <3>2. CASE i = 1
      BY <3>1, <3>2, <1>1
    <3>3. CASE i - 1 \in 1 .. Len(q) - 1 /\ i = (i - 1) + 1
      BY <3>1, <3>3, <1>1 DEF Items
    <3> QED
      BY <3>2, <3>3, <1>2
  <2>2. ASSUME NEW y \in Items(Tail(q)) \cup {Head(q)} PROVE y \in Items(q)
    <3>1. CASE y = Head(q)
      BY <3>1, <1>1, <1>3 DEF Items
    <3>2. CASE y \in Items(Tail(q))
      <4>1. PICK i \in 1 .. Len(q) - 1 : y = Tail(q)[i]
        BY <3>2, <1>1 DEF Items
      <4> QED
        BY <4>1, <1>1, <1>3 DEF Items
    <3> QED
      BY <2>2, <3>1, <3>2
  <2> QED
    BY <2>1, <2>2
<1>5. ASSUME NoTwice(q) PROVE NoTwice(Tail(q)) /\ Head(q) \notin Items(Tail(q))
  <2>1. NoTwice(Tail(q))
    <3> SUFFICES ASSUME NEW i \in 1 .. Len(q) - 1, NEW j \in 1 .. Len(q) - 1,
                        Tail(q)[i] = Tail(q)[j]
                 PROVE  i = j
      BY <1>1 DEF NoTwice
    <3>1. i + 1 = j + 1
      BY <1>1, <1>3, <1>5 DEF NoTwice
    <3> QED
      BY <3>1
  <2>2. Head(q) \notin Items(Tail(q))
    BY <1>1, <1>3, <1>5 DEF NoTwice, Items
  <2> QED
    BY <2>1, <2>2
<1> QED
  BY <1>1, <1>4, <1>5

\* An enumeration of a finite set, as the event engine reports it, lists every
\* member once.
LEMMA OrderItems ==
  ASSUME NEW S, IsFiniteSet(S), NEW q \in [1 .. Cardinality(S) -> S],
         \A x \in S : \E i \in 1 .. Cardinality(S) : q[i] = x
  PROVE  q \in Seq(S) /\ Items(q) = S /\ NoTwice(q)
<1> DEFINE n == Cardinality(S)
<1>1. n \in Nat
  BY FS_CardinalityType
<1>2. q \in Seq(S) /\ Len(q) = n
  BY <1>1
<1>3. Items(q) = S
  BY <1>2 DEF Items
<1>4. IsFiniteSet(1 .. n) /\ Cardinality(1 .. n) = n
  BY <1>1, FS_Interval
<1>5. q \in Surjection(1 .. n, S)
  BY DEF Surjection
<1>6. q \in Injection(1 .. n, S)
  BY <1>4, <1>5, FS_SurjSameCardinalityImpliesInj
<1>7. NoTwice(q)
  BY <1>2, <1>6 DEF NoTwice, Injection, IsInjective
<1> QED
  BY <1>2, <1>3, <1>7

\* An entry leaves a queue from wherever it is (ring_detach).
LEMMA RemoveItems ==
  ASSUME NEW S, NEW q \in Seq(S), NoTwice(q), NEW k \in 1 .. Len(q)
  PROVE  LET r == SubSeq(q, 1, k - 1) \o SubSeq(q, k + 1, Len(q))
         IN  /\ r \in Seq(S) /\ Len(r) = Len(q) - 1
             /\ Items(r) = Items(q) \ {q[k]}
             /\ NoTwice(r)
<1> DEFINE n == Len(q)
           a == SubSeq(q, 1, k - 1)
           b == SubSeq(q, k + 1, n)
           r == a \o b
           old(i) == IF i < k THEN i ELSE i + 1
<1>1. n \in Nat /\ k \in Int /\ 1 <= k /\ k <= n
  OBVIOUS
<1>2. a \in Seq(S) /\ Len(a) = k - 1 /\ \A i \in 1 .. k - 1 : a[i] = q[i]
  <2>1. \A i \in 1 .. k - 1 : q[i] \in S
    BY <1>1
  <2> QED
    BY <2>1, <1>1, SubSeqProperties
<1>3. b \in Seq(S) /\ Len(b) = n - k /\ \A i \in 1 .. n - k : b[i] = q[k + i]
  <2>1. \A i \in k + 1 .. n : q[i] \in S
    BY <1>1
  <2> QED
    BY <2>1, <1>1, SubSeqProperties
<1>4. r \in Seq(S) /\ Len(r) = n - 1 /\ \A i \in 1 .. n - 1 : r[i] = q[old(i)]
  <2> HIDE DEF a, b
  <2>1. /\ r \in Seq(S) /\ Len(r) = Len(a) + Len(b)
        /\ \A i \in 1 .. Len(a) + Len(b) :
             r[i] = IF i <= Len(a) THEN a[i] ELSE b[i - Len(a)]
    BY <1>2, <1>3, ConcatProperties
  <2>2. Len(a) + Len(b) = n - 1 /\ Len(a) = k - 1
    BY <1>1, <1>2, <1>3
  <2>3. ASSUME NEW i \in 1 .. n - 1 PROVE r[i] = q[old(i)]
    <3>1. r[i] = IF i <= k - 1 THEN a[i] ELSE b[i - (k - 1)]
      BY <2>1, <2>2
    <3>2. CASE i <= k - 1
      BY <3>1, <3>2, <1>1, <1>2
    <3>3. CASE i > k - 1
      <4>1. i - (k - 1) \in 1 .. n - k /\ k + (i - (k - 1)) = i + 1
        BY <3>3, <1>1
      <4>2. b[i - (k - 1)] = q[i + 1]
        BY <4>1, <1>3
      <4> QED
        BY <4>2, <3>1, <3>3, <1>1
    <3>4. i <= k - 1 \/ i > k - 1
      BY <1>1
    <3> QED
      BY <3>2, <3>3, <3>4
  <2> QED
    BY <2>1, <2>2, <2>3
<1>5. /\ \A i \in 1 .. n - 1 : old(i) \in 1 .. n /\ old(i) # k
      /\ \A i, j \in 1 .. n - 1 : old(i) = old(j) => i = j
      /\ \A j \in 1 .. n : j # k => \E i \in 1 .. n - 1 : old(i) = j
  <2>1. \A j \in 1 .. n : j # k => \/ j \in 1 .. n - 1 /\ old(j) = j
                                   \/ j - 1 \in 1 .. n - 1 /\ old(j - 1) = j
    BY <1>1
  <2> QED
    BY <1>1, <2>1
<1> HIDE DEF n, a, b, r, old
<1>6. Items(r) = Items(q) \ {q[k]}
  <2>1. ASSUME NEW x \in Items(r) PROVE x \in Items(q) \ {q[k]}
    <3>1. PICK i \in 1 .. n - 1 : x = r[i]
      BY <1>4 DEF Items
    <3>2. x = q[old(i)] /\ old(i) \in 1 .. n /\ old(i) # k
      BY <3>1, <1>4, <1>5
    <3> QED
      BY <3>2, <1>1 DEF Items, NoTwice, n
  <2>2. ASSUME NEW x \in Items(q) \ {q[k]} PROVE x \in Items(r)
    <3>1. PICK j \in 1 .. n : x = q[j] /\ j # k
      BY DEF Items, n
    <3>2. PICK i \in 1 .. n - 1 : old(i) = j
      BY <3>1, <1>5
    <3> QED
      BY <3>1, <3>2, <1>4 DEF Items
  <2> QED
    BY <2>1, <2>2
<1>7. NoTwice(r)
  BY <1>4, <1>5 DEF NoTwice, n
<1> QED
  BY <1>4, <1>6, <1>7 DEF n, a, b, r

\* One queue is put behind another (ring_append of all that wait).
LEMMA ConcatItems ==
  ASSUME NEW S, NEW q \in Seq(S), NEW r \in Seq(S)
  PROVE  /\ q \o r \in Seq(S)
         /\ Items(q \o r) = Items(q) \cup Items(r)
         /\ NoTwice(q) /\ NoTwice(r) /\ Items(q) \cap Items(r) = {} => NoTwice(q \o r)
<1> DEFINE m == Len(q)
           n == Len(r)
           s == q \o r
<1>1. m \in Nat /\ n \in Nat
  OBVIOUS
<1>2. /\ s \in Seq(S) /\ Len(s) = m + n
      /\ \A i \in 1 .. m + n : s[i] = IF i <= m THEN q[i] ELSE r[i - m]
  BY ConcatProperties
<1>3. /\ \A i \in 1 .. m : i \in 1 .. m + n /\ i <= m
      /\ \A i \in 1 .. n : (m + i \in 1 .. m + n) /\ m + i > m /\ (m + i) - m = i
      /\ \A i \in 1 .. m + n : i \in 1 .. m \/ (~(i <= m) /\ i - m \in 1 .. n)
      /\ \A i, j \in 1 .. m + n : i - m = j - m => i = j
  BY <1>1
<1> HIDE DEF m, n, s
<1>4. Items(s) = Items(q) \cup Items(r)
  <2>1. ASSUME NEW x \in Items(s) PROVE x \in Items(q) \cup Items(r)
    <3>1. PICK i \in 1 .. m + n : x = s[i]
      BY <1>2 DEF Items
    <3> QED
      BY <3>1, <1>2, <1>3 DEF Items, m, n
  <2>2. ASSUME NEW x \in Items(q) PROVE x \in Items(s)
    <3>1. PICK i \in 1 .. m : x = q[i]
      BY DEF Items, m
    <3> QED
      BY <3>1, <1>2, <1>3 DEF Items
  <2>3. ASSUME NEW x \in Items(r) PROVE x \in Items(s)
    <3>1. PICK i \in 1 .. n : x = r[i]
      BY DEF Items, n
    <3>2. x = s[m + i] /\ m + i \in 1 .. m + n
      BY <3>1, <1>1, <1>2, <1>3
    <3> QED
      BY <3>2, <1>2 DEF Items
  <2> QED
    BY <2>1, <2>2, <2>3
<1>5. ASSUME NoTwice(q), NoTwice(r), Items(q) \cap Items(r) = {} PROVE NoTwice(s)
  <2> SUFFICES ASSUME NEW i \in 1 .. m + n, NEW j \in 1 .. m + n, s[i] = s[j]
               PROVE  i = j
    BY <1>2 DEF NoTwice
  <2>1. CASE i <= m /\ j <= m
    BY <2>1, <1>2, <1>3, <1>5 DEF NoTwice, m
  <2>2. CASE ~(i <= m) /\ ~(j <= m)
    BY <2>2, <1>2, <1>3, <1>5 DEF NoTwice, n
  <2>0. /\ i <= m => s[i] \in Items(q)
        /\ ~(i <= m) => s[i] \in Items(r)
        /\ j <= m => s[j] \in Items(q)
        /\ ~(j <= m) => s[j] \in Items(r)
    BY ZenonT(30), <1>2, <1>3 DEF Items, m, n
  <2>3. CASE i <= m /\ ~(j <= m)
    BY <2>0, <2>3, <1>5
  <2>4. CASE ~(i <= m) /\ j <= m
    BY <2>0, <2>4, <1>5
  <2> QED
    BY <2>1, <2>2, <2>3, <2>4
<1> QED
  BY <1>2, <1>4, <1>5 DEF m, n, s

\* A queue without repetitions has as many entries as it is long.
LEMMA CountItems ==
  ASSUME NEW S, NEW q \in Seq(S), NoTwice(q)
  PROVE  IsFiniteSet(Items(q)) /\ Cardinality(Items(q)) = Len(q)
<1>1. Len(q) \in Nat /\ q \in [1 .. Len(q) -> S]
  OBVIOUS
<1>2. IsFiniteSet(1 .. Len(q)) /\ Cardinality(1 .. Len(q)) = Len(q)
  BY <1>1, FS_Interval
<1>3. q \in Bijection(1 .. Len(q), Items(q))
  BY <1>1 DEF Bijection, Injection, IsInjective, Surjection, Items, NoTwice
<1> QED
  BY <1>2, <1>3, FS_Bijection DEF ExistsBijection

===============================================================================
