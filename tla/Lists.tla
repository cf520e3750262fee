------------------------------- MODULE Lists --------------------------------
(***************************************************************************)
(* Lists that are rebuilt without some of their entries, as several stores *)
(* of the contract and of the host rebuild theirs, and the facts about     *)
(* naturals and lists that the proofs share.                               *)
(***************************************************************************)
EXTENDS Integers, SequencesExt, SequenceTheorems, WellFoundedInduction, TLAPS

\* Vec::retain, and the loops that rebuild an index: the entries that belong to S, in
\* their order.
Kept(seq, S) ==
    LET kept[n \in 0..Len(seq)] ==
            IF n = 0 THEN <<>>
            ELSE IF seq[n] \in S THEN Append(kept[n - 1], seq[n]) ELSE kept[n - 1]
    IN  kept[Len(seq)]

\* A loop that keeps the best entry so far: T has the pairs whose first entry displaces
\* the second.
BestOf(seq, T) ==
    LET best[n \in 1..Len(seq)] ==
            IF n = 1 THEN seq[1]
            ELSE IF <<seq[n], best[n - 1]>> \in T THEN seq[n] ELSE best[n - 1]
    IN  best[Len(seq)]

\* The places at which a list names something for the first time.
FirstPlaces(s) == {i \in DOMAIN s : \A j \in 1..(i - 1) : s[j] # s[i]}

-----------------------------------------------------------------------------
(* Naturals *)

\* A set of naturals with 0 that is closed under successor has them all.
LEMMA NaturalsBySuccessor ==
    ASSUME NEW T, 0 \in T, \A n \in Nat : n \in T => n + 1 \in T
    PROVE  Nat \subseteq T
<1> DEFINE R == OpToRel(<, Nat)
           U == Nat \ T
<1> SUFFICES ASSUME U # {} PROVE FALSE
    OBVIOUS
<1>1. IsWellFoundedOn(R, Nat)
    BY NatLessThanWellFounded
<1>2. \A x, y \in Nat : x < y => <<x, y>> \in R
  <2>1. R = {ss \in Nat \X Nat : ss[1] < ss[2]}
    BY DEF OpToRel
  <2> HIDE DEF R
  <2> QED
    BY <2>1
<1>3. U \subseteq Nat
    OBVIOUS
<1> HIDE DEF R
<1>4. \E x \in U : \A y \in U : ~ (<<y, x>> \in R)
  <2> HIDE DEF U
  <2> QED
    BY ONLY <1>1, <1>3, U # {}, WFMin
<1>5. PICK m \in U : \A y \in U : ~ (<<y, m>> \in R)
    BY <1>4
<1>6. m \in Nat /\ m # 0 /\ m - 1 \in Nat /\ m - 1 < m
    OBVIOUS
<1>7. m - 1 \in T
    BY <1>2, <1>5, <1>6
<1> QED
    BY <1>6, <1>7

\* Every nonempty set of naturals has a least element.
LEMMA LeastNatural ==
    ASSUME NEW T \in SUBSET Nat, T # {}
    PROVE  \E x \in T : \A y \in T : x <= y
<1> DEFINE R == OpToRel(<, Nat)
<1>1. IsWellFoundedOn(R, Nat)
    BY NatLessThanWellFounded
<1>2. \A x, y \in Nat : x < y => <<x, y>> \in R
  <2>1. R = {ss \in Nat \X Nat : ss[1] < ss[2]}
      BY DEF OpToRel
  <2> HIDE DEF R
  <2> QED
      BY <2>1
<1> HIDE DEF R
<1>3. T \subseteq Nat
    OBVIOUS
<1>4. \E x \in T : \A y \in T : ~ (<<y, x>> \in R)
    BY ONLY <1>1, <1>3, T # {}, WFMin
<1>5. PICK x \in T : \A y \in T : ~ (<<y, x>> \in R)
    BY <1>4
<1>6. \A y \in T : ~ (y < x)
  <2> SUFFICES ASSUME NEW y \in T, y < x PROVE FALSE
      OBVIOUS
  <2>1. <<y, x>> \in R
      BY <1>2, <1>3
  <2> QED
      BY <1>5, <2>1
<1>7. \A y \in T : x <= y
    BY <1>3, <1>6
<1> QED
    BY <1>7

\* The Max of a nonempty bounded set of naturals is the largest of its members.
LEMMA MaxIsMember ==
    ASSUME NEW n \in Nat, NEW T \in SUBSET (1..n), T # {}
    PROVE  Max(T) \in T /\ \A y \in T : y <= Max(T)
<1> DEFINE U == {n - x : x \in T}
<1>0. \A y \in T : y \in Nat /\ n - y \in Nat
    OBVIOUS
<1>1. U \in SUBSET Nat
    BY <1>0
<1>2. U # {}
  <2>1. PICK x \in T : TRUE
      OBVIOUS
  <2> QED
      BY <2>1
<1>3. PICK u \in U : \A v \in U : u <= v
  <2> HIDE DEF U
  <2> QED
      BY <1>1, <1>2, LeastNatural
<1>4. PICK x \in T : u = n - x
    OBVIOUS
<1>5. ASSUME NEW z \in T PROVE x >= z
  <2>1. n - x <= n - z
      BY <1>3, <1>4
  <2>2. x \in Nat /\ z \in Nat
    <3> HIDE DEF U
    <3> QED
      BY <1>0
  <2> QED
      BY <2>1, <2>2
<1> HIDE DEF U
<1>6. \E y \in T : \A z \in T : y >= z
    BY <1>5, Zenon
<1>7. Max(T) \in T /\ \A z \in T : Max(T) >= z
    BY <1>6 DEF Max
<1>8. ASSUME NEW y \in T PROVE y <= Max(T)
  <2>1. y \in Nat /\ Max(T) \in Nat /\ Max(T) >= y
      BY <1>0, <1>7
  <2> QED
      BY <2>1
<1> QED
    BY <1>7, <1>8

\* The Min of a nonempty set of naturals is the least of its members.
LEMMA MinIsMember ==
    ASSUME NEW T \in SUBSET Nat, T # {}
    PROVE  Min(T) \in T /\ \A y \in T : Min(T) <= y
<1>1. \E x \in T : \A y \in T : x <= y
    BY LeastNatural
<1> QED
    BY <1>1 DEF Min

\* The smaller and the larger of two numbers, as the modules compute them.
LEMMA MinMaxOfTwo ==
    ASSUME NEW x \in Int, NEW y \in Int
    PROVE  /\ Min({x, y}) = IF x <= y THEN x ELSE y
           /\ Max({x, y}) = IF x >= y THEN x ELSE y
<1>1. \A m \in {x, y} :
        /\ (\A z \in {x, y} : m <= z) <=> m = IF x <= y THEN x ELSE y
        /\ (\A z \in {x, y} : m >= z) <=> m = IF x >= y THEN x ELSE y
    OBVIOUS
<1>2. (IF x <= y THEN x ELSE y) \in {x, y} /\ (IF x >= y THEN x ELSE y) \in {x, y}
    OBVIOUS
<1> QED
    BY <1>1, <1>2 DEF Min, Max

\* Of two naturals both are.
LEMMA MinMaxIsNat ==
    ASSUME NEW x \in Nat, NEW y \in Nat
    PROVE  Min({x, y}) \in Nat /\ Max({x, y}) \in Nat
<1>1. x \in Int /\ y \in Int
    OBVIOUS
<1> QED
    BY <1>1, MinMaxOfTwo

\* The quotient of two naturals.
LEMMA Quotient ==
    ASSUME NEW a \in Nat, NEW n \in Nat, n > 0
    PROVE  a \div n \in Nat /\ n * (a \div n) <= a /\ a < n * (a \div n) + n
OBVIOUS

-----------------------------------------------------------------------------
(* Lists without some of their entries *)

\* What the recursion of Kept computes of the first n entries, given what it computed
\* of those before.
KeptNext(f, seq, S, n) ==
    IF n = 0 THEN <<>>
    ELSE IF seq[n] \in S THEN Append(f[n - 1], seq[n]) ELSE f[n - 1]

KeptUpTo(f, seq, S, m) == f = [n \in 0..m |-> KeptNext(f, seq, S, n)]

\* The recursion defines a function.
LEMMA KeptExists ==
    ASSUME NEW seq, NEW S, NEW m \in Nat
    PROVE  \E f : KeptUpTo(f, seq, S, m)
<1> DEFINE T == {n \in Nat : \E f : KeptUpTo(f, seq, S, n)}
<1>1. 0 \in T
  <2> DEFINE f == [n \in 0..0 |-> <<>>]
  <2>1. \A n \in 0..0 : KeptNext(f, seq, S, n) = <<>>
    BY DEF KeptNext
  <2>2. KeptUpTo(f, seq, S, 0)
    BY <2>1 DEF KeptUpTo
  <2> QED
    BY <2>2
<1>2. ASSUME NEW n \in Nat, n \in T
      PROVE  n + 1 \in T
  <2>1. PICK f : KeptUpTo(f, seq, S, n)
    BY <1>2
  <2> DEFINE g == [k \in 0..(n + 1) |-> IF k <= n THEN f[k] ELSE KeptNext(f, seq, S, n + 1)]
  <2>2. ASSUME NEW k \in 0..(n + 1)
        PROVE  g[k] = KeptNext(g, seq, S, k)
    <3>1. k # 0 => k - 1 \in 0..n /\ k - 1 \in 0..(n + 1) /\ k - 1 <= n
      OBVIOUS
    <3>2. k # 0 => g[k - 1] = f[k - 1]
      BY <3>1
    <3>3. KeptNext(g, seq, S, k) = KeptNext(f, seq, S, k)
      BY <3>2 DEF KeptNext
    <3>4. k <= n => k \in 0..n /\ f[k] = KeptNext(f, seq, S, k)
      BY <2>1 DEF KeptUpTo
    <3>5. ~(k <= n) => k = n + 1
      OBVIOUS
    <3> QED
      BY <3>3, <3>4, <3>5
  <2>3. g = [k \in 0..(n + 1) |-> g[k]]
    OBVIOUS
  <2> HIDE DEF g
  <2>4. KeptUpTo(g, seq, S, n + 1)
    BY <2>2, <2>3 DEF KeptUpTo
  <2> QED
    BY <2>4
<1> HIDE DEF T
<1>3. Nat \subseteq T
    BY <1>1, <1>2, NaturalsBySuccessor
<1> QED
    BY <1>3 DEF T

\* Appending to a list adds to what it names.
LEMMA AppendedSet ==
    ASSUME NEW X, NEW h \in Seq(X), NEW e \in X
    PROVE  ToSet(Append(h, e)) = ToSet(h) \cup {e}
<1>1. /\ Append(h, e) \in Seq(X)
      /\ Len(h) \in Nat /\ Len(Append(h, e)) = Len(h) + 1
      /\ Append(h, e)[Len(h) + 1] = e
      /\ \A i \in 1..Len(h) : Append(h, e)[i] = h[i]
    BY AppendProperties
<1>2. DOMAIN h = 1..Len(h) /\ DOMAIN Append(h, e) = 1..(Len(h) + 1)
    BY <1>1, LenProperties
<1> QED
    BY <1>1, <1>2 DEF ToSet

\* What Kept is, one entry at a time.
LEMMA KeptRounds ==
    ASSUME NEW seq, NEW S, Len(seq) \in Nat
    PROVE  \E f : /\ f[0] = <<>>
                  /\ \A n \in Nat : n < Len(seq) =>
                         f[n + 1] = IF seq[n + 1] \in S THEN Append(f[n], seq[n + 1]) ELSE f[n]
                  /\ Kept(seq, S) = f[Len(seq)]
<1> DEFINE f == CHOOSE f : f = [n \in 0..Len(seq) |->
                                  IF n = 0 THEN <<>>
                                  ELSE IF seq[n] \in S THEN Append(f[n - 1], seq[n])
                                                       ELSE f[n - 1]]
<1>1. Kept(seq, S) = f[Len(seq)]
    BY DEF Kept
<1>2. \E g : KeptUpTo(g, seq, S, Len(seq))
    BY KeptExists
<1>3. f = [n \in 0..Len(seq) |-> KeptNext(f, seq, S, n)]
    BY <1>2 DEF KeptUpTo, KeptNext
<1> HIDE DEF f
<1>4. f[0] = <<>>
    BY <1>3 DEF KeptNext
<1>5. ASSUME NEW n \in Nat, n < Len(seq)
      PROVE  f[n + 1] = IF seq[n + 1] \in S THEN Append(f[n], seq[n + 1]) ELSE f[n]
  <2>1. n + 1 \in 0..Len(seq) /\ n + 1 # 0 /\ (n + 1) - 1 = n
    BY <1>5
  <2> QED
    BY <1>3, <2>1 DEF KeptNext
<1> QED
    BY <1>1, <1>4, <1>5

\* A list of ids without those outside S is a list of ids, and names those it named
\* that are in S.
LEMMA KeptIds ==
    ASSUME NEW X, NEW seq \in Seq(X), NEW S
    PROVE  /\ Kept(seq, S) \in Seq(X)
           /\ ToSet(Kept(seq, S)) = ToSet(seq) \cap S
<1>1. Len(seq) \in Nat /\ \A i \in 1..Len(seq) : seq[i] \in X
    OBVIOUS
<1>2. PICK f : /\ f[0] = <<>>
               /\ \A n \in Nat : n < Len(seq) =>
                      f[n + 1] = IF seq[n + 1] \in S THEN Append(f[n], seq[n + 1]) ELSE f[n]
               /\ Kept(seq, S) = f[Len(seq)]
    BY <1>1, KeptRounds
<1> DEFINE Right(n) == /\ f[n] \in Seq(X)
                       /\ ToSet(f[n]) = {seq[i] : i \in 1..n} \cap S
           T == {n \in Nat : n <= Len(seq) => Right(n)}
<1>5. 0 \in T
  <2>1. f[0] = <<>>
    BY <1>2
  <2>2. ToSet(<<>>) = {}
    BY DEF ToSet
  <2>3. {seq[i] : i \in 1..0} = {}
    OBVIOUS
  <2>4. Right(0)
    BY <2>1, <2>2, <2>3
  <2> QED
    BY <2>4
<1>6. ASSUME NEW n \in Nat, n \in T
      PROVE  n + 1 \in T
  <2> SUFFICES ASSUME n + 1 <= Len(seq) PROVE Right(n + 1)
    OBVIOUS
  <2>1. /\ f[n] \in Seq(X) /\ ToSet(f[n]) = {seq[i] : i \in 1..n} \cap S
        /\ n + 1 \in 1..Len(seq) /\ seq[n + 1] \in X
    BY <1>1, <1>6
  <2>2. f[n + 1] = IF seq[n + 1] \in S THEN Append(f[n], seq[n + 1]) ELSE f[n]
    BY <1>1, <1>2
  <2>3. {seq[i] : i \in 1..(n + 1)} = {seq[i] : i \in 1..n} \cup {seq[n + 1]}
    OBVIOUS
  <2>4. ToSet(Append(f[n], seq[n + 1])) = ToSet(f[n]) \cup {seq[n + 1]}
    BY <2>1, AppendedSet
  <2>5. Append(f[n], seq[n + 1]) \in Seq(X)
    BY <2>1
  <2> QED
    BY <2>1, <2>2, <2>3, <2>4, <2>5
<1>7. Nat \subseteq T
  <2> HIDE DEF T
  <2> QED
    BY <1>5, <1>6, NaturalsBySuccessor
<1>8. Right(Len(seq))
  <2>1. Len(seq) \in T
    BY <1>1, <1>7
  <2> HIDE DEF Right
  <2> QED
    BY <1>1, <2>1
<1>9. ToSet(seq) = {seq[i] : i \in 1..Len(seq)}
    BY DEF ToSet
<1> QED
    BY <1>2, <1>8, <1>9

\* Nor does it get longer, or change the order of what stays.
LEMMA KeptOrdered ==
    ASSUME NEW X, NEW seq \in Seq(X), NEW S, NEW R,
           \A i, j \in 1..Len(seq) : i < j => <<seq[i], seq[j]>> \in R
    PROVE  /\ Len(Kept(seq, S)) <= Len(seq)
           /\ \A i, j \in 1..Len(Kept(seq, S)) :
                  i < j => <<Kept(seq, S)[i], Kept(seq, S)[j]>> \in R
<1>1. Len(seq) \in Nat /\ \A i \in 1..Len(seq) : seq[i] \in X
    OBVIOUS
<1>2. PICK f : /\ f[0] = <<>>
               /\ \A n \in Nat : n < Len(seq) =>
                      f[n + 1] = IF seq[n + 1] \in S THEN Append(f[n], seq[n + 1]) ELSE f[n]
               /\ Kept(seq, S) = f[Len(seq)]
    BY <1>1, KeptRounds
<1> DEFINE Right(n) == /\ f[n] \in Seq(X) /\ Len(f[n]) <= n
                       /\ \A k \in 1..Len(f[n]) : \E i \in 1..n : f[n][k] = seq[i]
                       /\ \A i, j \in 1..Len(f[n]) : i < j => <<f[n][i], f[n][j]>> \in R
           T == {n \in Nat : n <= Len(seq) => Right(n)}
<1>3. 0 \in T
  <2>1. f[0] = <<>> /\ Len(f[0]) = 0 /\ f[0] \in Seq(X)
    BY <1>2, EmptySeq
  <2>2. 1..Len(f[0]) = {}
    BY <2>1
  <2>3. Right(0)
    BY <2>1, <2>2
  <2> QED
    BY <2>3
<1>4. ASSUME NEW n \in Nat, n \in T
      PROVE  n + 1 \in T
  <2> SUFFICES ASSUME n + 1 <= Len(seq) PROVE Right(n + 1)
    OBVIOUS
  <2>1. Right(n) /\ n + 1 \in 1..Len(seq) /\ seq[n + 1] \in X /\ n < Len(seq)
    BY <1>1, <1>4
  <2>2. f[n + 1] = IF seq[n + 1] \in S THEN Append(f[n], seq[n + 1]) ELSE f[n]
    BY <1>2, <2>1
  <2>3. CASE seq[n + 1] \notin S
    <3>1. f[n + 1] = f[n] /\ 1..n \subseteq 1..(n + 1) /\ Len(f[n]) \in Nat
      BY <2>1, <2>2, <2>3
    <3> QED
      BY <2>1, <3>1
  <2>4. CASE seq[n + 1] \in S
    <3> DEFINE g == f[n]
               e == seq[n + 1]
               h == f[n + 1]
    <3>1. g \in Seq(X) /\ e \in X /\ h = Append(g, e)
      BY <2>1, <2>2, <2>4
    <3>2. /\ h \in Seq(X) /\ Len(g) \in Nat /\ Len(h) = Len(g) + 1
          /\ h[Len(g) + 1] = e /\ \A k \in 1..Len(g) : h[k] = g[k]
      <4> HIDE DEF g, e, h
      <4> QED
        BY <3>1, AppendProperties
    <3>3. Len(g) <= n /\ \A k \in 1..Len(g) : \E i \in 1..n : g[k] = seq[i]
      BY <2>1
    <3>4. \A i, j \in 1..Len(g) : i < j => <<g[i], g[j]>> \in R
      BY <2>1
    <3> HIDE DEF g, h
    <3>5. ASSUME NEW k \in 1..Len(h) PROVE \E i \in 1..(n + 1) : h[k] = seq[i]
      <4>1. CASE k = Len(g) + 1
        BY <3>2, <4>1
      <4>2. CASE k # Len(g) + 1
        <5>1. k \in 1..Len(g) /\ h[k] = g[k]
          BY <3>2, <4>2
        <5>2. PICK i \in 1..n : g[k] = seq[i]
          BY <3>3, <5>1
        <5> QED
          BY <5>1, <5>2
      <4> QED
        BY <4>1, <4>2
    <3>6. ASSUME NEW i \in 1..Len(h), NEW j \in 1..Len(h), i < j
          PROVE  <<h[i], h[j]>> \in R
      <4>1. i \in 1..Len(g) /\ h[i] = g[i]
        BY <3>2, <3>6
      <4>2. CASE j \in 1..Len(g)
        BY <3>2, <3>4, <3>6, <4>1, <4>2
      <4>3. CASE j = Len(g) + 1
        <5>1. PICK k \in 1..n : g[i] = seq[k]
          BY <3>3, <4>1
        <5>2. k \in 1..Len(seq) /\ n + 1 \in 1..Len(seq) /\ k < n + 1
          BY <2>1, <5>1
        <5>3. <<seq[k], seq[n + 1]>> \in R
          BY <5>2
        <5>4. h[j] = seq[n + 1]
          BY <3>2, <4>3
        <5> QED
          BY <4>1, <5>1, <5>3, <5>4
      <4> QED
        BY <3>2, <4>2, <4>3
    <3>7. Len(h) <= n + 1
      BY <3>2, <3>3
    <3> QED
      BY <3>2, <3>5, <3>6, <3>7 DEF h
  <2> QED
    BY <2>3, <2>4
<1>5. Nat \subseteq T
  <2> HIDE DEF T
  <2> QED
    BY <1>3, <1>4, NaturalsBySuccessor
<1>6. Right(Len(seq))
  <2>1. Len(seq) \in T
    BY <1>1, <1>5
  <2> HIDE DEF Right
  <2> QED
    BY <1>1, <2>1
<1> QED
    BY <1>2, <1>6

\* Numbers that grow with each entry grow by one at least.
LEMMA GrowingNumbers ==
    ASSUME NEW n \in Nat, NEW s, \A i \in 1..n : s[i] \in Nat,
           \A i, j \in 1..n : i < j => s[i] < s[j]
    PROVE  \A i \in 1..n : s[1] + i - 1 <= s[i]
<1> DEFINE T == {k \in Nat : k + 1 <= n => s[1] + k <= s[k + 1]}
<1>1. 0 \in T
  <2>1. 1 <= n => 1 \in 1..n /\ s[1] \in Nat
    OBVIOUS
  <2> QED
    BY <2>1
<1>2. ASSUME NEW k \in Nat, k \in T PROVE k + 1 \in T
  <2> SUFFICES ASSUME (k + 1) + 1 <= n PROVE s[1] + (k + 1) <= s[(k + 1) + 1]
    OBVIOUS
  <2>1. /\ 1 \in 1..n /\ k + 1 \in 1..n /\ (k + 1) + 1 \in 1..n
        /\ s[1] + k <= s[k + 1]
    BY <1>2
  <2>2. s[1] \in Nat /\ s[k + 1] \in Nat /\ s[(k + 1) + 1] \in Nat /\ s[k + 1] < s[(k + 1) + 1]
    BY <2>1
  <2> QED
    BY <2>1, <2>2
<1>3. Nat \subseteq T
  <2> HIDE DEF T
  <2> QED
    BY <1>1, <1>2, NaturalsBySuccessor
<1>4. ASSUME NEW i \in 1..n PROVE s[1] + i - 1 <= s[i]
  <2>1. i - 1 \in Nat /\ (i - 1) + 1 = i /\ 1 \in 1..n /\ s[1] \in Nat
    OBVIOUS
  <2>2. i - 1 \in T
    BY <1>3, <2>1
  <2> QED
    BY <2>1, <2>2
<1> QED
    BY <1>4

\* A list without the entry at one place.
LEMMA RemovedOne ==
    ASSUME NEW X, NEW q \in Seq(X), NEW i \in 1..Len(q)
    PROVE  /\ RemoveAt(q, i) \in Seq(X) /\ Len(RemoveAt(q, i)) = Len(q) - 1
           /\ \A k \in 1..(Len(q) - 1) : RemoveAt(q, i)[k] = q[IF k < i THEN k ELSE k + 1]
<1> DEFINE n == Len(q)
           s == SubSeq(q, 1, i - 1)
           t == SubSeq(q, i + 1, n)
<1>1. n \in Nat /\ i \in 1..n /\ \A k \in 1..n : q[k] \in X
    BY LenProperties, ElementOfSeq
<1>2. RemoveAt(q, i) = s \o t
    BY DEF RemoveAt
<1>3. /\ s \in Seq(X) /\ Len(s) = i - 1
      /\ \A k \in 1..(i - 1) : s[k] = q[k]
  <2>1. 1 \in Int /\ i - 1 \in Int /\ \A k \in 1..(i - 1) : q[k] \in X
    BY <1>1
  <2>2. /\ s \in Seq(X) /\ Len(s) = IF 1 <= i - 1 THEN (i - 1) - 1 + 1 ELSE 0
        /\ \A k \in 1..((i - 1) - 1 + 1) : s[k] = q[1 + k - 1]
    BY <2>1, SubSeqProperties
  <2> HIDE DEF s
  <2>3. Len(s) = i - 1
    BY <1>1, <2>2
  <2>4. \A k \in 1..(i - 1) : k \in 1..((i - 1) - 1 + 1) /\ 1 + k - 1 = k
    BY <1>1
  <2> QED
    BY <2>2, <2>3, <2>4
<1>4. /\ t \in Seq(X) /\ Len(t) = n - i
      /\ \A k \in 1..(n - i) : t[k] = q[i + k]
  <2>1. i + 1 \in Int /\ n \in Int /\ \A k \in (i + 1)..n : q[k] \in X
    BY <1>1
  <2>2. /\ t \in Seq(X) /\ Len(t) = IF i + 1 <= n THEN n - (i + 1) + 1 ELSE 0
        /\ \A k \in 1..(n - (i + 1) + 1) : t[k] = q[(i + 1) + k - 1]
    <3> HIDE DEF n
    <3> QED
      BY <2>1, SubSeqProperties
  <2> HIDE DEF t, n
  <2>3. Len(t) = n - i
    BY <1>1, <2>2
  <2>4. \A k \in 1..(n - i) : k \in 1..(n - (i + 1) + 1) /\ (i + 1) + k - 1 = i + k
    BY <1>1
  <2> QED
    BY <2>2, <2>3, <2>4
<1> HIDE DEF s, t
<1>5. /\ s \o t \in Seq(X) /\ Len(s \o t) = Len(s) + Len(t)
      /\ \A k \in 1..(Len(s) + Len(t)) : (s \o t)[k] = IF k <= Len(s) THEN s[k] ELSE t[k - Len(s)]
    BY <1>3, <1>4, ConcatProperties
<1> HIDE DEF n
<1>6. ASSUME NEW k \in 1..(n - 1)
      PROVE  (s \o t)[k] = q[IF k < i THEN k ELSE k + 1]
  <2>1. k \in 1..(Len(s) + Len(t))
    BY <1>1, <1>3, <1>4
  <2>2. (s \o t)[k] = IF k <= i - 1 THEN s[k] ELSE t[k - (i - 1)]
    BY <1>3, <1>5, <2>1
  <2>3. CASE k < i
    <3>1. k \in 1..(i - 1) /\ k <= i - 1
      BY <1>1, <2>3
    <3> QED
      BY <1>3, <2>2, <2>3, <3>1
  <2>4. CASE ~(k < i)
    <3>1. k - (i - 1) \in 1..(n - i) /\ i + (k - (i - 1)) = k + 1 /\ ~(k <= i - 1)
      BY <1>1, <2>4
    <3> QED
      BY <1>4, <2>2, <2>4, <3>1
  <2> QED
    BY <2>3, <2>4
<1>7. Len(s \o t) = n - 1
    BY <1>1, <1>3, <1>4, <1>5
<1> QED
    BY <1>2, <1>5, <1>6, <1>7 DEF n

\* A part of a list is found where it was taken.
LEMMA PartOf ==
    ASSUME NEW X, NEW s \in Seq(X), NEW low \in Nat, NEW high \in Nat, low <= high, high <= Len(s)
    PROVE  /\ SubSeq(s, low + 1, high) \in Seq(X) /\ Len(SubSeq(s, low + 1, high)) = high - low
           /\ \A k \in 1..(high - low) : SubSeq(s, low + 1, high)[k] = s[low + k]
<1> DEFINE t == SubSeq(s, low + 1, high)
<1>1. \A k \in (low + 1)..high : s[k] \in X
  <2>1. \A k \in 1..Len(s) : s[k] \in X
    BY ElementOfSeq
  <2>2. \A k \in (low + 1)..high : k \in 1..Len(s)
    BY LenProperties
  <2> QED
    BY <2>1, <2>2
<1>2. low + 1 \in Int /\ high \in Int
    OBVIOUS
<1>3. /\ t \in Seq(X)
      /\ Len(t) = IF low + 1 <= high THEN high - (low + 1) + 1 ELSE 0
      /\ \A k \in 1..(high - (low + 1) + 1) : t[k] = s[(low + 1) + k - 1]
    BY <1>1, <1>2, SubSeqProperties
<1> HIDE DEF t
<1>4. Len(t) = high - low
    BY <1>3
<1>5. \A k \in 1..(high - low) : k \in 1..(high - (low + 1) + 1) /\ (low + 1) + k - 1 = low + k
    OBVIOUS
<1> QED
    BY <1>3, <1>4, <1>5

\* A list that loses the entries up to a place keeps the others where they follow it.
LEMMA KeptTail ==
    ASSUME NEW X, NEW seq \in Seq(X), NEW S, NEW d \in 0..Len(seq),
           \A i \in 1..Len(seq) : seq[i] \in S <=> i > d
    PROVE  /\ Kept(seq, S) \in Seq(X) /\ Len(Kept(seq, S)) = Len(seq) - d
           /\ \A k \in 1..(Len(seq) - d) : Kept(seq, S)[k] = seq[d + k]
<1>1. Len(seq) \in Nat /\ \A i \in 1..Len(seq) : seq[i] \in X
    OBVIOUS
<1>2. PICK f : /\ f[0] = <<>>
               /\ \A n \in Nat : n < Len(seq) =>
                      f[n + 1] = IF seq[n + 1] \in S THEN Append(f[n], seq[n + 1]) ELSE f[n]
               /\ Kept(seq, S) = f[Len(seq)]
    BY <1>1, KeptRounds
<1> DEFINE size(n) == IF n <= d THEN 0 ELSE n - d
           Right(n) == /\ f[n] \in Seq(X) /\ Len(f[n]) = size(n)
                       /\ \A k \in 1..size(n) : f[n][k] = seq[d + k]
           T == {n \in Nat : n <= Len(seq) => Right(n)}
<1>3. 0 \in T
  <2>1. f[0] = <<>> /\ Len(f[0]) = 0 /\ f[0] \in Seq(X)
    BY <1>2, EmptySeq
  <2>2. size(0) = 0 /\ 1..size(0) = {}
    OBVIOUS
  <2> HIDE DEF size
  <2>3. Right(0)
    BY <2>1, <2>2
  <2> QED
    BY <2>3
<1>4. ASSUME NEW n \in Nat, n \in T
      PROVE  n + 1 \in T
  <2> SUFFICES ASSUME n + 1 <= Len(seq) PROVE Right(n + 1)
    OBVIOUS
  <2>1. Right(n) /\ n + 1 \in 1..Len(seq) /\ seq[n + 1] \in X /\ n < Len(seq)
    BY <1>1, <1>4
  <2>2. f[n + 1] = IF seq[n + 1] \in S THEN Append(f[n], seq[n + 1]) ELSE f[n]
    BY <1>2, <2>1
  <2>3. CASE n + 1 <= d
    <3>1. size(n + 1) = 0 /\ size(n) = 0 /\ 1..size(n + 1) = {} /\ ~(n + 1 > d)
      BY <2>3
    <3>2. f[n + 1] = f[n]
      BY <2>1, <2>2, <3>1
    <3> HIDE DEF size
    <3> QED
      BY <2>1, <3>1, <3>2
  <2>4. CASE ~(n + 1 <= d)
    <3> DEFINE g == f[n]
               h == f[n + 1]
               e == seq[n + 1]
               m == size(n)
    <3>1. m \in Nat /\ m = n - d /\ size(n + 1) = m + 1 /\ d + (m + 1) = n + 1 /\ n + 1 > d
      BY <2>4
    <3>2. g \in Seq(X) /\ Len(g) = m /\ (\A k \in 1..m : g[k] = seq[d + k]) /\ e \in X
      BY <2>1
    <3>3. h = Append(g, e)
      BY <2>1, <2>2, <3>1
    <3> HIDE DEF g, h, m, size
    <3>4. /\ h \in Seq(X) /\ Len(h) = m + 1
          /\ h[m + 1] = e /\ \A k \in 1..m : h[k] = g[k]
      <4> HIDE DEF e
      <4> QED
        BY <3>2, <3>3, AppendProperties
    <3>5. ASSUME NEW k \in 1..(m + 1) PROVE h[k] = seq[d + k]
      <4>1. CASE k = m + 1
        BY <3>1, <3>4, <4>1
      <4>2. CASE k # m + 1
        <5>1. k \in 1..m
          BY <3>1, <4>2
        <5> QED
          BY <3>2, <3>4, <5>1
      <4> QED
        BY <4>1, <4>2
    <3> QED
      BY <3>1, <3>4, <3>5 DEF h
  <2> QED
    BY <2>3, <2>4
<1>5. Nat \subseteq T
  <2> HIDE DEF T
  <2> QED
    BY <1>3, <1>4, NaturalsBySuccessor
<1>6. Right(Len(seq)) /\ size(Len(seq)) = Len(seq) - d
  <2>1. Len(seq) \in T
    BY <1>1, <1>5
  <2>2. size(Len(seq)) = Len(seq) - d
    <3> DEFINE n == Len(seq)
    <3>1. n \in Nat /\ d \in 0..n
      BY <1>1
    <3> HIDE DEF n
    <3>2. size(n) = n - d
      BY <3>1
    <3> QED
      BY <3>2 DEF n
  <2> HIDE DEF Right, size
  <2> QED
    BY <1>1, <2>1, <2>2
<1> HIDE DEF size
<1> QED
    BY <1>2, <1>6

\* Of a list in which all that follows an entry of S is in S, the others are at the front.
LEMMA CutPoint ==
    ASSUME NEW n \in Nat, NEW S, NEW s,
           \A i, j \in 1..n : i < j /\ s[i] \in S => s[j] \in S
    PROVE  \E d \in 0..n : \A i \in 1..n : s[i] \in S <=> i > d
<1> DEFINE T == {d \in 0..n : \A i \in 1..n : i > d => s[i] \in S}
<1>1. n \in T /\ T \subseteq Nat
    OBVIOUS
<1>2. PICK d \in T : \A y \in T : d <= y
  <2> HIDE DEF T
  <2>1. T \in SUBSET Nat /\ T # {}
    BY <1>1
  <2> QED
    BY ONLY <2>1, LeastNatural
<1>3. d \in 0..n /\ \A i \in 1..n : i > d => s[i] \in S
    OBVIOUS
<1>4. ASSUME NEW i \in 1..n, s[i] \in S, ~(i > d) PROVE FALSE
  <2>1. i - 1 \in 0..n /\ i - 1 < d
    BY <1>3, <1>4
  <2>2. ASSUME NEW j \in 1..n, j > i - 1 PROVE s[j] \in S
    <3>1. j = i \/ i < j
      BY <2>2
    <3> QED
      BY <1>4, <3>1
  <2>3. i - 1 \in T
    BY <2>1, <2>2
  <2> QED
    BY <1>2, <1>3, <2>1, <2>3
<1> QED
    BY <1>3, <1>4

\* A prefix, place by place.
LEMMA PrefixByPlace ==
    ASSUME NEW X, NEW s \in Seq(X), NEW t \in Seq(X)
    PROVE  IsPrefix(s, t) <=> Len(s) <= Len(t) /\ \A i \in 1..Len(s) : s[i] = t[i]
<1> DEFINE n == Len(s)
           u == SubSeq(s, 1, n)
           v == SubSeq(t, 1, n)
<1>1. n \in Nat /\ Len(t) \in Nat
    OBVIOUS
<1>2. IsPrefix(s, t) <=> n <= Len(t) /\ u = v
    BY DEF IsPrefix
<1>3. ASSUME n <= Len(t)
      PROVE  u = v <=> \A i \in 1..n : s[i] = t[i]
  <2>1. /\ \A i \in 1..n : s[i] \in X
        /\ \A i \in 1..n : t[i] \in X
    BY <1>1, <1>3
  <2>2. 1 \in Int /\ n \in Int
    BY <1>1
  <2> HIDE DEF n
  <2>3. /\ u \in Seq(X) /\ Len(u) = IF 1 <= n THEN n - 1 + 1 ELSE 0
        /\ \A i \in 1..(n - 1 + 1) : u[i] = s[1 + i - 1]
    BY <2>1, <2>2, SubSeqProperties
  <2>4. /\ v \in Seq(X) /\ Len(v) = IF 1 <= n THEN n - 1 + 1 ELSE 0
        /\ \A i \in 1..(n - 1 + 1) : v[i] = t[1 + i - 1]
    BY <2>1, <2>2, SubSeqProperties
  <2> HIDE DEF u, v
  <2>5. \A i \in 1..n : i \in 1..(n - 1 + 1) /\ 1 + i - 1 = i
    BY <1>1
  <2>6. Len(u) = n /\ Len(v) = n
    BY <1>1, <2>3, <2>4
  <2>7. \A i \in 1..n : u[i] = s[i] /\ v[i] = t[i]
    BY <2>3, <2>4, <2>5
  <2>8. ASSUME \A i \in 1..n : s[i] = t[i] PROVE u = v
    <3>1. \A i \in 1..Len(u) : u[i] = v[i]
      BY <2>6, <2>7, <2>8
    <3> QED
      BY <2>3, <2>4, <2>6, <3>1, SeqEqual
  <2> QED
    BY <2>7, <2>8
<1> QED
    BY <1>2, <1>3

\* What is kept of a list that grows is what was kept, and the entry that is added if it is.
LEMMA KeptAppended ==
    ASSUME NEW X, NEW seq \in Seq(X), NEW e \in X, NEW S
    PROVE  Kept(Append(seq, e), S) = IF e \in S THEN Append(Kept(seq, S), e) ELSE Kept(seq, S)
<1> DEFINE more == Append(seq, e)
           m == Len(seq)
<1>1. /\ more \in Seq(X) /\ Len(more) = m + 1 /\ m \in Nat /\ more[m + 1] = e
      /\ \A i \in 1..m : more[i] = seq[i]
    BY AppendProperties
<1> HIDE DEF more
<1>2. PICK f : /\ f[0] = <<>>
               /\ \A n \in Nat : n < m =>
                      f[n + 1] = IF seq[n + 1] \in S THEN Append(f[n], seq[n + 1]) ELSE f[n]
               /\ Kept(seq, S) = f[m]
    BY <1>1, KeptRounds
<1>3. PICK g : /\ g[0] = <<>>
               /\ \A n \in Nat : n < m + 1 =>
                      g[n + 1] = IF more[n + 1] \in S THEN Append(g[n], more[n + 1]) ELSE g[n]
               /\ Kept(more, S) = g[m + 1]
  <2> DEFINE k == Len(more)
  <2>1. k \in Nat /\ k = m + 1
    BY <1>1
  <2>2. \E g : /\ g[0] = <<>>
               /\ \A n \in Nat : n < k =>
                      g[n + 1] = IF more[n + 1] \in S THEN Append(g[n], more[n + 1]) ELSE g[n]
               /\ Kept(more, S) = g[k]
    BY <2>1, KeptRounds
  <2> HIDE DEF k
  <2> QED
    BY <2>1, <2>2
<1> HIDE DEF m
<1> DEFINE T == {n \in Nat : n <= m => f[n] = g[n]}
<1>4. 0 \in T
    BY <1>2, <1>3
<1>5. ASSUME NEW n \in Nat, n \in T
      PROVE  n + 1 \in T
  <2> SUFFICES ASSUME n + 1 <= m PROVE f[n + 1] = g[n + 1]
    OBVIOUS
  <2>1. n <= m /\ n < m /\ n < m + 1 /\ n + 1 \in 1..m
    BY <1>1
  <2>2. f[n] = g[n] /\ more[n + 1] = seq[n + 1]
    BY <1>1, <1>5, <2>1
  <2> QED
    BY <1>2, <1>3, <2>1, <2>2
<1>6. Nat \subseteq T
  <2> HIDE DEF T
  <2> QED
    BY <1>4, <1>5, NaturalsBySuccessor
<1>7. f[m] = g[m]
    BY <1>1, <1>6
<1>8. m < m + 1
    BY <1>1
<1>9. Kept(more, S) = IF e \in S THEN Append(Kept(seq, S), e) ELSE Kept(seq, S)
    BY <1>1, <1>2, <1>3, <1>7, <1>8
<1> QED
    BY <1>9 DEF more

\* The end of a list that grows grows with it.
LEMMA TailAppended ==
    ASSUME NEW X, NEW seq \in Seq(X), NEW e \in X, NEW d \in 0..Len(seq)
    PROVE  /\ SubSeq(seq, d + 1, Len(seq)) \in Seq(X)
           /\ SubSeq(Append(seq, e), d + 1, Len(Append(seq, e)))
                = Append(SubSeq(seq, d + 1, Len(seq)), e)
<1> DEFINE more == Append(seq, e)
           m == Len(seq)
           t == SubSeq(seq, d + 1, m)
           u == SubSeq(more, d + 1, m + 1)
<1>1. /\ more \in Seq(X) /\ Len(more) = m + 1 /\ m \in Nat /\ more[m + 1] = e /\ d \in Nat /\ d <= m
      /\ \A i \in 1..m : more[i] = seq[i]
    BY AppendProperties
<1> HIDE DEF more, m
<1>2. /\ t \in Seq(X) /\ Len(t) = m - d
      /\ \A k \in 1..(m - d) : t[k] = seq[d + k]
    BY <1>1, PartOf DEF m
<1>3. m + 1 \in Nat /\ d <= m + 1 /\ m + 1 <= Len(more)
    BY <1>1
<1>4. /\ u \in Seq(X) /\ Len(u) = m + 1 - d
      /\ \A k \in 1..(m + 1 - d) : u[k] = more[d + k]
    BY <1>1, <1>3, PartOf
<1> HIDE DEF t, u
<1> DEFINE v == Append(t, e)
<1>5. /\ v \in Seq(X) /\ Len(v) = Len(t) + 1 /\ v[Len(t) + 1] = e
      /\ \A k \in 1..Len(t) : v[k] = t[k]
    BY <1>2, AppendProperties
<1> HIDE DEF v
<1>6. Len(u) = m - d + 1 /\ Len(v) = m - d + 1 /\ m - d + 1 \in Nat
    BY <1>1, <1>2, <1>4, <1>5
<1>7. ASSUME NEW k \in 1..(m - d + 1)
      PROVE  u[k] = v[k]
  <2>1. u[k] = more[d + k]
    BY <1>1, <1>4
  <2>2. CASE k = m - d + 1
    <3>1. d + k = m + 1 /\ k = Len(t) + 1
      BY <1>1, <1>2, <2>2
    <3> QED
      BY <1>1, <1>5, <2>1, <3>1
  <2>3. CASE k # m - d + 1
    <3>1. k \in 1..(m - d) /\ d + k \in 1..m /\ k \in 1..Len(t)
      BY <1>1, <1>2, <2>3
    <3> QED
      BY <1>1, <1>2, <1>5, <2>1, <3>1
  <2> QED
    BY <2>2, <2>3
<1>8. u = v
    BY <1>4, <1>5, <1>6, <1>7, SeqEqual
<1> QED
    BY <1>1, <1>2, <1>8 DEF more, m, t, u, v

\* Appending to a list puts its last entry there and leaves the others.
LEMMA AppendedFacts ==
    ASSUME NEW X, NEW s \in Seq(X), NEW e \in X
    PROVE  /\ Append(s, e) \in Seq(X) /\ Append(s, e) # <<>> /\ Last(Append(s, e)) = e
           /\ Len(s) \in Nat /\ Len(Append(s, e)) = Len(s) + 1
           /\ \A i \in 1..Len(s) : Append(s, e)[i] = s[i]
           /\ Append(s, e)[Len(s) + 1] = e
           /\ Append(s, e)[1] = IF s = <<>> THEN e ELSE s[1]
           /\ s # <<>> => Len(s) # 0 /\ 1 \in 1..Len(s) /\ Len(s) \in 1..Len(s) /\ Last(s) = s[Len(s)]
           /\ s = <<>> => Len(s) = 0
<1> DEFINE t == Append(s, e)
           m == Len(s)
<1>1. /\ t \in Seq(X) /\ t # <<>> /\ Len(t) = m + 1 /\ m \in Nat
      /\ \A i \in 1..m : t[i] = s[i]
      /\ t[m + 1] = e
    BY AppendProperties, LenProperties
<1>2. s = <<>> <=> m = 0
    BY EmptySeq
<1>3. Last(t) = e
    BY <1>1 DEF Last
<1>4. s # <<>> => Last(s) = s[m]
    BY DEF Last
<1> HIDE DEF t, m
<1>5. m # 0 => 1 \in 1..m /\ m \in 1..m
    BY <1>1
<1>6. t[1] = IF s = <<>> THEN e ELSE s[1]
    BY <1>1, <1>2, <1>5
<1> QED
    BY <1>1, <1>2, <1>3, <1>4, <1>5, <1>6 DEF t, m

-----------------------------------------------------------------------------
(* Lists put together, and named once *)

\* What the recursion of FlattenSeq computes of the first n lists.
FlattenNext(f, ss, n) == IF n = 1 THEN ss[n] ELSE f[n - 1] \o ss[n]

FlattenUpTo(f, ss, m) == f = [n \in 1..m |-> FlattenNext(f, ss, n)]

\* The recursion defines a function.
LEMMA FlattenExists ==
    ASSUME NEW ss, NEW m \in Nat
    PROVE  \E f : FlattenUpTo(f, ss, m)
<1> DEFINE T == {n \in Nat : \E f : FlattenUpTo(f, ss, n)}
<1>1. 0 \in T
  <2> DEFINE f == [n \in 1..0 |-> <<>>]
  <2>1. 1..0 = {}
    OBVIOUS
  <2>2. f = [n \in 1..0 |-> FlattenNext(f, ss, n)]
    BY <2>1, Zenon
  <2>3. FlattenUpTo(f, ss, 0)
    BY <2>2 DEF FlattenUpTo
  <2> QED
    BY <2>3
<1>2. ASSUME NEW n \in Nat, n \in T
      PROVE  n + 1 \in T
  <2>1. PICK f : FlattenUpTo(f, ss, n)
    BY <1>2
  <2> DEFINE g == [k \in 1..(n + 1) |-> IF k <= n THEN f[k] ELSE FlattenNext(f, ss, n + 1)]
  <2>2. ASSUME NEW k \in 1..(n + 1)
        PROVE  g[k] = FlattenNext(g, ss, k)
    <3>1. k # 1 => k - 1 \in 1..n /\ k - 1 \in 1..(n + 1) /\ k - 1 <= n
      OBVIOUS
    <3>2. k # 1 => g[k - 1] = f[k - 1]
      BY <3>1
    <3>3. FlattenNext(g, ss, k) = FlattenNext(f, ss, k)
      BY <3>2 DEF FlattenNext
    <3>4. k <= n => k \in 1..n /\ f[k] = FlattenNext(f, ss, k)
      BY <2>1 DEF FlattenUpTo
    <3>5. ~(k <= n) => k = n + 1
      OBVIOUS
    <3> QED
      BY <3>3, <3>4, <3>5
  <2>3. g = [k \in 1..(n + 1) |-> g[k]]
    OBVIOUS
  <2> HIDE DEF g
  <2>4. FlattenUpTo(g, ss, n + 1)
    BY <2>2, <2>3 DEF FlattenUpTo
  <2> QED
    BY <2>4
<1> HIDE DEF T
<1>3. Nat \subseteq T
    BY <1>1, <1>2, NaturalsBySuccessor
<1> QED
    BY <1>3 DEF T

\* The concatenation of two lists names what either does.
LEMMA JoinedSet ==
    ASSUME NEW X, NEW s \in Seq(X), NEW t \in Seq(X)
    PROVE  s \o t \in Seq(X) /\ ToSet(s \o t) = ToSet(s) \cup ToSet(t)
<1> DEFINE u == s \o t
           m == Len(s)
           n == Len(t)
<1>1. /\ u \in Seq(X) /\ Len(u) = m + n
      /\ \A i \in 1..(m + n) : u[i] = IF i <= m THEN s[i] ELSE t[i - m]
    BY ConcatProperties
<1>2. /\ DOMAIN s = 1..m /\ DOMAIN t = 1..n /\ m \in Nat /\ n \in Nat
    OBVIOUS
<1>3. DOMAIN u = 1..(m + n)
  <2>1. DOMAIN u = 1..Len(u)
    BY <1>1, LenProperties
  <2> QED
    BY <1>1, <2>1
<1> HIDE DEF u, m, n
<1>4. \A i \in 1..m : i \in 1..(m + n) /\ u[i] = s[i]
    BY <1>1, <1>2
<1>5. \A j \in 1..n : m + j \in 1..(m + n) /\ u[m + j] = t[j]
    BY <1>1, <1>2
<1>6. \A i \in 1..(m + n) : i \in 1..m \/ (i - m \in 1..n /\ m + (i - m) = i)
    BY <1>2
<1>7. ToSet(u) = ToSet(s) \cup ToSet(t)
  <2>1. ASSUME NEW x \in ToSet(u) PROVE x \in ToSet(s) \cup ToSet(t)
    <3>1. PICK i \in 1..(m + n) : x = u[i]
      BY <1>3 DEF ToSet
    <3>2. CASE i \in 1..m
      BY <1>2, <1>4, <3>1, <3>2 DEF ToSet
    <3>3. CASE i - m \in 1..n /\ m + (i - m) = i
      <4>1. x = t[i - m]
        BY <1>5, <3>1, <3>3
      <4> QED
        BY <1>2, <3>3, <4>1 DEF ToSet
    <3> QED
      BY <1>6, <3>2, <3>3
  <2>2. ASSUME NEW x \in ToSet(s) PROVE x \in ToSet(u)
    <3>1. PICK i \in 1..m : x = s[i]
      BY <1>2 DEF ToSet
    <3> QED
      BY <1>3, <1>4, <3>1 DEF ToSet
  <2>3. ASSUME NEW x \in ToSet(t) PROVE x \in ToSet(u)
    <3>1. PICK j \in 1..n : x = t[j]
      BY <1>2 DEF ToSet
    <3> QED
      BY <1>3, <1>5, <3>1 DEF ToSet
  <2> QED
    BY <2>1, <2>2, <2>3
<1> QED
    BY <1>1, <1>7 DEF u

\* Lists put one after another name what each of them names.
LEMMA FlattenedSet ==
    ASSUME NEW X, NEW ss \in Seq(Seq(X))
    PROVE  /\ FlattenSeq(ss) \in Seq(X)
           /\ ToSet(FlattenSeq(ss)) = UNION {ToSet(ss[i]) : i \in DOMAIN ss}
<1> DEFINE m == Len(ss)
<1>1. /\ m \in Nat /\ DOMAIN ss = 1..m
      /\ \A i \in 1..m : ss[i] \in Seq(X)
    BY LenProperties, ElementOfSeq
<1>2. CASE m = 0
  <2>1. ss = <<>>
    BY <1>2, EmptySeq
  <2>2. FlattenSeq(ss) = ss
    BY <1>2 DEF FlattenSeq
  <2>3. DOMAIN ss = {}
    BY <1>1, <1>2
  <2>4. ToSet(ss) = {} /\ UNION {ToSet(ss[i]) : i \in DOMAIN ss} = {}
    BY <2>3 DEF ToSet
  <2>5. <<>> \in Seq(X)
    BY EmptySeq
  <2> HIDE DEF m
  <2> QED
    BY <2>1, <2>2, <2>4, <2>5
<1>3. CASE m # 0
  <2> DEFINE f == CHOOSE f : f = [i \in 1..m |-> IF i = 1 THEN ss[i] ELSE f[i - 1] \o ss[i]]
  <2>1. FlattenSeq(ss) = f[m]
    BY <1>3 DEF FlattenSeq
  <2>2. \E g : FlattenUpTo(g, ss, m)
    BY <1>1, FlattenExists
  <2>3. f = [i \in 1..m |-> FlattenNext(f, ss, i)]
    BY <2>2 DEF FlattenUpTo, FlattenNext
  <2> HIDE DEF f, m
  <2>4. \A i \in 1..m : f[i] = FlattenNext(f, ss, i)
    BY <2>3
  <2> DEFINE Flat(n) == f[n] \in Seq(X) /\ ToSet(f[n]) = UNION {ToSet(ss[i]) : i \in 1..n}
             T == {n \in Nat : n + 1 <= m => Flat(n + 1)}
  <2>5. 0 \in T
    <3>1. 1 \in 1..m /\ 1..1 = {1} /\ 0 + 1 = 1
      BY <1>1, <1>3
    <3>3. f[1] = ss[1] /\ ss[1] \in Seq(X)
      BY <1>1, <2>4, <3>1 DEF FlattenNext
    <3>4. UNION {ToSet(ss[i]) : i \in 1..1} = ToSet(ss[1])
      BY <3>1
    <3>2. Flat(1)
      BY <3>3, <3>4
    <3> QED
      BY <3>1, <3>2
  <2>6. ASSUME NEW n \in Nat, n \in T
        PROVE  n + 1 \in T
    <3> SUFFICES ASSUME (n + 1) + 1 <= m PROVE Flat((n + 1) + 1)
      OBVIOUS
    <3> DEFINE k == n + 1
    <3>1. /\ Flat(k) /\ k \in Nat /\ k + 1 \in 1..m /\ k + 1 # 1 /\ (k + 1) - 1 = k
          /\ ss[k + 1] \in Seq(X)
      BY <1>1, <2>6
    <3> HIDE DEF k
    <3>2. f[k + 1] = f[k] \o ss[k + 1]
      BY <2>4, <3>1 DEF FlattenNext
    <3>3. f[k] \o ss[k + 1] \in Seq(X) /\ ToSet(f[k] \o ss[k + 1]) = ToSet(f[k]) \cup ToSet(ss[k + 1])
      BY <3>1, JoinedSet, SMTT(20)
    <3>4. 1..(k + 1) = (1..k) \cup {k + 1}
      BY <3>1
    <3> DEFINE named(K) == UNION {ToSet(ss[i]) : i \in K}
    <3>5. named(1..(k + 1)) = named(1..k) \cup ToSet(ss[k + 1])
      <4>1. \A x : x \in named(1..(k + 1)) <=> \E i \in 1..(k + 1) : x \in ToSet(ss[i])
        OBVIOUS
      <4>2. \A x : x \in named(1..k) <=> \E i \in 1..k : x \in ToSet(ss[i])
        OBVIOUS
      <4> HIDE DEF named
      <4>3. \A x : x \in named(1..(k + 1)) <=> x \in named(1..k) \cup ToSet(ss[k + 1])
        BY <3>4, <4>1, <4>2
      <4> QED
        BY <4>3
    <3>6. Flat(k + 1)
      BY <3>1, <3>2, <3>3, <3>5
    <3> QED
      BY <3>6 DEF k
  <2>7. Nat \subseteq T
    <3> HIDE DEF T
    <3> QED
      BY <2>5, <2>6, NaturalsBySuccessor
  <2>8. m - 1 \in Nat /\ (m - 1) + 1 = m
    BY <1>1, <1>3
  <2>9. Flat(m)
    <3>1. m - 1 \in T
      BY <2>7, <2>8
    <3> HIDE DEF Flat
    <3>2. (m - 1) + 1 <= m => Flat((m - 1) + 1)
      BY <3>1
    <3> QED
      BY <1>1, <2>8, <3>2
  <2> QED
    BY <1>1, <2>1, <2>9
<1> QED
    BY <1>2, <1>3

\* Keeping each name where it comes first names everything once.
LEMMA NamedOnce ==
    ASSUME NEW X, NEW s \in Seq(X)
    PROVE  LET places == Kept([i \in DOMAIN s |-> i], FirstPlaces(s))
               once == [n \in DOMAIN places |-> s[places[n]]]
           IN  IsInjective(once) /\ ToSet(once) = ToSet(s)
<1> DEFINE m == Len(s)
           base == [i \in DOMAIN s |-> i]
           F == FirstPlaces(s)
           places == Kept(base, F)
           once == [n \in DOMAIN places |-> s[places[n]]]
           R == {r \in (1..m) \X (1..m) : r[1] < r[2]}
<1>1. m \in Nat /\ DOMAIN s = 1..m
    BY LenProperties
<1> HIDE DEF m
<1>2. F = {i \in 1..m : \A j \in 1..(i - 1) : s[j] # s[i]}
    BY <1>1 DEF FirstPlaces
<1> HIDE DEF F
<1>3. base \in Seq(1..m) /\ Len(base) = m /\ ToSet(base) = 1..m /\ \A i \in 1..m : base[i] = i
    BY <1>1 DEF ToSet
<1> HIDE DEF base
<1>4. /\ places \in Seq(1..m) /\ ToSet(places) = F
  <2>1. places \in Seq(1..m) /\ ToSet(places) = ToSet(base) \cap F
    <3> HIDE DEF m
    <3> QED
      BY <1>3, KeptIds
  <2> QED
    BY <1>2, <1>3, <2>1
<1>5. \A i, j \in 1..Len(places) : i < j => <<places[i], places[j]>> \in R
  <2>1. \A i, j \in 1..Len(base) : i < j => <<base[i], base[j]>> \in R
    BY <1>3
  <2> HIDE DEF R
  <2> QED
    BY <1>3, <2>1, KeptOrdered
<1> HIDE DEF places
<1>6. /\ Len(places) \in Nat /\ DOMAIN places = 1..Len(places)
      /\ \A n \in 1..Len(places) : places[n] \in 1..m /\ places[n] \in F
    BY <1>4, LenProperties, ElementOfSeq DEF ToSet
<1>7. \A i, j \in 1..Len(places) : i < j => places[i] < places[j]
    BY <1>5
<1>8. \A i, j \in 1..Len(places) : i < j => s[places[i]] # s[places[j]]
  <2> SUFFICES ASSUME NEW i \in 1..Len(places), NEW j \in 1..Len(places), i < j
               PROVE  s[places[i]] # s[places[j]]
    OBVIOUS
  <2>1. places[i] \in 1..m /\ places[j] \in 1..m /\ places[i] < places[j] /\ places[j] \in F
    BY <1>6, <1>7
  <2>2. places[i] \in 1..(places[j] - 1)
    BY <1>1, <2>1
  <2> QED
    BY <1>2, <2>1, <2>2
<1>9. IsInjective(once)
  <2> SUFFICES ASSUME NEW a \in 1..Len(places), NEW b \in 1..Len(places), once[a] = once[b]
               PROVE  a = b
    BY <1>6 DEF IsInjective
  <2>1. s[places[a]] = s[places[b]]
    BY <1>6
  <2>2. ~(a < b) /\ ~(b < a)
    BY <1>8, <2>1
  <2> QED
    BY <1>6, <2>2
<1>10. ASSUME NEW i \in 1..m PROVE \E n \in DOMAIN places : s[places[n]] = s[i]
  <2> DEFINE same == {j \in 1..m : s[j] = s[i]}
  <2>1. same \in SUBSET Nat /\ same # {}
    BY <1>1
  <2>2. \E j \in same : \A k \in same : j <= k
    <3> HIDE DEF same
    <3> QED
      BY <2>1, LeastNatural
  <2>3. PICK j \in same : \A k \in same : j <= k
    BY <2>2
  <2>4. j \in 1..m /\ s[j] = s[i]
    OBVIOUS
  <2>5. ASSUME NEW k \in 1..(j - 1) PROVE s[k] # s[j]
    <3>1. k \in 1..m /\ ~(j <= k)
      BY <1>1, <2>4
    <3>2. k \notin same
      BY <2>3, <3>1
    <3> QED
      BY <2>4, <3>1, <3>2
  <2>6. j \in F
    BY <1>2, <2>4, <2>5
  <2>7. PICK n \in DOMAIN places : places[n] = j
    BY <1>4, <2>6 DEF ToSet
  <2> QED
    BY <2>4, <2>7
<1>11. ToSet(once) = ToSet(s)
  <2>1. \A n \in DOMAIN places : s[places[n]] \in ToSet(s)
    BY <1>1, <1>6 DEF ToSet
  <2>2. ASSUME NEW x \in ToSet(s) PROVE x \in ToSet(once)
    <3>1. PICK i \in 1..m : x = s[i]
      BY <1>1 DEF ToSet
    <3>2. PICK n \in DOMAIN places : s[places[n]] = s[i]
      BY <1>10
    <3> QED
      BY <3>1, <3>2 DEF ToSet
  <2>3. ASSUME NEW x \in ToSet(once) PROVE x \in ToSet(s)
    BY <2>1, <2>3 DEF ToSet
  <2> QED
    BY <2>2, <2>3
<1> QED
    BY <1>9, <1>11 DEF places, base, F

-----------------------------------------------------------------------------
(* The best of a list *)

BestNext(f, seq, T, n) ==
    IF n = 1 THEN seq[1] ELSE IF <<seq[n], f[n - 1]>> \in T THEN seq[n] ELSE f[n - 1]

BestUpTo(f, seq, T, m) == f = [n \in 1..m |-> BestNext(f, seq, T, n)]

\* The recursion defines a function.
LEMMA BestExists ==
    ASSUME NEW seq, NEW T, NEW m \in Nat
    PROVE  \E f : BestUpTo(f, seq, T, m)
<1> DEFINE U == {n \in Nat : \E f : BestUpTo(f, seq, T, n)}
<1>1. 0 \in U
  <2> DEFINE f == [n \in 1..0 |-> seq]
  <2>1. 1..0 = {}
    OBVIOUS
  <2>2. f = [n \in 1..0 |-> BestNext(f, seq, T, n)]
    BY <2>1, Zenon
  <2>3. BestUpTo(f, seq, T, 0)
    BY <2>2 DEF BestUpTo
  <2> QED
    BY <2>3
<1>2. ASSUME NEW n \in Nat, n \in U
      PROVE  n + 1 \in U
  <2>1. PICK f : BestUpTo(f, seq, T, n)
    BY <1>2
  <2> DEFINE g == [k \in 1..(n + 1) |-> IF k <= n THEN f[k] ELSE BestNext(f, seq, T, n + 1)]
  <2>2. ASSUME NEW k \in 1..(n + 1)
        PROVE  g[k] = BestNext(g, seq, T, k)
    <3>1. k # 1 => k - 1 \in 1..n /\ k - 1 \in 1..(n + 1) /\ k - 1 <= n
      OBVIOUS
    <3>2. k # 1 => g[k - 1] = f[k - 1]
      BY <3>1
    <3>3. BestNext(g, seq, T, k) = BestNext(f, seq, T, k)
      BY <3>2 DEF BestNext
    <3>4. k <= n => k \in 1..n /\ f[k] = BestNext(f, seq, T, k)
      BY <2>1 DEF BestUpTo
    <3>5. ~(k <= n) => k = n + 1
      OBVIOUS
    <3> QED
      BY <3>3, <3>4, <3>5
  <2>3. g = [k \in 1..(n + 1) |-> g[k]]
    OBVIOUS
  <2> HIDE DEF g
  <2>4. BestUpTo(g, seq, T, n + 1)
    BY <2>2, <2>3 DEF BestUpTo
  <2> QED
    BY <2>4
<1> HIDE DEF U
<1>3. Nat \subseteq U
    BY <1>1, <1>2, NaturalsBySuccessor
<1> QED
    BY <1>3 DEF U

\* When the comparison follows a key, the best entry has the least one, and when it is
\* strict, it is the first that has.
LEMMA BestPlace ==
    ASSUME NEW X, NEW seq \in Seq(X), Len(seq) > 0, NEW T, NEW key \in [X -> Int],
           \A x, y \in X : <<x, y>> \in T => key[x] <= key[y],
           \A x, y \in X : key[x] < key[y] => <<x, y>> \in T
    PROVE  \E p \in 1..Len(seq) :
             /\ BestOf(seq, T) = seq[p]
             /\ \A i \in 1..Len(seq) : key[seq[p]] <= key[seq[i]]
             /\ (\A x, y \in X : <<x, y>> \in T => key[x] < key[y])
                  => \A i \in 1..(p - 1) : key[seq[p]] < key[seq[i]]
<1> DEFINE m == Len(seq)
           Strict == \A x, y \in X : <<x, y>> \in T => key[x] < key[y]
           f == CHOOSE f : f = [n \in 1..m |-> IF n = 1 THEN seq[1]
                                ELSE IF <<seq[n], f[n - 1]>> \in T THEN seq[n] ELSE f[n - 1]]
           Best(n) == \E p \in 1..n : /\ f[n] = seq[p]
                                      /\ \A i \in 1..n : key[seq[p]] <= key[seq[i]]
                                      /\ Strict => \A i \in 1..(p - 1) : key[seq[p]] < key[seq[i]]
           U == {n \in Nat : n + 1 <= m => Best(n + 1)}
<1>1. /\ m \in Nat /\ m > 0 /\ \A i \in 1..m : seq[i] \in X /\ key[seq[i]] \in Int
    BY LenProperties, ElementOfSeq
<1>2. BestOf(seq, T) = f[m]
    BY DEF BestOf
<1>3. \E g : BestUpTo(g, seq, T, m)
    BY <1>1, BestExists
<1>4. f = [n \in 1..m |-> BestNext(f, seq, T, n)]
    BY <1>3 DEF BestUpTo, BestNext
<1> HIDE DEF f, m
<1>5. \A n \in 1..m : f[n] = BestNext(f, seq, T, n)
    BY <1>4
<1>6. 0 \in U
  <2>1. 1 \in 1..m /\ 0 + 1 = 1 /\ \A i \in 1..1 : i = 1
    BY <1>1
  <2>2. f[1] = seq[1]
    BY <1>5, <2>1 DEF BestNext
  <2>3. Best(1)
    <3> WITNESS 1 \in 1..1
    <3>1. key[seq[1]] <= key[seq[1]]
      BY <1>1, <2>1
    <3>2. 1..(1 - 1) = {}
      OBVIOUS
    <3> QED
      BY <2>1, <2>2, <3>1, <3>2
  <2> HIDE DEF Best
  <2> QED
    BY <2>1, <2>3
<1>7. ASSUME NEW n \in Nat, n \in U
      PROVE  n + 1 \in U
  <2> SUFFICES ASSUME (n + 1) + 1 <= m PROVE Best((n + 1) + 1)
    BY SMTT(20)
  <2> DEFINE k == n + 1
  <2>0. Best(k)
    <3> HIDE DEF Best
    <3>1. n + 1 <= m
      BY <1>1
    <3> QED
      BY <1>7, <3>1
  <2>1. k \in Nat /\ k >= 1 /\ k + 1 \in 1..m /\ k + 1 # 1 /\ (k + 1) - 1 = k
    BY <1>1
  <2> SUFFICES Best(k + 1)
    OBVIOUS
  <2> HIDE DEF k
  <2>2. f[k + 1] = IF <<seq[k + 1], f[k]>> \in T THEN seq[k + 1] ELSE f[k]
    BY <1>5, <2>1 DEF BestNext
  <2>3. PICK p \in 1..k : /\ f[k] = seq[p]
                          /\ \A i \in 1..k : key[seq[p]] <= key[seq[i]]
                          /\ Strict => \A i \in 1..(p - 1) : key[seq[p]] < key[seq[i]]
    BY <2>0
  <2> HIDE DEF Strict
  <2>4. \A i \in 1..(k + 1) : i \in 1..m /\ (i \in 1..k \/ i = k + 1)
    BY <1>1, <2>1
  <2>5. p \in 1..m /\ k + 1 \in 1..m /\ p \in 1..(k + 1) /\ k + 1 \in 1..(k + 1)
    BY <1>1, <2>1
  <2>6. CASE <<seq[k + 1], seq[p]>> \in T
    <3>1. f[k + 1] = seq[k + 1]
      BY <2>2, <2>3, <2>6
    <3>2. key[seq[k + 1]] <= key[seq[p]] /\ (Strict => key[seq[k + 1]] < key[seq[p]])
      BY <1>1, <2>5, <2>6 DEF Strict
    <3>3. \A i \in 1..k : /\ key[seq[k + 1]] <= key[seq[i]]
                          /\ Strict => key[seq[k + 1]] < key[seq[i]]
      <4> TAKE i \in 1..k
      <4>1. key[seq[p]] <= key[seq[i]] /\ i \in 1..(k + 1)
        BY <2>1, <2>3
      <4>2. key[seq[i]] \in Int /\ key[seq[p]] \in Int /\ key[seq[k + 1]] \in Int
        BY <1>1, <2>4, <2>5, <4>1
      <4> QED
        BY <3>2, <4>1, <4>2
    <3>4. \A i \in 1..(k + 1) : key[seq[k + 1]] <= key[seq[i]]
      BY <1>1, <2>4, <3>3
    <3>5. \A i \in 1..((k + 1) - 1) : i \in 1..k
      BY <2>1
    <3> QED
      BY <2>1, <2>5, <3>1, <3>3, <3>4, <3>5
  <2>7. CASE ~(<<seq[k + 1], seq[p]>> \in T)
    <3>1. f[k + 1] = seq[p]
      BY <2>2, <2>3, <2>7
    <3>2. key[seq[p]] <= key[seq[k + 1]]
      BY <1>1, <2>5, <2>7
    <3>3. \A i \in 1..(k + 1) : key[seq[p]] <= key[seq[i]]
      BY <2>3, <2>4, <3>2
    <3> QED
      BY <2>3, <2>5, <3>1, <3>3
  <2> QED
    BY <2>6, <2>7
<1>8. Nat \subseteq U
  <2> HIDE DEF U
  <2> QED
    BY <1>6, <1>7, NaturalsBySuccessor
<1>9. Best(m)
  <2>1. m - 1 \in Nat /\ (m - 1) + 1 = m
    BY <1>1
  <2>2. m - 1 \in U
    <3> HIDE DEF U
    <3> QED
      BY <1>8, <2>1
  <2> HIDE DEF Best
  <2>3. (m - 1) + 1 <= m => Best((m - 1) + 1)
    BY <2>2
  <2> QED
    BY <1>1, <2>1, <2>3
<1> HIDE DEF Strict
<1>10. PICK p \in 1..m : /\ f[m] = seq[p]
                         /\ \A i \in 1..m : key[seq[p]] <= key[seq[i]]
                         /\ Strict => \A i \in 1..(p - 1) : key[seq[p]] < key[seq[i]]
    BY <1>9
<1> QED
    BY <1>2, <1>10 DEF m, Strict

\* When the comparison is that of the keys, the best entry is the first with the least.
LEMMA FirstBest ==
    ASSUME NEW X, NEW seq \in Seq(X), Len(seq) > 0, NEW T, NEW key \in [X -> Int],
           \A x, y \in X : <<x, y>> \in T <=> key[x] < key[y]
    PROVE  \E p \in 1..Len(seq) :
             /\ BestOf(seq, T) = seq[p]
             /\ \A i \in 1..Len(seq) : key[seq[p]] <= key[seq[i]]
             /\ \A i \in 1..(p - 1) : key[seq[p]] < key[seq[i]]
<1> DEFINE Strict == \A x, y \in X : <<x, y>> \in T => key[x] < key[y]
<1>1. \A x, y \in X : <<x, y>> \in T => key[x] <= key[y]
  <2> TAKE x, y \in X
  <2>1. key[x] \in Int /\ key[y] \in Int
    OBVIOUS
  <2> QED
    BY <2>1
<1>2. \A x, y \in X : key[x] < key[y] => <<x, y>> \in T
    OBVIOUS
<1>3. \E p \in 1..Len(seq) :
             /\ BestOf(seq, T) = seq[p]
             /\ \A i \in 1..Len(seq) : key[seq[p]] <= key[seq[i]]
             /\ Strict => \A i \in 1..(p - 1) : key[seq[p]] < key[seq[i]]
    BY <1>1, <1>2, BestPlace, Zenon
<1>4. Strict
    OBVIOUS
<1> HIDE DEF Strict
<1> QED
    BY <1>3, <1>4

\* Where an entry is named.
LEMMA NamedIn ==
    ASSUME NEW X, NEW s \in Seq(X)
    PROVE  /\ \A x : x \in ToSet(s) <=> \E i \in 1..Len(s) : s[i] = x
           /\ ToSet(s) \subseteq X /\ Range(s) = ToSet(s) /\ s \in Seq(ToSet(s))
           /\ \A x : Contains(s, x) <=> x \in ToSet(s)
<1>1. DOMAIN s = 1..Len(s) /\ Len(s) \in Nat /\ \A i \in 1..Len(s) : s[i] \in X
    BY LenProperties, ElementOfSeq
<1>2. \A x : x \in ToSet(s) <=> \E i \in 1..Len(s) : s[i] = x
    BY <1>1 DEF ToSet
<1>3. ToSet(s) \subseteq X /\ Range(s) = ToSet(s)
    BY <1>1 DEF ToSet, Range
<1>4. s \in Seq(ToSet(s))
  <2>1. s = [i \in 1..Len(s) |-> s[i]] /\ \A i \in 1..Len(s) : s[i] \in ToSet(s)
    BY <1>1, <1>2
  <2> QED
    BY <1>1, <2>1
<1> QED
    BY <1>2, <1>3, <1>4 DEF Contains

\* Taking names out keeps it one.
LEMMA KeptOnce ==
    ASSUME NEW X, NEW s \in Seq(X), IsInjective(s), NEW S
    PROVE  /\ Kept(s, S) \in Seq(X) /\ IsInjective(Kept(s, S))
           /\ ToSet(Kept(s, S)) = ToSet(s) \cap S
<1> DEFINE k == Kept(s, S)
           R == {p \in X \X X : p[1] # p[2]}
<1>1. k \in Seq(X) /\ ToSet(k) = ToSet(s) \cap S
    BY KeptIds
<1>2. DOMAIN s = 1..Len(s) /\ \A i \in 1..Len(s) : s[i] \in X
    BY LenProperties, ElementOfSeq
<1>3. \A i, j \in 1..Len(s) : i < j => <<s[i], s[j]>> \in R
    BY <1>2 DEF IsInjective
<1> HIDE DEF R
<1>4. \A i, j \in 1..Len(k) : i < j => <<k[i], k[j]>> \in R
    BY <1>3, KeptOrdered
<1>5. DOMAIN k = 1..Len(k) /\ Len(k) \in Nat
    BY <1>1, LenProperties
<1> HIDE DEF k
<1>6. \A i, j \in 1..Len(k) : i < j => k[i] # k[j]
    BY <1>4 DEF R
<1>7. \A i, j \in 1..Len(k) : i = j \/ i < j \/ j < i
    BY <1>5
<1>8. IsInjective(k)
    BY <1>5, <1>6, <1>7 DEF IsInjective
<1> QED
    BY <1>1, <1>8 DEF k
=============================================================================
