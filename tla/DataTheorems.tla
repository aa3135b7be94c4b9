---------------------------- MODULE DataTheorems ----------------------------
(***************************************************************************)
(* Facts about data the other proofs need, by induction on the natural     *)
(* numbers: that a recursive sum is defined, and what FlattenSeq (of       *)
(* SequencesExt) makes of sequences of sequences.  Induction is stated for *)
(* sets: S contains every natural number if it contains 0 and the          *)
(* successor of each of its members.                                       *)
(***************************************************************************)
EXTENDS Integers, SequencesExt, FiniteSetTheorems, SequenceTheorems, TLAPS

\* A set of natural numbers has a least element.
LEMMA LeastElement ==
  ASSUME NEW S \in SUBSET Nat, S # {}
  PROVE  \E m \in S : \A n \in S : m <= n
<1> DEFINE R == OpToRel(<, Nat)
<1>1. IsWellFoundedOn(R, Nat)
  BY NatLessThanWellFounded
<1>2. PICK m \in S : \A n \in S : <<n, m>> \notin R
  <2> HIDE DEF R
  <2> QED BY <1>1, WFMin
<1>3. \A n \in S : ~(n < m)
  BY <1>2 DEF OpToRel
<1> QED
  BY <1>3

\* Induction on the natural numbers.
LEMMA NatSetInduction ==
  ASSUME NEW S, 0 \in S, \A n \in Nat : n \in S => n + 1 \in S
  PROVE  \A n \in Nat : n \in S
<1> SUFFICES ASSUME Nat \ S # {} PROVE FALSE
  OBVIOUS
<1>1. PICK m \in Nat \ S : \A n \in Nat \ S : m <= n
  BY LeastElement
<1>2. m # 0 /\ m - 1 \in Nat
  BY <1>1
<1>3. m - 1 \in S
  BY <1>1, <1>2
<1> QED
  BY <1>1, <1>2, <1>3

-----------------------------------------------------------------------------
(* Recursive sums.                                                         *)

\* f sums w[1], w[2], ... up to its argument, at most up to k.
SumsUpTo(f, w, k) ==
  f = [n \in 0..k |-> IF n = 0 THEN 0 ELSE f[n - 1] + w[n]]

\* There are such partial sums up to every bound.
LEMMA SumsUpToDefined ==
  ASSUME NEW w PROVE \A k \in Nat : \E f : SumsUpTo(f, w, k)
<1> DEFINE S == {k \in Nat : \E f : SumsUpTo(f, w, k)}
<1>1. 0 \in S
  <2> DEFINE f == [n \in 0..0 |-> 0]
  <2>1. SumsUpTo(f, w, 0)
    BY DEF SumsUpTo
  <2> QED BY <2>1
<1>2. ASSUME NEW k \in Nat, k \in S PROVE k + 1 \in S
  <2>1. PICK f : SumsUpTo(f, w, k)
    BY <1>2
  <2> DEFINE g == [n \in 0..k + 1 |-> IF n = k + 1 THEN f[k] + w[n] ELSE f[n]]
  <2>2. ASSUME NEW n \in 0..k + 1
        PROVE  g[n] = IF n = 0 THEN 0 ELSE g[n - 1] + w[n]
    <3>1. \A i \in 0..k : f[i] = IF i = 0 THEN 0 ELSE f[i - 1] + w[i]
      BY <2>1, Zenon DEF SumsUpTo
    <3>2. CASE n = k + 1
      BY <3>2
    <3>3. CASE n \in 0..k
      BY <3>1, <3>3
    <3> QED BY <3>2, <3>3
  <2>3. g = [n \in 0..k + 1 |-> IF n = 0 THEN 0 ELSE g[n - 1] + w[n]]
    <3>1. g = [n \in 0..k + 1 |-> g[n]]
      OBVIOUS
    <3> HIDE DEF g
    <3> QED BY <2>2, <3>1
  <2> HIDE DEF g
  <2>4. SumsUpTo(g, w, k + 1)
    BY <2>3, Zenon DEF SumsUpTo
  <2> QED BY <2>4
<1> HIDE DEF S
<1>3. \A k \in Nat : k \in S
  BY <1>1, <1>2, NatSetInduction
<1> QED
  BY <1>3 DEF S

\* They agree where they are both defined.
LEMMA SumsUpToAgree ==
  ASSUME NEW w, NEW k \in Nat, NEW m \in Nat, k <= m,
         NEW f, SumsUpTo(f, w, k), NEW g, SumsUpTo(g, w, m)
  PROVE  f[k] = g[k]
<1> DEFINE S == {n \in Nat : n <= k => f[n] = g[n]}
<1>1. \A n \in 0..k : f[n] = IF n = 0 THEN 0 ELSE f[n - 1] + w[n]
  BY Zenon DEF SumsUpTo
<1>2. \A n \in 0..m : g[n] = IF n = 0 THEN 0 ELSE g[n - 1] + w[n]
  BY Zenon DEF SumsUpTo
<1>3. 0 \in S
  BY <1>1, <1>2
<1>4. ASSUME NEW n \in Nat, n \in S PROVE n + 1 \in S
  BY <1>1, <1>2, <1>4
<1> HIDE DEF S
<1>5. \A n \in Nat : n \in S
  BY <1>3, <1>4, NatSetInduction
<1> QED
  BY <1>5 DEF S

\* The recursive definition of a sum defines a function on Nat.
LEMMA SumDefined ==
  ASSUME NEW w
  PROVE  \E f : f = [n \in Nat |-> IF n = 0 THEN 0 ELSE f[n - 1] + w[n]]
<1> DEFINE F(k) == CHOOSE f : SumsUpTo(f, w, k)
           f == [n \in Nat |-> F(n)[n]]
<1>1. \A k \in Nat : SumsUpTo(F(k), w, k)
  BY SumsUpToDefined, Zenon
<1> HIDE DEF F
<1>2. ASSUME NEW n \in Nat
      PROVE  f[n] = IF n = 0 THEN 0 ELSE f[n - 1] + w[n]
  <2>1. F(n)[n] = IF n = 0 THEN 0 ELSE F(n)[n - 1] + w[n]
    BY <1>1 DEF SumsUpTo
  <2>2. n # 0 => F(n)[n - 1] = F(n - 1)[n - 1]
    BY <1>1, SumsUpToAgree
  <2> QED BY <2>1, <2>2
<1>3. f = [n \in Nat |-> f[n]]
  OBVIOUS
<1> HIDE DEF f
<1>4. f = [n \in Nat |-> IF n = 0 THEN 0 ELSE f[n - 1] + w[n]]
  BY <1>2, <1>3
<1> QED
  BY <1>4

-----------------------------------------------------------------------------
(* Products and quotients.                                                 *)

\* The quotient of natural numbers.
LEMMA Quotient ==
  ASSUME NEW a \in Nat, NEW b \in Nat \ {0}
  PROVE  a \div b \in Nat /\ (a \div b) * b <= a
<1>1. a \div b \in Nat
  OBVIOUS
<1>2. (a \div b) * b <= a
  OBVIOUS
<1> QED BY <1>1, <1>2

\* Division undoes multiplication.
LEMMA QuotientOfProduct ==
  ASSUME NEW a \in Nat, NEW b \in Nat \ {0} PROVE (a * b) \div b = a
  OBVIOUS

\* Multiplication of natural numbers is monotonic.
LEMMA ProductMonotonic ==
  ASSUME NEW a \in Nat, NEW b \in Nat, NEW c \in Nat, a <= b
  PROVE  a * c \in Nat /\ b * c \in Nat /\ a * c <= b * c
  OBVIOUS

-----------------------------------------------------------------------------
(* Recursion in n steps.                                                   *)

\* What is defined by a first value and a step from each value to the next.
Recursion(f, S, base, n, g) ==
  /\ f \in [0..n -> S] /\ f[0] = base
  /\ \A i \in 1..n : f[i] = g[<<i, f[i - 1]>>]

\* There is such a function, whatever the set of the values.
LEMMA RecursionDefined ==
  ASSUME NEW S, NEW base \in S, NEW n \in Nat, NEW g \in [(1..n) \X S -> S]
  PROVE  \E f : Recursion(f, S, base, n, g)
<1> DEFINE Upto(k, f) == /\ f \in [0..k -> S] /\ f[0] = base
                         /\ \A i \in 1..k : f[i] = g[<<i, f[i - 1]>>]
           K == {k \in Nat : k <= n => \E f : Upto(k, f)}
<1>1. 0 \in K
  <2>1. Upto(0, [i \in 0..0 |-> base])
    OBVIOUS
  <2> QED BY <2>1, Zenon
<1>2. ASSUME NEW k \in Nat, k \in K PROVE k + 1 \in K
  <2> SUFFICES ASSUME k + 1 <= n PROVE \E f : Upto(k + 1, f)
    OBVIOUS
  <2>1. PICK f : Upto(k, f)
    BY <1>2
  <2> DEFINE h == [i \in 0..k + 1 |-> IF i = k + 1 THEN g[<<k + 1, f[k]>>] ELSE f[i]]
  <2>2. f[k] \in S /\ <<k + 1, f[k]>> \in (1..n) \X S
    BY <2>1
  <2>3. h \in [0..k + 1 -> S] /\ h[0] = base
    BY <2>1, <2>2
  <2>4. ASSUME NEW i \in 1..k + 1 PROVE h[i] = g[<<i, h[i - 1]>>]
    <3>1. h[i - 1] = f[i - 1]
      OBVIOUS
    <3>2. CASE i = k + 1
      <4>1. h[k + 1] = g[<<k + 1, f[k]>>] /\ i - 1 = k
        BY <3>2
      <4> HIDE DEF h
      <4> QED BY <3>1, <3>2, <4>1
    <3>3. CASE i # k + 1
      BY <2>1, <3>1, <3>3
    <3> QED BY <3>2, <3>3
  <2> HIDE DEF h
  <2>5. Upto(k + 1, h)
    BY <2>3, <2>4
  <2> QED BY <2>5
<1> HIDE DEF K
<1>3. n \in K
  BY <1>1, <1>2, NatSetInduction
<1>4. PICK f : Upto(n, f)
  BY <1>3 DEF K
<1> QED
  BY <1>4, Zenon DEF Recursion

\* The same on all natural numbers.
NatRecursion(f, S, base, g) ==
  /\ f \in [Nat -> S] /\ f[0] = base
  /\ \A n \in Nat \ {0} : f[n] = g[<<n, f[n - 1]>>]

\* There is such a function on all natural numbers.
LEMMA NatRecursionDefined ==
  ASSUME NEW S, NEW base \in S, NEW g \in [Nat \X S -> S]
  PROVE  \E f : NatRecursion(f, S, base, g)
<1> DEFINE F(n) == CHOOSE f : Recursion(f, S, base, n, g)
           f    == [n \in Nat |-> F(n)[n]]
<1>1. ASSUME NEW n \in Nat PROVE \E h : Recursion(h, S, base, n, g)
  <2> DEFINE gn == [x \in (1..n) \X S |-> g[x]]
  <2>1. gn \in [(1..n) \X S -> S]
    OBVIOUS
  <2>2. PICK h : Recursion(h, S, base, n, gn)
    <3> HIDE DEF gn
    <3> QED BY <2>1, RecursionDefined
  <2>3. h \in [0..n -> S] /\ h[0] = base
        /\ \A i \in 1..n : h[i] = gn[<<i, h[i - 1]>>]
    BY <2>2 DEF Recursion
  <2>4. ASSUME NEW i \in 1..n PROVE h[i] = g[<<i, h[i - 1]>>]
    <3>1. h[i - 1] \in S
      BY <2>3
    <3>2. gn[<<i, h[i - 1]>>] = g[<<i, h[i - 1]>>]
      BY <3>1
    <3> HIDE DEF gn
    <3> QED BY <2>3, <3>2
  <2>5. Recursion(h, S, base, n, g)
    BY <2>3, <2>4 DEF Recursion
  <2> QED BY <2>5
<1>2. \A n \in Nat : Recursion(F(n), S, base, n, g)
  BY <1>1, Zenon
<1> HIDE DEF F
<1>3. ASSUME NEW n \in Nat PROVE F(n)[n] \in S
  <2>1. F(n) \in [0..n -> S]
    BY <1>2 DEF Recursion
  <2> QED BY <2>1
<1>4. f \in [Nat -> S]
  BY <1>3
<1>5. f[0] = base
  BY <1>2 DEF Recursion
<1>6. ASSUME NEW n \in Nat \ {0} PROVE f[n] = g[<<n, f[n - 1]>>]
  <2>1. F(n)[n] = g[<<n, F(n)[n - 1]>>]
    BY <1>2 DEF Recursion
  <2>2. F(n - 1)[n - 1] = F(n)[n - 1]
    <3>1. n - 1 \in Nat /\ n - 1 <= n /\ n \in Nat
      OBVIOUS
    <3>2. Recursion(F(n - 1), S, base, n - 1, g) /\ Recursion(F(n), S, base, n, g)
      BY <1>2, <3>1
    <3>3. \A i \in 1..n - 1 : i \in 1..n
      OBVIOUS
    <3>4. n - 1 \in 0..n
      OBVIOUS
    <3> DEFINE K == {i \in Nat : i <= n - 1 => F(n - 1)[i] = F(n)[i]}
    <3>5. 0 \in K
      BY <3>2 DEF Recursion
    <3>6. ASSUME NEW i \in Nat, i \in K PROVE i + 1 \in K
      <4>1. SUFFICES ASSUME i + 1 <= n - 1 PROVE F(n - 1)[i + 1] = F(n)[i + 1]
        OBVIOUS
      <4>2. F(n - 1)[i] = F(n)[i] /\ (i + 1) - 1 = i /\ i + 1 \in 1..n - 1 /\ i + 1 \in 1..n
        BY <3>6, <4>1
      <4>3. F(n - 1)[i + 1] = g[<<i + 1, F(n - 1)[i]>>]
        BY <3>2, <4>2 DEF Recursion
      <4>4. F(n)[i + 1] = g[<<i + 1, F(n)[i]>>]
        BY <3>2, <4>2 DEF Recursion
      <4> QED BY <4>2, <4>3, <4>4
    <3> HIDE DEF K
    <3>7. n - 1 \in K
      BY <3>1, <3>5, <3>6, NatSetInduction
    <3> QED BY <3>7 DEF K
  <2> QED BY <2>1, <2>2
<1> HIDE DEF f
<1>7. NatRecursion(f, S, base, g)
  BY <1>4, <1>5, <1>6 DEF NatRecursion
<1> QED
  BY <1>7

-----------------------------------------------------------------------------
(* FlattenSeq.                                                             *)

\* f concatenates the sequences ss[1], ss[2], ... up to its argument, at
\* most up to k.
FlattensUpTo(f, ss, k) ==
  f = [i \in 1..k |-> IF i = 1 THEN ss[i] ELSE f[i - 1] \o ss[i]]

\* There are such concatenations up to every bound.
LEMMA FlattensUpToDefined ==
  ASSUME NEW ss PROVE \A k \in Nat : \E f : FlattensUpTo(f, ss, k)
<1> DEFINE S == {k \in Nat : \E f : FlattensUpTo(f, ss, k)}
<1>1. 0 \in S
  <2> DEFINE f == [i \in 1..0 |-> ss[i]]
  <2>1. FlattensUpTo(f, ss, 0)
    BY DEF FlattensUpTo
  <2> QED BY <2>1
<1>2. ASSUME NEW k \in Nat, k \in S PROVE k + 1 \in S
  <2>1. PICK f : FlattensUpTo(f, ss, k)
    BY <1>2
  <2> DEFINE g == [i \in 1..k + 1 |->
                     IF i = k + 1
                     THEN (IF k = 0 THEN ss[i] ELSE f[k] \o ss[i]) ELSE f[i]]
  <2>2. ASSUME NEW i \in 1..k + 1
        PROVE  g[i] = IF i = 1 THEN ss[i] ELSE g[i - 1] \o ss[i]
    <3>1. \A j \in 1..k : f[j] = IF j = 1 THEN ss[j] ELSE f[j - 1] \o ss[j]
      BY <2>1, Zenon DEF FlattensUpTo
    <3>2. CASE i = k + 1
      BY <3>2
    <3>3. CASE i \in 1..k
      BY <3>1, <3>3
    <3> QED BY <3>2, <3>3
  <2>3. g = [i \in 1..k + 1 |-> IF i = 1 THEN ss[i] ELSE g[i - 1] \o ss[i]]
    <3>1. g = [i \in 1..k + 1 |-> g[i]]
      OBVIOUS
    <3> HIDE DEF g
    <3> QED BY <2>2, <3>1
  <2> HIDE DEF g
  <2>4. FlattensUpTo(g, ss, k + 1)
    BY <2>3, Zenon DEF FlattensUpTo
  <2> QED BY <2>4
<1> HIDE DEF S
<1>3. \A k \in Nat : k \in S
  BY <1>1, <1>2, NatSetInduction
<1> QED
  BY <1>3 DEF S

\* The function FlattenSeq is defined with.
LEMMA FlattenIs ==
  ASSUME NEW ss, Len(ss) \in Nat, Len(ss) # 0
  PROVE  \E f : FlattensUpTo(f, ss, Len(ss)) /\ FlattenSeq(ss) = f[Len(ss)]
<1> DEFINE f == CHOOSE f : FlattensUpTo(f, ss, Len(ss))
<1>1. FlattensUpTo(f, ss, Len(ss))
  BY FlattensUpToDefined, Zenon
<1>2. FlattenSeq(ss) = f[Len(ss)]
  BY DEF FlattenSeq, FlattensUpTo
<1> QED
  BY <1>1, <1>2

\* Nothing flattens to nothing.
LEMMA FlattenEmpty == FlattenSeq(<<>>) = <<>>
  BY DEF FlattenSeq

\* One sequence flattens to itself.
LEMMA FlattenOne ==
  ASSUME NEW ss, Len(ss) = 1 PROVE FlattenSeq(ss) = ss[1]
<1>1. Len(ss) \in Nat /\ Len(ss) # 0
  OBVIOUS
<1>2. PICK f : FlattensUpTo(f, ss, Len(ss)) /\ FlattenSeq(ss) = f[Len(ss)]
  BY <1>1, FlattenIs
<1>3. f[1] = ss[1]
  BY <1>2 DEF FlattensUpTo
<1> QED
  BY <1>2, <1>3

\* The last sequence comes last.
LEMMA FlattenAppend ==
  ASSUME NEW T, NEW ss \in Seq(Seq(T)), NEW x \in Seq(T)
  PROVE  FlattenSeq(Append(ss, x)) = FlattenSeq(ss) \o x
<1> DEFINE m == Len(ss)
<1>0. m \in Nat /\ Len(Append(ss, x)) = m + 1
      /\ \A i \in 1..m : Append(ss, x)[i] = ss[i]
  OBVIOUS
<1>1. CASE m = 0
  <2>1. ss = <<>> /\ Append(ss, x)[1] = x
    BY <1>1
  <2>2. FlattenSeq(Append(ss, x)) = x
    BY <1>0, <1>1, <2>1, FlattenOne
  <2> QED BY <2>1, <2>2, FlattenEmpty
<1>2. CASE m # 0
  <2>1. PICK f : FlattensUpTo(f, ss, m) /\ FlattenSeq(ss) = f[m]
    BY <1>0, <1>2, FlattenIs
  <2>2. PICK g : /\ FlattensUpTo(g, Append(ss, x), m + 1)
                 /\ FlattenSeq(Append(ss, x)) = g[m + 1]
    <3>1. Len(Append(ss, x)) \in Nat /\ Len(Append(ss, x)) # 0
      BY <1>0
    <3> QED BY <1>0, <3>1, FlattenIs, Zenon
  <2> DEFINE S == {n \in Nat : n \in 1..m => f[n] = g[n]}
  <2>3. \A i \in 1..m : f[i] = IF i = 1 THEN ss[i] ELSE f[i - 1] \o ss[i]
    BY <2>1, Zenon DEF FlattensUpTo
  <2>4. \A i \in 1..m + 1 :
          g[i] = IF i = 1 THEN Append(ss, x)[i] ELSE g[i - 1] \o Append(ss, x)[i]
    BY <2>2, Zenon DEF FlattensUpTo
  <2>5. 0 \in S
    OBVIOUS
  <2>6. ASSUME NEW n \in Nat, n \in S PROVE n + 1 \in S
    <3> SUFFICES ASSUME n + 1 \in 1..m PROVE f[n + 1] = g[n + 1]
      OBVIOUS
    <3>1. n + 1 \in 1..m + 1 /\ (n + 1) - 1 = n
          /\ (n + 1 # 1 => f[n] = g[n])
      BY <1>0, <2>6
    <3>2. Append(ss, x)[n + 1] = ss[n + 1]
      BY <1>0
    <3>3. f[n + 1] = IF n + 1 = 1 THEN ss[n + 1] ELSE f[n] \o ss[n + 1]
      BY <2>3, <3>1
    <3>4. g[n + 1] = IF n + 1 = 1 THEN ss[n + 1] ELSE g[n] \o ss[n + 1]
      BY <2>4, <3>1, <3>2
    <3> QED BY <3>1, <3>3, <3>4
  <2> HIDE DEF S
  <2>7. \A n \in Nat : n \in S
    BY <2>5, <2>6, NatSetInduction
  <2>8. f[m] = g[m]
    BY <1>0, <1>2, <2>7 DEF S
  <2>9. g[m + 1] = g[m] \o x
    <3>1. m + 1 \in 1..m + 1 /\ m + 1 # 1 /\ (m + 1) - 1 = m
      BY <1>0, <1>2
    <3>2. Append(ss, x)[m + 1] = x
      OBVIOUS
    <3> QED BY <2>4, <3>1, <3>2
  <2> QED BY <2>1, <2>2, <2>8, <2>9
<1> QED
  BY <1>1, <1>2

\* Sequences over T flatten to a sequence over T.
LEMMA FlattenType ==
  ASSUME NEW T, NEW ss \in Seq(Seq(T)) PROVE FlattenSeq(ss) \in Seq(T)
<1>1. CASE Len(ss) = 0
  <2>1. ss = <<>>
    BY <1>1
  <2>2. <<>> \in Seq(T)
    OBVIOUS
  <2> QED BY <2>1, <2>2, FlattenEmpty, Zenon
<1>2. CASE Len(ss) # 0
  <2>1. PICK f : FlattensUpTo(f, ss, Len(ss)) /\ FlattenSeq(ss) = f[Len(ss)]
    BY <1>2, FlattenIs
  <2> DEFINE S == {n \in Nat : n \in 1..Len(ss) => f[n] \in Seq(T)}
  <2>2. \A i \in 1..Len(ss) :
          f[i] = IF i = 1 THEN ss[i] ELSE f[i - 1] \o ss[i]
    BY <2>1, Zenon DEF FlattensUpTo
  <2>3. 0 \in S
    OBVIOUS
  <2>4. ASSUME NEW n \in Nat, n \in S PROVE n + 1 \in S
    <3> SUFFICES ASSUME n + 1 \in 1..Len(ss) PROVE f[n + 1] \in Seq(T)
      OBVIOUS
    <3>1. (n + 1) - 1 = n /\ (n + 1 # 1 => f[n] \in Seq(T))
      BY <2>4
    <3>2. ss[n + 1] \in Seq(T)
      OBVIOUS
    <3>3. f[n + 1] = IF n + 1 = 1 THEN ss[n + 1] ELSE f[n] \o ss[n + 1]
      BY <2>2, <3>1
    <3> QED BY <3>1, <3>2, <3>3
  <2> HIDE DEF S
  <2>5. \A n \in Nat : n \in S
    BY <2>3, <2>4, NatSetInduction
  <2> QED BY <1>2, <2>1, <2>5 DEF S
<1> QED
  BY <1>1, <1>2

\* A concatenation flattens to the concatenation of what its parts flatten to.
LEMMA FlattenConcat ==
  ASSUME NEW T, NEW ss \in Seq(Seq(T)), NEW tt \in Seq(Seq(T))
  PROVE  FlattenSeq(ss \o tt) = FlattenSeq(ss) \o FlattenSeq(tt)
<1>a. \A p, q, w \in Seq(T) : (p \o q) \o w = p \o (q \o w)
  OBVIOUS
<1> DEFINE S == {n \in Nat : \A u \in Seq(Seq(T)) : Len(u) = n =>
                    FlattenSeq(ss \o u) = FlattenSeq(ss) \o FlattenSeq(u)}
<1>1. 0 \in S
  <2>1. ASSUME NEW u \in Seq(Seq(T)), Len(u) = 0
        PROVE  FlattenSeq(ss \o u) = FlattenSeq(ss) \o FlattenSeq(u)
    <3>1. u = <<>> /\ ss \o u = ss
      BY <2>1
    <3>2. FlattenSeq(ss) \in Seq(T)
      BY FlattenType
    <3> QED BY <3>1, <3>2, FlattenEmpty
  <2> QED BY <2>1
<1>2. ASSUME NEW n \in Nat, n \in S PROVE n + 1 \in S
  <2>0. SUFFICES ASSUME NEW u, u \in Seq(Seq(T)), Len(u) = n + 1
                 PROVE  FlattenSeq(ss \o u) = FlattenSeq(ss) \o FlattenSeq(u)
    OBVIOUS
  <2> DEFINE v == SubSeq(u, 1, n)
             x == u[n + 1]
  <2>1. v \in Seq(Seq(T)) /\ Len(v) = n /\ x \in Seq(T)
    BY <2>0
  <2>2. u = Append(v, x)
    BY <2>0
  <2> HIDE DEF v, x
  <2>3. ss \o u = Append(ss \o v, x) /\ ss \o v \in Seq(Seq(T))
    BY <2>1, <2>2
  <2>4. FlattenSeq(ss \o u) = FlattenSeq(ss \o v) \o x
    BY <2>1, <2>3, FlattenAppend
  <2>5. FlattenSeq(u) = FlattenSeq(v) \o x
    BY <2>1, <2>2, FlattenAppend
  <2>6. FlattenSeq(ss \o v) = FlattenSeq(ss) \o FlattenSeq(v)
    BY <1>2, <2>1
  <2>7. FlattenSeq(ss) \in Seq(T) /\ FlattenSeq(v) \in Seq(T)
    BY <2>1, FlattenType
  <2> HIDE DEF S
  <2>8. (FlattenSeq(ss) \o FlattenSeq(v)) \o x
          = FlattenSeq(ss) \o (FlattenSeq(v) \o x)
    <3> DEFINE p == FlattenSeq(ss)
               q == FlattenSeq(v)
    <3>1. p \in Seq(T) /\ q \in Seq(T) /\ x \in Seq(T)
      BY <2>1, <2>7
    <3> HIDE DEF p, q
    <3>2. (p \o q) \o x = p \o (q \o x)
      BY ONLY <3>1, <1>a
    <3> QED BY <3>2 DEF p, q
  <2> QED BY <2>4, <2>5, <2>6, <2>8
<1> HIDE DEF S
<1>3. \A n \in Nat : n \in S
  BY <1>1, <1>2, NatSetInduction
<1> QED
  BY <1>3 DEF S

\* The first sequence comes first.
LEMMA FlattenCons ==
  ASSUME NEW T, NEW x \in Seq(T), NEW ss \in Seq(Seq(T))
  PROVE  FlattenSeq(<<x>> \o ss) = x \o FlattenSeq(ss)
<1>1. <<x>> \in Seq(Seq(T)) /\ Len(<<x>>) = 1 /\ <<x>>[1] = x
  OBVIOUS
<1>2. FlattenSeq(<<x>>) = x
  BY <1>1, FlattenOne
<1> QED
  BY <1>1, <1>2, FlattenConcat

-----------------------------------------------------------------------------
(* Sequences.                                                              *)

\* Induction on sequences: S contains every sequence over T if it contains
\* the empty one and what is got by appending to one of its members.
LEMMA SeqSetInduction ==
  ASSUME NEW T, NEW S, <<>> \in S,
         \A s \in Seq(T), e \in T : s \in S => Append(s, e) \in S
  PROVE  \A s \in Seq(T) : s \in S
<1> DEFINE N == {n \in Nat : \A s \in Seq(T) : Len(s) = n => s \in S}
<1>1. 0 \in N
  <2>1. \A s \in Seq(T) : Len(s) = 0 => s = <<>>
    OBVIOUS
  <2> QED BY <2>1
<1>2. ASSUME NEW n \in Nat, n \in N PROVE n + 1 \in N
  <2> SUFFICES ASSUME NEW s \in Seq(T), Len(s) = n + 1 PROVE s \in S
    OBVIOUS
  <2>1. PICK r \in Seq(T), e \in T : s = Append(r, e)
    <3>1. s # <<>>
      OBVIOUS
    <3> QED BY <3>1, SequenceEmptyOrAppend
  <2>2. Len(r) = n
    <3>1. Len(s) = Len(r) + 1 /\ Len(r) \in Nat
      BY <2>1
    <3> QED BY <3>1
  <2>3. r \in S
    BY <1>2, <2>2
  <2> QED BY <2>1, <2>3
<1> HIDE DEF N
<1>3. \A n \in Nat : n \in N
  BY <1>1, <1>2, NatSetInduction
<1>4. \A s \in Seq(T) : Len(s) \in Nat
  OBVIOUS
<1> QED
  BY <1>3, <1>4 DEF N

\* A sequence is a prefix of what is got by adding to its end.
LEMMA PrefixOfConcat ==
  ASSUME NEW T, NEW s \in Seq(T), NEW t \in Seq(T)
  PROVE  IsPrefix(s, s \o t)
<1>1. Len(s) <= Len(s \o t) /\ Len(s) \in Nat
  BY ConcatProperties
<1>2. SubSeq(s, 1, Len(s)) = s
  BY SubSeqFull
<1>3. SubSeq(s \o t, 1, Len(s)) = SubSeq(s, 1, Len(s))
  <2>1. CASE Len(s) = 0
    BY <2>1, SubSeqEmpty
  <2>2. CASE Len(s) # 0
    BY <1>1, <2>2, SubSeqOfConcat1
  <2> QED BY <2>1, <2>2
<1> QED
  BY <1>1, <1>3 DEF IsPrefix

\* What has s as a prefix still has when something is added to its end.
LEMMA PrefixConcat ==
  ASSUME NEW T, NEW s \in Seq(T), NEW t \in Seq(T), NEW u \in Seq(T),
         IsPrefix(s, t)
  PROVE  IsPrefix(s, t \o u)
<1>1. /\ Len(s) \in Nat /\ Len(s) <= Len(t) /\ Len(t) \in Nat
      /\ SubSeq(s, 1, Len(s)) = SubSeq(t, 1, Len(s))
  BY DEF IsPrefix
<1>2. Len(s) <= Len(t \o u)
  BY <1>1, ConcatProperties
<1>3. SubSeq(t \o u, 1, Len(s)) = SubSeq(t, 1, Len(s))
  <2>1. CASE Len(s) = 0
    BY <2>1, SubSeqEmpty
  <2>2. CASE Len(s) # 0
    BY <1>1, <2>2, SubSeqOfConcat1
  <2> QED BY <2>1, <2>2
<1> QED
  BY <1>1, <1>2, <1>3 DEF IsPrefix

\* A sequence is its first n elements and the others.
LEMMA CutInTwo ==
  ASSUME NEW T, NEW s \in Seq(T), NEW n \in 0..Len(s)
  PROVE  /\ SubSeq(s, 1, n) \in Seq(T) /\ SubSeq(s, n + 1, Len(s)) \in Seq(T)
         /\ Len(SubSeq(s, 1, n)) = n /\ Len(SubSeq(s, n + 1, Len(s))) = Len(s) - n
         /\ SubSeq(s, 1, n) \o SubSeq(s, n + 1, Len(s)) = s
<1>0. Len(s) \in Nat /\ \A i \in 1..Len(s) : s[i] \in T
  OBVIOUS
<1>1. SubSeq(s, 1, n) \in Seq(T) /\ Len(SubSeq(s, 1, n)) = n
  BY <1>0, SubSeqProperties
<1>2. /\ SubSeq(s, n + 1, Len(s)) \in Seq(T)
      /\ Len(SubSeq(s, n + 1, Len(s))) = Len(s) - n
  BY <1>0, SubSeqProperties
<1>3. SubSeq(s, 1, n) \o SubSeq(s, n + 1, Len(s)) = SubSeq(s, 1, Len(s))
  <2>1. 1 \in 1..Len(s) + 1 /\ n \in 1 - 1 .. Len(s) /\ Len(s) \in n..Len(s)
    BY <1>0
  <2> QED BY <2>1, ConcatAdjacentSubSeq
<1> QED
  BY <1>1, <1>2, <1>3, SubSeqFull

\* What follows the first part of a sequence is the second.
LEMMA DropFirst ==
  ASSUME NEW T, NEW s \in Seq(T), NEW t \in Seq(T)
  PROVE  SubSeq(s \o t, Len(s) + 1, Len(s \o t)) = t
<1>1. /\ Len(s) \in Nat /\ Len(t) \in Nat /\ s \o t \in Seq(T)
      /\ Len(s \o t) = Len(s) + Len(t)
      /\ \A i \in 1..Len(s) + Len(t) : (s \o t)[i] \in T
  BY ConcatProperties, ElementOfSeq
<1> DEFINE d == SubSeq(s \o t, Len(s) + 1, Len(s) + Len(t))
<1>2. /\ d \in Seq(T) /\ Len(d) = Len(t)
      /\ \A i \in 1..Len(t) : d[i] = (s \o t)[Len(s) + 1 + i - 1]
  <2>1. \A i \in Len(s) + 1..Len(s) + Len(t) : (s \o t)[i] \in T
    BY <1>1
  <2>2. /\ d \in Seq(T)
        /\ Len(d) = IF Len(s) + 1 <= Len(s) + Len(t)
                    THEN Len(s) + Len(t) - (Len(s) + 1) + 1 ELSE 0
        /\ \A i \in 1..Len(s) + Len(t) - (Len(s) + 1) + 1 :
             d[i] = (s \o t)[Len(s) + 1 + i - 1]
    BY <1>1, <2>1, SubSeqProperties
  <2> HIDE DEF d
  <2> QED BY <1>1, <2>2
<1> HIDE DEF d
<1>3. \A i \in 1..Len(t) : d[i] = t[i]
  <2> SUFFICES ASSUME NEW i \in 1..Len(t) PROVE d[i] = t[i]
    OBVIOUS
  <2>1. /\ Len(s) + 1 + i - 1 = Len(s) + i /\ Len(s) + i \in 1..Len(s) + Len(t)
        /\ ~(Len(s) + i <= Len(s)) /\ Len(s) + i - Len(s) = i
    BY <1>1
  <2>2. (s \o t)[Len(s) + i] = t[Len(s) + i - Len(s)]
    BY <2>1, ConcatProperties
  <2> QED BY <1>2, <2>1, <2>2
<1>4. d = t
  BY <1>2, <1>3, SeqEqual
<1> QED
  BY <1>1, <1>4 DEF d

\* Leaving out m elements and then n is leaving out m + n.
LEMMA DropTwice ==
  ASSUME NEW T, NEW s \in Seq(T), NEW m \in 0..Len(s), NEW n \in 0..Len(s) - m
  PROVE  SubSeq(s, m + n + 1, Len(s)) =
           SubSeq(SubSeq(s, m + 1, Len(s)), n + 1, Len(s) - m)
<1> DEFINE r == SubSeq(s, m + 1, Len(s))
           a == SubSeq(r, 1, n)
           b == SubSeq(r, n + 1, Len(r))
           x == SubSeq(s, 1, m)
<1>a. \A p, q, w \in Seq(T) : (p \o q) \o w = p \o (q \o w)
  OBVIOUS
<1>1. /\ x \in Seq(T) /\ r \in Seq(T) /\ Len(x) = m /\ Len(r) = Len(s) - m
      /\ x \o r = s
  BY CutInTwo
<1> HIDE DEF r, x
<1>2. /\ a \in Seq(T) /\ b \in Seq(T) /\ Len(a) = n /\ a \o b = r
  <2>1. n \in 0..Len(r)
    BY <1>1
  <2> QED BY <1>1, <2>1, CutInTwo
<1> HIDE DEF a, b
<1>3. s = (x \o a) \o b /\ x \o a \in Seq(T) /\ Len(x \o a) = m + n
  <2>1. (x \o a) \o b = x \o (a \o b)
    <3>1. x \in Seq(T) /\ a \in Seq(T) /\ b \in Seq(T)
      BY <1>1, <1>2
    <3> QED BY ONLY <3>1, <1>a
  <2>2. x \o a \in Seq(T) /\ Len(x \o a) = Len(x) + Len(a)
    BY <1>1, <1>2, ConcatProperties
  <2> QED BY <1>1, <1>2, <2>1, <2>2
<1>4. SubSeq(s, m + n + 1, Len(s)) = b
  BY <1>2, <1>3, DropFirst
<1> QED
  BY <1>1, <1>4 DEF b, r
=============================================================================
