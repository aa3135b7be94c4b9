-------------------------- MODULE CuckooTableProofs --------------------------
(***************************************************************************)
(* What the algorithms of CuckooTable do to a container, for every hash    *)
(* function, hashpower and number of slots: every element stays in one of  *)
(* the two buckets of its key, no key comes to be in two slots, and no     *)
(* element is lost (Content), while elements are put in, taken out, moved  *)
(* along a cuckoo path and moved to a larger table, bucket by bucket or    *)
(* all at once.                                                            *)
(***************************************************************************)
EXTENDS Cuckoo, DataTheorems, SequenceTheorems, FiniteSetTheorems, TLAPS

-----------------------------------------------------------------------------
(* Powers and sizes *)

(* const_pow multiplies. *)
LEMMA PowSteps ==
  ASSUME NEW a \in Nat
  PROVE  /\ const_pow(a, 0) = 1
         /\ \A n \in Nat : /\ const_pow(a, n) \in Nat
                           /\ const_pow(a, n + 1) = a * const_pow(a, n)
<1>. DEFINE Is(f) == f = [n \in Nat |-> IF n = 0 THEN 1 ELSE a * f[n - 1]]
            pow   == CHOOSE f : Is(f)
            g     == [x \in Nat \X Nat |-> a * x[2]]
<1>1. g \in [Nat \X Nat -> Nat]
  OBVIOUS
<1>2. PICK f : NatRecursion(f, Nat, 1, g)
  <2>. HIDE DEF g
  <2>. QED BY <1>1, NatRecursionDefined
<1>3. f \in [Nat -> Nat] /\ f[0] = 1
      /\ \A n \in Nat \ {0} : f[n] = g[<<n, f[n - 1]>>]
  BY <1>2 DEF NatRecursion
<1>4. ASSUME NEW n \in Nat \ {0} PROVE f[n] = a * f[n - 1]
  <2>1. f[n - 1] \in Nat
    BY <1>3
  <2>2. g[<<n, f[n - 1]>>] = a * f[n - 1]
    BY <2>1
  <2>. HIDE DEF g
  <2>. QED BY <1>3, <2>2
<1>5. Is(f)
  BY <1>3, <1>4
<1>6. Is(pow)
  <2>. HIDE DEF Is
  <2>. QED BY <1>5, Zenon
<1>7. pow[0] = 1 /\ \A n \in Nat : pow[n + 1] = a * pow[n]
  <2>. HIDE DEF pow
  <2>1. \A n \in Nat : pow[n] = IF n = 0 THEN 1 ELSE a * pow[n - 1]
    BY <1>6, Zenon
  <2>2. \A n \in Nat : n + 1 \in Nat /\ n + 1 # 0 /\ (n + 1) - 1 = n
    OBVIOUS
  <2>3. pow[0] = 1
    BY <2>1
  <2>4. ASSUME NEW n \in Nat PROVE pow[n + 1] = a * pow[n]
    BY <2>1, <2>2
  <2>. QED BY <2>3, <2>4
<1>8. \A n : const_pow(a, n) = pow[n]
  BY DEF const_pow
<1>. DEFINE N == {n \in Nat : pow[n] \in Nat}
<1>. HIDE DEF pow
<1>9. 0 \in N /\ \A n \in Nat : n \in N => n + 1 \in N
  BY <1>7
<1>10. \A n \in Nat : n \in N
  <2>. HIDE DEF N
  <2>. QED BY <1>9, NatSetInduction
<1>. QED
  BY <1>7, <1>8, <1>10

(* A table twice as large. *)
LEMMA SizeSteps ==
  /\ hashsize(0) = 1
  /\ \A hp \in Nat : hashsize(hp) \in Nat \ {0} /\ hashsize(hp + 1) = 2 * hashsize(hp)
<1>1. /\ hashsize(0) = 1
      /\ \A hp \in Nat : hashsize(hp) \in Nat /\ hashsize(hp + 1) = 2 * hashsize(hp)
  BY PowSteps DEF hashsize
<1>. DEFINE N == {n \in Nat : hashsize(n) # 0}
<1>. HIDE DEF hashsize
<1>2. 0 \in N /\ \A n \in Nat : n \in N => n + 1 \in N
  BY <1>1
<1>3. \A n \in Nat : n \in N
  <2>. HIDE DEF N
  <2>. QED BY <1>2, NatSetInduction
<1>. QED
  BY <1>1, <1>3

(* Powers of a positive number are positive. *)
LEMMA PowPositive ==
  ASSUME NEW a \in Nat \ {0}
  PROVE  \A n \in Nat : const_pow(a, n) \in Nat \ {0}
<1>1. /\ const_pow(a, 0) = 1
      /\ \A n \in Nat : const_pow(a, n) \in Nat /\ const_pow(a, n + 1) = a * const_pow(a, n)
  BY PowSteps
<1>. DEFINE N == {n \in Nat : const_pow(a, n) # 0}
<1>. HIDE DEF const_pow
<1>2. 0 \in N
  BY <1>1
<1>3. ASSUME NEW n \in Nat, n \in N PROVE n + 1 \in N
  <2>1. const_pow(a, n) \in Nat \ {0} /\ const_pow(a, n + 1) = a * const_pow(a, n)
    BY <1>1, <1>3
  <2>2. \A x \in Nat \ {0} : a * x # 0
    OBVIOUS
  <2>. QED BY <2>1, <2>2
<1>4. \A n \in Nat : n \in N
  <2>. HIDE DEF N
  <2>. QED BY <1>2, <1>3, NatSetInduction
<1>. QED
  BY <1>1, <1>4

-----------------------------------------------------------------------------
(* The exclusive or *)

(* BitXor goes from the lowest bit on. *)
LEMMA XorSteps ==
  \A a, b \in Nat :
    /\ BitXor(a, b, 0) = 0
    /\ \A n \in Nat :
         /\ BitXor(a, b, n) \in Nat
         /\ BitXor(a, b, n + 1) = ((a + b) % 2) + 2 * BitXor(a \div 2, b \div 2, n)
<1>. DEFINE Pairs      == Nat \X Nat
            Step(i, f) == [x \in Pairs |->
                             IF i = 0 THEN 0
                             ELSE ((x[1] + x[2]) % 2) + 2 * f[<<x[1] \div 2, x[2] \div 2>>]]
            Is(f) == f = [i \in Nat |-> Step(i, f[i - 1])]
            low   == CHOOSE f : Is(f)
            S     == [Pairs -> Nat]
            zero  == [x \in Pairs |-> 0]
            g     == [u \in Nat \X S |-> Step(u[1], u[2])]
<1>1. zero \in S
  OBVIOUS
<1>2. ASSUME NEW i \in Nat, NEW f \in S PROVE Step(i, f) \in S
  <2>1. \A x \in Pairs : f[<<x[1] \div 2, x[2] \div 2>>] \in Nat /\ (x[1] + x[2]) % 2 \in Nat
    OBVIOUS
  <2>. QED BY <2>1
<1>3. \A f : Step(0, f) = zero
  OBVIOUS
<1>4. g \in [Nat \X S -> S]
  <2>. HIDE DEF S, Step
  <2>. QED BY <1>2
<1>5. PICK f : NatRecursion(f, S, zero, g)
  <2>. HIDE DEF g, S, zero
  <2>. QED BY <1>1, <1>4, NatRecursionDefined
<1>6. f \in [Nat -> S] /\ f[0] = zero
      /\ \A n \in Nat \ {0} : f[n] = g[<<n, f[n - 1]>>]
  BY <1>5 DEF NatRecursion
<1>7. ASSUME NEW n \in Nat PROVE f[n] = Step(n, f[n - 1])
  <2>1. CASE n = 0
    <3>. HIDE DEF Step, g, S, zero
    <3>. QED BY <1>3, <1>6, <2>1
  <2>2. CASE n # 0
    <3>1. f[n - 1] \in S
      BY <1>6, <2>2
    <3>. HIDE DEF Step, S, zero
    <3>2. g[<<n, f[n - 1]>>] = Step(n, f[n - 1])
      BY <3>1
    <3>. HIDE DEF g
    <3>. QED BY <1>6, <2>2, <3>2
  <2>. QED BY <2>1, <2>2
<1>8. Is(f)
  <2>. HIDE DEF Step, S, zero, g
  <2>. QED BY <1>6, <1>7
<1>9. Is(low)
  <2>. HIDE DEF Is
  <2>. QED BY <1>8, Zenon
<1>10. \A n \in Nat : low[n] = Step(n, low[n - 1])
  <2>. HIDE DEF low, Step
  <2>. QED BY <1>9, Zenon
<1>11. \A n \in Nat : low[n] \in S
  <2>. DEFINE N == {n \in Nat : low[n] \in S}
  <2>. HIDE DEF low, S, Step, zero
  <2>1. 0 \in N
    BY <1>1, <1>3, <1>10
  <2>2. ASSUME NEW n \in Nat, n \in N PROVE n + 1 \in N
    <3>1. low[n + 1] = Step(n + 1, low[n]) /\ low[n] \in S
      <4>1. (n + 1) - 1 = n /\ n + 1 \in Nat
        OBVIOUS
      <4>. QED BY <1>10, <2>2, <4>1
    <3>. QED BY <1>2, <3>1
  <2>3. \A n \in Nat : n \in N
    <3>. HIDE DEF N
    <3>. QED BY <2>1, <2>2, NatSetInduction
  <2>. QED BY <2>3
<1>12. ASSUME NEW a \in Nat, NEW b \in Nat
       PROVE  /\ BitXor(a, b, 0) = 0
              /\ \A n \in Nat :
                   /\ BitXor(a, b, n) \in Nat
                   /\ BitXor(a, b, n + 1) = ((a + b) % 2) + 2 * BitXor(a \div 2, b \div 2, n)
  <2>1. \A n, x, y : BitXor(x, y, n) = low[n][<<x, y>>]
    BY DEF BitXor
  <2>. HIDE DEF low
  <2>2. low[0] = zero
    <3>. HIDE DEF Step, zero
    <3>. QED BY <1>3, <1>10
  <2>3. <<a, b>> \in Pairs
    OBVIOUS
  <2>4. BitXor(a, b, 0) = 0
    BY <2>1, <2>2, <2>3
  <2>5. ASSUME NEW n \in Nat
        PROVE  /\ BitXor(a, b, n) \in Nat
               /\ BitXor(a, b, n + 1) = ((a + b) % 2) + 2 * BitXor(a \div 2, b \div 2, n)
    <3>1. BitXor(a, b, n) \in Nat
      BY <1>11, <2>1, <2>3
    <3>2. low[n + 1] = Step(n + 1, low[n])
      <4>1. (n + 1) - 1 = n /\ n + 1 \in Nat
        OBVIOUS
      <4>. HIDE DEF Step
      <4>. QED BY <1>10, <4>1
    <3>3. low[n + 1][<<a, b>>] = ((a + b) % 2) + 2 * low[n][<<a \div 2, b \div 2>>]
      BY <2>3, <3>2
    <3>. HIDE DEF Step
    <3>. QED BY <2>1, <3>1, <3>3
  <2>. QED BY <2>4, <2>5
<1>. QED
  BY <1>12

(* A remainder is unique. *)
LEMMA Remainder ==
  ASSUME NEW k \in Nat, NEW s \in Nat \ {0}, NEW r \in Nat, r < s, NEW a, a = k * s + r
  PROVE  a % s = r /\ a \div s = k /\ a \in Nat
<1>1. k * s \in Nat
  OBVIOUS
<1>2. a \in Nat
  BY <1>1
<1>3. a \div s = k
  BY <1>2
<1>4. a % s = r
  BY <1>2, <1>3
<1>. QED
  BY <1>2, <1>3, <1>4

(* Every number is a multiple and a remainder. *)
LEMMA Division ==
  ASSUME NEW a \in Nat, NEW s \in Nat \ {0}
  PROVE  /\ a \div s \in Nat /\ a % s \in Nat /\ a % s < s
         /\ a = (a \div s) * s + (a % s)
  OBVIOUS

(* The remainder by an even number, from its lowest bit on. *)
LEMMA HalfMod ==
  ASSUME NEW a \in Nat, NEW m \in Nat \ {0}
  PROVE  /\ a % (2 * m) = (a % 2) + 2 * ((a \div 2) % m)
         /\ (a % (2 * m)) % 2 = a % 2
         /\ (a % (2 * m)) \div 2 = (a \div 2) % m
         /\ (a % (2 * m)) % m = a % m
<1>. DEFINE h == a \div 2
            q == h \div m
            r == h % m
<1>1. h \in Nat /\ a % 2 \in {0, 1} /\ a = 2 * h + (a % 2)
  OBVIOUS
<1>2. q \in Nat /\ r \in Nat /\ r < m /\ h = q * m + r
  <2>. HIDE DEF h
  <2>. QED BY <1>1, Division
<1>. HIDE DEF h, q, r
<1>3. a = q * (2 * m) + ((a % 2) + 2 * r)
  <2>1. 2 * (q * m) = q * (2 * m)
    BY <1>2
  <2>. QED BY <1>1, <1>2, <2>1
<1>4. (a % 2) + 2 * r \in Nat /\ (a % 2) + 2 * r < 2 * m /\ 2 * m \in Nat \ {0}
  BY <1>1, <1>2
<1>5. a % (2 * m) = (a % 2) + 2 * r
  <2>. DEFINE c == (a % 2) + 2 * r
              d == 2 * m
  <2>1. c \in Nat /\ c < d /\ d \in Nat \ {0} /\ a = q * d + c
    BY <1>3, <1>4
  <2>. HIDE DEF c, d
  <2>2. a % d = c
    BY <1>2, <2>1, Remainder
  <2>. QED BY <2>2 DEF c, d
<1>6. ((a % 2) + 2 * r) % 2 = a % 2 /\ ((a % 2) + 2 * r) \div 2 = r
  BY <1>1, <1>2
<1>7. (a % (2 * m)) % m = a % m
  <2>. DEFINE x == a % (2 * m)
              y == a \div (2 * m)
  <2>1. x \in Nat /\ y \in Nat /\ a = y * (2 * m) + x
    <3>. DEFINE d == 2 * m
    <3>1. d \in Nat \ {0}
      OBVIOUS
    <3>. HIDE DEF d
    <3>2. a % d \in Nat /\ a \div d \in Nat /\ a = (a \div d) * d + (a % d)
      BY <3>1, Division
    <3>. QED BY <3>2 DEF d
  <2>. HIDE DEF x, y
  <2>2. x \div m \in Nat /\ x % m \in Nat /\ x % m < m /\ x = (x \div m) * m + (x % m)
    BY <2>1, Division
  <2>. DEFINE z == x \div m
              w == x % m
  <2>3. z \in Nat /\ w \in Nat /\ w < m /\ x = z * m + w
    BY <2>2
  <2>. HIDE DEF z, w
  <2>4. a = (2 * y + z) * m + w
    <3>1. y * (2 * m) + z * m = (2 * y + z) * m
      BY <2>1, <2>3
    <3>. QED BY <2>1, <2>3, <3>1
  <2>5. 2 * y + z \in Nat
    BY <2>1, <2>3
  <2>6. a % m = w
    BY <2>3, <2>4, <2>5, Remainder
  <2>. QED BY <2>6 DEF w, x
<1>. QED
  BY <1>5, <1>6, <1>7 DEF h, r

(* The result has n bits. *)
LEMMA XorBound ==
  ASSUME NEW n \in Nat, NEW a \in Nat, NEW b \in Nat
  PROVE  BitXor(a, b, n) \in 0 .. hashsize(n) - 1
<1>. DEFINE N == {i \in Nat : \A x, y \in Nat : BitXor(x, y, i) < hashsize(i)}
<1>1. 0 \in N
  BY XorSteps, SizeSteps
<1>2. ASSUME NEW i \in Nat, i \in N PROVE i + 1 \in N
  <2>. SUFFICES ASSUME NEW x \in Nat, NEW y \in Nat
                PROVE  BitXor(x, y, i + 1) < hashsize(i + 1)
    OBVIOUS
  <2>1. x \div 2 \in Nat /\ y \div 2 \in Nat /\ (x + y) % 2 \in {0, 1}
    OBVIOUS
  <2>2. BitXor(x, y, i + 1) = ((x + y) % 2) + 2 * BitXor(x \div 2, y \div 2, i)
    BY XorSteps
  <2>3. /\ BitXor(x \div 2, y \div 2, i) \in Nat
        /\ BitXor(x \div 2, y \div 2, i) < hashsize(i)
    BY <1>2, <2>1, XorSteps
  <2>4. hashsize(i) \in Nat /\ hashsize(i + 1) = 2 * hashsize(i)
    BY SizeSteps
  <2>. HIDE DEF N
  <2>. QED BY <2>1, <2>2, <2>3, <2>4
<1>3. n \in N
  <2>. HIDE DEF N
  <2>. QED BY <1>1, <1>2, NatSetInduction
<1>4. BitXor(a, b, n) \in Nat /\ hashsize(n) \in Nat
  BY XorSteps, SizeSteps
<1>. QED
  BY <1>3, <1>4

(* The exclusive or with the same number undoes it. *)
LEMMA XorTwice ==
  ASSUME NEW n \in Nat, NEW a \in 0 .. hashsize(n) - 1, NEW b \in Nat
  PROVE  BitXor(BitXor(a, b, n), b, n) = a
<1>. DEFINE N == {i \in Nat : \A x, y \in Nat : x < hashsize(i) =>
                                BitXor(BitXor(x, y, i), y, i) = x}
<1>1. 0 \in N
  BY XorSteps, SizeSteps
<1>2. ASSUME NEW i \in Nat, i \in N PROVE i + 1 \in N
  <2>. SUFFICES ASSUME NEW x \in Nat, NEW y \in Nat, x < hashsize(i + 1)
                PROVE  BitXor(BitXor(x, y, i + 1), y, i + 1) = x
    OBVIOUS
  <2>. DEFINE u == x \div 2
              v == y \div 2
              w == BitXor(u, v, i)
              z == BitXor(x, y, i + 1)
              c == (x + y) % 2
  <2>1. u \in Nat /\ v \in Nat /\ c \in {0, 1} /\ x = 2 * u + (x % 2)
        /\ (c + y) % 2 = x % 2
    OBVIOUS
  <2>2. z = c + 2 * w
    BY XorSteps
  <2>3. w \in Nat
    BY <2>1, XorSteps
  <2>4. u < hashsize(i)
    BY <2>1, SizeSteps
  <2>5. BitXor(w, v, i) = u
    BY <1>2, <2>1, <2>4
  <2>. HIDE DEF u, w, z, c, N
  <2>6. z \in Nat /\ z \div 2 = w /\ (z + y) % 2 = x % 2
    BY <2>1, <2>2, <2>3
  <2>7. BitXor(z, y, i + 1) = ((z + y) % 2) + 2 * BitXor(z \div 2, v, i)
    BY <2>6, XorSteps
  <2>8. BitXor(z, y, i + 1) = x
    BY <2>1, <2>5, <2>6, <2>7
  <2>. QED BY <2>8 DEF z
<1>3. n \in N
  <2>. HIDE DEF N
  <2>. QED BY <1>1, <1>2, NatSetInduction
<1>4. a \in Nat /\ a < hashsize(n)
  BY SizeSteps
<1>. QED
  BY <1>3, <1>4

(* The low bits of the result are those of the low bits. *)
LEMMA XorLow ==
  ASSUME NEW n \in Nat, NEW a \in Nat, NEW b \in Nat
  PROVE  BitXor(a, b, n + 1) % hashsize(n) = BitXor(a % hashsize(n), b % hashsize(n), n)
<1>. DEFINE N == {i \in Nat : \A x, y \in Nat :
                    BitXor(x, y, i + 1) % hashsize(i)
                      = BitXor(x % hashsize(i), y % hashsize(i), i)}
<1>1. 0 \in N
  <2>. SUFFICES ASSUME NEW x \in Nat, NEW y \in Nat
                PROVE  BitXor(x, y, 1) % 1 = BitXor(x % 1, y % 1, 0)
    BY SizeSteps
  <2>1. BitXor(x, y, 1) \in Nat /\ x % 1 \in Nat /\ y % 1 \in Nat
    BY XorSteps
  <2>2. BitXor(x % 1, y % 1, 0) = 0
    BY <2>1, XorSteps
  <2>. QED BY <2>1, <2>2
<1>2. ASSUME NEW i \in Nat, i \in N PROVE i + 1 \in N
  <2>. SUFFICES ASSUME NEW x \in Nat, NEW y \in Nat
                PROVE  BitXor(x, y, (i + 1) + 1) % hashsize(i + 1)
                         = BitXor(x % hashsize(i + 1), y % hashsize(i + 1), i + 1)
    OBVIOUS
  <2>0. \A p, q \in Nat : BitXor(p, q, i + 1)
                            = ((p + q) % 2) + 2 * BitXor(p \div 2, q \div 2, i)
    <3>. SUFFICES ASSUME NEW p \in Nat, NEW q \in Nat
                  PROVE  BitXor(p, q, i + 1)
                            = ((p + q) % 2) + 2 * BitXor(p \div 2, q \div 2, i)
      OBVIOUS
    <3>1. /\ BitXor(p, q, 0) = 0
          /\ \A k \in Nat :
               /\ BitXor(p, q, k) \in Nat
               /\ BitXor(p, q, k + 1) = ((p + q) % 2) + 2 * BitXor(p \div 2, q \div 2, k)
      BY XorSteps
    <3>. QED BY <3>1
  <2>. DEFINE m == hashsize(i)
              u == x \div 2
              v == y \div 2
              w == BitXor(u, v, i + 1)
              z == BitXor(x, y, (i + 1) + 1)
              c == (x + y) % 2
              r == x % (2 * m)
              s == y % (2 * m)
  <2>1. m \in Nat \ {0} /\ hashsize(i + 1) = 2 * m
    BY SizeSteps
  <2>2. u \in Nat /\ v \in Nat /\ c \in {0, 1}
    OBVIOUS
  <2>3. z = c + 2 * w /\ w \in Nat
    <3>1. i + 1 \in Nat
      OBVIOUS
    <3>2. \A j \in Nat : BitXor(x, y, j + 1) = c + 2 * BitXor(u, v, j)
      <4>. SUFFICES ASSUME NEW j \in Nat
                    PROVE  BitXor(x, y, j + 1) = c + 2 * BitXor(u, v, j)
        OBVIOUS
      <4>1. /\ BitXor(x, y, 0) = 0
            /\ \A k \in Nat :
                 /\ BitXor(x, y, k) \in Nat
                 /\ BitXor(x, y, k + 1) = ((x + y) % 2) + 2 * BitXor(x \div 2, y \div 2, k)
        BY XorSteps
      <4>. QED BY <4>1
    <3>3. \A j \in Nat : BitXor(u, v, j) \in Nat
      BY <2>2, XorSteps
    <3>. HIDE DEF c, u, v
    <3>4. z = c + 2 * BitXor(u, v, i + 1)
      BY <3>1, <3>2
    <3>5. BitXor(u, v, i + 1) \in Nat
      BY <3>1, <3>3
    <3>. QED BY <3>4, <3>5
  <2>4. w % m = BitXor(u % m, v % m, i)
    BY <1>2, <2>2
  <2>. HIDE DEF m
  <2>5. r \in Nat /\ s \in Nat
    BY <2>1
  <2>6. r % 2 = x % 2 /\ r \div 2 = u % m /\ s % 2 = y % 2 /\ s \div 2 = v % m
    BY <2>1, HalfMod
  <2>. HIDE DEF r, s, w, z, N
  <2>7. BitXor(r, s, i + 1) = ((r + s) % 2) + 2 * BitXor(r \div 2, s \div 2, i)
    BY <2>0, <2>5
  <2>8. (r + s) % 2 = c
    BY <2>5, <2>6
  <2>. HIDE DEF c, u, v
  <2>9. BitXor(r, s, i + 1) = c + 2 * (w % m)
    BY <2>4, <2>6, <2>7, <2>8
  <2>10. z \in Nat /\ z % 2 = c /\ z \div 2 = w
    BY <2>2, <2>3
  <2>11. z % (2 * m) = c + 2 * (w % m)
    BY <2>1, <2>10, HalfMod
  <2>. QED BY <2>1, <2>9, <2>11 DEF z, r, s
<1>3. n \in N
  <2>. HIDE DEF N
  <2>. QED BY <1>1, <1>2, NatSetInduction
<1>. QED
  BY <1>3

-----------------------------------------------------------------------------
(* The two buckets of a key *)

(* A partial key is a number. *)
LEMMA PartialKey ==
  ASSUME NEW h \in Nat PROVE partial_key(h) \in Nat
<1>1. hashsize(HashBits) \in Nat \ {0}
  BY SizeSteps DEF HashBits
<1>2. h % 256 \in Nat /\ (h % hashsize(HashBits)) \div 256 \in Nat
  <2>1. h % hashsize(HashBits) \in Nat
    BY <1>1, Division
  <2>2. \A x \in Nat : x \div 256 \in Nat
    OBVIOUS
  <2>3. h % 256 \in Nat
    OBVIOUS
  <2>. HIDE DEF hashsize
  <2>. QED BY <2>1, <2>2, <2>3
<1>3. \A a, b, n \in Nat : BitXor(a, b, n) \in Nat
  BY XorSteps
<1>. DEFINE x == h % 256
            y == (h % hashsize(HashBits)) \div 256
<1>4. partial_key(h) \in {BitXor(x, y, 8)}
  BY DEF partial_key
<1>. HIDE DEF x, y
<1>. QED
  BY <1>2, <1>3, <1>4 DEF x, y

(* What alt_index gives, and gives for a table twice as large. *)
LEMMA AltIndex ==
  ASSUME NEW hp \in Nat, NEW partial \in Nat, NEW index \in Nat
  PROVE  /\ alt_index(hp, partial, index) \in Buckets(hp)
         /\ index \in Buckets(hp) => alt_index(hp, partial, alt_index(hp, partial, index)) = index
         /\ alt_index(hp + 1, partial, index) % hashsize(hp)
              = alt_index(hp, partial, index % hashsize(hp))
<1>. DEFINE m == (partial + 1) * MurmurLow
            s == hashsize(hp)
<1>1. s \in Nat \ {0} /\ hashsize(hp + 1) = 2 * s
  BY SizeSteps
<1>2. m \in Nat
  BY DEF MurmurLow
<1>. HIDE DEF m, s
<1>3. m % s \in Nat /\ m % (2 * s) \in Nat /\ (m % (2 * s)) % s = m % s
  <2>1. m % s \in Nat
    BY <1>1, <1>2, Division
  <2>2. 2 * s \in Nat \ {0}
    BY <1>1
  <2>3. m % (2 * s) \in Nat
    BY <1>2, <2>2, Division
  <2>. QED BY <1>1, <1>2, <2>1, <2>3, HalfMod
<1>4. \A i : /\ alt_index(hp, partial, i) = BitXor(i, m % s, hp)
            /\ alt_index(hp + 1, partial, i) = BitXor(i, m % (2 * s), hp + 1)
  BY <1>1 DEF alt_index, m, s
<1>5. \A x, y \in Nat : BitXor(x, y, hp) \in 0 .. s - 1
  BY XorBound DEF s
<1>6. BitXor(index, m % s, hp) \in Buckets(hp)
  BY <1>3, <1>5 DEF Buckets, s
<1>7. index \in Buckets(hp) => BitXor(BitXor(index, m % s, hp), m % s, hp) = index
  BY <1>3, XorTwice DEF Buckets, s
<1>8. BitXor(index, m % (2 * s), hp + 1) % s = BitXor(index % s, m % s, hp)
  <2>1. BitXor(index, m % (2 * s), hp + 1) % s = BitXor(index % s, (m % (2 * s)) % s, hp)
    BY <1>3, XorLow DEF s
  <2>. QED BY <1>3, <2>1
<1>. QED
  BY <1>4, <1>6, <1>7, <1>8 DEF s

(* The buckets of a key are in the table. *)
LEMMA KeyBuckets ==
  ASSUME NEW hp \in Nat, NEW key \in Keys
  PROVE  /\ FirstBucket(hp, key) \in Buckets(hp) /\ SecondBucket(hp, key) \in Buckets(hp)
         /\ TwoBuckets(hp, key) \subseteq Buckets(hp)
         /\ partial_key(Hash[key]) \in Nat
<1>1. Hash[key] \in Nat
  BY TableAssumption
<1>2. hashsize(hp) \in Nat \ {0}
  BY SizeSteps
<1>3. FirstBucket(hp, key) \in Buckets(hp) /\ FirstBucket(hp, key) \in Nat
  BY <1>1, <1>2, Division DEF FirstBucket, index_hash, Buckets
<1>4. partial_key(Hash[key]) \in Nat
  BY <1>1, PartialKey
<1>5. SecondBucket(hp, key) \in Buckets(hp)
  BY <1>3, <1>4, AltIndex DEF SecondBucket
<1>. QED
  BY <1>3, <1>4, <1>5 DEF TwoBuckets

(* From either bucket of a key the alternate is the other one. *)
LEMMA AlternateIsHome ==
  ASSUME NEW hp \in Nat, NEW key \in Keys, NEW i \in TwoBuckets(hp, key)
  PROVE  Alternate(hp, i, key) \in TwoBuckets(hp, key)
<1>1. FirstBucket(hp, key) \in Buckets(hp) /\ partial_key(Hash[key]) \in Nat
  BY KeyBuckets
<1>2. FirstBucket(hp, key) \in Nat
  BY <1>1, SizeSteps DEF Buckets
<1>3. Alternate(hp, FirstBucket(hp, key), key) = SecondBucket(hp, key)
  BY DEF Alternate, SecondBucket
<1>4. Alternate(hp, SecondBucket(hp, key), key) = FirstBucket(hp, key)
  BY <1>1, <1>2, AltIndex DEF Alternate, SecondBucket
<1>. QED
  BY <1>3, <1>4 DEF TwoBuckets

(* The remainder by a number of one less than twice the number. *)
LEMMA BeyondHalf ==
  ASSUME NEW s \in Nat \ {0}, NEW x \in Nat, x >= s, x < 2 * s
  PROVE  x % s = x - s
<1>. DEFINE r == x - s
            k == 1
<1>1. r \in Nat /\ r < s /\ x = k * s + r /\ k \in Nat
  OBVIOUS
<1>. HIDE DEF r, k
<1>2. x % s = r
  BY <1>1, Remainder
<1>. QED
  BY <1>2 DEF r

(* In a table twice as large a key's buckets are the same, or the ones that  *)
(* many further.                                                           *)
LEMMA LargerBuckets ==
  ASSUME NEW hp \in Nat, NEW key \in Keys
  PROVE  /\ FirstBucket(hp + 1, key) \in
               {FirstBucket(hp, key), FirstBucket(hp, key) + hashsize(hp)}
         /\ SecondBucket(hp + 1, key) \in
               {SecondBucket(hp, key), SecondBucket(hp, key) + hashsize(hp)}
<1>. DEFINE s == hashsize(hp)
            h == Hash[key]
<1>1. h \in Nat
  BY TableAssumption
<1>2. s \in Nat \ {0} /\ hashsize(hp + 1) = 2 * s /\ hp + 1 \in Nat
  BY SizeSteps
<1>3. /\ FirstBucket(hp, key) \in 0 .. s - 1 /\ SecondBucket(hp, key) \in 0 .. s - 1
      /\ FirstBucket(hp + 1, key) \in 0 .. 2 * s - 1
      /\ SecondBucket(hp + 1, key) \in 0 .. 2 * s - 1
      /\ partial_key(h) \in Nat
  BY <1>2, KeyBuckets DEF Buckets
<1>4. FirstBucket(hp + 1, key) % s = FirstBucket(hp, key)
  <2>1. FirstBucket(hp + 1, key) = h % (2 * s) /\ FirstBucket(hp, key) = h % s
    BY <1>2 DEF FirstBucket, index_hash
  <2>. HIDE DEF h, s
  <2>2. (h % (2 * s)) % s = h % s
    BY <1>1, <1>2, HalfMod
  <2>. QED BY <2>1, <2>2
<1>5. SecondBucket(hp + 1, key) % s = SecondBucket(hp, key)
  <2>1. FirstBucket(hp + 1, key) \in Nat
    BY <1>2, <1>3
  <2>2. SecondBucket(hp + 1, key) % s
          = alt_index(hp, partial_key(h), FirstBucket(hp + 1, key) % s)
    BY <1>3, <2>1, AltIndex DEF SecondBucket
  <2>. QED BY <1>4, <2>2 DEF SecondBucket
<1>. HIDE DEF s, h
<1>6. ASSUME NEW x \in 0 .. 2 * s - 1, NEW y \in 0 .. s - 1, x % s = y
      PROVE  x \in {y, y + s}
  <2>1. x < s => x % s = x
    BY <1>2
  <2>2. x >= s => x % s = x - s
    <3>1. s \in Nat \ {0} /\ x \in Nat /\ x < 2 * s
      BY <1>2
    <3>. QED BY <3>1, BeyondHalf, Zenon
  <2>. QED BY <1>2, <1>6, <2>1, <2>2
<1>. QED
  BY <1>3, <1>4, <1>5, <1>6 DEF s

(* Where move_bucket puts an element is one of its buckets. *)
LEMMA LeavesForHome ==
  ASSUME NEW hp \in Nat, NEW key \in Keys, NEW i \in TwoBuckets(hp, key)
  PROVE  IF Leaves(hp, i, key) THEN i + hashsize(hp) \in TwoBuckets(hp + 1, key)
                               ELSE i \in TwoBuckets(hp + 1, key)
  BY LargerBuckets DEF Leaves, TwoBuckets

-----------------------------------------------------------------------------
(* Tables *)

KV == [key : Keys, val : Vals]

(* The containers of a table of a hashpower. *)
Containers(hp) == [Buckets(hp) -> [Slots -> KV \cup {Vacant}]]

(* Every element is in one of the two buckets of its key. *)
AtHome(hp, data) ==
  \A i \in Buckets(hp), s \in Slots :
    occupied(data[i], s) => i \in TwoBuckets(hp, data[i][s].key)

GoodTable(hp, data) == hp \in Nat /\ data \in Containers(hp) /\ AtHome(hp, data)

(* The cells of two containers, the second of which only counts at the     *)
(* buckets lv: <<1, i, s>> is slot s of bucket i of the first.             *)
Cells == {1, 2} \X Nat \X Slots

Cell(data, rest, lv, x) ==
  IF x[1] = 1 THEN IF x[2] \in DOMAIN data THEN data[x[2]][x[3]] ELSE Vacant
              ELSE IF x[2] \in lv THEN rest[x[2]][x[3]] ELSE Vacant

(* No key is in two cells. *)
Apart(data, rest, lv) ==
  \A x, y \in Cells :
    /\ Cell(data, rest, lv, x) # Vacant
    /\ Cell(data, rest, lv, y) # Vacant
    /\ Cell(data, rest, lv, x).key = Cell(data, rest, lv, y).key
    => x = y

(* The same of one container alone. *)
Single(data) == Apart(data, NoOld, {})

(* A key that is not in a container. *)
Absent(data, key) ==
  \A i \in DOMAIN data, s \in Slots : occupied(data[i], s) => data[i][s].key # key

(* The elements of two containers go to other cells, each to one. *)
LEMMA ApartFrom ==
  ASSUME NEW data, NEW rest, NEW lv, Apart(data, rest, lv),
         NEW data2, NEW rest2, NEW lv2, NEW to,
         \A x \in Cells : Cell(data2, rest2, lv2, x) # Vacant =>
           \E z \in Cells : /\ x = to[z]
                            /\ Cell(data, rest, lv, z) # Vacant
                            /\ Cell(data, rest, lv, z).key = Cell(data2, rest2, lv2, x).key
  PROVE  Apart(data2, rest2, lv2)
<1>. SUFFICES ASSUME NEW x \in Cells, NEW y \in Cells,
                     Cell(data2, rest2, lv2, x) # Vacant,
                     Cell(data2, rest2, lv2, y) # Vacant,
                     Cell(data2, rest2, lv2, x).key = Cell(data2, rest2, lv2, y).key
              PROVE  x = y
  BY DEF Apart
<1>1. PICK z \in Cells : /\ x = to[z]
                         /\ Cell(data, rest, lv, z) # Vacant
                         /\ Cell(data, rest, lv, z).key = Cell(data2, rest2, lv2, x).key
  OBVIOUS
<1>2. PICK w \in Cells : /\ y = to[w]
                         /\ Cell(data, rest, lv, w) # Vacant
                         /\ Cell(data, rest, lv, w).key = Cell(data2, rest2, lv2, y).key
  OBVIOUS
<1>3. z = w
  BY <1>1, <1>2 DEF Apart
<1>. QED
  BY <1>1, <1>2, <1>3

(* What is in two containers may stay where it is, or be gone. *)
LEMMA ApartStays ==
  ASSUME NEW data, NEW rest, NEW lv, Apart(data, rest, lv),
         NEW data2, NEW rest2, NEW lv2,
         \A x \in Cells : Cell(data2, rest2, lv2, x) # Vacant =>
           /\ Cell(data, rest, lv, x) # Vacant
           /\ Cell(data, rest, lv, x).key = Cell(data2, rest2, lv2, x).key
  PROVE  Apart(data2, rest2, lv2)
<1>. DEFINE to == [z \in Cells |-> z]
<1>1. \A x \in Cells : x = to[x]
  OBVIOUS
<1>. HIDE DEF to
<1>. QED
  BY <1>1, ApartFrom

(* An empty container. *)
LEMMA EmptyTable ==
  ASSUME NEW hp \in Nat
  PROVE  /\ GoodTable(hp, bucket_container(hp)) /\ Single(bucket_container(hp))
         /\ \A key : Absent(bucket_container(hp), key)
<1>1. /\ DOMAIN bucket_container(hp) = Buckets(hp)
      /\ \A i \in Buckets(hp), s \in Slots : bucket_container(hp)[i][s] = Vacant
      /\ bucket_container(hp) \in Containers(hp)
  BY DEF bucket_container, EmptyBucket, Containers
<1>2. \A x \in Cells : Cell(bucket_container(hp), NoOld, {}, x) = Vacant
  BY <1>1 DEF Cell, Cells
<1>. QED
  BY <1>1, <1>2 DEF GoodTable, AtHome, occupied, Single, Apart, Absent

(* What a bucket of a good table holds. *)
LEMMA GoodCell ==
  ASSUME NEW hp, NEW data, GoodTable(hp, data), NEW i \in Buckets(hp), NEW s \in Slots
  PROVE  /\ i \in DOMAIN data /\ i \in Nat
         /\ data[i][s] \in KV \cup {Vacant}
         /\ occupied(data[i], s) => /\ data[i][s] \in KV
                                    /\ data[i][s].key \in Keys
                                    /\ i \in TwoBuckets(hp, data[i][s].key)
<1>1. i \in Nat
  BY SizeSteps DEF Buckets, GoodTable
<1>2. data[i][s] \in KV \cup {Vacant} /\ i \in DOMAIN data
  BY DEF GoodTable, Containers
<1>3. ASSUME data[i][s] # Vacant
      PROVE  data[i][s] \in KV /\ data[i][s].key \in Keys
  BY <1>2, <1>3 DEF KV
<1>. QED
  BY <1>1, <1>2, <1>3 DEF GoodTable, AtHome, occupied

(* An element is put in a slot of one of its key's buckets. *)
LEMMA PutKeeps ==
  ASSUME NEW hp, NEW data, GoodTable(hp, data), NEW kv \in KV,
         NEW i \in TwoBuckets(hp, kv.key), NEW s \in Slots
  PROVE  /\ GoodTable(hp, setKV(data, i, s, kv))
         /\ \A rest, lv : Apart(data, rest, lv) /\ Absent(data, kv.key)
                 /\ (\A j \in lv, r \in Slots : rest[j][r] # Vacant => rest[j][r].key # kv.key)
               => Apart(setKV(data, i, s, kv), rest, lv)
<1>. DEFINE new == setKV(data, i, s, kv)
<1>1. kv.key \in Keys /\ hp \in Nat
  BY DEF KV, GoodTable
<1>2. i \in Buckets(hp)
  BY <1>1, KeyBuckets
<1>3. /\ DOMAIN data = Buckets(hp) /\ DOMAIN new = Buckets(hp)
      /\ \A j \in Buckets(hp) : DOMAIN data[j] = Slots
      /\ new \in Containers(hp)
      /\ \A j \in Buckets(hp), r \in Slots :
           new[j][r] = IF j = i /\ r = s THEN kv ELSE data[j][r]
  BY <1>2 DEF setKV, GoodTable, Containers
<1>. HIDE DEF new
<1>4. AtHome(hp, new)
  BY <1>3 DEF AtHome, GoodTable, occupied
<1>5. ASSUME NEW rest, NEW lv, Apart(data, rest, lv), Absent(data, kv.key),
             \A j \in lv, r \in Slots : rest[j][r] # Vacant => rest[j][r].key # kv.key
      PROVE  Apart(new, rest, lv)
  <2>1. \A x \in Cells : x # <<1, i, s>> => Cell(new, rest, lv, x) = Cell(data, rest, lv, x)
    BY <1>3 DEF Cell, Cells
  <2>2. \A x \in Cells : Cell(data, rest, lv, x) # Vacant => Cell(data, rest, lv, x).key # kv.key
    BY <1>3, <1>5 DEF Cell, Cells, Absent, occupied
  <2>3. Cell(new, rest, lv, <<1, i, s>>) = kv
    BY <1>2, <1>3 DEF Cell
  <2>. QED
    BY <1>5, <2>1, <2>2, <2>3 DEF Apart
<1>. QED
  BY <1>1, <1>3, <1>4, <1>5 DEF GoodTable, new

(* An element is taken out. *)
LEMMA EraseKeeps ==
  ASSUME NEW hp, NEW data, GoodTable(hp, data), NEW i, NEW s
  PROVE  /\ GoodTable(hp, eraseKV(data, i, s))
         /\ \A rest, lv : Apart(data, rest, lv) => Apart(eraseKV(data, i, s), rest, lv)
         /\ \A key : Absent(data, key) => Absent(eraseKV(data, i, s), key)
<1>. DEFINE new == eraseKV(data, i, s)
<1>1. /\ DOMAIN data = Buckets(hp) /\ DOMAIN new = Buckets(hp)
      /\ \A j \in Buckets(hp) : DOMAIN data[j] = Slots
      /\ new \in Containers(hp)
      /\ \A j \in Buckets(hp), r \in Slots :
           new[j][r] = IF j = i /\ r = s THEN Vacant ELSE data[j][r]
  BY DEF eraseKV, GoodTable, Containers
<1>. HIDE DEF new
<1>2. AtHome(hp, new)
  BY <1>1 DEF AtHome, GoodTable, occupied
<1>3. ASSUME NEW rest, NEW lv, Apart(data, rest, lv)
      PROVE  Apart(new, rest, lv)
  <2>1. \A x \in Cells : Cell(new, rest, lv, x) # Vacant =>
                           Cell(new, rest, lv, x) = Cell(data, rest, lv, x)
    BY <1>1 DEF Cell, Cells
  <2>. QED BY <1>3, <2>1, ApartStays
<1>4. ASSUME NEW key, Absent(data, key)
      PROVE  Absent(new, key)
  BY <1>1, <1>4 DEF Absent, occupied
<1>. QED
  BY <1>1, <1>2, <1>3, <1>4 DEF GoodTable, new

(* A value is replaced. *)
LEMMA SetVal ==
  ASSUME NEW hp, NEW data, GoodTable(hp, data), NEW i \in Buckets(hp), NEW s \in Slots,
         occupied(data[i], s), NEW v, NEW new, new = AssignVal(data, i, s, v)
  PROVE  new = setKV(data, i, s, [key |-> data[i][s].key, val |-> v])
<1>. DEFINE c == [data[i][s] EXCEPT !.val = v]
<1>1. data[i][s] \in KV
  BY GoodCell
<1>2. c = [key |-> data[i][s].key, val |-> v]
  BY <1>1 DEF KV
<1>3. new = [data EXCEPT ![i][s] = c]
  BY DEF AssignVal
<1>. QED
  BY <1>2, <1>3 DEF setKV

(* The element stays in the table, with its new value. *)
LEMMA SetValKeeps ==
  ASSUME NEW hp, NEW data, GoodTable(hp, data), NEW i \in Buckets(hp), NEW s \in Slots,
         occupied(data[i], s), NEW v \in Vals,
         NEW new, new = setKV(data, i, s, [key |-> data[i][s].key, val |-> v])
  PROVE  /\ GoodTable(hp, new)
         /\ \A rest, lv : Apart(data, rest, lv) => Apart(new, rest, lv)
<1>. DEFINE kv == [key |-> data[i][s].key, val |-> v]
<1>1. data[i][s] \in KV /\ i \in TwoBuckets(hp, data[i][s].key) /\ hp \in Nat
  BY GoodCell DEF GoodTable
<1>2. kv \in KV /\ kv.key = data[i][s].key
  BY <1>1 DEF KV
<1>3. new = setKV(data, i, s, kv)
  OBVIOUS
<1>4. GoodTable(hp, new)
  <2>1. i \in TwoBuckets(hp, kv.key) /\ kv \in KV
    BY <1>1, <1>2
  <2>. HIDE DEF kv
  <2>. QED BY <1>3, <2>1, PutKeeps
<1>. HIDE DEF kv
<1>5. /\ DOMAIN data = Buckets(hp) /\ DOMAIN new = Buckets(hp)
      /\ \A j \in Buckets(hp), r \in Slots :
           new[j][r] = IF j = i /\ r = s THEN kv ELSE data[j][r]
  BY <1>3 DEF setKV, GoodTable, Containers
<1>6. ASSUME NEW rest, NEW lv, Apart(data, rest, lv)
      PROVE  Apart(new, rest, lv)
  <2>1. \A x \in Cells : Cell(new, rest, lv, x) # Vacant =>
          /\ Cell(data, rest, lv, x) # Vacant
          /\ Cell(data, rest, lv, x).key = Cell(new, rest, lv, x).key
    <3>. SUFFICES ASSUME NEW x \in Cells, Cell(new, rest, lv, x) # Vacant
                  PROVE  /\ Cell(data, rest, lv, x) # Vacant
                         /\ Cell(data, rest, lv, x).key = Cell(new, rest, lv, x).key
      OBVIOUS
    <3>1. CASE x = <<1, i, s>>
      <4>1. Cell(new, rest, lv, x) = kv /\ Cell(data, rest, lv, x) = data[i][s]
        BY <1>5, <3>1 DEF Cell
      <4>. QED BY <1>2, <4>1 DEF occupied
    <3>2. CASE x # <<1, i, s>>
      <4>1. Cell(new, rest, lv, x) = Cell(data, rest, lv, x)
        BY <1>5, <3>2 DEF Cell, Cells
      <4>. QED BY <4>1
    <3>. QED BY <3>1, <3>2
  <2>. QED BY <1>6, <2>1, ApartStays
<1>. QED
  BY <1>4, <1>6

(* An element moves to the other of its buckets. *)
LEMMA MoveKeeps1 ==
  ASSUME NEW hp, NEW data, GoodTable(hp, data),
         NEW i \in Buckets(hp), NEW s \in Slots, NEW j, NEW r \in Slots,
         occupied(data[i], s), j = Alternate(hp, i, data[i][s].key),
         NEW new, new = eraseKV(setKV(data, j, r, data[i][s]), i, s)
  PROVE  /\ GoodTable(hp, new)
         /\ \A rest, lv : Apart(data, rest, lv) => Apart(new, rest, lv)
         /\ \A key : Absent(data, key) => Absent(new, key)
<1>. DEFINE kv  == data[i][s]
            mid == setKV(data, j, r, kv)
<1>1. kv \in KV /\ i \in TwoBuckets(hp, kv.key) /\ hp \in Nat /\ kv.key \in Keys /\ kv # Vacant
  BY GoodCell DEF GoodTable, occupied
<1>2. j \in TwoBuckets(hp, kv.key) /\ j \in Buckets(hp)
  BY <1>1, AlternateIsHome, KeyBuckets
<1>. HIDE DEF kv
<1>3. GoodTable(hp, mid)
  BY <1>1, <1>2, PutKeeps
<1>4. GoodTable(hp, new)
  BY <1>3, EraseKeeps DEF kv
<1>5. /\ DOMAIN data = Buckets(hp) /\ DOMAIN new = Buckets(hp)
      /\ \A k \in Buckets(hp), q \in Slots :
           new[k][q] = IF k = i /\ q = s THEN Vacant
                       ELSE IF k = j /\ q = r THEN kv ELSE data[k][q]
  <2>1. new = eraseKV(mid, i, s)
    BY DEF kv
  <2>2. /\ DOMAIN data = Buckets(hp) /\ DOMAIN mid = Buckets(hp)
        /\ \A k \in Buckets(hp), q \in Slots :
             mid[k][q] = IF k = j /\ q = r THEN kv ELSE data[k][q]
    BY <1>2 DEF setKV, GoodTable, Containers
  <2>. HIDE DEF mid
  <2>3. /\ DOMAIN new = Buckets(hp)
        /\ \A k \in Buckets(hp), q \in Slots :
             new[k][q] = IF k = i /\ q = s THEN Vacant ELSE mid[k][q]
    BY <1>3, <2>1 DEF eraseKV, GoodTable, Containers
  <2>. QED BY <2>2, <2>3
<1>6. ASSUME NEW rest, NEW lv, Apart(data, rest, lv)
      PROVE  Apart(new, rest, lv)
  <2>. DEFINE to == [z \in Cells |-> IF z = <<1, i, s>> THEN <<1, j, r>> ELSE z]
  <2>1. <<1, i, s>> \in Cells /\ Cell(data, rest, lv, <<1, i, s>>) = kv
    BY <1>5, GoodCell DEF Cell, Cells, kv
  <2>2. to[<<1, i, s>>] = <<1, j, r>> /\ \A z \in Cells : z # <<1, i, s>> => to[z] = z
    BY <2>1
  <2>. HIDE DEF to
  <2>3. ASSUME NEW x \in Cells, Cell(new, rest, lv, x) # Vacant
        PROVE  \E z \in Cells : /\ x = to[z]
                                /\ Cell(data, rest, lv, z) # Vacant
                                /\ Cell(data, rest, lv, z).key = Cell(new, rest, lv, x).key
    <3>1. CASE x = <<1, j, r>> /\ <<1, j, r>> # <<1, i, s>>
      <4>1. Cell(new, rest, lv, x) = kv
        BY <1>2, <1>5, <3>1 DEF Cell
      <4>. QED BY <1>1, <2>1, <2>2, <3>1, <4>1
    <3>2. CASE x = <<1, i, s>>
      <4>1. Cell(new, rest, lv, x) = Vacant
        BY <1>5, <3>2 DEF Cell
      <4>. QED BY <2>3, <4>1
    <3>3. CASE x # <<1, i, s>> /\ x # <<1, j, r>>
      <4>1. Cell(new, rest, lv, x) = Cell(data, rest, lv, x)
        BY <1>5, <3>3 DEF Cell, Cells
      <4>. QED BY <2>2, <2>3, <3>3, <4>1
    <3>. QED BY <3>1, <3>2, <3>3
  <2>. QED BY <1>6, <2>3, ApartFrom
<1>7. ASSUME NEW key, Absent(data, key)
      PROVE  Absent(new, key)
  <2>1. kv.key # key
    BY <1>1, <1>5, <1>7 DEF Absent, kv, occupied
  <2>. QED BY <1>5, <1>7, <2>1 DEF Absent, occupied
<1>. QED
  BY <1>4, <1>6, <1>7
-----------------------------------------------------------------------------
(* What is in a table *)

(* The elements of two containers, the second of which counts at lv only.  *)
Content(data, rest, lv) == {Cell(data, rest, lv, x) : x \in Cells} \ {Vacant}

LEMMA ContentIs ==
  ASSUME NEW data, NEW rest, NEW lv, NEW kv
  PROVE  kv \in Content(data, rest, lv) <=>
           kv # Vacant /\ \E x \in Cells : Cell(data, rest, lv, x) = kv
  BY DEF Content

(* Elements that go to other cells, all of them, stay in the table.        *)
LEMMA ContentFrom ==
  ASSUME NEW data, NEW rest, NEW lv, NEW data2, NEW rest2, NEW lv2,
         \A x \in Cells : Cell(data, rest, lv, x) # Vacant =>
           \E z \in Cells : Cell(data2, rest2, lv2, z) = Cell(data, rest, lv, x),
         \A x \in Cells : Cell(data2, rest2, lv2, x) # Vacant =>
           \E z \in Cells : Cell(data, rest, lv, z) = Cell(data2, rest2, lv2, x)
  PROVE  Content(data2, rest2, lv2) = Content(data, rest, lv)
<1>1. ASSUME NEW kv \in Content(data, rest, lv) PROVE kv \in Content(data2, rest2, lv2)
  BY <1>1, ContentIs
<1>2. ASSUME NEW kv \in Content(data2, rest2, lv2) PROVE kv \in Content(data, rest, lv)
  BY <1>2, ContentIs
<1>. QED
  BY <1>1, <1>2

(* Cell c is written, and no other. *)
Written(data, new, rest, lv, c, w) ==
  /\ c \in Cells
  /\ Cell(new, rest, lv, c) = w
  /\ \A x \in Cells : x # c => Cell(new, rest, lv, x) = Cell(data, rest, lv, x)

(* One slot is written.                                                    *)
LEMMA SlotWritten ==
  ASSUME NEW hp, NEW data, GoodTable(hp, data), NEW i \in Buckets(hp), NEW s \in Slots,
         NEW w, NEW new, new = setKV(data, i, s, w), NEW rest, NEW lv
  PROVE  /\ Written(data, new, rest, lv, <<1, i, s>>, w)
         /\ Cell(data, rest, lv, <<1, i, s>>) = data[i][s]
         /\ new[i][s] = w
<1>1. i \in Nat /\ i \in DOMAIN data
  BY GoodCell
<1>2. <<1, i, s>> \in Cells
  BY <1>1 DEF Cells
<1>3. /\ DOMAIN data = Buckets(hp) /\ DOMAIN new = Buckets(hp)
      /\ \A j \in Buckets(hp), r \in Slots :
           new[j][r] = IF j = i /\ r = s THEN w ELSE data[j][r]
  BY DEF GoodTable, Containers, setKV
<1>4. Cell(data, rest, lv, <<1, i, s>>) = data[i][s]
      /\ Cell(new, rest, lv, <<1, i, s>>) = w
  BY <1>3 DEF Cell
<1>5. ASSUME NEW x \in Cells, x # <<1, i, s>>
      PROVE  Cell(new, rest, lv, x) = Cell(data, rest, lv, x)
  BY <1>3, <1>5 DEF Cell, Cells
<1>. QED
  BY <1>2, <1>3, <1>4, <1>5 DEF Written

(* An element is not a vacant slot.                                        *)
LEMMA ElementIs == \A kv \in KV : kv # Vacant
  BY VacantAssumption DEF KV

(* A new element takes a free slot.                                        *)
LEMMA PutContent ==
  ASSUME NEW hp, NEW data, GoodTable(hp, data), NEW i \in Buckets(hp), NEW s \in Slots,
         ~ occupied(data[i], s), NEW kv \in KV, NEW rest, NEW lv
  PROVE  Content(setKV(data, i, s, kv), rest, lv) = Content(data, rest, lv) \cup {kv}
<1>. DEFINE new == setKV(data, i, s, kv)
            c == <<1, i, s>>
<1>0. new = setKV(data, i, s, kv) /\ data[i][s] = Vacant
  BY DEF occupied
<1>. HIDE DEF new
<1>1. /\ c \in Cells
      /\ Cell(data, rest, lv, c) = Vacant
      /\ Cell(new, rest, lv, c) = kv
      /\ \A x \in Cells : x # c => Cell(new, rest, lv, x) = Cell(data, rest, lv, x)
  <2>1. /\ Written(data, new, rest, lv, <<1, i, s>>, kv)
        /\ Cell(data, rest, lv, <<1, i, s>>) = data[i][s]
    BY <1>0, SlotWritten
  <2>. QED BY <1>0, <2>1 DEF Written
<1>2. kv # Vacant
  BY ElementIs
<1>. HIDE DEF c
<1>3. ASSUME NEW e PROVE e \in Content(new, rest, lv) <=> e \in Content(data, rest, lv) \cup {kv}
  BY <1>1, <1>2, ContentIs
<1>. QED
  BY <1>3 DEF new

(* An element is taken out.                                                *)
LEMMA EraseContent ==
  ASSUME NEW hp, NEW data, GoodTable(hp, data), NEW i \in Buckets(hp), NEW s \in Slots,
         occupied(data[i], s), NEW rest, NEW lv, Apart(data, rest, lv)
  PROVE  Content(eraseKV(data, i, s), rest, lv) = Content(data, rest, lv) \ {data[i][s]}
<1>. DEFINE new == eraseKV(data, i, s)
            c == <<1, i, s>>
            kv == data[i][s]
<1>0. new = setKV(data, i, s, Vacant) /\ kv = data[i][s]
  BY DEF eraseKV, setKV
<1>2. kv # Vacant
  BY DEF occupied
<1>. HIDE DEF new, kv
<1>1. /\ c \in Cells
      /\ Cell(data, rest, lv, c) = kv
      /\ Cell(new, rest, lv, c) = Vacant
      /\ \A x \in Cells : x # c => Cell(new, rest, lv, x) = Cell(data, rest, lv, x)
  <2>1. /\ Written(data, new, rest, lv, <<1, i, s>>, Vacant)
        /\ Cell(data, rest, lv, <<1, i, s>>) = data[i][s]
    BY <1>0, SlotWritten
  <2>. QED BY <1>0, <2>1 DEF Written
<1>. HIDE DEF c
<1>3. \A x \in Cells : Cell(data, rest, lv, x) = kv => x = c
  BY <1>1, <1>2 DEF Apart
<1>4. ASSUME NEW e PROVE e \in Content(new, rest, lv) <=> e \in Content(data, rest, lv) \ {kv}
  BY <1>1, <1>2, <1>3, ContentIs
<1>. QED
  BY <1>4 DEF new, kv

(* A value is replaced.                                                    *)
LEMMA ReplaceContent ==
  ASSUME NEW hp, NEW data, GoodTable(hp, data), NEW i \in Buckets(hp), NEW s \in Slots,
         occupied(data[i], s), NEW kv \in KV, NEW rest, NEW lv, Apart(data, rest, lv)
  PROVE  Content(setKV(data, i, s, kv), rest, lv)
           = (Content(data, rest, lv) \ {data[i][s]}) \cup {kv}
<1>. DEFINE new == setKV(data, i, s, kv)
            c == <<1, i, s>>
            was == data[i][s]
<1>0. new = setKV(data, i, s, kv) /\ was = data[i][s]
  OBVIOUS
<1>2. was # Vacant /\ kv # Vacant
  BY ElementIs DEF occupied
<1>. HIDE DEF new, was
<1>1. /\ c \in Cells
      /\ Cell(data, rest, lv, c) = was
      /\ Cell(new, rest, lv, c) = kv
      /\ \A x \in Cells : x # c => Cell(new, rest, lv, x) = Cell(data, rest, lv, x)
  <2>1. /\ Written(data, new, rest, lv, <<1, i, s>>, kv)
        /\ Cell(data, rest, lv, <<1, i, s>>) = data[i][s]
    BY <1>0, SlotWritten
  <2>. QED BY <1>0, <2>1 DEF Written
<1>. HIDE DEF c
<1>3. \A x \in Cells : Cell(data, rest, lv, x) = was => x = c
  BY <1>1, <1>2 DEF Apart
<1>4. ASSUME NEW e
      PROVE  e \in Content(new, rest, lv) <=> e \in (Content(data, rest, lv) \ {was}) \cup {kv}
  BY <1>1, <1>2, <1>3, ContentIs
<1>. QED
  BY <1>4 DEF new, was

(* An element moves to a free slot.                                        *)
LEMMA MoveContent ==
  ASSUME NEW hp, NEW data, GoodTable(hp, data),
         NEW i \in Buckets(hp), NEW s \in Slots, NEW j \in TwoBuckets(hp, data[i][s].key),
         NEW r \in Slots, occupied(data[i], s), ~ occupied(data[j], r),
         NEW new, new = eraseKV(setKV(data, j, r, data[i][s]), i, s), NEW rest, NEW lv
  PROVE  /\ Content(new, rest, lv) = Content(data, rest, lv)
         /\ ~ occupied(new[i], s)
<1>. DEFINE kv == data[i][s]
            mid == setKV(data, j, r, kv)
            a == <<1, i, s>>
            b == <<1, j, r>>
<1>0. kv \in KV /\ kv # Vacant /\ hp \in Nat /\ kv.key \in Keys
  BY GoodCell DEF GoodTable, occupied
<1>1. j \in Buckets(hp)
  BY <1>0, KeyBuckets
<1>2. GoodTable(hp, mid)
  <2>. HIDE DEF kv
  <2>. QED BY <1>0, PutKeeps DEF kv
<1>4. /\ new = setKV(mid, i, s, Vacant) /\ mid = setKV(data, j, r, kv)
      /\ data[j][r] = Vacant /\ data[i][s] = kv
  BY DEF eraseKV, setKV, occupied
<1>. HIDE DEF mid, kv
<1>3. /\ a \in Cells /\ b \in Cells
      /\ Cell(data, rest, lv, a) = kv /\ Cell(data, rest, lv, b) = Vacant
      /\ Cell(mid, rest, lv, b) = kv
      /\ \A x \in Cells : x # b => Cell(mid, rest, lv, x) = Cell(data, rest, lv, x)
  <2>1. /\ b \in Cells /\ Cell(data, rest, lv, b) = Vacant /\ Cell(mid, rest, lv, b) = kv
        /\ \A x \in Cells : x # b => Cell(mid, rest, lv, x) = Cell(data, rest, lv, x)
    <3>1. /\ Written(data, mid, rest, lv, <<1, j, r>>, kv)
          /\ Cell(data, rest, lv, <<1, j, r>>) = data[j][r]
      BY <1>1, <1>4, SlotWritten
    <3>. QED BY <1>4, <3>1 DEF Written
  <2>2. a \in Cells /\ Cell(data, rest, lv, a) = kv
    <3>. DEFINE less == setKV(data, i, s, Vacant)
    <3>. HIDE DEF less
    <3>1. less = setKV(data, i, s, Vacant)
      BY DEF less
    <3>2. /\ Written(data, less, rest, lv, <<1, i, s>>, Vacant)
          /\ Cell(data, rest, lv, <<1, i, s>>) = data[i][s]
      BY <3>1, SlotWritten
    <3>. QED BY <1>4, <3>2 DEF Written
  <2>. QED BY <2>1, <2>2
<1>5. Written(mid, new, rest, lv, <<1, i, s>>, Vacant) /\ new[i][s] = Vacant
  <2>1. new = setKV(mid, i, s, Vacant)
    BY <1>4
  <2>. QED BY <1>2, <2>1, SlotWritten
<1>6. /\ Cell(new, rest, lv, a) = Vacant
      /\ \A x \in Cells : x # a => Cell(new, rest, lv, x) = Cell(mid, rest, lv, x)
  BY <1>5 DEF Written
<1>. HIDE DEF a, b
<1>7. ASSUME NEW e PROVE e \in Content(new, rest, lv) <=> e \in Content(data, rest, lv)
  BY <1>0, <1>3, <1>6, ContentIs
<1>. QED
  BY <1>5, <1>7 DEF occupied

(* The same of one container alone. *)
Contents(data) == Content(data, NoOld, {})

-----------------------------------------------------------------------------
(* Growing *)

(* The slots of bucket i whose elements move_bucket moves further. *)
MovingSlots(rest, hp, i) ==
  {s \in Slots : occupied(rest[i], s) /\ Leaves(hp, i, rest[i][s].key)}

(* An index of the larger table and its bucket in the smaller one. *)
LEMMA Halves ==
  ASSUME NEW hp \in Nat, NEW j \in Buckets(hp + 1)
  PROVE  /\ j % hashsize(hp) \in Buckets(hp)
         /\ j = j % hashsize(hp) \/ j = (j % hashsize(hp)) + hashsize(hp)
         /\ j \in Buckets(hp) => j % hashsize(hp) = j
<1>. DEFINE s == hashsize(hp)
<1>1. s \in Nat \ {0} /\ hashsize(hp + 1) = 2 * s
  BY SizeSteps
<1>2. j \in 0 .. 2 * s - 1
  BY <1>1 DEF Buckets
<1>. HIDE DEF s
<1>3. ASSUME j < s PROVE j % s = j
  BY <1>1, <1>2, <1>3
<1>4. ASSUME j >= s PROVE j % s = j - s
  <2>1. s \in Nat \ {0} /\ j \in Nat /\ j < 2 * s
    BY <1>1, <1>2
  <2>. QED BY <1>4, <2>1, BeyondHalf, Zenon
<1>5. /\ j % s \in 0 .. s - 1
      /\ j = j % s \/ j = (j % s) + s
      /\ j \in 0 .. s - 1 => j % s = j
  BY <1>1, <1>2, <1>3, <1>4
<1>. QED
  BY <1>5 DEF s, Buckets

(* What move_bucket leaves in slot q of bucket i and in the one further on. *)
Here(rest, hp, i, q, there) ==
  IF occupied(rest[i], q) /\ q \notin MovingSlots(rest, hp, i) THEN rest[i][q] ELSE there

There(rest, hp, i, q, there) ==
  IF \E r \in MovingSlots(rest, hp, i) : Rank(MovingSlots(rest, hp, i), r) = q
  THEN rest[i][CHOOSE r \in MovingSlots(rest, hp, i) :
                 Rank(MovingSlots(rest, hp, i), r) = q]
  ELSE there

LEMMA MoveBucketCells ==
  ASSUME NEW hp \in Nat, NEW rest, NEW data \in Containers(hp + 1),
         NEW i \in Buckets(hp), NEW q \in Slots
  PROVE  /\ move_bucket(rest, hp, data, i)[i][q] = Here(rest, hp, i, q, data[i][q])
         /\ move_bucket(rest, hp, data, i)[i + hashsize(hp)][q]
              = There(rest, hp, i, q, data[i + hashsize(hp)][q])
<1>. DEFINE s == hashsize(hp)
            m == MovingSlots(rest, hp, i)
            here == [r \in Slots |-> IF occupied(rest[i], r) /\ r \notin m
                                     THEN rest[i][r] ELSE data[i][r]]
            there == [r \in Slots |-> IF \E p \in m : Rank(m, p) = r
                                      THEN rest[i][CHOOSE p \in m : Rank(m, p) = r]
                                      ELSE data[i + s][r]]
<1>1. s \in Nat \ {0} /\ hashsize(hp + 1) = 2 * s
  BY SizeSteps
<1>2. i \in 0 .. s - 1 /\ Buckets(hp + 1) = 0 .. 2 * s - 1
  BY <1>1 DEF Buckets
<1>3. i \in DOMAIN data /\ i + s \in DOMAIN data /\ i # i + s
  <2>. HIDE DEF s
  <2>1. DOMAIN data = 0 .. 2 * s - 1
    BY <1>2 DEF Containers
  <2>. QED BY <1>1, <1>2, <2>1
<1>4. move_bucket(rest, hp, data, i)
        = [data EXCEPT ![i] = [r \in Slots |-> IF occupied(rest[i], r) /\ r \notin m
                                               THEN rest[i][r] ELSE @[r]],
                       ![i + s] = [r \in Slots |-> IF \E p \in m : Rank(m, p) = r
                                      THEN rest[i][CHOOSE p \in m : Rank(m, p) = r]
                                      ELSE @[r]]]
  BY DEF move_bucket, MovingSlots
<1>5. move_bucket(rest, hp, data, i) = [data EXCEPT ![i] = here, ![i + s] = there]
  <2>. HIDE DEF m, s
  <2>. QED BY <1>3, <1>4
<1>6. move_bucket(rest, hp, data, i)[i] = here /\ move_bucket(rest, hp, data, i)[i + s] = there
  <2>. HIDE DEF here, there, s
  <2>. QED BY <1>3, <1>5
<1>7. here[q] = (IF occupied(rest[i], q) /\ q \notin m THEN rest[i][q] ELSE data[i][q])
  <2>. HIDE DEF m
  <2>. QED OBVIOUS
<1>8. there[q] = (IF \E p \in m : Rank(m, p) = q
                  THEN rest[i][CHOOSE p \in m : Rank(m, p) = q] ELSE data[i + s][q])
  <2>. HIDE DEF m, s
  <2>. QED OBVIOUS
<1>. QED
  BY <1>6, <1>7, <1>8, Zenon DEF Here, There

(* Where the element at slot q of bucket j comes from, i being the bucket of *)
(* the smaller table that is moved to j.                                   *)
Source(hp, rest, data, indexes, i, j, q, kv) ==
  \/ kv = data[j][q]
  \/ /\ i \in indexes /\ i \in Buckets(hp) /\ j = i
     /\ kv = rest[i][q]
     /\ occupied(rest[i], q) /\ ~ Leaves(hp, i, rest[i][q].key)
  \/ /\ i \in indexes /\ i \in Buckets(hp) /\ j = i + hashsize(hp)
     /\ \E r \in Slots : /\ kv = rest[i][r]
                         /\ occupied(rest[i], r) /\ Leaves(hp, i, rest[i][r].key)
                         /\ q = Rank(MovingSlots(rest, hp, i), r)

(* Where the elements of a bucket of move_buckets come from. *)
LEMMA MoveBucketsCells ==
  ASSUME NEW hp \in Nat, NEW rest, NEW data \in Containers(hp + 1), NEW indexes,
         NEW j \in Buckets(hp + 1), NEW q \in Slots
  PROVE  Source(hp, rest, data, indexes, j % hashsize(hp), j, q,
                move_buckets(rest, hp, data, indexes)[j][q])
<1>. DEFINE i   == j % hashsize(hp)
            new == move_buckets(rest, hp, data, indexes)
<1>1. i \in Buckets(hp) /\ (j = i \/ j = i + hashsize(hp))
  BY Halves
<1>2. new[j] = IF i \in indexes THEN move_bucket(rest, hp, data, i)[j] ELSE data[j]
  <2>1. DOMAIN data = Buckets(hp + 1)
    BY DEF Containers
  <2>. QED BY <2>1 DEF move_buckets
<1>. HIDE DEF i, new
<1>. SUFFICES Source(hp, rest, data, indexes, i, j, q, new[j][q])
  BY DEF i, new
<1>3. CASE i \notin indexes
  BY <1>2, <1>3 DEF Source
<1>4. CASE i \in indexes /\ j = i
  <2>1. new[j][q] = Here(rest, hp, i, q, data[i][q])
    BY <1>1, <1>2, <1>4, MoveBucketCells
  <2>2. occupied(rest[i], q) /\ q \notin MovingSlots(rest, hp, i)
          => ~ Leaves(hp, i, rest[i][q].key)
    BY DEF MovingSlots
  <2>. QED BY <1>1, <1>4, <2>1, <2>2 DEF Here, Source
<1>5. CASE i \in indexes /\ j = i + hashsize(hp)
  <2>. DEFINE m == MovingSlots(rest, hp, i)
              r == CHOOSE p \in m : Rank(m, p) = q
  <2>0. new[j][q] = There(rest, hp, i, q, data[j][q])
    BY <1>1, <1>2, <1>5, MoveBucketCells
  <2>1. new[j][q] = IF \E p \in m : Rank(m, p) = q THEN rest[i][r] ELSE data[j][q]
    BY <2>0, Zenon DEF There
  <2>2. CASE \E p \in m : Rank(m, p) = q
    <3>1. r \in m /\ Rank(m, r) = q
      <4>. HIDE DEF m
      <4>. QED BY <2>2, Zenon
    <3>2. new[j][q] = rest[i][r]
      BY <2>1, <2>2, Zenon
    <3>. HIDE DEF r
    <3>3. r \in Slots /\ occupied(rest[i], r) /\ Leaves(hp, i, rest[i][r].key)
      BY <3>1 DEF MovingSlots
    <3>. QED BY <1>1, <1>5, <3>1, <3>2, <3>3 DEF Source
  <2>3. CASE ~ \E p \in m : Rank(m, p) = q
    <3>1. new[j][q] = data[j][q]
      BY <2>1, <2>3, Zenon
    <3>. QED BY <3>1 DEF Source
  <2>. QED BY <2>2, <2>3
<1>. QED
  BY <1>1, <1>3, <1>4, <1>5

(* move_buckets puts every element into a bucket of its key. *)
LEMMA MoveBucketsGood ==
  ASSUME NEW hp, NEW rest, GoodTable(hp, rest), NEW data, GoodTable(hp + 1, data),
         NEW indexes, NEW new, new = move_buckets(rest, hp, data, indexes)
  PROVE  /\ GoodTable(hp + 1, new)
         /\ \A key : Absent(rest, key) /\ Absent(data, key) => Absent(new, key)
<1>1. hp \in Nat /\ hp + 1 \in Nat /\ data \in Containers(hp + 1)
  BY DEF GoodTable
<1>2. DOMAIN new = Buckets(hp + 1)
  BY <1>1 DEF move_buckets, Containers
<1>3. ASSUME NEW j \in Buckets(hp + 1), NEW q \in Slots
      PROVE  \/ new[j][q] = data[j][q]
             \/ \E i \in Buckets(hp), r \in Slots :
                  /\ new[j][q] = rest[i][r] /\ occupied(rest[i], r)
                  /\ j = IF Leaves(hp, i, rest[i][r].key) THEN i + hashsize(hp) ELSE i
  <2>. DEFINE i == j % hashsize(hp)
  <2>1. Source(hp, rest, data, indexes, i, j, q, new[j][q])
    BY <1>1, MoveBucketsCells
  <2>. HIDE DEF i
  <2>. QED BY <2>1 DEF Source
<1>4. ASSUME NEW j \in Buckets(hp + 1), NEW q \in Slots
      PROVE  /\ new[j][q] \in KV \cup {Vacant}
             /\ occupied(new[j], q) => j \in TwoBuckets(hp + 1, new[j][q].key)
  <2>1. CASE new[j][q] = data[j][q]
    BY <2>1, GoodCell DEF occupied
  <2>2. ASSUME NEW i \in Buckets(hp), NEW r \in Slots,
               new[j][q] = rest[i][r], occupied(rest[i], r),
               j = IF Leaves(hp, i, rest[i][r].key) THEN i + hashsize(hp) ELSE i
        PROVE  /\ new[j][q] \in KV \cup {Vacant}
               /\ j \in TwoBuckets(hp + 1, new[j][q].key)
    <3>1. rest[i][r] \in KV /\ rest[i][r].key \in Keys /\ i \in TwoBuckets(hp, rest[i][r].key)
      BY <2>2, GoodCell
    <3>2. j \in TwoBuckets(hp + 1, rest[i][r].key)
      BY <1>1, <2>2, <3>1, LeavesForHome
    <3>. QED BY <2>2, <3>1, <3>2
  <2>. QED BY <1>3, <2>1, <2>2
<1>5. new \in Containers(hp + 1)
  <2>1. ASSUME NEW j \in Buckets(hp + 1)
        PROVE  DOMAIN new[j] = Slots /\ new[j] = [q \in Slots |-> new[j][q]]
    <3>. DEFINE s == hashsize(hp)
                i == j % s
    <3>1. i \in Buckets(hp) /\ (j = i \/ j = i + s)
      BY <1>1, Halves
    <3>2. new[j] = IF i \in indexes THEN move_bucket(rest, hp, data, i)[j] ELSE data[j]
      BY <1>1 DEF move_buckets, Containers
    <3>3. data[j] \in [Slots -> KV \cup {Vacant}] /\ data \in [Buckets(hp + 1) -> [Slots -> KV \cup {Vacant}]]
      BY <1>1 DEF Containers
    <3>. DEFINE f == move_bucket(rest, hp, data, i)
    <3>4. f[j] = [q \in Slots |-> f[j][q]]
      <4>. DEFINE m == MovingSlots(rest, hp, i)
      <4>1. f = [data EXCEPT ![i] = [r \in Slots |-> IF occupied(rest[i], r) /\ r \notin m
                                               THEN rest[i][r] ELSE @[r]],
                       ![i + s] = [r \in Slots |-> IF \E p \in m : Rank(m, p) = r
                                      THEN rest[i][CHOOSE p \in m : Rank(m, p) = r]
                                      ELSE @[r]]]
        BY DEF move_bucket, MovingSlots
      <4>2. DOMAIN data = Buckets(hp + 1)
        BY <3>3
      <4>. HIDE DEF f, m, i, s
      <4>. QED BY <3>1, <4>1, <4>2
    <3>5. data[j] = [q \in Slots |-> data[j][q]]
      BY <3>3
    <3>. HIDE DEF f, i
    <3>6. new[j] = f[j] \/ new[j] = data[j]
      BY <3>2 DEF f
    <3>7. new[j] = [q \in Slots |-> new[j][q]]
      BY <3>4, <3>5, <3>6
    <3>. QED BY <3>7
  <2>2. \A j \in Buckets(hp + 1) : new[j] \in [Slots -> KV \cup {Vacant}]
    BY <1>4, <2>1
  <2>3. new = [j \in Buckets(hp + 1) |-> new[j]]
    BY <1>1 DEF move_buckets, Containers
  <2>. QED BY <2>2, <2>3 DEF Containers
<1>6. ASSUME NEW key, Absent(rest, key), Absent(data, key)
      PROVE  Absent(new, key)
  <2>1. DOMAIN rest = Buckets(hp) /\ DOMAIN data = Buckets(hp + 1)
    BY <1>1 DEF GoodTable, Containers
  <2>. QED BY <1>2, <1>3, <1>6, <2>1 DEF Absent, occupied
<1>. QED
  BY <1>1, <1>4, <1>5, <1>6 DEF GoodTable, AtHome

(* move_buckets puts every element into one cell. *)
LEMMA MoveBucketsApart ==
  ASSUME NEW hp, NEW rest, GoodTable(hp, rest), NEW data, GoodTable(hp + 1, data),
         NEW lv, NEW indexes, indexes \subseteq lv, Apart(data, rest, lv),
         NEW new, new = move_buckets(rest, hp, data, indexes)
  PROVE  Apart(new, rest, lv \ indexes)
<1>1. hp \in Nat /\ hp + 1 \in Nat /\ data \in Containers(hp + 1)
  BY DEF GoodTable
<1>2. DOMAIN new = Buckets(hp + 1) /\ DOMAIN data = Buckets(hp + 1)
  BY <1>1 DEF move_buckets, Containers
<1>3. hashsize(hp) \in Nat /\ Buckets(hp) \subseteq Nat
  BY <1>1, SizeSteps DEF Buckets
<1>. DEFINE s == hashsize(hp)
            Leaving(z) == z[1] = 2 /\ z[2] \in indexes
            to == [z \in Cells |->
                     IF ~ Leaving(z) THEN z
                     ELSE IF Leaves(hp, z[2], rest[z[2]][z[3]].key)
                     THEN <<1, z[2] + s, Rank(MovingSlots(rest, hp, z[2]), z[3])>>
                     ELSE <<1, z[2], z[3]>>]
<1>4. /\ \A z \in Cells : ~ Leaving(z) => to[z] = z
      /\ \A i \in indexes, r \in Slots :
           i \in Nat => to[<<2, i, r>>] = IF Leaves(hp, i, rest[i][r].key)
                               THEN <<1, i + s, Rank(MovingSlots(rest, hp, i), r)>>
                               ELSE <<1, i, r>>
  <2>. HIDE DEF s
  <2>. QED BY DEF Cells
<1>. HIDE DEF to
<1>5. ASSUME NEW x \in Cells, Cell(new, rest, lv \ indexes, x) # Vacant
      PROVE  \E z \in Cells :
               /\ x = to[z]
               /\ Cell(data, rest, lv, z) # Vacant
               /\ Cell(data, rest, lv, z).key = Cell(new, rest, lv \ indexes, x).key
  <2>1. CASE x[1] # 1
    <3>1. Cell(new, rest, lv \ indexes, x) = Cell(data, rest, lv, x) /\ x[2] \notin indexes
      BY <1>5, <2>1 DEF Cell
    <3>. QED BY <1>4, <1>5, <3>1
  <2>2. CASE x[1] = 1
    <3>. DEFINE j == x[2]
                q == x[3]
                i == j % s
    <3>1. x = <<1, j, q>> /\ j \in Nat /\ q \in Slots
      BY <2>2 DEF Cells
    <3>2. j \in Buckets(hp + 1) /\ Cell(new, rest, lv \ indexes, x) = new[j][q]
          /\ new[j][q] # Vacant
      BY <1>2, <1>5, <2>2 DEF Cell
    <3>3. CASE new[j][q] = data[j][q]
      <4>1. Cell(data, rest, lv, x) = data[j][q] /\ ~ Leaving(x)
        BY <1>2, <2>2, <3>2 DEF Cell
      <4>. QED BY <1>4, <3>2, <3>3, <4>1
    <3>4. ASSUME NEW k \in indexes, NEW r \in Slots, k \in Buckets(hp),
                 new[j][q] = rest[k][r],
                 \/ ~ Leaves(hp, k, rest[k][r].key) /\ j = k /\ q = r
                 \/ Leaves(hp, k, rest[k][r].key) /\ j = k + s
                    /\ q = Rank(MovingSlots(rest, hp, k), r)
          PROVE  \E z \in Cells :
                   /\ x = to[z]
                   /\ Cell(data, rest, lv, z) # Vacant
                   /\ Cell(data, rest, lv, z).key = Cell(new, rest, lv \ indexes, x).key
      <4>. DEFINE z == <<2, k, r>>
      <4>1. z \in Cells
        BY <1>3, <3>4 DEF Cells
      <4>2. Cell(data, rest, lv, z) = rest[k][r]
        BY <3>4 DEF Cell
      <4>3. to[z] = x
        <5>1. to[z] = IF Leaves(hp, k, rest[k][r].key)
                      THEN <<1, k + s, Rank(MovingSlots(rest, hp, k), r)>> ELSE <<1, k, r>>
          BY <1>3, <1>4, <3>4
        <5>. HIDE DEF z, s, j, q
        <5>. QED BY <3>1, <3>4, <5>1
      <4>. HIDE DEF z, j, q, s
      <4>. QED BY <3>2, <3>4, <4>1, <4>2, <4>3
    <3>5. Source(hp, rest, data, indexes, i, j, q, new[j][q])
      BY <1>1, <3>1, <3>2, MoveBucketsCells
    <3>. HIDE DEF i, j, q
    <3>6. CASE /\ i \in indexes /\ i \in Buckets(hp) /\ j = i
               /\ new[j][q] = rest[i][q]
               /\ occupied(rest[i], q) /\ ~ Leaves(hp, i, rest[i][q].key)
      BY <3>1, <3>4, <3>6
    <3>7. ASSUME i \in indexes, i \in Buckets(hp), j = i + hashsize(hp),
                 NEW r \in Slots, new[j][q] = rest[i][r],
                 Leaves(hp, i, rest[i][r].key), q = Rank(MovingSlots(rest, hp, i), r)
          PROVE  \E z \in Cells :
                   /\ x = to[z]
                   /\ Cell(data, rest, lv, z) # Vacant
                   /\ Cell(data, rest, lv, z).key = Cell(new, rest, lv \ indexes, x).key
      <4>1. j = i + s
        BY <3>7
      <4>2. i \in indexes /\ i \in Buckets(hp) /\ r \in Slots
        BY <3>7
      <4>. HIDE DEF s
      <4>. QED BY <3>4, <3>7, <4>1, <4>2, Zenon
    <3>. QED BY <3>3, <3>5, <3>6, <3>7, Zenon DEF Source
  <2>. QED BY <2>1, <2>2
<1>. DEFINE lv2 == lv \ indexes
<1>6. \A x \in Cells : Cell(new, rest, lv2, x) # Vacant =>
        \E z \in Cells : /\ x = to[z]
                         /\ Cell(data, rest, lv, z) # Vacant
                         /\ Cell(data, rest, lv, z).key = Cell(new, rest, lv2, x).key
  BY <1>5
<1>. HIDE DEF lv2, to, s
<1>7. Apart(new, rest, lv2)
  <2>1. Apart(data, rest, lv)
    OBVIOUS
  <2>. QED BY ONLY <1>6, <2>1, ApartFrom
<1>. QED
  BY <1>7 DEF lv2

(* The ranks of two moving slots differ, and none is beyond the bucket.    *)
LEMMA RankIs ==
  ASSUME NEW m \in SUBSET Slots
  PROVE  /\ \A q \in m : Rank(m, q) \in Slots
         /\ \A q, r \in m : Rank(m, q) = Rank(m, r) => q = r
<1>. DEFINE below(q) == {r \in m : r < q}
<1>1. Slots \subseteq Nat /\ \A q \in Slots : q < SLOT_PER_BUCKET /\ 0 .. q - 1 \subseteq Slots
      /\ SLOT_PER_BUCKET \in Nat
  BY TableAssumption DEF Slots
<1>2. \A q \in m : q \in Nat /\ q < SLOT_PER_BUCKET
  BY <1>1
<1>3. ASSUME NEW q \in m
      PROVE  IsFiniteSet(below(q)) /\ Cardinality(below(q)) \in Nat /\ Cardinality(below(q)) <= q
  <2>1. IsFiniteSet(0 .. q - 1) /\ Cardinality(0 .. q - 1) = q
    <3>1. q \in Nat /\ 0 \in Int /\ q - 1 \in Int
      BY <1>2
    <3>2. IsFiniteSet(0 .. q - 1)
          /\ Cardinality(0 .. q - 1) = IF 0 > q - 1 THEN 0 ELSE q - 1 - 0 + 1
      BY <3>1, FS_Interval
    <3>. QED BY <3>1, <3>2
  <2>2. below(q) \subseteq 0 .. q - 1
    BY <1>2
  <2>. HIDE DEF below
  <2>. QED BY <2>1, <2>2, FS_Subset, FS_CardinalityType
<1>4. ASSUME NEW q \in m, NEW r \in m, q < r
      PROVE  Cardinality(below(q)) < Cardinality(below(r))
  <2>1. below(q) \subseteq below(r) /\ q \in below(r) /\ q \notin below(q)
    BY <1>2, <1>4
  <2>. HIDE DEF below
  <2>2. below(q) # below(r)
    BY <2>1
  <2>3. IsFiniteSet(below(r))
    BY <1>3
  <2>4. Cardinality(below(q)) <= Cardinality(below(r))
        /\ (Cardinality(below(q)) = Cardinality(below(r)) => below(q) = below(r))
    BY <2>1, <2>3, FS_Subset
  <2>5. Cardinality(below(q)) \in Nat /\ Cardinality(below(r)) \in Nat
    BY <1>3
  <2>. QED BY <2>2, <2>4, <2>5
<1>5. \A q : Rank(m, q) = Cardinality(below(q))
  BY DEF Rank
<1>. HIDE DEF below
<1>6. ASSUME NEW q \in m PROVE Rank(m, q) \in Slots
  BY <1>2, <1>3, <1>5, TableAssumption DEF Slots
<1>7. ASSUME NEW q \in m, NEW r \in m, Rank(m, q) = Rank(m, r) PROVE q = r
  <2>1. q < r \/ r < q \/ q = r
    BY <1>2
  <2>. QED BY <1>3, <1>4, <1>5, <1>7, <2>1
<1>. QED
  BY <1>6, <1>7

(* The buckets that receive elements of the buckets indexes are empty.     *)
Receiving(hp, data, indexes) ==
  \A i \in indexes, s \in Slots :
    data[i][s] = Vacant /\ data[i + hashsize(hp)][s] = Vacant

(* move_buckets loses nothing. *)
LEMMA MoveBucketsContent ==
  ASSUME NEW hp, NEW rest, GoodTable(hp, rest), NEW data, GoodTable(hp + 1, data),
         NEW lv, NEW indexes, indexes \subseteq lv, lv \subseteq Buckets(hp),
         Receiving(hp, data, indexes),
         NEW new, new = move_buckets(rest, hp, data, indexes)
  PROVE  Content(new, rest, lv \ indexes) = Content(data, rest, lv)
<1>1. hp \in Nat /\ hp + 1 \in Nat /\ data \in Containers(hp + 1)
  BY DEF GoodTable
<1>2. DOMAIN new = Buckets(hp + 1) /\ DOMAIN data = Buckets(hp + 1)
  BY <1>1 DEF move_buckets, Containers
<1>3. hashsize(hp) \in Nat /\ Buckets(hp) \subseteq Nat
      /\ \A i \in Buckets(hp) : i \in Buckets(hp + 1) /\ i + hashsize(hp) \in Buckets(hp + 1)
                                /\ i % hashsize(hp) = i /\ (i + hashsize(hp)) % hashsize(hp) = i
  <2>1. hashsize(hp) \in Nat \ {0} /\ hashsize(hp + 1) = 2 * hashsize(hp)
    BY <1>1, SizeSteps
  <2>. DEFINE s == hashsize(hp)
  <2>. HIDE DEF s
  <2>2. ASSUME NEW i \in 0 .. s - 1
        PROVE  /\ i \in 0 .. 2 * s - 1 /\ i + s \in 0 .. 2 * s - 1
               /\ i % s = i /\ (i + s) % s = i
    <3>1. s \in Nat \ {0}
      BY <2>1 DEF s
    <3>2. i % s = i
      BY <3>1
    <3>3. (i + s) % s = (i + s) - s
      BY <3>1, BeyondHalf
    <3>. QED BY <3>1, <3>2, <3>3
  <2>. QED BY <2>1, <2>2 DEF Buckets, s
<1>. DEFINE s == hashsize(hp)
<1>4. ASSUME NEW x \in Cells, Cell(new, rest, lv \ indexes, x) # Vacant
      PROVE  \E z \in Cells : Cell(data, rest, lv, z) = Cell(new, rest, lv \ indexes, x)
  <2>1. CASE x[1] # 1
    BY <1>4, <2>1 DEF Cell
  <2>2. CASE x[1] = 1
    <3>. DEFINE j == x[2]
                q == x[3]
    <3>1. j \in Nat /\ q \in Slots /\ x = <<1, j, q>>
      BY <2>2 DEF Cells
    <3>2. j \in Buckets(hp + 1) /\ Cell(new, rest, lv \ indexes, x) = new[j][q]
      BY <1>2, <1>4, <2>2 DEF Cell
    <3>3. Source(hp, rest, data, indexes, j % hashsize(hp), j, q, new[j][q])
      BY <1>1, <3>1, <3>2, MoveBucketsCells
    <3>4. CASE new[j][q] = data[j][q]
      BY <1>2, <2>2, <3>2, <3>4 DEF Cell
    <3>5. ASSUME NEW k \in indexes, NEW r \in Slots, new[j][q] = rest[k][r]
          PROVE  \E z \in Cells : Cell(data, rest, lv, z) = new[j][q]
      <4>1. <<2, k, r>> \in Cells
        BY <1>3 DEF Cells
      <4>2. Cell(data, rest, lv, <<2, k, r>>) = rest[k][r]
        BY DEF Cell
      <4>. QED BY <3>5, <4>1, <4>2
    <3>. QED BY <3>1, <3>2, <3>3, <3>4, <3>5 DEF Source
  <2>. QED BY <2>1, <2>2
<1>5. \A j \in Buckets(hp + 1) :
        new[j] = IF j % s \in indexes THEN move_bucket(rest, hp, data, j % s)[j] ELSE data[j]
  BY <1>2 DEF move_buckets
<1>6. ASSUME NEW x \in Cells, Cell(data, rest, lv, x) # Vacant
      PROVE  \E z \in Cells : Cell(new, rest, lv \ indexes, z) = Cell(data, rest, lv, x)
  <2>. DEFINE j == x[2]
              q == x[3]
  <2>1. j \in Nat /\ q \in Slots /\ x = <<x[1], j, q>> /\ x[1] \in {1, 2}
    BY DEF Cells
  <2>2. CASE x[1] = 1
    <3>1. j \in Buckets(hp + 1) /\ Cell(data, rest, lv, x) = data[j][q]
          /\ Cell(new, rest, lv \ indexes, x) = new[j][q]
      BY <1>2, <1>6, <2>2 DEF Cell
    <3>2. j % s \notin indexes
      <4>1. j = j % s \/ j = (j % s) + s
        BY <1>1, <3>1, Halves
      <4>2. data[j][q] # Vacant
        BY <1>6, <3>1
      <4>. QED BY <2>1, <4>1, <4>2 DEF Receiving
    <3>3. new[j] = data[j]
      BY <1>5, <3>1, <3>2
    <3>. QED BY <3>1, <3>3
  <2>3. CASE x[1] = 2 /\ j \notin indexes
    BY <1>6, <2>3 DEF Cell
  <2>4. CASE x[1] = 2 /\ j \in indexes
    <3>. DEFINE m == MovingSlots(rest, hp, j)
                p == Rank(m, q)
    <3>1. Cell(data, rest, lv, x) = rest[j][q] /\ j \in Buckets(hp) /\ occupied(rest[j], q)
      BY <1>6, <2>4 DEF Cell, occupied
    <3>2. new[j] = move_bucket(rest, hp, data, j)[j]
          /\ new[j + s] = move_bucket(rest, hp, data, j)[j + s]
          /\ j \in Buckets(hp + 1) /\ j + s \in Buckets(hp + 1) /\ j + s \in Nat
      <4>1. j \in Buckets(hp + 1) /\ j + s \in Buckets(hp + 1) /\ j % s = j /\ (j + s) % s = j
            /\ j \in Nat /\ s \in Nat
        BY <1>3, <3>1
      <4>2. new[j] = IF j % s \in indexes THEN move_bucket(rest, hp, data, j % s)[j] ELSE data[j]
        BY <1>5, <4>1
      <4>3. new[j + s] = IF (j + s) % s \in indexes
                         THEN move_bucket(rest, hp, data, (j + s) % s)[j + s] ELSE data[j + s]
        BY <1>5, <4>1
      <4>. HIDE DEF s, j
      <4>. QED BY <2>4, <4>1, <4>2, <4>3
    <3>3. CASE q \notin m
      <4>1. new[j][q] = Here(rest, hp, j, q, data[j][q])
        BY <1>1, <2>1, <3>1, <3>2, MoveBucketCells
      <4>2. new[j][q] = rest[j][q]
        BY <3>1, <3>3, <4>1 DEF Here
      <4>3. <<1, j, q>> \in Cells /\ Cell(new, rest, lv \ indexes, <<1, j, q>>) = new[j][q]
        BY <1>2, <2>1, <3>2 DEF Cell, Cells
      <4>. QED BY <3>1, <4>2, <4>3
    <3>4. CASE q \in m
      <4>1. m \in SUBSET Slots
        BY DEF MovingSlots
      <4>. HIDE DEF m
      <4>2. p \in Slots /\ \A r \in m : Rank(m, r) = p => r = q
        BY <3>4, <4>1, RankIs
      <4>3. new[j + s][p] = There(rest, hp, j, p, data[j + s][p])
        BY <1>1, <3>1, <3>2, <4>2, MoveBucketCells
      <4>4. \E r \in m : Rank(m, r) = p
        BY <3>4
      <4>5. (CHOOSE r \in m : Rank(m, r) = p) = q
        BY <3>4, <4>2
      <4>6. new[j + s][p] = IF \E r \in m : Rank(m, r) = p
                            THEN rest[j][CHOOSE r \in m : Rank(m, r) = p] ELSE data[j + s][p]
        BY <4>3, Zenon DEF There, m
      <4>7. new[j + s][p] = rest[j][q]
        <5>. HIDE DEF p, s, j, q
        <5>. QED BY <4>4, <4>5, <4>6
      <4>8. <<1, j + s, p>> \in Cells
            /\ Cell(new, rest, lv \ indexes, <<1, j + s, p>>) = new[j + s][p]
        <5>. HIDE DEF p, s, j
        <5>. QED BY <1>2, <3>2, <4>2 DEF Cell, Cells
      <4>. QED BY <3>1, <4>7, <4>8
    <3>. QED BY <3>3, <3>4
  <2>. QED BY <2>1, <2>2, <2>3, <2>4
<1>. DEFINE lv2 == lv \ indexes
<1>7. /\ \A x \in Cells : Cell(data, rest, lv, x) # Vacant =>
           \E z \in Cells : Cell(new, rest, lv2, z) = Cell(data, rest, lv, x)
      /\ \A x \in Cells : Cell(new, rest, lv2, x) # Vacant =>
           \E z \in Cells : Cell(data, rest, lv, z) = Cell(new, rest, lv2, x)
  BY <1>4, <1>6
<1>. HIDE DEF lv2
<1>8. Content(new, rest, lv2) = Content(data, rest, lv)
  BY ONLY <1>7, ContentFrom
<1>. QED
  BY <1>8 DEF lv2

-----------------------------------------------------------------------------
(* Finding an element, and a slot for one *)

(* The first of the slots of a set is one of them. *)
LEMMA LeastSlot ==
  ASSUME NEW S \in SUBSET Slots, S # {}
  PROVE  Min(S) \in S
<1>1. S \in SUBSET Nat
  BY DEF Slots
<1>2. PICK m \in S : \A n \in S : m <= n
  BY <1>1, LeastElement
<1>. QED
  BY <1>2, Zenon DEF Min

(* So is the last of them. *)
LEMMA LastSlot ==
  ASSUME NEW S \in SUBSET Slots, S # {}
  PROVE  Max(S) \in S
<1>. DEFINE c == SLOT_PER_BUCKET
            T == {n \in Nat : \E x \in S : x = c - n}
<1>1. c \in Nat /\ \A x \in S : x \in Nat /\ x < c
  BY TableAssumption DEF Slots
<1>. HIDE DEF c
<1>2. T # {}
  <2>1. PICK x \in S : TRUE
    OBVIOUS
  <2>2. c - x \in Nat /\ x = c - (c - x)
    BY <1>1
  <2>. QED BY <2>2
<1>3. T \in SUBSET Nat
  OBVIOUS
<1>4. PICK m \in T : \A n \in T : m <= n
  <2>. HIDE DEF T
  <2>. QED BY <1>2, <1>3, LeastElement
<1>5. \A y \in S : c - m >= y /\ c - m \in S
  <2>. SUFFICES ASSUME NEW y \in S PROVE c - m >= y /\ c - m \in S
    OBVIOUS
  <2>1. c - y \in Nat /\ y = c - (c - y)
    BY <1>1
  <2>2. c - y \in T
    BY <2>1
  <2>3. m <= c - y /\ m \in Nat /\ c - m \in S
    BY <1>4, <2>2
  <2>. QED BY <1>1, <2>3
<1>6. \E x \in S : \A y \in S : x >= y
  <2>1. c - m \in S
    BY <1>5
  <2>. QED BY <1>5, <2>1
<1>. QED
  BY <1>6, Zenon DEF Max

(* cuckoo_find gives a position of the key, and misses none. *)
LEMMA FindFinds ==
  ASSUME NEW hp, NEW data, GoodTable(hp, data), NEW key \in Keys
  PROVE  /\ \A p \in cuckoo_find(data, hp, key) :
              /\ p[1] \in Buckets(hp) /\ p[2] \in Slots
              /\ occupied(data[p[1]], p[2]) /\ At(data, p).key = key
         /\ cuckoo_find(data, hp, key) = {} => Absent(data, key)
<1>. DEFINE i1 == FirstBucket(hp, key)
            i2 == SecondBucket(hp, key)
            S1 == SlotsOf(data[i1], key)
            S2 == SlotsOf(data[i2], key)
<1>1. i1 \in Buckets(hp) /\ i2 \in Buckets(hp) /\ TwoBuckets(hp, key) = {i1, i2}
  BY KeyBuckets DEF GoodTable, TwoBuckets
<1>2. cuckoo_find(data, hp, key)
        = IF S1 # {} THEN {<<i1, Min(S1)>>} ELSE IF S2 # {} THEN {<<i2, Min(S2)>>} ELSE {}
  BY DEF cuckoo_find
<1>. HIDE DEF i1, i2
<1>3. S1 \in SUBSET Slots /\ S2 \in SUBSET Slots
  BY DEF SlotsOf
<1>4. ASSUME NEW p \in cuckoo_find(data, hp, key)
      PROVE  \/ p[1] = i1 /\ p[2] \in S1
             \/ p[1] = i2 /\ p[2] \in S2
  <2>. HIDE DEF S1, S2
  <2>. QED BY <1>2, <1>3, <1>4, LeastSlot
<1>5. ASSUME NEW p \in cuckoo_find(data, hp, key)
      PROVE  /\ p[1] \in Buckets(hp) /\ p[2] \in Slots
             /\ occupied(data[p[1]], p[2]) /\ At(data, p).key = key
  BY <1>1, <1>4 DEF SlotsOf, At
<1>6. ASSUME cuckoo_find(data, hp, key) = {}
      PROVE  Absent(data, key)
  <2>1. S1 = {} /\ S2 = {}
    <3>. HIDE DEF S1, S2
    <3>. QED BY <1>2, <1>6
  <2>2. ASSUME NEW i \in DOMAIN data, NEW s \in Slots, occupied(data[i], s)
        PROVE  data[i][s].key # key
    <3>1. i \in Buckets(hp)
      BY DEF GoodTable, Containers
    <3>2. i \in TwoBuckets(hp, data[i][s].key)
      BY <2>2, <3>1, GoodCell
    <3>. QED BY <1>1, <2>1, <2>2, <3>2 DEF SlotsOf
  <2>. QED BY <2>2 DEF Absent
<1>. QED
  BY <1>5, <1>6

(* The position for a new element is free and in one of its buckets. *)
LEMMA InsertPositionHome ==
  ASSUME NEW hp, NEW data, NEW key, NEW p \in InsertPosition(data, hp, key)
  PROVE  p[1] \in TwoBuckets(hp, key) /\ p[2] \in Slots /\ ~ occupied(data[p[1]], p[2])
<1>. DEFINE i1 == FirstBucket(hp, key)
            i2 == SecondBucket(hp, key)
            F1 == FreeSlots(data[i1])
            F2 == FreeSlots(data[i2])
<1>1. InsertPosition(data, hp, key)
        = IF F1 # {} THEN {<<i1, Max(F1)>>} ELSE IF F2 # {} THEN {<<i2, Max(F2)>>} ELSE {}
  BY DEF InsertPosition
<1>2. F1 \in SUBSET Slots /\ F2 \in SUBSET Slots
  BY DEF FreeSlots
<1>3. (p[1] = i1 /\ p[2] \in F1) \/ (p[1] = i2 /\ p[2] \in F2)
  <2>. HIDE DEF F1, F2, i1, i2
  <2>. QED BY <1>1, <1>2, LastSlot
<1>. QED
  BY <1>2, <1>3 DEF TwoBuckets, FreeSlots

-----------------------------------------------------------------------------
(* The search for a path *)

(* The b_slots of a table of hashpower hp. *)
Nodes(hp) ==
  [bucket : Buckets(hp), pathcode : Nat, depth : 0 .. MAX_BFS_PATH_LEN - 1]

(* A search starts with the two buckets of a key. *)
LEMMA StartNodes ==
  ASSUME NEW hp \in Nat, NEW key \in Keys
  PROVE  StartQueue(FirstBucket(hp, key), SecondBucket(hp, key)) \in Seq(Nodes(hp))
<1>1. /\ b_slot(FirstBucket(hp, key), 0, 0) \in Nodes(hp)
      /\ b_slot(SecondBucket(hp, key), 1, 0) \in Nodes(hp)
  BY KeyBuckets, TableAssumption DEF b_slot, Nodes
<1>. QED
  BY <1>1 DEF StartQueue

(* Exploring a bucket gives b_slots. *)
LEMMA ExploreNodes ==
  ASSUME NEW hp, NEW data, GoodTable(hp, data), NEW x \in Nodes(hp)
  PROVE  /\ Explore(hp, data[x.bucket], x).found \subseteq Nodes(hp)
         /\ Explore(hp, data[x.bucket], x).more \in Seq(Nodes(hp))
<1>. DEFINE c == SLOT_PER_BUCKET
            b == data[x.bucket]
            order == [n \in 1 .. c |-> (x.pathcode + n - 1) % c]
            free  == {n \in DOMAIN order : ~ occupied(b, order[n])}
            longer(s) == b_slot(Alternate(hp, x.bucket, b[s].key),
                                x.pathcode * c + s, x.depth + 1)
            y == [x EXCEPT !.pathcode = @ * c + order[Min(free)]]
            more == [n \in DOMAIN order |-> longer(order[n])]
            e == Explore(hp, b, x)
<1>0. c \in Nat \ {0} /\ Slots = 0 .. c - 1 /\ hp \in Nat
      /\ MAX_BFS_PATH_LEN \in Nat
  BY TableAssumption DEF Slots, GoodTable
<1>1. /\ x.bucket \in Buckets(hp) /\ x.pathcode \in Nat
      /\ x.depth \in 0 .. MAX_BFS_PATH_LEN - 1
  BY DEF Nodes
<1>2. e = IF free # {} THEN [found |-> {y}, more |-> <<>>]
          ELSE [found |-> {}, more |-> IF x.depth < MAX_BFS_PATH_LEN - 1 THEN more ELSE <<>>]
  BY DEF Explore
<1>. HIDE DEF c, e
<1>3. \A n \in 1 .. c : order[n] \in Slots /\ order[n] \in Nat
  <2>. SUFFICES ASSUME NEW n \in 1 .. c PROVE order[n] \in Slots /\ order[n] \in Nat
    OBVIOUS
  <2>1. x.pathcode + n - 1 \in Nat
    BY <1>0, <1>1
  <2>2. (x.pathcode + n - 1) % c \in 0 .. c - 1
    BY <1>0, <2>1, Division
  <2>. QED BY <1>0, <2>2
<1>4. DOMAIN order = 1 .. c
  OBVIOUS
<1>. HIDE DEF order
<1>5. ASSUME free # {} PROVE y \in Nodes(hp)
  <2>1. free \in SUBSET Nat /\ free \subseteq 1 .. c
    BY <1>0, <1>4
  <2>2. PICK m \in free : \A n \in free : m <= n
    <3>. HIDE DEF free
    <3>. QED BY <1>5, <2>1, LeastElement
  <2>3. Min(free) \in free
    <3>. HIDE DEF free
    <3>. QED BY <2>2, Zenon DEF Min
  <2>. DEFINE k == x.pathcode * c
              r == order[Min(free)]
  <2>4. k \in Nat /\ r \in Nat
    BY <1>0, <1>1, <1>3, <2>1, <2>3
  <2>. HIDE DEF free, k, r
  <2>5. k + r \in Nat
    BY <2>4
  <2>. DEFINE z == k + r
  <2>6. y = [x EXCEPT !.pathcode = z]
    BY DEF k, r, Nodes
  <2>. HIDE DEF y, z
  <2>7. z \in Nat
    BY <2>5 DEF z
  <2>. QED BY <2>6, <2>7 DEF Nodes
<1>6. ASSUME free = {}, x.depth < MAX_BFS_PATH_LEN - 1
      PROVE  more \in Seq(Nodes(hp))
  <2>1. ASSUME NEW n \in 1 .. c PROVE longer(order[n]) \in Nodes(hp)
    <3>. DEFINE s == order[n]
                k == x.pathcode * c
    <3>1. s \in Slots /\ s \in Nat /\ k \in Nat
      BY <1>0, <1>1, <1>3
    <3>2. occupied(b, s)
      BY <1>4, <1>6
    <3>. HIDE DEF s, k
    <3>3. b[s].key \in Keys /\ x.bucket \in Nat
      BY <1>1, <3>1, <3>2, GoodCell
    <3>4. Hash[b[s].key] \in Nat
      BY <3>3, TableAssumption
    <3>5. Alternate(hp, x.bucket, b[s].key) \in Buckets(hp)
      BY <1>0, <3>3, <3>4, AltIndex, PartialKey DEF Alternate
    <3>. DEFINE z == k + s
                d == x.depth + 1
                a == Alternate(hp, x.bucket, b[s].key)
    <3>6. z \in Nat /\ d \in 0 .. MAX_BFS_PATH_LEN - 1 /\ a \in Buckets(hp)
      BY <1>0, <1>1, <1>6, <3>1, <3>5
    <3>7. longer(s) = b_slot(a, z, d)
      BY DEF k
    <3>. HIDE DEF z, d, a, longer
    <3>8. longer(s) \in Nodes(hp)
      BY <3>6, <3>7 DEF b_slot, Nodes
    <3>. QED BY <3>8 DEF s
  <2>. HIDE DEF longer
  <2>. QED BY <1>0, <1>4, <2>1
<1>7. <<>> \in Seq(Nodes(hp))
  OBVIOUS
<1>. HIDE DEF y, more, free
<1>8. e.found \subseteq Nodes(hp) /\ e.more \in Seq(Nodes(hp))
  BY <1>2, <1>5, <1>6, <1>7
<1>. QED
  BY <1>8 DEF e

(* slot_search finds b_slots. *)
LEMMA SearchNodes ==
  ASSUME NEW hp, NEW data, GoodTable(hp, data), NEW key \in Keys
  PROVE  slot_search(data, hp, FirstBucket(hp, key), SecondBucket(hp, key)) \subseteq Nodes(hp)
<1>. DEFINE i1 == FirstBucket(hp, key)
            i2 == SecondBucket(hp, key)
            S  == [found : SUBSET Nodes(hp), queue : Seq(Nodes(hp))]
            base == [found |-> {}, queue |-> StartQueue(i1, i2)]
            Step(r) == IF r.found # {} \/ r.queue = <<>> THEN r
                       ELSE [found |-> Explore(hp, data[Head(r.queue).bucket], Head(r.queue)).found,
                             queue |-> Tail(r.queue)
                                         \o Explore(hp, data[Head(r.queue).bucket], Head(r.queue)).more]
            Is(f) == f = [n \in Nat |-> IF n = 0 THEN base ELSE Step(f[n - 1])]
            search == CHOOSE f : Is(f)
            g == [u \in Nat \X S |-> Step(u[2])]
<1>0. slot_search(data, hp, i1, i2) = search[MAX_CUCKOO_COUNT].found
  BY Zenon DEF slot_search
<1>1. base \in S
  <2>1. StartQueue(i1, i2) \in Seq(Nodes(hp))
    BY StartNodes DEF GoodTable
  <2>. HIDE DEF i1, i2
  <2>. QED BY <2>1
<1>2. ASSUME NEW r \in S PROVE Step(r) \in S
  <2>1. CASE r.found # {} \/ r.queue = <<>>
    BY <2>1
  <2>2. CASE ~ (r.found # {} \/ r.queue = <<>>)
    <3>. DEFINE x == Head(r.queue)
                e == Explore(hp, data[x.bucket], x)
                q == r.queue
    <3>0. q \in Seq(Nodes(hp)) /\ q # <<>>
      BY <2>2
    <3>. HIDE DEF q
    <3>1. Head(q) \in Nodes(hp) /\ Tail(q) \in Seq(Nodes(hp))
      BY <3>0
    <3>2. e.found \in SUBSET Nodes(hp) /\ e.more \in Seq(Nodes(hp))
      BY <3>1, ExploreNodes DEF q
    <3>3. Step(r) = [found |-> e.found, queue |-> Tail(q) \o e.more]
      BY <2>2 DEF q
    <3>. HIDE DEF e, Step
    <3>4. Tail(q) \o e.more \in Seq(Nodes(hp))
      BY <3>1, <3>2
    <3>. QED BY <3>2, <3>3, <3>4
  <2>. QED BY <2>1, <2>2
<1>3. g \in [Nat \X S -> S]
  <2>. HIDE DEF S, Step
  <2>. QED BY <1>2
<1>4. PICK f : NatRecursion(f, S, base, g)
  <2>. HIDE DEF g, S, base
  <2>. QED BY <1>1, <1>3, NatRecursionDefined
<1>5. f \in [Nat -> S] /\ f[0] = base /\ \A n \in Nat \ {0} : f[n] = g[<<n, f[n - 1]>>]
  BY <1>4 DEF NatRecursion
<1>6. ASSUME NEW n \in Nat \ {0} PROVE f[n] = Step(f[n - 1])
  <2>. HIDE DEF S, Step, g, base
  <2>1. f[n - 1] \in S
    BY <1>5
  <2>. USE DEF g
  <2>2. g[<<n, f[n - 1]>>] = Step(f[n - 1])
    BY <2>1
  <2>. HIDE DEF g
  <2>. QED BY <1>5, <2>2
<1>7. Is(f)
  <2>. HIDE DEF S, Step, base, g
  <2>. QED BY <1>5, <1>6
<1>8. Is(search)
  <2>. HIDE DEF Is
  <2>. QED BY <1>7, Zenon
<1>9. \A n \in Nat : search[n] = IF n = 0 THEN base ELSE Step(search[n - 1])
  <2>. HIDE DEF search, Step, base
  <2>. QED BY <1>8, Zenon
<1>10. \A n \in Nat : search[n] \in S
  <2>. DEFINE N == {n \in Nat : search[n] \in S}
  <2>. HIDE DEF search, S, Step, base
  <2>1. 0 \in N
    BY <1>1, <1>9
  <2>2. ASSUME NEW n \in Nat, n \in N PROVE n + 1 \in N
    <3>1. (n + 1) - 1 = n /\ n + 1 \in Nat /\ n + 1 # 0
      OBVIOUS
    <3>2. search[n + 1] = Step(search[n]) /\ search[n] \in S
      BY <1>9, <2>2, <3>1
    <3>. QED BY <1>2, <3>1, <3>2
  <2>3. \A n \in Nat : n \in N
    <3>. HIDE DEF N
    <3>. QED BY <2>1, <2>2, NatSetInduction
  <2>. QED BY <2>3
<1>11. MAX_CUCKOO_COUNT \in Nat
  <2>. DEFINE s == SLOT_PER_BUCKET
              m == const_pow(s, MAX_BFS_PATH_LEN)
  <2>1. s \in Nat \ {0} /\ MAX_BFS_PATH_LEN \in Nat
    BY TableAssumption
  <2>2. m \in Nat \ {0}
    BY <2>1, PowPositive
  <2>. HIDE DEF s, m
  <2>3. s # 1 => (m - 1) \div (s - 1) \in Nat
    <3>1. m - 1 \in Nat /\ (s # 1 => s - 1 \in Nat \ {0})
      BY <2>1, <2>2
    <3>. QED BY <3>1, Division
  <2>. DEFINE k == IF s = 1 THEN MAX_BFS_PATH_LEN ELSE (m - 1) \div (s - 1)
  <2>4. k \in Nat
    BY <2>1, <2>3
  <2>5. MAX_CUCKOO_COUNT = 2 * k
    BY DEF MAX_CUCKOO_COUNT, s, m
  <2>. HIDE DEF k
  <2>. QED BY <2>4, <2>5
<1>. HIDE DEF search
<1>12. search[MAX_CUCKOO_COUNT].found \subseteq Nodes(hp)
  <2>1. search[MAX_CUCKOO_COUNT] \in S
    BY <1>10, <1>11
  <2>. QED BY <2>1
<1>. QED
  BY <1>0, <1>12

-----------------------------------------------------------------------------
(* Paths *)

(* The slots of a b_slot. *)
LEMMA PathSlots ==
  ASSUME NEW hp, NEW x \in Nodes(hp), NEW i \in 0 .. x.depth
  PROVE  PathSlot(x, i) \in Slots
<1>1. x.pathcode \in Nat /\ x.depth \in Nat /\ x.depth - i \in Nat
  BY TableAssumption DEF Nodes
<1>. DEFINE c == SLOT_PER_BUCKET
            p == const_pow(c, x.depth - i)
<1>2. c \in Nat \ {0} /\ p \in Nat \ {0} /\ Slots = 0 .. c - 1
  BY <1>1, TableAssumption, PowPositive DEF Slots
<1>. HIDE DEF c, p
<1>3. x.pathcode \div p \in Nat
  BY <1>1, <1>2, Division
<1>4. (x.pathcode \div p) % c \in 0 .. c - 1
  BY <1>2, <1>3, Division
<1>. QED
  BY <1>2, <1>4 DEF PathSlot, c, p

(* The positions of a path: each is in the bucket that the element at the one *)
(* before it can move to, and the first is in a bucket of the key.         *)
PathGood(hp, data, key, path) ==
  /\ path \in Seq(Buckets(hp) \X Slots)
  /\ Len(path) > 0
  /\ path[1][1] \in TwoBuckets(hp, key)
  /\ \A n \in 1 .. Len(path) - 1 :
       /\ occupied(data[path[n][1]], path[n][2])
       /\ path[n + 1][1] = Alternate(hp, path[n][1], At(data, path[n]).key)

(* A path that grows. *)
LEMMA LongerPath ==
  ASSUME NEW hp, NEW data, GoodTable(hp, data), NEW key, NEW path,
         PathGood(hp, data, key, path), NEW prev, prev = path[Len(path)],
         occupied(data[prev[1]], prev[2]), NEW s \in Slots
  PROVE  PathGood(hp, data, key,
                  Append(path, <<Alternate(hp, prev[1], At(data, prev).key), s>>))
<1>. DEFINE k == Len(path)
            next == <<Alternate(hp, prev[1], At(data, prev).key), s>>
            longer == Append(path, next)
            P == Buckets(hp) \X Slots
<1>1. path \in Seq(P) /\ k \in Nat /\ k > 0 /\ prev \in P
  BY DEF PathGood
<1>2. At(data, prev).key \in Keys /\ prev[1] \in Nat /\ hp \in Nat
  BY <1>1, GoodCell DEF At, GoodTable
<1>3. Hash[At(data, prev).key] \in Nat
  BY <1>2, TableAssumption
<1>4. Alternate(hp, prev[1], At(data, prev).key) \in Buckets(hp)
  BY <1>2, <1>3, AltIndex, PartialKey DEF Alternate
<1>5. next \in P /\ next[1] = Alternate(hp, prev[1], At(data, prev).key)
  BY <1>4
<1>. HIDE DEF next, P
<1>6. /\ longer \in Seq(P) /\ Len(longer) = k + 1 /\ longer[k + 1] = next
      /\ \A i \in 1 .. k : longer[i] = path[i]
  BY <1>1, <1>5
<1>. HIDE DEF longer, k
<1>7. \A n \in 1 .. k - 1 :
        /\ occupied(data[path[n][1]], path[n][2])
        /\ path[n + 1][1] = Alternate(hp, path[n][1], At(data, path[n]).key)
  BY DEF PathGood, k
<1>8. ASSUME NEW n \in 1 .. (k + 1) - 1
      PROVE  /\ occupied(data[longer[n][1]], longer[n][2])
             /\ longer[n + 1][1] = Alternate(hp, longer[n][1], At(data, longer[n]).key)
  <2>1. CASE n < k
    <3>1. n \in 1 .. k - 1 /\ n \in 1 .. k /\ n + 1 \in 1 .. k
      BY <1>1, <2>1
    <3>2. longer[n] = path[n] /\ longer[n + 1] = path[n + 1]
      BY <1>6, <3>1
    <3>. QED BY <1>7, <3>1, <3>2
  <2>2. CASE n = k
    <3>1. longer[n] = prev /\ longer[n + 1] = next
      BY <1>1, <1>6, <2>2 DEF k
    <3>. QED BY <1>5, <3>1
  <2>. QED BY <1>1, <2>1, <2>2
<1>9. longer[1][1] \in TwoBuckets(hp, key)
  <2>1. longer[1] = path[1]
    BY <1>1, <1>6
  <2>. QED BY <2>1 DEF PathGood
<1>10. PathGood(hp, data, key, longer)
  BY <1>1, <1>6, <1>8, <1>9 DEF PathGood, P
<1>. QED
  BY <1>10 DEF longer, next

(* PathPositions gives a path. *)
LEMMA PathsGood ==
  ASSUME NEW hp, NEW data, GoodTable(hp, data), NEW key \in Keys, NEW x \in Nodes(hp)
  PROVE  PathGood(hp, data, key,
                  PathPositions(data, hp, x, FirstBucket(hp, key), SecondBucket(hp, key)))
<1>. DEFINE i1 == FirstBucket(hp, key)
            i2 == SecondBucket(hp, key)
            start == IF PathStart(x) = 0 THEN i1 ELSE i2
            base == <<<<start, PathSlot(x, 0)>>>>
            Step(i, p) == IF ~ occupied(data[p[Len(p)][1]], p[Len(p)][2]) THEN p
                          ELSE Append(p, <<Alternate(hp, p[Len(p)][1], At(data, p[Len(p)]).key),
                                           PathSlot(x, i)>>)
            m == x.depth
            Is(f) == f = [i \in 0 .. m |-> IF i = 0 THEN base ELSE Step(i, f[i - 1])]
            path == CHOOSE f : Is(f)
            S == {p \in Seq(Buckets(hp) \X Slots) : PathGood(hp, data, key, p)}
            g == [u \in (1 .. m) \X S |-> Step(u[1], u[2])]
<1>0. hp \in Nat /\ m \in Nat
  BY TableAssumption DEF GoodTable, Nodes
<1>1. start \in TwoBuckets(hp, key) /\ start \in Buckets(hp)
  BY <1>0, KeyBuckets DEF TwoBuckets
<1>2. PathSlot(x, 0) \in Slots
  <2>1. 0 \in 0 .. x.depth
    BY <1>0
  <2>. QED BY <2>1, PathSlots
<1>3. base \in S
  <2>. HIDE DEF start
  <2>1. base \in Seq(Buckets(hp) \X Slots) /\ Len(base) = 1 /\ base[1][1] = start
    BY <1>1, <1>2
  <2>. HIDE DEF base
  <2>2. ~ \E n : n \in 1 .. Len(base) - 1
    BY <2>1
  <2>3. PathGood(hp, data, key, base)
    <3>. HIDE DEF i1, i2
    <3>. QED BY <1>1, <2>1, <2>2 DEF PathGood
  <2>. QED BY <2>1, <2>3
<1>4. ASSUME NEW i \in 1 .. m, NEW p \in S PROVE Step(i, p) \in S
  <2>1. i \in 0 .. x.depth
    BY <1>0
  <2>2. PathSlot(x, i) \in Slots
    BY <2>1, PathSlots
  <2>3. PathGood(hp, data, key, p)
    OBVIOUS
  <2>4. CASE occupied(data[p[Len(p)][1]], p[Len(p)][2])
    <3>1. PathGood(hp, data, key, Step(i, p))
      BY <2>2, <2>3, <2>4, LongerPath
    <3>. HIDE DEF Step
    <3>. QED BY <3>1 DEF PathGood
  <2>5. CASE ~ occupied(data[p[Len(p)][1]], p[Len(p)][2])
    BY <2>5
  <2>. QED BY <2>4, <2>5
<1>5. g \in [(1 .. m) \X S -> S]
  <2>. HIDE DEF S, Step
  <2>. QED BY <1>4
<1>6. PICK f : Recursion(f, S, base, m, g)
  <2>. HIDE DEF g, S, base, m
  <2>. QED BY <1>0, <1>3, <1>5, RecursionDefined
<1>7. f \in [0 .. m -> S] /\ f[0] = base /\ \A n \in 1 .. m : f[n] = g[<<n, f[n - 1]>>]
  BY <1>6 DEF Recursion
<1>8. ASSUME NEW n \in 1 .. m PROVE f[n] = Step(n, f[n - 1])
  <2>. HIDE DEF S, Step, g, base, m
  <2>1. f[n - 1] \in S
    BY <1>0, <1>7
  <2>. USE DEF g
  <2>2. g[<<n, f[n - 1]>>] = Step(n, f[n - 1])
    BY <2>1
  <2>. HIDE DEF g
  <2>. QED BY <1>7, <2>2
<1>9. Is(f)
  <2>. HIDE DEF S, Step, base, g, m
  <2>. QED BY <1>0, <1>7, <1>8
<1>10. Is(path)
  <2>. HIDE DEF Is
  <2>. QED BY <1>9, Zenon
<1>11. \A n \in 0 .. m : path[n] = IF n = 0 THEN base ELSE Step(n, path[n - 1])
  <2>. HIDE DEF path, Step, base, m
  <2>. QED BY <1>10, Zenon
<1>12. \A n \in Nat : n \in 0 .. m => path[n] \in S
  <2>. DEFINE N == {n \in Nat : n \in 0 .. m => path[n] \in S}
  <2>. HIDE DEF path, S, Step, base, m
  <2>1. 0 \in N
    BY <1>0, <1>3, <1>11
  <2>2. ASSUME NEW n \in Nat, n \in N PROVE n + 1 \in N
    <3>. SUFFICES ASSUME n + 1 \in 0 .. m PROVE path[n + 1] \in S
      OBVIOUS
    <3>1. (n + 1) - 1 = n /\ n + 1 # 0 /\ n \in 0 .. m /\ n + 1 \in 1 .. m
      BY <1>0
    <3>2. path[n + 1] = Step(n + 1, path[n]) /\ path[n] \in S
      BY <1>11, <2>2, <3>1
    <3>. QED BY <1>4, <3>1, <3>2
  <2>3. \A n \in Nat : n \in N
    <3>. HIDE DEF N
    <3>. QED BY <2>1, <2>2, NatSetInduction
  <2>. QED BY <2>3
<1>13. PathPositions(data, hp, x, i1, i2) = path[m]
  BY Zenon DEF PathPositions
<1>14. path[m] \in S
  <2>. HIDE DEF path, S, m
  <2>. QED BY <1>0, <1>12
<1>. QED
  BY <1>13, <1>14

(* The tables that a thread which owns the table may meet. *)
LoneTable(hp, data) == GoodTable(hp, data) /\ Single(data)

(* Moving along a path keeps a table good and what is in it, and makes the  *)
(* slot free at which the path begins.                                     *)
LEMMA MovedAlongGood ==
  ASSUME NEW hp, NEW data, LoneTable(hp, data), NEW key, Absent(data, key),
         NEW path, PathGood(hp, data, key, path), NEW new \in MovedAlong(data, path)
  PROVE  /\ LoneTable(hp, new) /\ Absent(new, key)
         /\ Contents(new) = Contents(data) /\ ~ occupied(new[path[1][1]], path[1][2])
<1>. DEFINE m == Len(path) - 1
            T == {e \in Containers(hp) : /\ LoneTable(hp, e) /\ Absent(e, key)
                                         /\ Contents(e) = Contents(data)}
            S == SUBSET T
            base == {d \in {data} : Len(path) = 1 => ~ occupied(d[path[1][1]], path[1][2])}
            from(n) == path[Len(path) - n]
            to(n) == path[Len(path) - n + 1]
            Step(n, ds) == {MoveKV(d, from(n), to(n)) :
                              d \in {e \in ds : StillThere(e, from(n), to(n),
                                                           Hash[At(data, from(n)).key])}}
            Is(f) == f = [n \in 0 .. m |-> IF n = 0 THEN base ELSE Step(n, f[n - 1])]
            moved == CHOOSE f : Is(f)
            g == [u \in (1 .. m) \X S |-> Step(u[1], u[2])]
<1>0. m \in Nat /\ Len(path) = m + 1 /\ path \in Seq(Buckets(hp) \X Slots) /\ hp \in Nat
  BY DEF PathGood, LoneTable, GoodTable
<1>1. \A e : e \in T <=> /\ LoneTable(hp, e) /\ Absent(e, key)
                         /\ Contents(e) = Contents(data)
  BY DEF LoneTable, GoodTable
<1>2. base \in S
  <2>. HIDE DEF T
  <2>. QED BY <1>1
<1>20. ASSUME NEW n \in 1 .. m, NEW ds \in S, NEW d \in ds,
              StillThere(d, from(n), to(n), Hash[At(data, from(n)).key])
       PROVE  /\ MoveKV(d, from(n), to(n)) \in T
              /\ ~ occupied(MoveKV(d, from(n), to(n))[from(n)[1]], from(n)[2])
  <2>. DEFINE k == Len(path) - n
              a == path[k]
              b == path[k + 1]
  <2>1. k \in 1 .. Len(path) - 1 /\ k \in 1 .. Len(path) /\ k + 1 \in 1 .. Len(path)
    BY <1>0
  <2>2. a \in Buckets(hp) \X Slots /\ b \in Buckets(hp) \X Slots
    BY <1>0, <2>1
  <2>3. LoneTable(hp, d) /\ Absent(d, key) /\ Contents(d) = Contents(data)
    BY <1>1, <1>20
  <2>4. /\ occupied(d[a[1]], a[2]) /\ Hash[d[a[1]][a[2]].key] = Hash[At(data, a).key]
        /\ ~ occupied(d[b[1]], b[2])
    <3>1. from(n) = a /\ to(n) = b
      OBVIOUS
    <3>2. StillThere(d, a, b, Hash[At(data, a).key])
      BY <1>20, <3>1
    <3>. HIDE DEF a, b, k, T
    <3>. QED BY <3>2 DEF StillThere, At
  <2>5. b[1] = Alternate(hp, a[1], At(data, a).key)
    <3>. HIDE DEF k
    <3>. QED BY <2>1 DEF PathGood
  <2>6. b[1] = Alternate(hp, a[1], d[a[1]][a[2]].key)
    BY <2>4, <2>5 DEF Alternate
  <2>7. MoveKV(d, from(n), to(n)) = eraseKV(setKV(d, b[1], b[2], d[a[1]][a[2]]), a[1], a[2])
    BY DEF MoveKV
  <2>. DEFINE e == MoveKV(d, from(n), to(n))
  <2>. HIDE DEF a, b, e, T
  <2>8. /\ GoodTable(hp, e)
        /\ \A rest, lv : Apart(d, rest, lv) => Apart(e, rest, lv)
        /\ \A k2 : Absent(d, k2) => Absent(e, k2)
    <3>1. a[1] \in Buckets(hp) /\ a[2] \in Slots /\ b[2] \in Slots /\ GoodTable(hp, d)
          /\ e = eraseKV(setKV(d, b[1], b[2], d[a[1]][a[2]]), a[1], a[2])
      BY <2>2, <2>3, <2>7 DEF LoneTable, e
    <3>. QED BY <2>4, <2>6, <3>1, MoveKeeps1
  <2>9. LoneTable(hp, e) /\ Absent(e, key)
    BY <2>3, <2>8 DEF LoneTable, Single
  <2>10. Contents(e) = Contents(d) /\ ~ occupied(e[a[1]], a[2])
    <3>1. a[1] \in Buckets(hp) /\ a[2] \in Slots /\ b[2] \in Slots /\ GoodTable(hp, d)
          /\ e = eraseKV(setKV(d, b[1], b[2], d[a[1]][a[2]]), a[1], a[2])
      BY <2>2, <2>3, <2>7 DEF LoneTable, e
    <3>2. b[1] \in TwoBuckets(hp, d[a[1]][a[2]].key)
      <4>1. a[1] \in TwoBuckets(hp, d[a[1]][a[2]].key) /\ d[a[1]][a[2]].key \in Keys
        BY <2>4, <3>1, GoodCell
      <4>. QED BY <1>0, <2>6, <4>1, AlternateIsHome
    <3>. QED BY <2>4, <3>1, <3>2, MoveContent DEF Contents
  <2>11. e \in T
    BY <1>1, <2>3, <2>9, <2>10
  <2>12. a = from(n)
    BY DEF a
  <2>. QED BY <2>10, <2>11, <2>12 DEF e
<1>3. ASSUME NEW n \in 1 .. m, NEW ds \in S PROVE Step(n, ds) \in S
  <2>. HIDE DEF T
  <2>. QED BY <1>20
<1>4. g \in [(1 .. m) \X S -> S]
  <2>. HIDE DEF S, Step
  <2>. QED BY <1>3
<1>5. PICK f : Recursion(f, S, base, m, g)
  <2>. HIDE DEF g, S, base, m
  <2>. QED BY <1>0, <1>2, <1>4, RecursionDefined
<1>6. f \in [0 .. m -> S] /\ f[0] = base /\ \A n \in 1 .. m : f[n] = g[<<n, f[n - 1]>>]
  BY <1>5 DEF Recursion
<1>7. ASSUME NEW n \in 1 .. m PROVE f[n] = Step(n, f[n - 1])
  <2>. HIDE DEF S, Step, g, base, m
  <2>1. f[n - 1] \in S
    BY <1>0, <1>6
  <2>. USE DEF g
  <2>2. g[<<n, f[n - 1]>>] = Step(n, f[n - 1])
    BY <2>1
  <2>. HIDE DEF g
  <2>. QED BY <1>6, <2>2
<1>8. Is(f)
  <2>. HIDE DEF S, Step, base, g, m
  <2>. QED BY <1>0, <1>6, <1>7
<1>9. Is(moved)
  <2>. HIDE DEF Is
  <2>. QED BY <1>8, Zenon
<1>10. \A n \in 0 .. m : moved[n] = IF n = 0 THEN base ELSE Step(n, moved[n - 1])
  <2>. HIDE DEF moved, Step, base, m
  <2>. QED BY <1>9, Zenon
<1>11. \A n \in Nat : n \in 0 .. m => moved[n] \in S
  <2>. DEFINE N == {n \in Nat : n \in 0 .. m => moved[n] \in S}
  <2>. HIDE DEF moved, S, Step, base, m
  <2>1. 0 \in N
    BY <1>0, <1>2, <1>10
  <2>2. ASSUME NEW n \in Nat, n \in N PROVE n + 1 \in N
    <3>. SUFFICES ASSUME n + 1 \in 0 .. m PROVE moved[n + 1] \in S
      OBVIOUS
    <3>1. (n + 1) - 1 = n /\ n + 1 # 0 /\ n \in 0 .. m /\ n + 1 \in 1 .. m
      BY <1>0
    <3>2. moved[n + 1] = Step(n + 1, moved[n]) /\ moved[n] \in S
      BY <1>10, <2>2, <3>1
    <3>. QED BY <1>3, <3>1, <3>2
  <2>3. \A n \in Nat : n \in N
    <3>. HIDE DEF N
    <3>. QED BY <2>1, <2>2, NatSetInduction
  <2>. QED BY <2>3
<1>12. MovedAlong(data, path) = moved[m]
  BY Zenon DEF MovedAlong
<1>13. moved[m] \in S
  <2>. HIDE DEF moved, S, m
  <2>. QED BY <1>0, <1>11
<1>14. new \in T
  <2>. HIDE DEF moved, m, T
  <2>. QED BY <1>12, <1>13
<1>15. ~ occupied(new[path[1][1]], path[1][2])
  <2>1. CASE m = 0
    <3>1. new \in base /\ Len(path) = 1
      <4>. HIDE DEF moved, m, base
      <4>. QED BY <1>0, <1>10, <1>12, <2>1
    <3>. QED BY <3>1
  <2>2. CASE m # 0
    <3>1. m \in 1 .. m /\ m \in 0 .. m /\ m - 1 \in 0 .. m /\ m - 1 \in Nat
      BY <1>0, <2>2
    <3>2. new \in Step(m, moved[m - 1]) /\ moved[m - 1] \in S
      <4>. HIDE DEF moved, Step, S, m
      <4>. QED BY <1>10, <1>11, <1>12, <2>2, <3>1
    <3>3. from(m) = path[1]
      BY <1>0
    <3>. HIDE DEF moved, S, T, m
    <3>4. PICK d \in moved[m - 1] :
            /\ StillThere(d, from(m), to(m), Hash[At(data, from(m)).key])
            /\ new = MoveKV(d, from(m), to(m))
      BY <3>2
    <3>5. ~ occupied(MoveKV(d, from(m), to(m))[from(m)[1]], from(m)[2])
      <4>. HIDE DEF from, to
      <4>. QED BY <1>20, <3>1, <3>2, <3>4
    <3>. QED BY <3>3, <3>4, <3>5
  <2>. QED BY <2>1, <2>2
<1>. QED
  BY <1>1, <1>14, <1>15

-----------------------------------------------------------------------------
(* Tables as a whole *)

(* A table whose owner is alone with it. *)
LoneTab(tbl) == tbl = table(tbl.hp, tbl.data) /\ LoneTable(tbl.hp, tbl.data)

(* The set of these tables. *)
Tabs == UNION {{table(hp, data) : data \in {c \in Containers(hp) : LoneTable(hp, c)}} :
                 hp \in Nat}

LEMMA TabsAre == \A tbl : tbl \in Tabs <=> LoneTab(tbl)
<1>1. ASSUME NEW tbl \in Tabs PROVE LoneTab(tbl)
  <2>1. PICK hp \in Nat : \E data \in Containers(hp) : LoneTable(hp, data) /\ tbl = table(hp, data)
    BY DEF Tabs
  <2>2. PICK data \in Containers(hp) : LoneTable(hp, data) /\ tbl = table(hp, data)
    BY <2>1
  <2>3. tbl.hp = hp /\ tbl.data = data
    BY <2>2 DEF table
  <2>. QED BY <2>2, <2>3 DEF LoneTab
<1>2. ASSUME NEW tbl, LoneTab(tbl) PROVE tbl \in Tabs
  <2>. DEFINE hp == tbl.hp
              data == tbl.data
  <2>1. hp \in Nat /\ data \in Containers(hp) /\ LoneTable(hp, data) /\ tbl = table(hp, data)
    BY <1>2 DEF LoneTab, LoneTable, GoodTable
  <2>. HIDE DEF hp, data
  <2>. QED BY <2>1 DEF Tabs
<1>. QED
  BY <1>1, <1>2

(* A container that takes the place of the other one. *)
LEMMA ApartBehind ==
  ASSUME NEW hp, NEW data, GoodTable(hp, data), Single(data),
         NEW empty, \A i \in DOMAIN empty, s \in Slots : empty[i][s] = Vacant
  PROVE  Apart(empty, data, Buckets(hp))
<1>. DEFINE to == [z \in Cells |-> <<2, z[2], z[3]>>]
<1>1. DOMAIN data = Buckets(hp)
  BY DEF GoodTable, Containers
<1>2. ASSUME NEW x \in Cells, Cell(empty, data, Buckets(hp), x) # Vacant
      PROVE  \E z \in Cells :
               /\ x = to[z]
               /\ Cell(data, NoOld, {}, z) # Vacant
               /\ Cell(data, NoOld, {}, z).key = Cell(empty, data, Buckets(hp), x).key
  <2>. DEFINE z == <<1, x[2], x[3]>>
  <2>1. x[2] \in Nat /\ x[3] \in Slots /\ x[1] \in {1, 2} /\ x = <<x[1], x[2], x[3]>>
    BY DEF Cells
  <2>2. x[1] = 2 /\ x[2] \in Buckets(hp)
        /\ Cell(empty, data, Buckets(hp), x) = data[x[2]][x[3]]
    BY <1>2, <2>1 DEF Cell
  <2>3. z \in Cells /\ z[2] = x[2] /\ z[3] = x[3] /\ z[1] = 1
    BY <2>1 DEF Cells
  <2>4. to[z] = x
    BY <2>1, <2>2, <2>3
  <2>5. Cell(data, NoOld, {}, z) = data[x[2]][x[3]]
    BY <1>1, <2>2, <2>3 DEF Cell
  <2>. HIDE DEF z, to
  <2>. QED BY <1>2, <2>2, <2>3, <2>4, <2>5
<1>3. Apart(data, NoOld, {})
  BY DEF Single
<1>. HIDE DEF to
<1>. DEFINE lv == Buckets(hp)
<1>4. \A x \in Cells : Cell(empty, data, lv, x) # Vacant =>
        \E z \in Cells : /\ x = to[z]
                         /\ Cell(data, NoOld, {}, z) # Vacant
                         /\ Cell(data, NoOld, {}, z).key = Cell(empty, data, lv, x).key
  BY <1>2
<1>. HIDE DEF lv
<1>5. Apart(empty, data, lv)
  BY <1>3, <1>4, ApartFrom
<1>. QED
  BY <1>5 DEF lv

(* A container of which nothing counts any more. *)
LEMMA ApartAlone ==
  ASSUME NEW data, NEW rest, NEW lv, lv = {}, Apart(data, rest, lv), NEW rest2, NEW lv2, lv2 = {}
  PROVE  Apart(data, rest2, lv2)
<1>1. \A x \in Cells : Cell(data, rest2, lv2, x) = Cell(data, rest, lv, x)
  BY DEF Cell
<1>. QED
  BY <1>1, ApartStays

(* Doubled keeps a table good and what is in it. *)
LEMMA DoubledGood ==
  ASSUME NEW hp, NEW data, LoneTable(hp, data)
  PROVE  /\ Doubled(table(hp, data)) = table(hp + 1, Doubled(table(hp, data)).data)
         /\ LoneTable(hp + 1, Doubled(table(hp, data)).data)
         /\ \A key : Absent(data, key) => Absent(Doubled(table(hp, data)).data, key)
         /\ Contents(Doubled(table(hp, data)).data) = Contents(data)
<1>. DEFINE empty == bucket_container(hp + 1)
            lv == Buckets(hp)
            new == move_buckets(data, hp, empty, lv)
<1>1. GoodTable(hp, data) /\ Single(data) /\ hp \in Nat /\ hp + 1 \in Nat
      /\ DOMAIN data = lv
  BY DEF LoneTable, GoodTable, Containers
<1>2. GoodTable(hp + 1, empty) /\ \A key : Absent(empty, key)
  BY <1>1, EmptyTable
<1>3. \A i \in DOMAIN empty, s \in Slots : empty[i][s] = Vacant
  BY DEF bucket_container, EmptyBucket
<1>4. Apart(empty, data, lv)
  <2>. HIDE DEF empty
  <2>. QED BY <1>1, <1>3, ApartBehind
<1>5. Doubled(table(hp, data)) = table(hp + 1, new)
  BY <1>1 DEF Doubled, table
<1>6. Doubled(table(hp, data)).data = new
  BY <1>5 DEF table
<1>7. GoodTable(hp + 1, new) /\ \A key : Absent(data, key) => Absent(new, key)
  <2>. HIDE DEF empty, lv
  <2>. QED BY <1>1, <1>2, MoveBucketsGood
<1>8. Single(new)
  <2>. HIDE DEF empty, lv
  <2>1. lv \subseteq lv /\ lv \ lv = {}
    OBVIOUS
  <2>2. Apart(new, data, lv \ lv)
    BY <1>1, <1>2, <1>4, <2>1, MoveBucketsApart
  <2>. HIDE DEF new
  <2>. QED BY <2>1, <2>2, ApartAlone DEF Single
<1>9. Contents(new) = Contents(data)
  <2>1. Content(new, data, lv \ lv) = Content(empty, data, lv)
    <3>1. Receiving(hp, empty, lv)
      <4>. SUFFICES ASSUME NEW i \in lv, NEW s \in Slots
                    PROVE  empty[i][s] = Vacant /\ empty[i + hashsize(hp)][s] = Vacant
        BY DEF Receiving
      <4>1. hashsize(hp) \in Nat \ {0} /\ hashsize(hp + 1) = 2 * hashsize(hp)
        BY <1>1, SizeSteps
      <4>2. i \in Buckets(hp + 1) /\ i + hashsize(hp) \in Buckets(hp + 1)
        <5>. DEFINE z == hashsize(hp)
        <5>1. i \in 0 .. z - 1 /\ z \in Nat /\ Buckets(hp + 1) = 0 .. 2 * z - 1
          BY <4>1 DEF Buckets
        <5>. HIDE DEF z, lv
        <5>2. i \in 0 .. 2 * z - 1 /\ i + z \in 0 .. 2 * z - 1
          BY <5>1
        <5>. QED BY <5>1, <5>2 DEF z
      <4>3. DOMAIN empty = Buckets(hp + 1)
        BY DEF bucket_container
      <4>. HIDE DEF empty
      <4>. QED BY <1>3, <4>2, <4>3
    <3>. HIDE DEF empty, lv
    <3>2. lv \subseteq lv /\ lv \subseteq Buckets(hp)
      BY DEF lv
    <3>. QED BY <1>1, <1>2, <3>1, <3>2, MoveBucketsContent
  <2>. HIDE DEF new
  <2>2. Content(new, NoOld, {}) = Content(new, data, lv \ lv)
    BY DEF Content, Cell
  <2>3. Content(empty, data, lv) = Content(data, NoOld, {})
    <3>1. DOMAIN data = lv /\ lv \subseteq Nat
      BY <1>1, SizeSteps DEF Buckets
    <3>. HIDE DEF empty, lv
    <3>2. ASSUME NEW x \in Cells, Cell(empty, data, lv, x) # Vacant
          PROVE  \E z \in Cells : Cell(data, NoOld, {}, z) = Cell(empty, data, lv, x)
      <4>1. x[3] \in Slots /\ x[2] \in lv /\ Cell(empty, data, lv, x) = data[x[2]][x[3]]
        BY <1>3, <3>2 DEF Cell, Cells
      <4>2. <<1, x[2], x[3]>> \in Cells
        BY <3>1, <4>1 DEF Cells
      <4>3. Cell(data, NoOld, {}, <<1, x[2], x[3]>>) = data[x[2]][x[3]]
        BY <3>1, <4>1 DEF Cell
      <4>. QED BY <4>1, <4>2, <4>3
    <3>3. ASSUME NEW x \in Cells, Cell(data, NoOld, {}, x) # Vacant
          PROVE  \E z \in Cells : Cell(empty, data, lv, z) = Cell(data, NoOld, {}, x)
      <4>1. x[3] \in Slots /\ x[2] \in lv /\ Cell(data, NoOld, {}, x) = data[x[2]][x[3]]
        BY <3>1, <3>3 DEF Cell, Cells
      <4>2. <<2, x[2], x[3]>> \in Cells
        BY <3>1, <4>1 DEF Cells
      <4>3. Cell(empty, data, lv, <<2, x[2], x[3]>>) = data[x[2]][x[3]]
        BY <4>1 DEF Cell
      <4>. QED BY <4>1, <4>2, <4>3
    <3>. QED BY <3>2, <3>3, ContentFrom
  <2>. HIDE DEF empty, lv
  <2>. QED BY <2>1, <2>2, <2>3 DEF Contents
<1>. HIDE DEF new
<1>. QED
  BY <1>5, <1>6, <1>7, <1>8, <1>9 DEF LoneTable

(* A new element is placed. *)
LEMMA PlacedGood ==
  ASSUME NEW hp, NEW data, LoneTable(hp, data), NEW kv \in KV, Absent(data, kv.key),
         NEW new \in Placed(table(hp, data), kv)
  PROVE  /\ new = table(hp, new.data) /\ LoneTable(hp, new.data)
         /\ Contents(new.data) = Contents(data) \cup {kv}
<1>. DEFINE tbl == table(hp, data)
            pos == InsertPosition(data, hp, kv.key)
<1>1. tbl.hp = hp /\ tbl.data = data
  BY DEF table
<1>2. kv.key \in Keys
  BY DEF KV
<1>3. ASSUME NEW d, LoneTable(hp, d), Absent(d, kv.key), NEW p,
             p[1] \in TwoBuckets(hp, kv.key), p[2] \in Slots, new = PutAt(tbl, d, p, kv),
             ~ occupied(d[p[1]], p[2]), Contents(d) = Contents(data)
      PROVE  /\ new = table(hp, new.data) /\ LoneTable(hp, new.data)
             /\ Contents(new.data) = Contents(data) \cup {kv}
  <2>. DEFINE e == setKV(d, p[1], p[2], kv)
  <2>1. new = table(hp, e) /\ new.data = e
    BY <1>1, <1>3 DEF PutAt, table
  <2>2. GoodTable(hp, d) /\ Single(d)
    BY <1>3 DEF LoneTable
  <2>3. GoodTable(hp, e)
    BY <1>3, <2>2, PutKeeps
  <2>4. \A rest, lv : Apart(d, rest, lv) /\ Absent(d, kv.key)
            /\ (\A j \in lv, r \in Slots : rest[j][r] # Vacant => rest[j][r].key # kv.key)
          => Apart(e, rest, lv)
    BY <1>3, <2>2, PutKeeps
  <2>5. Single(e)
    BY <1>3, <2>2, <2>4 DEF Single
  <2>6. Contents(e) = Contents(d) \cup {kv}
    <3>1. p[1] \in Buckets(hp)
      BY <1>2, <1>3, <2>2, KeyBuckets DEF GoodTable
    <3>. QED BY <1>3, <2>2, <3>1, PutContent DEF Contents
  <2>. HIDE DEF e
  <2>. QED BY <1>3, <2>1, <2>3, <2>5, <2>6 DEF LoneTable
<1>4. CASE pos # {}
  <2>1. PICK p \in pos : new = PutAt(tbl, data, p, kv)
    BY <1>1, <1>4 DEF Placed
  <2>2. p[1] \in TwoBuckets(hp, kv.key) /\ p[2] \in Slots /\ ~ occupied(data[p[1]], p[2])
    BY <2>1, InsertPositionHome
  <2>. QED BY <1>3, <2>1, <2>2
<1>5. CASE pos = {}
  <2>1. PICK path \in Paths(tbl, kv.key) :
          \E d \in MovedAlong(data, path) : new = PutAt(tbl, d, Head(path), kv)
    <3>. DEFINE Ds(path) == {PutAt(tbl, d, Head(path), kv) : d \in MovedAlong(data, path)}
    <3>1. new \in UNION {Ds(path) : path \in Paths(tbl, kv.key)}
      BY <1>1, <1>5 DEF Placed
    <3>2. PICK path \in Paths(tbl, kv.key) : new \in Ds(path)
      BY <3>1
    <3>. QED BY <3>2
  <2>2. PICK d \in MovedAlong(data, path) : new = PutAt(tbl, d, Head(path), kv)
    BY <2>1
  <2>3. PathGood(hp, data, kv.key, path)
    <3>1. PICK x \in slot_search(data, hp, FirstBucket(hp, kv.key), SecondBucket(hp, kv.key)) :
            path = PathPositions(data, hp, x, FirstBucket(hp, kv.key), SecondBucket(hp, kv.key))
      BY <1>1, <2>1 DEF Paths
    <3>2. x \in Nodes(hp)
      BY <1>2, <3>1, SearchNodes DEF LoneTable
    <3>. QED BY <1>2, <3>1, <3>2, PathsGood DEF LoneTable
  <2>4. /\ LoneTable(hp, d) /\ Absent(d, kv.key)
        /\ Contents(d) = Contents(data) /\ ~ occupied(d[path[1][1]], path[1][2])
    BY <2>2, <2>3, MovedAlongGood
  <2>5. Head(path) = path[1] /\ path[1] \in Buckets(hp) \X Slots
    BY <2>3 DEF PathGood
  <2>6. Head(path)[1] \in TwoBuckets(hp, kv.key) /\ Head(path)[2] \in Slots
    BY <2>3, <2>5 DEF PathGood
  <2>. QED BY <1>3, <2>2, <2>4, <2>5, <2>6
<1>. QED
  BY <1>4, <1>5

(* The results of insert by the owner of the table, for a key that is not in *)
(* it: the element is added at last, or the expansion is refused.          *)
GrowingResult(r, kv, maxhp, same, low, all) ==
  /\ r = [tbl |-> r.tbl, done |-> r.done, thrown |-> r.thrown]
  /\ LoneTab(r.tbl)
  /\ r.done \in BOOLEAN /\ r.thrown \in BOOLEAN
  /\ IF r.done /\ ~ r.thrown THEN Contents(r.tbl.data) = all \cup {kv}
     ELSE Absent(r.tbl.data, kv.key) /\ Contents(r.tbl.data) = all
  /\ same => r.tbl.hp = maxhp
  /\ low <= r.tbl.hp

LEMMA AttemptGood ==
  ASSUME NEW tbl, LoneTab(tbl), NEW kv \in KV, Absent(tbl.data, kv.key), NEW maxhp, NEW size,
         NEW same \in BOOLEAN, same => tbl.hp = maxhp, NEW low \in Nat, low <= tbl.hp,
         NEW all, Contents(tbl.data) = all
  PROVE  /\ GrowingResult(Attempt(tbl, kv, maxhp, size), kv, maxhp, same, low, all)
         /\ ~ Attempt(tbl, kv, maxhp, size).done =>
              /\ ~ (tbl.hp >= maxhp)
              /\ Attempt(tbl, kv, maxhp, size).tbl.hp = tbl.hp + 1
<1>. DEFINE hp == tbl.hp
            data == tbl.data
            placed == Placed(tbl, kv)
            r == Attempt(tbl, kv, maxhp, size)
<1>1. tbl = table(hp, data) /\ LoneTable(hp, data) /\ hp \in Nat
  BY DEF LoneTab, LoneTable, GoodTable
<1>2. ASSUME NEW t \in placed PROVE LoneTab(t) /\ t.hp = hp /\ Contents(t.data) = all \cup {kv}
  <2>. HIDE DEF hp, data
  <2>1. /\ t = table(hp, t.data) /\ LoneTable(hp, t.data)
        /\ Contents(t.data) = all \cup {kv}
    BY <1>1, <1>2, PlacedGood DEF data
  <2>2. t.hp = hp
    BY <2>1 DEF table
  <2>. QED BY <2>1, <2>2 DEF LoneTab
<1>3. CASE placed # {}
  <2>. DEFINE t == CHOOSE t \in placed : TRUE
  <2>1. t \in placed
    BY <1>3
  <2>2. r = [tbl |-> t, done |-> TRUE, thrown |-> FALSE]
    BY <1>3, Zenon DEF Attempt
  <2>. HIDE DEF t, placed, r
  <2>. QED BY <1>2, <2>1, <2>2 DEF GrowingResult, r
<1>4. CASE placed = {} /\ (hp >= maxhp \/ LoadTooLow(hp, size))
  <2>1. r = [tbl |-> tbl, done |-> TRUE, thrown |-> TRUE]
    BY <1>4 DEF Attempt
  <2>. HIDE DEF r
  <2>. QED BY <2>1 DEF GrowingResult, r
<1>5. CASE placed = {} /\ ~ (hp >= maxhp \/ LoadTooLow(hp, size))
  <2>. DEFINE t == Doubled(tbl)
  <2>1. r = [tbl |-> t, done |-> FALSE, thrown |-> FALSE]
    BY <1>5 DEF Attempt
  <2>2. /\ t = table(hp + 1, t.data) /\ LoneTable(hp + 1, t.data) /\ Absent(t.data, kv.key)
        /\ Contents(t.data) = all
    <3>. HIDE DEF hp, data
    <3>. QED BY <1>1, DoubledGood DEF data
  <2>. HIDE DEF t, r
  <2>3. LoneTab(t)
    BY <2>2 DEF LoneTab, table
  <2>4. ~ same /\ low <= hp + 1
    BY <1>1, <1>5
  <2>5. t.hp = hp + 1
    BY <2>2 DEF table
  <2>. QED BY <1>5, <2>1, <2>2, <2>3, <2>4, <2>5 DEF GrowingResult, r
<1>. QED
  BY <1>3, <1>4, <1>5

(* The owner of a table inserts a new element, and doubles as often as needed. *)
LEMMA InsertGrowingGood ==
  ASSUME NEW tbl, LoneTab(tbl), NEW kv \in KV, Absent(tbl.data, kv.key), NEW maxhp \in Nat,
         NEW same \in BOOLEAN, same => tbl.hp = maxhp
  PROVE  /\ GrowingResult(InsertGrowing(tbl, kv, maxhp), kv, maxhp, same, tbl.hp,
                           Contents(tbl.data))
         /\ InsertGrowing(tbl, kv, maxhp).done
<1>. DEFINE low == tbl.hp
            all == Contents(tbl.data)
            size == Cardinality(Positions(tbl.data))
            S == {r \in [tbl : Tabs, done : BOOLEAN, thrown : BOOLEAN] :
                    GrowingResult(r, kv, maxhp, same, low, all)}
            base == [tbl |-> tbl, done |-> FALSE, thrown |-> FALSE]
            Step(r) == IF r.done THEN r ELSE Attempt(r.tbl, kv, maxhp, size)
            Is(f) == f = [n \in Nat |-> IF n = 0 THEN base ELSE Step(f[n - 1])]
            result == CHOOSE f : Is(f)
            g == [u \in Nat \X S |-> Step(u[2])]
<1>0. low \in Nat
  BY DEF LoneTab, LoneTable, GoodTable
<1>1. \A r : r \in S <=> GrowingResult(r, kv, maxhp, same, low, all)
  <2>. SUFFICES ASSUME NEW r, GrowingResult(r, kv, maxhp, same, low, all)
                PROVE  r \in [tbl : Tabs, done : BOOLEAN, thrown : BOOLEAN]
    OBVIOUS
  <2>. DEFINE t == r.tbl
              d == r.done
              th == r.thrown
  <2>1. r = [tbl |-> t, done |-> d, thrown |-> th] /\ LoneTab(t)
        /\ d \in BOOLEAN /\ th \in BOOLEAN
    BY DEF GrowingResult
  <2>2. t \in Tabs
    BY <2>1, TabsAre
  <2>. HIDE DEF t, d, th
  <2>. QED BY <2>1, <2>2
<1>2. base \in S
  <2>1. GrowingResult(base, kv, maxhp, same, low, all)
    BY <1>0 DEF GrowingResult
  <2>. HIDE DEF base, S
  <2>. QED BY <1>1, <2>1
<1>3. ASSUME NEW r \in S PROVE Step(r) \in S
  <2>1. GrowingResult(r, kv, maxhp, same, low, all)
    BY <1>3
  <2>2. CASE r.done
    BY <1>3, <2>2
  <2>3. CASE ~ r.done
    <3>1. /\ LoneTab(r.tbl) /\ Absent(r.tbl.data, kv.key) /\ (same => r.tbl.hp = maxhp)
          /\ low <= r.tbl.hp /\ Contents(r.tbl.data) = all
      BY <2>1, <2>3 DEF GrowingResult
    <3>. HIDE DEF size, S, low, all
    <3>2. GrowingResult(Attempt(r.tbl, kv, maxhp, size), kv, maxhp, same, low, all)
      BY <1>0, <3>1, AttemptGood
    <3>3. Step(r) = Attempt(r.tbl, kv, maxhp, size)
      BY <2>3
    <3>. HIDE DEF Step
    <3>. QED BY <1>1, <3>2, <3>3
  <2>. QED BY <2>2, <2>3
<1>4. g \in [Nat \X S -> S]
  <2>. HIDE DEF S, Step
  <2>. QED BY <1>3
<1>5. PICK f : NatRecursion(f, S, base, g)
  <2>. HIDE DEF g, S, base
  <2>. QED BY <1>2, <1>4, NatRecursionDefined
<1>6. f \in [Nat -> S] /\ f[0] = base /\ \A n \in Nat \ {0} : f[n] = g[<<n, f[n - 1]>>]
  BY <1>5 DEF NatRecursion
<1>7. ASSUME NEW n \in Nat \ {0} PROVE f[n] = Step(f[n - 1])
  <2>. HIDE DEF S, Step, g, base
  <2>1. f[n - 1] \in S
    BY <1>6
  <2>. USE DEF g
  <2>2. g[<<n, f[n - 1]>>] = Step(f[n - 1])
    BY <2>1
  <2>. HIDE DEF g
  <2>. QED BY <1>6, <2>2
<1>8. Is(f)
  <2>. HIDE DEF S, Step, base, g
  <2>. QED BY <1>6, <1>7
<1>9. Is(result)
  <2>. HIDE DEF Is
  <2>. QED BY <1>8, Zenon
<1>10. \A n \in Nat : result[n] = IF n = 0 THEN base ELSE Step(result[n - 1])
  <2>. HIDE DEF result, Step, base
  <2>. QED BY <1>9, Zenon
<1>11. \A n \in Nat : result[n] \in S
  <2>. DEFINE N == {n \in Nat : result[n] \in S}
  <2>. HIDE DEF result, S, Step, base
  <2>1. 0 \in N
    BY <1>2, <1>10
  <2>2. ASSUME NEW n \in Nat, n \in N PROVE n + 1 \in N
    <3>1. (n + 1) - 1 = n /\ n + 1 \in Nat /\ n + 1 # 0
      OBVIOUS
    <3>2. result[n + 1] = Step(result[n]) /\ result[n] \in S
      BY <1>10, <2>2, <3>1
    <3>. QED BY <1>3, <3>1, <3>2
  <2>3. \A n \in Nat : n \in N
    <3>. HIDE DEF N
    <3>. QED BY <2>1, <2>2, NatSetInduction
  <2>. QED BY <2>3
<1>12. InsertGrowing(tbl, kv, maxhp) = result[maxhp + 1]
  BY Zenon DEF InsertGrowing
<1>13. GrowingResult(result[maxhp + 1], kv, maxhp, same, low, all)
  <2>. HIDE DEF result, S
  <2>1. maxhp + 1 \in Nat
    OBVIOUS
  <2>. QED BY <1>1, <1>11, <2>1
<1>14. \A n \in Nat : ~ result[n].done =>
                        /\ result[n].tbl.hp = low + n
                        /\ n # 0 => result[n].tbl.hp <= maxhp
  <2>. DEFINE Grown(n) == ~ result[n].done => /\ result[n].tbl.hp = low + n
                                              /\ n # 0 => result[n].tbl.hp <= maxhp
              N == {n \in Nat : Grown(n)}
  <2>1. Grown(0)
    <3>1. result[0] = base
      <4>. HIDE DEF result, Step, base
      <4>. QED BY <1>10
    <3>. HIDE DEF result
    <3>. QED BY <1>0, <3>1
  <2>2. ASSUME NEW n \in Nat, Grown(n) PROVE Grown(n + 1)
    <3>. DEFINE r == result[n]
    <3>1. result[n + 1] = Step(r)
      <4>. HIDE DEF result, Step, base
      <4>1. (n + 1) - 1 = n /\ n + 1 \in Nat /\ n + 1 # 0
        OBVIOUS
      <4>. QED BY <1>10, <4>1
    <3>2. GrowingResult(r, kv, maxhp, same, low, all)
      <4>. HIDE DEF result, S
      <4>. QED BY <1>1, <1>11
    <3>3. CASE r.done
      <4>1. result[n + 1].done
        <5>. HIDE DEF result
        <5>. QED BY <3>1, <3>3
      <4>. QED BY <4>1
    <3>4. CASE ~ r.done
      <4>1. /\ LoneTab(r.tbl) /\ Absent(r.tbl.data, kv.key) /\ (same => r.tbl.hp = maxhp)
            /\ low <= r.tbl.hp /\ Contents(r.tbl.data) = all
        BY <3>2, <3>4 DEF GrowingResult
      <4>2. result[n + 1] = Attempt(r.tbl, kv, maxhp, size)
        <5>. HIDE DEF result
        <5>. QED BY <3>1, <3>4
      <4>3. r.tbl.hp = low + n
        BY <2>2, <3>4
      <4>. HIDE DEF result, size, all, low, r
      <4>4. ~ Attempt(r.tbl, kv, maxhp, size).done =>
              /\ ~ (r.tbl.hp >= maxhp)
              /\ Attempt(r.tbl, kv, maxhp, size).tbl.hp = r.tbl.hp + 1
        BY <1>0, <4>1, AttemptGood
      <4>. QED BY <1>0, <4>2, <4>3, <4>4
    <3>. QED BY <3>3, <3>4
  <2>3. \A n \in Nat : n \in N
    <3>. HIDE DEF Grown
    <3>1. 0 \in N /\ \A n \in Nat : n \in N => n + 1 \in N
      BY <2>1, <2>2
    <3>. HIDE DEF N
    <3>. QED BY <3>1, NatSetInduction
  <2>. QED BY <2>3
<1>15. result[maxhp + 1].done
  <2>. HIDE DEF result, low
  <2>1. maxhp + 1 \in Nat /\ maxhp + 1 # 0
    OBVIOUS
  <2>. QED BY <1>0, <1>14, <2>1
<1>. HIDE DEF result
<1>. QED
  BY <1>12, <1>13, <1>15

(* insert, unless the key is there. *)
Outcomes == [tbl : Tabs, done : BOOLEAN, thrown : BOOLEAN]

LEMMA InsertedGood ==
  ASSUME NEW tbl, LoneTab(tbl), NEW kv \in KV, NEW maxhp \in Nat,
         NEW same \in BOOLEAN, same => tbl.hp = maxhp
  PROVE  /\ Inserted(tbl, kv, maxhp) \in Outcomes
         /\ same => Inserted(tbl, kv, maxhp).tbl.hp = maxhp
<1>1. CASE cuckoo_find(tbl.data, tbl.hp, kv.key) # {}
  <2>1. Inserted(tbl, kv, maxhp) = [tbl |-> tbl, done |-> TRUE, thrown |-> FALSE]
    BY <1>1 DEF Inserted
  <2>2. tbl \in Tabs
    BY TabsAre
  <2>. QED BY <2>1, <2>2 DEF Outcomes
<1>2. CASE cuckoo_find(tbl.data, tbl.hp, kv.key) = {}
  <2>1. kv.key \in Keys /\ GoodTable(tbl.hp, tbl.data)
    BY DEF KV, LoneTab, LoneTable
  <2>2. Absent(tbl.data, kv.key)
    BY <1>2, <2>1, FindFinds
  <2>. DEFINE r == InsertGrowing(tbl, kv, maxhp)
  <2>3. Inserted(tbl, kv, maxhp) = r
    BY <1>2 DEF Inserted
  <2>4. GrowingResult(r, kv, maxhp, same, tbl.hp, Contents(tbl.data))
    BY <2>2, InsertGrowingGood
  <2>. HIDE DEF r
  <2>5. /\ r = [tbl |-> r.tbl, done |-> r.done, thrown |-> r.thrown] /\ LoneTab(r.tbl)
        /\ r.done \in BOOLEAN /\ r.thrown \in BOOLEAN /\ (same => r.tbl.hp = maxhp)
    BY <2>4 DEF GrowingResult
  <2>6. r.tbl \in Tabs
    BY <2>5, TabsAre
  <2>. DEFINE t == r.tbl
              d == r.done
              th == r.thrown
  <2>7. r = [tbl |-> t, done |-> d, thrown |-> th] /\ t \in Tabs /\ d \in BOOLEAN /\ th \in BOOLEAN
    BY <2>5, <2>6
  <2>. HIDE DEF t, d, th
  <2>8. r \in Outcomes
    BY <2>7 DEF Outcomes
  <2>. QED BY <2>3, <2>5, <2>8
<1>. QED
  BY <1>1, <1>2

(* A new table of a hashpower. *)
LEMMA NewTable ==
  ASSUME NEW hp \in Nat
  PROVE  LoneTab(table(hp, bucket_container(hp))) /\ table(hp, bucket_container(hp)).hp = hp
<1>. DEFINE data == bucket_container(hp)
<1>1. LoneTable(hp, data)
  BY EmptyTable DEF LoneTable
<1>. HIDE DEF data
<1>2. LoneTab(table(hp, data)) /\ table(hp, data).hp = hp
  BY <1>1 DEF LoneTab, table
<1>. QED
  BY <1>2 DEF data

(* A slot that is visited, and the element in it.                          *)
LEMMA VisitedSlot ==
  ASSUME NEW hp, NEW data, GoodTable(hp, data), NEW p \in Positions(data)
  PROVE  p[1] \in Buckets(hp) /\ p[2] \in Slots /\ At(data, p) \in KV
<1>1. p \in (DOMAIN data) \X Slots /\ occupied(data[p[1]], p[2])
  BY DEF Positions
<1>2. DOMAIN data = Buckets(hp)
  BY DEF GoodTable, Containers
<1>3. p[1] \in Buckets(hp) /\ p[2] \in Slots /\ occupied(data[p[1]], p[2])
  BY <1>1, <1>2
<1>. QED
  BY <1>3, GoodCell DEF At

(* The new map is filled slot by slot.                                     *)
LEMMA FillingSteps ==
  ASSUME NEW old_hp, NEW data, GoodTable(old_hp, data), NEW hp \in Nat
  PROVE  /\ Filling(data, hp)[0].tbl = table(hp, bucket_container(hp))
         /\ \A n \in Nat :
              /\ LoneTab(Filling(data, hp)[n].tbl)
              /\ Filling(data, hp)[n].thrown \in BOOLEAN
              /\ Filling(data, hp)[n + 1] =
                   IF Filling(data, hp)[n].thrown \/ Visited(n) \notin Positions(data)
                   THEN Filling(data, hp)[n]
                   ELSE Inserted(Filling(data, hp)[n].tbl, At(data, Visited(n)), NewMapLimit(hp))
<1>. DEFINE base == [tbl |-> table(hp, bucket_container(hp)), done |-> TRUE, thrown |-> FALSE]
            Step(n, r) ==
              IF r.thrown \/ Visited(n - 1) \notin Positions(data)
              THEN r ELSE Inserted(r.tbl, At(data, Visited(n - 1)), NewMapLimit(hp))
            Is(f) == f = [n \in Nat |-> IF n = 0 THEN base ELSE Step(n, f[n - 1])]
            filled == CHOOSE f : Is(f)
            S == Outcomes
            g == [u \in Nat \X S |-> Step(u[1], u[2])]
<1>0. \A r \in S : LoneTab(r.tbl) /\ r.thrown \in BOOLEAN
  BY TabsAre DEF Outcomes
<1>1. base \in S
  <2>. DEFINE new == table(hp, bucket_container(hp))
  <2>1. new \in Tabs
    <3>. HIDE DEF new
    <3>. QED BY NewTable, TabsAre DEF new
  <2>2. base = [tbl |-> new, done |-> TRUE, thrown |-> FALSE]
    OBVIOUS
  <2>. HIDE DEF new, base
  <2>. QED BY <2>1, <2>2 DEF Outcomes
<1>2. ASSUME NEW n \in Nat, NEW r \in S PROVE Step(n, r) \in S
  <2>. HIDE DEF S
  <2>1. CASE ~ r.thrown /\ Visited(n - 1) \in Positions(data)
    <3>. DEFINE p == Visited(n - 1)
    <3>1. At(data, p) \in KV
      <4>. HIDE DEF p
      <4>1. p \in Positions(data)
        BY <2>1 DEF p
      <4>. QED BY <4>1, VisitedSlot
    <3>. DEFINE t == r.tbl
    <3>2. LoneTab(t) /\ FALSE \in BOOLEAN /\ (FALSE => t.hp = NewMapLimit(hp))
          /\ NewMapLimit(hp) \in Nat
      BY <1>0 DEF NewMapLimit, HashBits
    <3>3. Inserted(t, At(data, p), NewMapLimit(hp)) \in Outcomes
      <4>. HIDE DEF p, t
      <4>. QED BY <3>1, <3>2, InsertedGood
    <3>4. Step(n, r) = Inserted(t, At(data, p), NewMapLimit(hp))
      BY <2>1
    <3>. HIDE DEF Step, p, t
    <3>. QED BY <3>3, <3>4 DEF S
  <2>2. CASE r.thrown \/ Visited(n - 1) \notin Positions(data)
    BY <2>2
  <2>. QED BY <2>1, <2>2
<1>3. g \in [Nat \X S -> S]
  <2>. HIDE DEF S, Step
  <2>. QED BY <1>2
<1>4. PICK f : NatRecursion(f, S, base, g)
  <2>. HIDE DEF g, S, base
  <2>. QED BY <1>1, <1>3, NatRecursionDefined
<1>5. f \in [Nat -> S] /\ f[0] = base /\ \A n \in Nat \ {0} : f[n] = g[<<n, f[n - 1]>>]
  BY <1>4 DEF NatRecursion
<1>6. ASSUME NEW n \in Nat \ {0} PROVE f[n] = Step(n, f[n - 1])
  <2>. HIDE DEF S, Step, g, base
  <2>1. f[n - 1] \in S
    BY <1>5
  <2>. USE DEF g
  <2>2. g[<<n, f[n - 1]>>] = Step(n, f[n - 1])
    BY <2>1
  <2>. HIDE DEF g
  <2>. QED BY <1>5, <2>2
<1>7. Is(f)
  <2>. HIDE DEF S, Step, base, g
  <2>. QED BY <1>5, <1>6
<1>8. Is(filled)
  <2>. HIDE DEF Is
  <2>. QED BY <1>7, Zenon
<1>9. \A n \in Nat : filled[n] = IF n = 0 THEN base ELSE Step(n, filled[n - 1])
  <2>. HIDE DEF filled, Step, base
  <2>. QED BY <1>8, Zenon
<1>10. \A n \in Nat : filled[n + 1] = Step(n + 1, filled[n])
  <2>. HIDE DEF filled, Step, base
  <2>. TAKE n \in Nat
  <2>1. (n + 1) - 1 = n /\ n + 1 \in Nat /\ n + 1 # 0
    OBVIOUS
  <2>2. filled[n + 1] = Step(n + 1, filled[(n + 1) - 1])
    BY <1>9, <2>1
  <2>. QED BY <2>1, <2>2
<1>11. \A n \in Nat : filled[n] \in S
  <2>. DEFINE N == {n \in Nat : filled[n] \in S}
  <2>. HIDE DEF filled, S, Step, base
  <2>1. 0 \in N
    BY <1>1, <1>9
  <2>2. ASSUME NEW n \in Nat, n \in N PROVE n + 1 \in N
    <3>1. filled[n + 1] = Step(n + 1, filled[n]) /\ filled[n] \in S /\ n + 1 \in Nat
      BY <1>10, <2>2
    <3>. QED BY <1>2, <3>1
  <2>3. \A n \in Nat : n \in N
    <3>. HIDE DEF N
    <3>. QED BY <2>1, <2>2, NatSetInduction
  <2>. QED BY <2>3
<1>12. Filling(data, hp) = filled
  BY Zenon DEF Filling
<1>13. filled[0].tbl = table(hp, bucket_container(hp))
  <2>1. filled[0] = base
    <3>. HIDE DEF filled, Step, base
    <3>. QED BY <1>9
  <2>. HIDE DEF filled
  <2>. QED BY <2>1
<1>14. ASSUME NEW n \in Nat
       PROVE  /\ LoneTab(filled[n].tbl) /\ filled[n].thrown \in BOOLEAN
              /\ filled[n + 1] =
                   IF filled[n].thrown \/ Visited(n) \notin Positions(data)
                   THEN filled[n]
                   ELSE Inserted(filled[n].tbl, At(data, Visited(n)), NewMapLimit(hp))
  <2>1. LoneTab(filled[n].tbl) /\ filled[n].thrown \in BOOLEAN
    <3>. HIDE DEF filled, S
    <3>. QED BY <1>0, <1>11
  <2>2. (n + 1) - 1 = n
    OBVIOUS
  <2>3. filled[n + 1] = Step(n + 1, filled[n])
    <3>. HIDE DEF filled, Step
    <3>. QED BY <1>10
  <2>. HIDE DEF filled
  <2>. QED BY <2>1, <2>2, <2>3
<1>. HIDE DEF filled
<1>. QED
  BY <1>12, <1>13, <1>14

LEMMA VisitsAre ==
  ASSUME NEW hp, NEW data, GoodTable(hp, data)
  PROVE  /\ Visits(data) = hashsize(hp) * SLOT_PER_BUCKET
         /\ Visits(data) \in Nat /\ hashsize(hp) \in Nat \ {0}
<1>. DEFINE b == hashsize(hp) - 1
<1>1. /\ hashsize(hp) \in Nat \ {0} /\ SLOT_PER_BUCKET \in Nat
      /\ DOMAIN data = 0 .. b
  BY SizeSteps, TableAssumption DEF GoodTable, Containers, Buckets
<1>2. b \in Nat /\ hashsize(hp) = b + 1
  BY <1>1
<1>. HIDE DEF b
<1>3. Cardinality(0 .. b) = b - 0 + 1
  BY <1>2, FS_Interval
<1>4. Cardinality(DOMAIN data) = hashsize(hp)
  BY <1>1, <1>2, <1>3
<1>5. \A m, n \in Nat : m * n \in Nat
  OBVIOUS
<1>. QED
  BY <1>1, <1>4, <1>5 DEF Visits

(* The new table of cuckoo_expand_simple. *)
LEMMA RebuiltGood ==
  ASSUME NEW old_hp, NEW data, GoodTable(old_hp, data), NEW hp \in Nat
  PROVE  LoneTab(Rebuilt(data, hp))
  BY FillingSteps, VisitsAre DEF Rebuilt

(* The table that the threads find. *)
LEMMA FilledGood ==
  ASSUME NEW hp \in Nat, NEW elements \in Seq(KV)
  PROVE  LoneTab(Filled(hp, elements)) /\ Filled(hp, elements).hp = hp
<1>. DEFINE base == table(hp, bucket_container(hp))
            Step(n, t) == Inserted(t, elements[n], hp).tbl
            m == Len(elements)
            Is(f) == f = [n \in 0 .. m |-> IF n = 0 THEN base ELSE Step(n, f[n - 1])]
            filled == CHOOSE f : Is(f)
            S == {t \in Tabs : t.hp = hp}
            g == [u \in (1 .. m) \X S |-> Step(u[1], u[2])]
<1>0. m \in Nat /\ \A n \in 1 .. m : elements[n] \in KV
  OBVIOUS
<1>1. base \in S
  <2>. HIDE DEF base
  <2>. QED BY NewTable, TabsAre DEF base
<1>2. ASSUME NEW n \in 1 .. m, NEW t \in S PROVE Step(n, t) \in S
  <2>1. LoneTab(t) /\ TRUE \in BOOLEAN /\ (TRUE => t.hp = hp)
    BY TabsAre
  <2>2. elements[n] \in KV
    BY <1>0
  <2>3. Step(n, t) \in Tabs /\ Step(n, t).hp = hp
    <3>1. /\ Inserted(t, elements[n], hp) \in Outcomes
          /\ Inserted(t, elements[n], hp).tbl.hp = hp
      BY <2>1, <2>2, InsertedGood
    <3>. QED BY <3>1 DEF Outcomes
  <2>. HIDE DEF Step
  <2>. QED BY <2>3, TabsAre
<1>3. g \in [(1 .. m) \X S -> S]
  <2>. HIDE DEF S, Step
  <2>. QED BY <1>2
<1>4. PICK f : Recursion(f, S, base, m, g)
  <2>. HIDE DEF g, S, base, m
  <2>. QED BY <1>0, <1>1, <1>3, RecursionDefined
<1>5. f \in [0 .. m -> S] /\ f[0] = base /\ \A n \in 1 .. m : f[n] = g[<<n, f[n - 1]>>]
  BY <1>4 DEF Recursion
<1>6. ASSUME NEW n \in 1 .. m PROVE f[n] = Step(n, f[n - 1])
  <2>. HIDE DEF S, Step, g, base, m
  <2>1. f[n - 1] \in S
    BY <1>0, <1>5
  <2>. USE DEF g
  <2>2. g[<<n, f[n - 1]>>] = Step(n, f[n - 1])
    BY <2>1
  <2>. HIDE DEF g
  <2>. QED BY <1>5, <2>2
<1>7. Is(f)
  <2>. HIDE DEF S, Step, base, g, m
  <2>. QED BY <1>0, <1>5, <1>6
<1>8. Is(filled)
  <2>. HIDE DEF Is
  <2>. QED BY <1>7, Zenon
<1>9. \A n \in 0 .. m : filled[n] = IF n = 0 THEN base ELSE Step(n, filled[n - 1])
  <2>. HIDE DEF filled, Step, base, m
  <2>. QED BY <1>8, Zenon
<1>10. \A n \in Nat : n \in 0 .. m => filled[n] \in S
  <2>. DEFINE N == {n \in Nat : n \in 0 .. m => filled[n] \in S}
  <2>. HIDE DEF filled, S, Step, base, m
  <2>1. 0 \in N
    BY <1>0, <1>1, <1>9
  <2>2. ASSUME NEW n \in Nat, n \in N PROVE n + 1 \in N
    <3>. SUFFICES ASSUME n + 1 \in 0 .. m PROVE filled[n + 1] \in S
      OBVIOUS
    <3>1. (n + 1) - 1 = n /\ n + 1 # 0 /\ n \in 0 .. m /\ n + 1 \in 1 .. m
      BY <1>0
    <3>2. filled[n + 1] = Step(n + 1, filled[n]) /\ filled[n] \in S
      BY <1>9, <2>2, <3>1
    <3>. QED BY <1>2, <3>1, <3>2
  <2>3. \A n \in Nat : n \in N
    <3>. HIDE DEF N
    <3>. QED BY <2>1, <2>2, NatSetInduction
  <2>. QED BY <2>3
<1>11. Filled(hp, elements) = filled[m]
  BY Zenon DEF Filled
<1>12. filled[m] \in S
  <2>. HIDE DEF filled, S, m
  <2>. QED BY <1>0, <1>10
<1>. HIDE DEF filled
<1>. QED
  BY <1>11, <1>12, TabsAre

-----------------------------------------------------------------------------
(* The iterators *)

(* A set of pairs of numbers has a first one. *)
LEMMA FirstPair ==
  ASSUME NEW S \in SUBSET (Nat \X Nat), S # {}
  PROVE  \E q \in S : \A r \in S : ~ Before(r, q)
<1>. DEFINE A == {n \in Nat : \E q \in S : q[1] = n}
<1>1. A \in SUBSET Nat /\ A # {}
  OBVIOUS
<1>2. PICK a \in A : \A n \in A : a <= n
  <2>. HIDE DEF A
  <2>. QED BY <1>1, LeastElement
<1>. DEFINE B == {n \in Nat : \E q \in S : q[1] = a /\ q[2] = n}
<1>3. B \in SUBSET Nat /\ B # {}
  BY <1>2
<1>4. PICK b \in B : \A n \in B : b <= n
  <2>. HIDE DEF B
  <2>. QED BY <1>3, LeastElement
<1>5. PICK q \in S : q[1] = a /\ q[2] = b
  BY <1>4
<1>6. ASSUME NEW r \in S, Before(r, q)
      PROVE  FALSE
  <2>1. r[1] \in A /\ r[1] \in Nat /\ r[2] \in Nat /\ a \in Nat /\ b \in Nat
    BY <1>2, <1>4
  <2>2. a <= r[1]
    BY <1>2, <2>1
  <2>3. r[1] = a /\ r[2] < b
    BY <1>5, <1>6, <2>1, <2>2 DEF Before
  <2>4. r[2] \in B
    BY <2>1, <2>3
  <2>. QED BY <1>4, <2>1, <2>3, <2>4
<1>. QED
  BY <1>6

(* A set of pairs below a bound has a last one. *)
LEMMA LastPair ==
  ASSUME NEW m \in Nat, NEW n \in Nat, NEW S, S # {},
         \A q \in S : q \in Nat \X Nat /\ q[1] <= m /\ q[2] <= n
  PROVE  \E q \in S : \A r \in S : ~ Before(q, r)
<1>. DEFINE T == {<<m - q[1], n - q[2]>> : q \in S}
<1>1. T \in SUBSET (Nat \X Nat) /\ T # {}
  <2>1. \A q \in S : m - q[1] \in Nat /\ n - q[2] \in Nat
    OBVIOUS
  <2>2. \A q \in S : <<m - q[1], n - q[2]>> \in Nat \X Nat
    BY <2>1
  <2>. QED BY <2>2
<1>2. PICK x \in T : \A y \in T : ~ Before(y, x)
  <2>. HIDE DEF T
  <2>. QED BY <1>1, FirstPair
<1>3. PICK q \in S : x = <<m - q[1], n - q[2]>>
  BY <1>2
<1>4. ASSUME NEW r \in S, Before(q, r)
      PROVE  FALSE
  <2>1. <<m - r[1], n - r[2]>> \in T
    OBVIOUS
  <2>2. ~ Before(<<m - r[1], n - r[2]>>, x)
    <3>. HIDE DEF T
    <3>. QED BY <1>2, <2>1
  <2>3. /\ r[1] \in Nat /\ r[2] \in Nat /\ q[1] \in Nat /\ q[2] \in Nat
    OBVIOUS
  <2>. QED BY <1>3, <1>4, <2>2, <2>3 DEF Before
<1>. QED
  BY <1>4

(* The positions before p. *)
BeforeIn(data, p) == {q \in Positions(data) : Before(q, p)}

(* The positions of a container, the end after all of them. *)
LEMMA TablePositions ==
  ASSUME NEW hp, NEW data, GoodTable(hp, data)
  PROVE  /\ end_pos(data) = <<hashsize(hp), 0>> /\ hashsize(hp) \in Nat
         /\ \A p \in Positions(data) :
              /\ p \in Nat \X Nat /\ p = <<p[1], p[2]>>
              /\ p[1] \in Buckets(hp) /\ p[2] \in Slots
              /\ p[1] <= hashsize(hp) /\ p[2] <= SLOT_PER_BUCKET
              /\ Before(p, end_pos(data))
              /\ At(data, p) \in KV /\ At(data, p) # Vacant
<1>1. hp \in Nat /\ DOMAIN data = Buckets(hp)
  BY DEF GoodTable, Containers
<1>2. hashsize(hp) \in Nat \ {0} /\ SLOT_PER_BUCKET \in Nat
  BY <1>1, SizeSteps, TableAssumption
<1>3. Cardinality(Buckets(hp)) = hashsize(hp)
  <2>. DEFINE b == hashsize(hp) - 1
  <2>1. b \in Nat /\ hashsize(hp) = b + 1 /\ Buckets(hp) = 0 .. b
    BY <1>2 DEF Buckets
  <2>. HIDE DEF b
  <2>2. Cardinality(0 .. b) = b - 0 + 1
    BY <2>1, FS_Interval
  <2>. QED BY <2>1, <2>2
<1>4. end_pos(data) = <<hashsize(hp), 0>>
  BY <1>1, <1>3 DEF end_pos
<1>5. ASSUME NEW p \in Positions(data)
      PROVE  /\ p = <<p[1], p[2]>> /\ p[1] \in Buckets(hp) /\ p[2] \in Slots
             /\ occupied(data[p[1]], p[2])
  BY <1>1 DEF Positions
<1>6. ASSUME NEW p \in Positions(data)
      PROVE  /\ p[1] \in Nat /\ p[1] < hashsize(hp)
             /\ p[2] \in Nat /\ p[2] < SLOT_PER_BUCKET
  BY <1>2, <1>5 DEF Buckets, Slots
<1>7. ASSUME NEW p \in Positions(data)
      PROVE  At(data, p) \in KV /\ At(data, p) # Vacant
  BY <1>5, GoodCell DEF At, occupied
<1>. HIDE DEF GoodTable
<1>8. ASSUME NEW p \in Positions(data)
      PROVE  Before(p, end_pos(data)) /\ p \in Nat \X Nat
  BY <1>4, <1>5, <1>6 DEF Before
<1>. QED
  BY <1>2, <1>4, <1>5, <1>6, <1>7, <1>8

(* An iterator created at p is at an element or at the end, and what lies *)
(* before it is what lies before p.                                        *)
LEMMA SettleIs ==
  ASSUME NEW hp, NEW data, GoodTable(hp, data), NEW p \in Nat \X Nat
  PROVE  /\ Settle(data, p) \in Positions(data) \cup {end_pos(data)}
         /\ BeforeIn(data, Settle(data, p)) = BeforeIn(data, p)
<1>. DEFINE after == {q \in Positions(data) : ~ Before(q, p)}
            s == Settle(data, p)
<1>1. \A q \in Positions(data) : q \in Nat \X Nat /\ Before(q, end_pos(data))
  BY TablePositions
<1>2. CASE after = {}
  <2>1. s = end_pos(data)
    BY <1>2 DEF Settle
  <2>. QED BY <1>1, <1>2, <2>1 DEF BeforeIn
<1>3. CASE after # {}
  <2>1. \E q \in after : \A r \in after : ~ Before(r, q)
    <3>1. after \in SUBSET (Nat \X Nat)
      BY <1>1
    <3>. HIDE DEF after
    <3>. QED BY <1>3, <3>1, FirstPair
  <2>2. s = CHOOSE q \in after : \A r \in after : ~ Before(r, q)
    BY <1>3 DEF Settle
  <2>3. s \in after /\ \A r \in after : ~ Before(r, s)
    <3>. HIDE DEF after, s
    <3>. QED BY <2>1, <2>2
  <2>. HIDE DEF s
  <2>4. s \in Nat \X Nat
    BY <1>1, <2>3
  <2>5. ASSUME NEW q \in Positions(data)
        PROVE  Before(q, s) <=> Before(q, p)
    <3>1. q \in Nat \X Nat
      BY <1>1
    <3>2. q \notin after => ~ Before(s, p) /\ Before(q, p)
      BY <2>3
    <3>3. Before(q, p) /\ ~ Before(s, p) => Before(q, s)
      BY <2>4, <3>1 DEF Before
    <3>4. q \in after => ~ Before(q, s) /\ ~ Before(q, p)
      BY <2>3
    <3>. QED BY <3>2, <3>3, <3>4
  <2>6. BeforeIn(data, s) = BeforeIn(data, p)
    BY <2>5 DEF BeforeIn
  <2>. QED BY <2>3, <2>6 DEF s
<1>. QED
  BY <1>2, <1>3

(* operator++ passes the element at which the iterator was, and no other. *)
LEMMA SuccIs ==
  ASSUME NEW hp, NEW data, GoodTable(hp, data), NEW p \in Positions(data)
  PROVE  /\ Succ(data, p) \in Positions(data) \cup {end_pos(data)}
         /\ BeforeIn(data, Succ(data, p)) = BeforeIn(data, p) \cup {p}
<1>. DEFINE n == <<p[1], p[2] + 1>>
<1>1. /\ p \in Nat \X Nat /\ p = <<p[1], p[2]>>
      /\ \A q \in Positions(data) : q \in Nat \X Nat /\ q = <<q[1], q[2]>>
  BY TablePositions
<1>2. n \in Nat \X Nat
  BY <1>1
<1>3. ASSUME NEW q \in Positions(data)
      PROVE  Before(q, n) <=> Before(q, p) \/ q = p
  <2>1. /\ q[1] \in Nat /\ q[2] \in Nat /\ p[1] \in Nat /\ p[2] \in Nat
        /\ q = p <=> q[1] = p[1] /\ q[2] = p[2]
    BY <1>1
  <2>. QED BY <2>1 DEF Before
<1>4. BeforeIn(data, n) = BeforeIn(data, p) \cup {p}
  <2>. HIDE DEF n
  <2>. QED BY <1>3 DEF BeforeIn
<1>5. Succ(data, p) = Settle(data, n)
  BY DEF Succ
<1>. HIDE DEF n
<1>. QED
  BY <1>2, <1>4, <1>5, SettleIs

(* operator-- goes back over one element that lies before the iterator. *)
LEMMA PredIs ==
  ASSUME NEW hp, NEW data, GoodTable(hp, data), NEW p, BeforeIn(data, p) # {}
  PROVE  /\ Pred(data, p) \in BeforeIn(data, p) /\ Pred(data, p) \in Positions(data)
         /\ p \in Nat \X Nat =>
              BeforeIn(data, Pred(data, p)) = BeforeIn(data, p) \ {Pred(data, p)}
<1>. DEFINE before == BeforeIn(data, p)
            s == Pred(data, p)
<1>1. /\ hashsize(hp) \in Nat /\ SLOT_PER_BUCKET \in Nat
      /\ \A q \in Positions(data) : /\ q \in Nat \X Nat /\ q = <<q[1], q[2]>>
                                    /\ q[1] <= hashsize(hp) /\ q[2] <= SLOT_PER_BUCKET
  BY TablePositions, TableAssumption
<1>2. before \subseteq Positions(data)
  BY DEF BeforeIn
<1>3. \E q \in before : \A r \in before : ~ Before(q, r)
  <2>. HIDE DEF before
  <2>1. \A q \in before : /\ q \in Nat \X Nat
                          /\ q[1] <= hashsize(hp) /\ q[2] <= SLOT_PER_BUCKET
    BY <1>1, <1>2
  <2>2. before # {}
    BY DEF before
  <2>. QED BY <1>1, <2>1, <2>2, LastPair
<1>4. s = CHOOSE q \in before : \A r \in before : ~ Before(q, r)
  BY DEF Pred, BeforeIn
<1>5. s \in before /\ \A r \in before : ~ Before(s, r)
  <2>. HIDE DEF before, s
  <2>. QED BY <1>3, <1>4
<1>6. s \in Positions(data) /\ Before(s, p)
  BY <1>5 DEF BeforeIn
<1>7. ASSUME p \in Nat \X Nat, NEW q \in Positions(data)
      PROVE  Before(q, s) <=> q \in before /\ q # s
  <2>1. /\ q[1] \in Nat /\ q[2] \in Nat /\ s[1] \in Nat /\ s[2] \in Nat
        /\ p[1] \in Nat /\ p[2] \in Nat
        /\ q = s <=> q[1] = s[1] /\ q[2] = s[2]
    BY <1>1, <1>6, <1>7
  <2>2. q \in before <=> Before(q, p)
    BY DEF BeforeIn
  <2>3. q \in before => ~ Before(s, q)
    BY <1>5
  <2>. HIDE DEF s, before
  <2>4. Before(q, s) => Before(q, p) /\ q # s
    BY <1>6, <2>1 DEF Before
  <2>5. ~ Before(s, q) /\ q # s => Before(q, s)
    BY <2>1 DEF Before
  <2>. QED BY <2>2, <2>3, <2>4, <2>5
<1>8. ASSUME p \in Nat \X Nat
      PROVE  BeforeIn(data, s) = before \ {s}
  <2>. HIDE DEF s, before
  <2>. QED BY <1>2, <1>7, <1>8 DEF BeforeIn
<1>. QED
  BY <1>5, <1>6, <1>8

(* No two positions of a table have the same key. *)
LEMMA KeysApart ==
  ASSUME NEW hp, NEW data, LoneTable(hp, data),
         NEW p \in Positions(data), NEW q \in Positions(data),
         At(data, p).key = At(data, q).key
  PROVE  p = q
<1>1. /\ p = <<p[1], p[2]>> /\ p[1] \in Nat /\ p[2] \in Slots /\ At(data, p) # Vacant
      /\ q = <<q[1], q[2]>> /\ q[1] \in Nat /\ q[2] \in Slots /\ At(data, q) # Vacant
      /\ p[1] \in DOMAIN data /\ q[1] \in DOMAIN data
  <2>1. p[1] \in DOMAIN data /\ q[1] \in DOMAIN data
    BY DEF Positions
  <2>. QED BY <2>1, TablePositions DEF LoneTable
<1>. DEFINE x == <<1, p[1], p[2]>>
            y == <<1, q[1], q[2]>>
<1>2. /\ x \in Cells /\ y \in Cells
      /\ Cell(data, NoOld, {}, x) = At(data, p) /\ Cell(data, NoOld, {}, y) = At(data, q)
  BY <1>1 DEF Cells, Cell, At
<1>3. Apart(data, NoOld, {})
  BY DEF LoneTable, Single
<1>4. x = y
  <2>. HIDE DEF x, y
  <2>. QED BY <1>1, <1>2, <1>3 DEF Apart
<1>. QED
  BY <1>1, <1>4

(* What is left when an element is taken out. *)
LEMMA PositionsLess ==
  ASSUME NEW hp, NEW data, GoodTable(hp, data), NEW p \in Positions(data),
         NEW new, new = eraseKV(data, p[1], p[2])
  PROVE  /\ Positions(new) = Positions(data) \ {p}
         /\ \A q \in Positions(new) : At(new, q) = At(data, q)
         /\ end_pos(new) = end_pos(data)
         /\ \A r : BeforeIn(new, r) = BeforeIn(data, r) \ {p}
<1>1. /\ DOMAIN data = Buckets(hp) /\ \A i \in Buckets(hp) : DOMAIN data[i] = Slots
      /\ p = <<p[1], p[2]>> /\ p[1] \in Buckets(hp) /\ p[2] \in Slots
  BY TablePositions DEF GoodTable, Containers
<1>2. /\ DOMAIN new = DOMAIN data
      /\ \A i \in DOMAIN data, s \in Slots :
           new[i][s] = IF i = p[1] /\ s = p[2] THEN Vacant ELSE data[i][s]
  BY <1>1 DEF eraseKV
<1>3. \A q \in (DOMAIN data) \X Slots :
        /\ q = p <=> q[1] = p[1] /\ q[2] = p[2]
        /\ new[q[1]][q[2]] = IF q = p THEN Vacant ELSE data[q[1]][q[2]]
  BY <1>1, <1>2
<1>4. Positions(new) = Positions(data) \ {p}
  BY <1>2, <1>3 DEF Positions, occupied
<1>5. \A q \in Positions(new) : At(new, q) = At(data, q)
  BY <1>2, <1>3, <1>4 DEF At, Positions
<1>6. end_pos(new) = end_pos(data)
  BY <1>2 DEF end_pos
<1>7. \A r : BeforeIn(new, r) = BeforeIn(data, r) \ {p}
  BY <1>4 DEF BeforeIn
<1>. QED
  BY <1>4, <1>5, <1>6, <1>7
-----------------------------------------------------------------------------
(* What is in a new map *)

(* The elements of a container, by their positions.                        *)
LEMMA ContentsAre ==
  ASSUME NEW hp, NEW data, GoodTable(hp, data), NEW kv
  PROVE  kv \in Contents(data) <=> \E p \in Positions(data) : At(data, p) = kv
<1>1. DOMAIN data = Buckets(hp) /\ Buckets(hp) \in SUBSET Nat
  BY SizeSteps DEF GoodTable, Containers, Buckets
<1>2. ASSUME NEW p \in Positions(data), At(data, p) = kv
      PROVE  kv \in Contents(data)
  <2>1. p[1] \in Buckets(hp) /\ p[2] \in Slots /\ kv # Vacant
    BY <1>2, VisitedSlot, ElementIs
  <2>. DEFINE x == <<1, p[1], p[2]>>
  <2>2. x \in Cells /\ Cell(data, NoOld, {}, x) = kv
    BY <1>1, <1>2, <2>1 DEF Cells, Cell, At
  <2>. HIDE DEF x
  <2>. QED BY <2>1, <2>2, ContentIs DEF Contents
<1>3. ASSUME kv \in Contents(data)
      PROVE  \E p \in Positions(data) : At(data, p) = kv
  <2>1. PICK x \in Cells : Cell(data, NoOld, {}, x) = kv /\ kv # Vacant
    BY <1>3, ContentIs DEF Contents
  <2>2. x[2] \in DOMAIN data /\ x[3] \in Slots /\ data[x[2]][x[3]] = kv
    BY <2>1 DEF Cell, Cells
  <2>. DEFINE p == <<x[2], x[3]>>
  <2>3. p \in Positions(data) /\ At(data, p) = kv
    BY <2>1, <2>2 DEF Positions, occupied, At
  <2>. HIDE DEF p
  <2>. QED BY <2>3
<1>. QED
  BY <1>2, <1>3

(* No two elements have the same key.                                      *)
LEMMA ElementOfKey ==
  ASSUME NEW hp, NEW data, LoneTable(hp, data), NEW d \in Contents(data),
         NEW e \in Contents(data), d.key = e.key
  PROVE  d = e
<1>1. GoodTable(hp, data)
  BY DEF LoneTable
<1>2. PICK p \in Positions(data) : At(data, p) = d
  BY <1>1, ContentsAre
<1>3. PICK q \in Positions(data) : At(data, q) = e
  BY <1>1, ContentsAre
<1>. QED
  BY <1>2, <1>3, KeysApart

(* insert adds its element, if it does not throw.                          *)
LEMMA InsertedContent ==
  ASSUME NEW tbl, LoneTab(tbl), NEW kv \in KV, NEW maxhp \in Nat,
         ~ Inserted(tbl, kv, maxhp).thrown,
         \A e \in Contents(tbl.data) : e.key = kv.key => e = kv
  PROVE  Contents(Inserted(tbl, kv, maxhp).tbl.data) = Contents(tbl.data) \cup {kv}
<1>1. kv.key \in Keys /\ GoodTable(tbl.hp, tbl.data)
  BY DEF KV, LoneTab, LoneTable
<1>2. CASE cuckoo_find(tbl.data, tbl.hp, kv.key) # {}
  <2>1. PICK p \in cuckoo_find(tbl.data, tbl.hp, kv.key) :
               /\ p[1] \in Buckets(tbl.hp) /\ p[2] \in Slots
               /\ occupied(tbl.data[p[1]], p[2]) /\ At(tbl.data, p).key = kv.key
    BY <1>1, <1>2, FindFinds
  <2>. DEFINE q == <<p[1], p[2]>>
  <2>2. q \in Positions(tbl.data) /\ At(tbl.data, q).key = kv.key
    BY <1>1, <2>1 DEF Positions, At, GoodTable, Containers
  <2>3. At(tbl.data, q) \in Contents(tbl.data)
    <3>. HIDE DEF q
    <3>. QED BY <1>1, <2>2, ContentsAre
  <2>4. kv \in Contents(tbl.data)
    BY <2>2, <2>3
  <2>. QED BY <1>2, <2>4 DEF Inserted
<1>3. CASE cuckoo_find(tbl.data, tbl.hp, kv.key) = {}
  <2>1. Absent(tbl.data, kv.key)
    BY <1>1, <1>3, FindFinds
  <2>. DEFINE r == InsertGrowing(tbl, kv, maxhp)
  <2>2. FALSE \in BOOLEAN /\ (FALSE => tbl.hp = maxhp)
    OBVIOUS
  <2>3. GrowingResult(r, kv, maxhp, FALSE, tbl.hp, Contents(tbl.data)) /\ r.done
    BY <2>1, <2>2, InsertGrowingGood
  <2>4. Inserted(tbl, kv, maxhp) = r /\ ~ r.thrown
    BY <1>3 DEF Inserted
  <2>. HIDE DEF r
  <2>. QED BY <2>3, <2>4 DEF GrowingResult
<1>. QED
  BY <1>2, <1>3

(* The slots of a container are visited one after the other, and all.      *)
LEMMA AllVisited ==
  ASSUME NEW hp, NEW data, GoodTable(hp, data), NEW p \in Positions(data)
  PROVE  \E n \in Nat : n < Visits(data) /\ Visited(n) = p
<1>. DEFINE c == SLOT_PER_BUCKET
            m == hashsize(hp)
            i == p[1]
            s == p[2]
            n == i * c + s
<1>1. Visits(data) = m * c /\ m \in Nat \ {0} /\ c \in Nat \ {0}
  BY VisitsAre, TableAssumption
<1>2. i \in Nat /\ i < m /\ s \in Nat /\ s < c /\ p = <<i, s>>
  <2>1. i \in Buckets(hp) /\ s \in Slots
    BY VisitedSlot
  <2>2. p = <<i, s>>
    BY DEF Positions
  <2>. QED BY <1>1, <2>1, <2>2 DEF Buckets, Slots
<1>. HIDE DEF c, m, i, s
<1>3. i * c \in Nat /\ i * c + c <= m * c
  <2>1. i + 1 <= m
    BY <1>1, <1>2
  <2>2. (i + 1) * c = i * c + c
    BY <1>1, <1>2
  <2>3. \A x, y, z \in Nat : x <= y => x * z <= y * z
    OBVIOUS
  <2>4. \A x, y \in Nat : x * y \in Nat
    OBVIOUS
  <2>. QED BY <1>1, <1>2, <2>1, <2>2, <2>3, <2>4
<1>4. n \in Nat /\ n < m * c
  BY <1>1, <1>2, <1>3
<1>5. n \div c = i /\ n % c = s
  BY <1>1, <1>2, <1>3, Division
<1>. HIDE DEF n
<1>6. Visited(n) = <<i, s>>
  BY <1>5 DEF Visited, c
<1>. QED
  BY <1>1, <1>2, <1>4, <1>6

(* What has been moved after n slots.                                      *)
MovedBy(data, n) ==
  {At(data, Visited(m)) : m \in {k \in Nat : k < n /\ Visited(k) \in Positions(data)}}

(* A rebuild that is not refused has all elements, and no other.           *)
LEMMA RebuiltContent ==
  ASSUME NEW old_hp, NEW data, LoneTable(old_hp, data), NEW hp \in Nat,
         ~ RebuildRefused(data, hp)
  PROVE  Contents(Rebuilt(data, hp).data) = Contents(data)
<1>. DEFINE F == Filling(data, hp)
            N == {n \in Nat : ~ F[n].thrown => Contents(F[n].tbl.data) = MovedBy(data, n)}
<1>0. GoodTable(old_hp, data) /\ Visits(data) \in Nat
  BY VisitsAre DEF LoneTable
<1>1. /\ F[0].tbl = table(hp, bucket_container(hp))
      /\ \A n \in Nat :
           /\ LoneTab(F[n].tbl)
           /\ F[n + 1] = IF F[n].thrown \/ Visited(n) \notin Positions(data)
                         THEN F[n]
                         ELSE Inserted(F[n].tbl, At(data, Visited(n)), NewMapLimit(hp))
  BY <1>0, FillingSteps
<1>2. \A n \in Nat : \A m \in MovedBy(data, n) : m \in Contents(data)
  BY <1>0, ContentsAre DEF MovedBy
<1>3. \A n \in Nat :
        MovedBy(data, n + 1) = IF Visited(n) \in Positions(data)
                               THEN MovedBy(data, n) \cup {At(data, Visited(n))}
                               ELSE MovedBy(data, n)
  <2>. TAKE n \in Nat
  <2>1. \A k \in Nat : k < n + 1 <=> k < n \/ k = n
    OBVIOUS
  <2>. QED BY <2>1 DEF MovedBy
<1>4. ~ F[Visits(data)].thrown
  BY DEF RebuildRefused
<1>. HIDE DEF F
<1>5. 0 \in N
  <2>1. \A key : Absent(bucket_container(hp), key)
    BY EmptyTable
  <2>2. GoodTable(hp, bucket_container(hp))
    BY EmptyTable
  <2>3. \A kv : kv \notin Contents(bucket_container(hp))
    <3>. DEFINE new == bucket_container(hp)
    <3>1. ASSUME NEW p \in Positions(new) PROVE FALSE
      <4>1. p[1] \in DOMAIN new /\ p[2] \in Slots /\ occupied(new[p[1]], p[2])
        BY <3>1 DEF Positions
      <4>. HIDE DEF new
      <4>2. \A key : new[p[1]][p[2]].key # key
        BY <2>1, <4>1 DEF Absent, new
      <4>. QED BY <4>2
    <3>. HIDE DEF new
    <3>2. GoodTable(hp, new)
      BY <2>2 DEF new
    <3>3. \A kv : kv \notin Contents(new)
      BY <3>1, <3>2, ContentsAre
    <3>. QED BY <3>3 DEF new
  <2>4. F[0].tbl.data = bucket_container(hp)
    BY <1>1 DEF table
  <2>5. MovedBy(data, 0) = {}
    BY DEF MovedBy
  <2>. QED BY <2>3, <2>4, <2>5
<1>6. ASSUME NEW n \in Nat, n \in N PROVE n + 1 \in N
  <2>. SUFFICES ASSUME ~ F[n + 1].thrown
                PROVE  Contents(F[n + 1].tbl.data) = MovedBy(data, n + 1)
    OBVIOUS
  <2>1. ~ F[n].thrown /\ Contents(F[n].tbl.data) = MovedBy(data, n)
    BY <1>1, <1>6
  <2>2. CASE Visited(n) \notin Positions(data)
    BY <1>1, <1>3, <2>1, <2>2
  <2>3. CASE Visited(n) \in Positions(data)
    <3>. DEFINE kv == At(data, Visited(n))
    <3>1. kv \in KV /\ kv \in Contents(data)
      BY <1>0, <2>3, VisitedSlot, ContentsAre
    <3>2. F[n + 1] = Inserted(F[n].tbl, kv, NewMapLimit(hp))
      BY <1>1, <2>1, <2>3
    <3>. HIDE DEF kv
    <3>3. \A e \in Contents(F[n].tbl.data) : e.key = kv.key => e = kv
      BY <1>2, <2>1, <3>1, ElementOfKey
    <3>4. LoneTab(F[n].tbl) /\ NewMapLimit(hp) \in Nat
      BY <1>1 DEF NewMapLimit, HashBits
    <3>5. ~ Inserted(F[n].tbl, kv, NewMapLimit(hp)).thrown
      BY <3>2
    <3>6. Contents(Inserted(F[n].tbl, kv, NewMapLimit(hp)).tbl.data)
            = Contents(F[n].tbl.data) \cup {kv}
      BY <3>1, <3>3, <3>4, <3>5, InsertedContent
    <3>7. MovedBy(data, n + 1) = MovedBy(data, n) \cup {kv}
      BY <1>3, <2>3 DEF kv
    <3>. QED BY <2>1, <3>2, <3>6, <3>7
  <2>. QED BY <2>2, <2>3
<1>7. \A n \in Nat : n \in N
  <2>. HIDE DEF N
  <2>. QED BY <1>5, <1>6, NatSetInduction
<1>8. Contents(F[Visits(data)].tbl.data) = MovedBy(data, Visits(data))
  BY <1>0, <1>4, <1>7
<1>9. ASSUME NEW kv \in Contents(data) PROVE kv \in MovedBy(data, Visits(data))
  <2>1. PICK p \in Positions(data) : At(data, p) = kv
    BY <1>0, ContentsAre
  <2>2. PICK n \in Nat : n < Visits(data) /\ Visited(n) = p
    BY <1>0, AllVisited
  <2>. QED BY <2>1, <2>2 DEF MovedBy
<1>10. MovedBy(data, Visits(data)) = Contents(data)
  BY <1>0, <1>2, <1>9
<1>. QED
  BY <1>8, <1>10 DEF Rebuilt, F
=============================================================================
