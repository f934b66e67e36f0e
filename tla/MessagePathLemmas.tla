-------------------------- MODULE MessagePathLemmas --------------------------
(***************************************************************************)
(* What the operators of MessagePath compute, for every net, every number  *)
(* of digits and every size of a digit.  First the subnets of              *)
(* peer_data.py and the translation of process_messages.py: which IDs      *)
(* match a subnet, that a translation can be undone, that the binding keys *)
(* select exactly the IDs of a subnet.  Then the messages, the             *)
(* directories, and what becomes of a message on its way along one link.   *)
(***************************************************************************)
EXTENDS MessagePath, FiniteSetTheorems, TLAPS

-----------------------------------------------------------------------------
(* Arithmetic                                                              *)

\* A nonempty set of naturals has a least element.  With it, an induction over
\* naturals is an argument about the least counterexample.
LEMMA NatMin ==
  ASSUME NEW T \in SUBSET Nat, T # {}
  PROVE  \E x \in T : \A y \in T : x <= y
<1> DEFINE R == OpToRel(<,Nat)
<1>1. IsWellFoundedOn(R, Nat)
  BY NatLessThanWellFounded, Zenon
<1>2. \A x, y \in Nat : y < x => <<y, x>> \in R
  BY DEF OpToRel
<1> HIDE DEF R
<1>3. PICK x \in T : \A y \in T : <<y, x>> \notin R
  BY <1>1, WFMin, Zenon
<1>4. \A y \in T : x <= y
  <2> TAKE y \in T
  <2>1. x \in Nat /\ y \in Nat /\ <<y, x>> \notin R
    BY <1>3
  <2>2. ~(y < x)
    BY <1>2, <2>1
  <2> QED
    BY <2>1, <2>2
<1> QED
  BY <1>4

\* Induction, for a set rather than for a predicate.
LEMMA NatInductionSet ==
  ASSUME NEW T \in SUBSET Nat, 0 \in T, \A n \in T : n + 1 \in T
  PROVE  T = Nat
<1> SUFFICES ASSUME Nat \ T # {} PROVE FALSE
  BY Zenon
<1>1. PICK x \in Nat \ T : \A y \in Nat \ T : x <= y
  BY NatMin, Zenon
<1>2. x # 0
  BY <1>1
<1>3. x - 1 \in Nat
  BY <1>1, <1>2
<1>4. x - 1 \notin Nat \ T
  BY <1>1, <1>3
<1>5. (x - 1) + 1 \in T
  BY <1>3, <1>4
<1> QED
  BY <1>1, <1>5

\* A power of two counts the subsets of an interval, so it is positive.
LEMMA PowNat ==
  ASSUME NEW n \in Nat
  PROVE  2^n \in Nat \ {0}
<1>1. IsFiniteSet(1 .. n) /\ Cardinality(1 .. n) = n
  BY FS_Interval
<1>2. 2^n = Cardinality(SUBSET (1 .. n)) /\ IsFiniteSet(SUBSET (1 .. n))
  BY <1>1, FS_SUBSET, Zenon
<1>3. SUBSET (1 .. n) # {}
  BY Zenon
<1> QED
  BY <1>2, <1>3, FS_EmptySet, FS_CardinalityType, Zenon

\* A subset of 1 .. a + b is a subset of its first part and one of its second.
LEMMA PowAdd ==
  ASSUME NEW a \in Nat, NEW b \in Nat
  PROVE  2^(a + b) = 2^a * 2^b
<1> DEFINE A == 1 .. a
           B == a + 1 .. a + b
           C == 1 .. a + b
           f == [p \in (SUBSET A) \X (SUBSET B) |-> p[1] \cup p[2]]
<1>1. /\ IsFiniteSet(A) /\ Cardinality(A) = a
      /\ IsFiniteSet(B) /\ Cardinality(B) = b
      /\ IsFiniteSet(C) /\ Cardinality(C) = a + b
  <2>1. IsFiniteSet(A) /\ Cardinality(A) = a
    BY FS_Interval
  <2>2. IsFiniteSet(B) /\ Cardinality(B) = b
    <3>1. a + 1 \in Int /\ a + b \in Int
      OBVIOUS
    <3>2. /\ IsFiniteSet(B)
          /\ Cardinality(B) = IF a + 1 > a + b THEN 0 ELSE (a + b) - (a + 1) + 1
      BY <3>1, FS_Interval
    <3> QED
      BY <3>2
  <2>3. IsFiniteSet(C) /\ Cardinality(C) = a + b
    <3>1. a + b \in Nat
      OBVIOUS
    <3> QED
      BY <3>1, FS_Interval
  <2> QED
    BY <2>1, <2>2, <2>3
<1>2. A \cap B = {} /\ A \cup B = C
  OBVIOUS
<1> HIDE DEF A, B, C
<1>3. f \in [(SUBSET A) \X (SUBSET B) -> SUBSET C]
  BY <1>2
<1>4. \A p, q \in (SUBSET A) \X (SUBSET B) : f[p] = f[q] => p = q
  <2> TAKE p, q \in (SUBSET A) \X (SUBSET B)
  <2> HAVE f[p] = f[q]
  <2>1. p[1] \subseteq A /\ q[1] \subseteq A /\ p[2] \subseteq B /\ q[2] \subseteq B
    OBVIOUS
  <2>2. p[1] \cup p[2] = q[1] \cup q[2]
    OBVIOUS
  <2>3. p[1] = q[1] /\ p[2] = q[2]
    BY <1>2, <2>1, <2>2
  <2> QED
    BY <2>3
<1>5. \A s \in SUBSET C : \E p \in (SUBSET A) \X (SUBSET B) : f[p] = s
  <2> TAKE s \in SUBSET C
  <2> DEFINE p == <<s \cap A, s \cap B>>
  <2>1. p \in (SUBSET A) \X (SUBSET B)
    OBVIOUS
  <2>2. f[p] = s
    BY <1>2, <2>1
  <2> QED
    BY <2>1, <2>2, Zenon
<1> HIDE DEF f
<1>6. f \in Bijection((SUBSET A) \X (SUBSET B), SUBSET C)
  BY <1>3, <1>4, <1>5, Zenon DEF Bijection, Injection, Surjection, IsInjective
<1>7. /\ IsFiniteSet(SUBSET A) /\ Cardinality(SUBSET A) = 2^a
      /\ IsFiniteSet(SUBSET B) /\ Cardinality(SUBSET B) = 2^b
      /\ IsFiniteSet(SUBSET C) /\ Cardinality(SUBSET C) = 2^(a + b)
  BY <1>1, FS_SUBSET
<1>8. /\ IsFiniteSet((SUBSET A) \X (SUBSET B))
      /\ Cardinality((SUBSET A) \X (SUBSET B)) = 2^a * 2^b
  <2> DEFINE S == SUBSET A
             T == SUBSET B
  <2>1. IsFiniteSet(S) /\ Cardinality(S) = 2^a /\ IsFiniteSet(T) /\ Cardinality(T) = 2^b
    BY <1>7
  <2> HIDE DEF S, T
  <2>2. IsFiniteSet(S \X T) /\ Cardinality(S \X T) = Cardinality(S) * Cardinality(T)
    BY <2>1, FS_Product
  <2>3. IsFiniteSet(S \X T) /\ Cardinality(S \X T) = 2^a * 2^b
    BY <2>1, <2>2
  <2> QED
    BY <2>3 DEF S, T
<1>9. ExistsBijection((SUBSET A) \X (SUBSET B), SUBSET C)
  BY <1>6, Zenon DEF ExistsBijection
<1>10. Cardinality(SUBSET C) = Cardinality((SUBSET A) \X (SUBSET B))
  BY <1>8, <1>9, FS_Bijection
<1> QED
  BY <1>7, <1>8, <1>10

\* Division with remainder.
LEMMA DivMod ==
  ASSUME NEW x \in Int, NEW d \in Nat \ {0}
  PROVE  x \div d \in Int /\ x % d \in 0 .. d - 1 /\ x = d * (x \div d) + (x % d)
  OBVIOUS

LEMMA MulMono ==
  ASSUME NEW a \in Int, NEW b \in Int, NEW d \in Nat, a <= b
  PROVE  d * a <= d * b
  OBVIOUS

\* Quotient and remainder are unique.
LEMMA DivUnique ==
  ASSUME NEW q \in Int, NEW d \in Nat \ {0}, NEW r \in 0 .. d - 1
  PROVE  (d * q + r) \div d = q /\ (d * q + r) % d = r
<1> DEFINE x == d * q + r
           p == x \div d
           s == x % d
<1>1. x \in Int /\ p \in Int /\ s \in 0 .. d - 1 /\ d * q + r = d * p + s
  BY DivMod
<1> HIDE DEF x, p, s
<1>2. ~(p <= q - 1)
  <2> SUFFICES ASSUME p <= q - 1 PROVE FALSE
    OBVIOUS
  <2>1. d * p <= d * (q - 1)
    BY <1>1, MulMono
  <2>2. d * (q - 1) = d * q - d
    OBVIOUS
  <2> QED
    BY <1>1, <2>1, <2>2
<1>3. ~(q <= p - 1)
  <2> SUFFICES ASSUME q <= p - 1 PROVE FALSE
    OBVIOUS
  <2>1. d * q <= d * (p - 1)
    BY <1>1, MulMono
  <2>2. d * (p - 1) = d * p - d
    BY <1>1
  <2> QED
    BY <1>1, <2>1, <2>2
<1>4. p = q
  BY <1>1, <1>2, <1>3
<1>5. s = r
  BY <1>1, <1>4
<1> QED
  BY <1>4, <1>5 DEF x, p, s

LEMMA DivSmall ==
  ASSUME NEW d \in Nat \ {0}, NEW u \in 0 .. d - 1
  PROVE  u \div d = 0 /\ u % d = u
<1>1. \A q \in Int : q = 0 => d * q + u = u
  OBVIOUS
<1>2. \A q \in Int : (d * q + u) \div d = q /\ (d * q + u) % d = u
  BY DivUnique
<1> QED
  BY <1>1, <1>2

LEMMA Cancel ==
  ASSUME NEW r \in Nat \ {0}, NEW x \in Int, NEW y \in Int
  PROVE  r * x = r * y <=> x = y
<1> SUFFICES ASSUME r * x = r * y PROVE x = y
  OBVIOUS
<1>1. (r * x + 0) \div r = x /\ (r * y + 0) \div r = y
  <2>1. 0 \in 0 .. r - 1
    OBVIOUS
  <2> QED
    BY <2>1, DivUnique
<1> QED
  BY <1>1

\* The remainder by a divisor is that of the remainder by a multiple of it.
LEMMA ModOfMod ==
  ASSUME NEW n \in Int, NEW r \in Nat \ {0}, NEW k \in Nat \ {0}
  PROVE  r * k \in Nat \ {0} /\ (n % (r * k)) % r = n % r
<1> DEFINE x == n \div (r * k)
           u == n % (r * k)
           y == u \div r
           a == u % r
<1>1. r * k \in Nat \ {0}
  OBVIOUS
<1>2. x \in Int /\ u \in Int /\ n = (r * k) * x + u
  <2> DEFINE d == r * k
  <2> HIDE DEF d
  <2>1. d \in Nat \ {0}
    BY <1>1 DEF d
  <2>2. n \div d \in Int /\ n % d \in Int /\ n = d * (n \div d) + (n % d)
    BY <2>1, DivMod
  <2> QED
    BY <2>2 DEF d
<1>3. y \in Int /\ a \in 0 .. r - 1 /\ u = r * y + a
  BY <1>2, DivMod, Zenon
<1> HIDE DEF x, u, y, a
<1>4. n = r * (k * x + y) + a /\ k * x + y \in Int
  BY <1>2, <1>3
<1>5. n % r = a
  <2> DEFINE q == k * x + y
  <2> HIDE DEF q
  <2>1. n = r * q + a /\ q \in Int
    BY <1>4 DEF q
  <2> QED
    BY <1>3, <2>1, DivUnique
<1> QED
  BY <1>1, <1>5 DEF a, u

\* Dividing twice is dividing by the product.
LEMMA DivOfDiv ==
  ASSUME NEW n \in Int, NEW q \in Nat \ {0}, NEW p \in Nat \ {0}
  PROVE  q * p \in Nat \ {0} /\ (n \div q) \div p = n \div (q * p)
<1> DEFINE x == n \div q
           a == n % q
           y == x \div p
           b == x % p
<1>1. q * p \in Nat \ {0}
  OBVIOUS
<1>2. x \in Int /\ a \in 0 .. q - 1 /\ n = q * x + a
  BY DivMod
<1>3. y \in Int /\ b \in 0 .. p - 1 /\ x = p * y + b
  BY <1>2, DivMod
<1> HIDE DEF x, y, a, b
<1>4. n = (q * p) * y + (q * b + a)
  BY <1>2, <1>3
<1>5. q * b + a \in 0 .. q * p - 1
  <2>1. 0 <= b /\ b <= p - 1 /\ b \in Int /\ p - 1 \in Int
    BY <1>3
  <2>2. q * b <= q * (p - 1) /\ q * 0 <= q * b
    BY <2>1, MulMono
  <2>3. q * (p - 1) = q * p - q /\ q * 0 = 0 /\ q * b \in Int
    BY <2>1
  <2> QED
    BY <1>1, <1>2, <2>2, <2>3
<1>6. n \div (q * p) = y
  <2> DEFINE d == q * p
             r == q * b + a
  <2>1. d \in Nat \ {0} /\ r \in 0 .. d - 1 /\ n = d * y + r
    BY <1>1, <1>4, <1>5
  <2> HIDE DEF d, r
  <2>2. n \div d = y
    BY <1>3, <2>1, DivUnique
  <2> QED
    BY <2>2 DEF d
<1> QED
  BY <1>1, <1>6 DEF x, y

-----------------------------------------------------------------------------
(* Subnet.parse                                                            *)

\* ValueOf is defined by recursion over the digits: the function it chooses exists.
LEMMA ValueExists ==
  ASSUME NEW s \in Seq(Digits), NEW K \in Nat
  PROVE  \E f : f = [i \in 0 .. Len(s) |-> IF i = 0 THEN 0 ELSE K * f[i - 1] + s[i]]
<1> DEFINE Fcn(f, n) == f = [i \in 0 .. n |-> IF i = 0 THEN 0 ELSE K * f[i - 1] + s[i]]
           T == {n \in Nat : \E f : Fcn(f, n)}
<1>1. 0 \in T
  <2>1. Fcn([i \in 0 .. 0 |-> 0], 0)
    OBVIOUS
  <2> QED
    BY <2>1, Zenon
<1>2. \A n \in T : n + 1 \in T
  <2> TAKE n \in T
  <2>1. PICK f : Fcn(f, n)
    OBVIOUS
  <2> DEFINE g == [i \in 0 .. n + 1 |-> IF i = n + 1 THEN K * f[n] + s[n + 1] ELSE f[i]]
  <2>2. n \in Nat
    OBVIOUS
  <2>3. \A i \in 0 .. n : f[i] = IF i = 0 THEN 0 ELSE K * f[i - 1] + s[i]
    BY <2>1
  <2>4. \A i \in 0 .. n + 1 : g[i] = IF i = 0 THEN 0 ELSE K * g[i - 1] + s[i]
    <3> TAKE i \in 0 .. n + 1
    <3>1. CASE i = n + 1
      <4>1. i # 0 /\ i - 1 = n /\ n \in 0 .. n + 1 /\ n # n + 1
        BY <2>2, <3>1
      <4>2. g[i - 1] = f[n]
        BY <4>1
      <4>3. g[i] = K * f[n] + s[n + 1]
        BY <3>1
      <4> QED
        BY <3>1, <4>1, <4>2, <4>3
    <3>2. CASE i # n + 1
      <4>1. i \in 0 .. n
        BY <2>2, <3>2
      <4>2. g[i] = f[i]
        BY <3>2
      <4>3. i # 0 => i - 1 \in 0 .. n + 1 /\ i - 1 # n + 1
        BY <2>2, <4>1
      <4>4. i # 0 => g[i - 1] = f[i - 1]
        BY <4>3
      <4> QED
        BY <2>3, <4>1, <4>2, <4>4
    <3> QED
      BY <3>1, <3>2
  <2>5. Fcn(g, n + 1)
    <3> HIDE DEF g
    <3>1. g = [i \in 0 .. n + 1 |-> g[i]]
      BY DEF g
    <3> QED
      BY <2>4, <3>1, Zenon
  <2> HIDE DEF Fcn, g
  <2>6. n + 1 \in Nat /\ \E h : Fcn(h, n + 1)
    BY <2>2, <2>5
  <2> QED
    BY <2>6
<1> HIDE DEF T
<1>3. T = Nat
  <2>1. T \subseteq Nat
    BY DEF T
  <2> QED
    BY <1>1, <1>2, <2>1, NatInductionSet
<1>4. Len(s) \in T
  BY <1>3
<1> QED
  BY <1>4 DEF T

LEMMA ValueDef ==
  ASSUME NEW s \in Seq(Digits)
  PROVE  \E v : /\ ValueOf(s) = v[Len(s)]
      /\ v = [i \in 0 .. Len(s) |-> IF i = 0 THEN 0 ELSE 2 ^ DigitBits * v[i - 1] + s[i]]
<1> DEFINE v == CHOOSE f : f = [i \in 0 .. Len(s) |->
                                   IF i = 0 THEN 0 ELSE 2 ^ DigitBits * f[i - 1] + s[i]]
<1>1. ValueOf(s) = v[Len(s)]
  BY DEF ValueOf
<1>2. 2 ^ DigitBits \in Nat
  BY WidthAssumption, PowNat
<1>3. v = [i \in 0 .. Len(s) |-> IF i = 0 THEN 0 ELSE 2 ^ DigitBits * v[i - 1] + s[i]]
  <2> DEFINE K == 2 ^ DigitBits
  <2> HIDE DEF K
  <2>1. \E f : f = [i \in 0 .. Len(s) |-> IF i = 0 THEN 0 ELSE K * f[i - 1] + s[i]]
    BY <1>2, ValueExists, Zenon DEF K
  <2> QED
    BY <2>1, Zenon DEF K
<1> QED
  BY <1>1, <1>3, Zenon

\* The digits of a subnet denote a natural number.
LEMMA ValueType ==
  ASSUME NEW s \in Seq(Digits)
  PROVE  ValueOf(s) \in Nat
<1>1. PICK v : /\ ValueOf(s) = v[Len(s)]
               /\ v = [i \in 0 .. Len(s) |->
                          IF i = 0 THEN 0 ELSE 2 ^ DigitBits * v[i - 1] + s[i]]
  BY ValueDef
<1> DEFINE K == 2 ^ DigitBits
           T == {n \in Nat : n <= Len(s) => v[n] \in Nat}
<1>2. K \in Nat
  BY WidthAssumption, PowNat
<1>3. \A i \in 1 .. Len(s) : s[i] \in Nat
  BY <1>2 DEF Digits
<1> HIDE DEF K
<1>4. \A i \in 0 .. Len(s) : v[i] = IF i = 0 THEN 0 ELSE K * v[i - 1] + s[i]
  BY <1>1 DEF K
<1>5. 0 \in T
  BY <1>4
<1>6. \A n \in T : n + 1 \in T
  <2> TAKE n \in T
  <2>1. n \in Nat /\ Len(s) \in Nat
    OBVIOUS
  <2>2. ASSUME n + 1 <= Len(s) PROVE v[n + 1] \in Nat
    <3>1. /\ n + 1 \in 0 .. Len(s) /\ n + 1 \in 1 .. Len(s) /\ n <= Len(s)
          /\ (n + 1) - 1 = n /\ n + 1 # 0
      BY <2>1, <2>2
    <3>2. v[n + 1] = K * v[n] + s[n + 1]
      BY <1>4, <3>1
    <3>3. v[n] \in Nat /\ s[n + 1] \in Nat
      BY <1>3, <3>1
    <3> QED
      BY <1>2, <3>2, <3>3
  <2> QED
    BY <2>1, <2>2
<1>7. T \in SUBSET Nat
  OBVIOUS
<1> HIDE DEF T
<1>8. T = Nat
  BY <1>5, <1>6, <1>7, NatInductionSet
<1>9. Len(s) \in T
  BY <1>8
<1> QED
  BY <1>1, <1>9 DEF T

\* A sequence of zeros denotes zero.
LEMMA ValueZero ==
  ASSUME NEW s \in Seq({0})
  PROVE  ValueOf(s) = 0
<1>0. 2 ^ DigitBits \in Nat \ {0}
  BY WidthAssumption, PowNat
<1>s. s \in Seq(Digits)
  BY <1>0 DEF Digits
<1>1. PICK v : /\ ValueOf(s) = v[Len(s)]
               /\ v = [i \in 0 .. Len(s) |->
                          IF i = 0 THEN 0 ELSE 2 ^ DigitBits * v[i - 1] + s[i]]
  BY <1>s, ValueDef
<1> DEFINE K == 2 ^ DigitBits
           T == {n \in Nat : n <= Len(s) => v[n] = 0}
<1>2. K \in Nat
  BY <1>0
<1>3. \A i \in 1 .. Len(s) : s[i] = 0
  OBVIOUS
<1> HIDE DEF K
<1>4. \A i \in 0 .. Len(s) : v[i] = IF i = 0 THEN 0 ELSE K * v[i - 1] + s[i]
  BY <1>1 DEF K
<1>5. 0 \in T
  BY <1>4
<1>6. \A n \in T : n + 1 \in T
  <2> TAKE n \in T
  <2>1. n \in Nat /\ Len(s) \in Nat
    OBVIOUS
  <2>2. ASSUME n + 1 <= Len(s) PROVE v[n + 1] = 0
    <3>1. /\ n + 1 \in 0 .. Len(s) /\ n + 1 \in 1 .. Len(s) /\ n <= Len(s)
          /\ (n + 1) - 1 = n /\ n + 1 # 0
      BY <2>1, <2>2
    <3>2. v[n + 1] = K * v[n] + s[n + 1]
      BY <1>4, <3>1
    <3>3. v[n] = 0 /\ s[n + 1] = 0
      BY <1>3, <3>1
    <3> QED
      BY <1>2, <3>2, <3>3
  <2> QED
    BY <2>1, <2>2
<1>7. T \in SUBSET Nat
  OBVIOUS
<1> HIDE DEF T
<1>8. T = Nat
  BY <1>5, <1>6, <1>7, NatInductionSet
<1>9. Len(s) \in T
  BY <1>8
<1> QED
  BY <1>1, <1>9 DEF T

\* What Subnet.parse returns: t digits are left to the members of the subnet.
IsSubnet(sn) ==
    \E t \in 0 .. IdDigits, v \in Nat :
        /\ v * 2 ^ (DigitBits * t) < 2 ^ Width
        /\ sn = [subnet |-> v * 2 ^ (DigitBits * t),
                 subnet_mask |-> 2 ^ Width - 2 ^ (DigitBits * t)]

LEMMA WidthFacts ==
  /\ Width \in Nat /\ Width >= 2
  /\ 2 ^ Width \in Nat \ {0} /\ 2 ^ (Width - 1) \in Nat \ {0}
  /\ 2 ^ Width = 2 * 2 ^ (Width - 1)
  /\ 2 ^ Width > 2
<1> DEFINE W == Width
<1>1. DigitBits \in Nat \ {0} /\ IdDigits \in Nat \ {0} /\ IdDigits >= 2
  BY WidthAssumption
<1>2. W \in Nat /\ W >= 2
  BY <1>1 DEF Width
<1> HIDE DEF W
<1>3. 2 ^ W \in Nat \ {0} /\ 2 ^ (W - 1) \in Nat \ {0} /\ 2 ^ (W - 2) \in Nat \ {0}
  <2>1. W - 1 \in Nat /\ W - 2 \in Nat
    BY <1>2
  <2> QED
    BY <1>2, <2>1, PowNat
<1>4. 2 ^ W = 2 * 2 ^ (W - 1)
  <2>1. 1 \in Nat /\ W - 1 \in Nat /\ 1 + (W - 1) = W
    BY <1>2
  <2>2. 2 ^ (1 + (W - 1)) = 2 ^ 1 * 2 ^ (W - 1)
    BY <2>1, PowAdd, Zenon
  <2>3. 2 ^ 1 = 2
    OBVIOUS
  <2> QED
    BY <2>1, <2>2, <2>3
<1>5. 2 ^ (W - 1) = 2 * 2 ^ (W - 2)
  <2>1. 1 \in Nat /\ W - 2 \in Nat /\ 1 + (W - 2) = W - 1
    BY <1>2
  <2>2. 2 ^ (1 + (W - 2)) = 2 ^ 1 * 2 ^ (W - 2)
    BY <2>1, PowAdd, Zenon
  <2>3. 2 ^ 1 = 2
    OBVIOUS
  <2> QED
    BY <2>1, <2>2, <2>3
<1>6. 2 ^ W > 2
  <2> DEFINE a == 2 ^ W
             b == 2 ^ (W - 1)
             c == 2 ^ (W - 2)
  <2>1. a = 2 * b /\ b = 2 * c /\ c \in Nat \ {0}
    BY <1>3, <1>4, <1>5
  <2> HIDE DEF a, b, c
  <2>2. a > 2
    BY <2>1
  <2> QED
    BY <2>2 DEF a
<1> QED
  BY <1>2, <1>3, <1>4, <1>6 DEF W

\* Subnet.parse returns a subnet or raises an exception.
LEMMA ParseSubnet ==
  ASSUME NEW s \in Seq(Digits), Parse(s) # Invalid
  PROVE  IsSubnet(Parse(s))
<1> DEFINE t == IdDigits - Len(s)
           v == ValueOf(s)
<1>1. Len(s) \in Nat /\ IdDigits \in Nat /\ DigitBits \in Nat /\ v \in Nat
  BY ValueType, WidthAssumption
<1>2. Width - DigitBits * Len(s) = DigitBits * t
  <2> HIDE DEF v
  <2> QED
    BY <1>1 DEF Width
<1> HIDE DEF t, v
<1>3. Len(s) <= IdDigits /\ v * 2 ^ (DigitBits * t) < 2 ^ Width - 1
  BY <1>2 DEF Parse, v
<1>4. Parse(s) = [subnet |-> v * 2 ^ (DigitBits * t),
                  subnet_mask |-> 2 ^ Width - 2 ^ (DigitBits * t)]
  BY <1>2, <1>3 DEF Parse, v
<1>5. t \in 0 .. IdDigits
  BY <1>1, <1>3 DEF t
<1>6. v * 2 ^ (DigitBits * t) < 2 ^ Width
  <2> DEFINE r == 2 ^ (DigitBits * t)
             B == 2 ^ Width
  <2>1. DigitBits * t \in Nat
    BY <1>1, <1>5
  <2>2. r \in Nat /\ B \in Nat
    BY <2>1, PowNat, WidthFacts
  <2>3. v * r < B - 1
    BY <1>3
  <2> HIDE DEF r, B
  <2>4. v * r \in Nat
    BY <1>1, <2>2
  <2>5. v * r < B
    BY <2>2, <2>3, <2>4
  <2> QED
    BY <2>5 DEF r, B
<1> QED
  BY <1>1, <1>4, <1>5, <1>6, Zenon DEF IsSubnet

\* The subnets that the code calls _ZERO_SUBNET and _UNIVERSAL_SUBNET.
LEMMA ZeroSubnet ==
  /\ IsSubnet(ZERO_SUBNET)
  /\ ZERO_SUBNET = [subnet |-> 0, subnet_mask |-> 2 ^ Width - 1]
<1> DEFINE s == [i \in 1 .. IdDigits |-> 0]
<1>1. IdDigits \in Nat /\ DigitBits \in Nat
  BY WidthAssumption
<1>2. s \in Seq({0}) /\ Len(s) = IdDigits
  BY <1>1
<1> HIDE DEF s
<1>3. ValueOf(s) = 0
  BY <1>2, ValueZero
<1>4. Width - DigitBits * Len(s) = 0
  BY <1>1, <1>2 DEF Width
<1>5. 2 ^ 0 = 1
  OBVIOUS
<1>6. 0 * 1 = 0 /\ 0 < 2 ^ Width - 1
  BY WidthFacts
<1>7. Parse(s) = [subnet |-> 0, subnet_mask |-> 2 ^ Width - 1]
  <2> DEFINE e == Width - DigitBits * Len(s)
  <2>1. 2 ^ e = 1
    <3>1. e = 0
      BY <1>4
    <3> HIDE DEF e
    <3> QED
      BY <1>5, <3>1
  <2>2. Parse(s) = IF Len(s) <= IdDigits /\ ValueOf(s) * 2 ^ e < 2 ^ Width - 1
                   THEN [subnet |-> ValueOf(s) * 2 ^ e, subnet_mask |-> 2 ^ Width - 2 ^ e]
                   ELSE Invalid
    BY DEF Parse
  <2> HIDE DEF e
  <2>3. ValueOf(s) * 2 ^ e = 0 /\ Len(s) <= IdDigits
    BY <1>1, <1>2, <1>3, <1>6, <2>1
  <2> QED
    BY <1>6, <2>1, <2>2, <2>3
<1>8. ZERO_SUBNET = [subnet |-> 0, subnet_mask |-> 2 ^ Width - 1]
  BY <1>7 DEF ZERO_SUBNET, s
<1>9. IsSubnet(ZERO_SUBNET)
  <2>1. 0 \in 0 .. IdDigits /\ 0 \in Nat /\ DigitBits * 0 = 0
    BY <1>1
  <2>2. 2 ^ (DigitBits * 0) = 1
    <3> DEFINE e == DigitBits * 0
    <3>1. e = 0
      BY <2>1
    <3> HIDE DEF e
    <3>2. 2 ^ e = 1
      BY <1>5, <3>1
    <3> QED
      BY <3>2 DEF e
  <2>3. 0 < 2 ^ Width /\ 0 * 2 ^ (DigitBits * 0) = 0
    BY <1>6, <2>2, WidthFacts
  <2> QED
    BY <1>8, <2>1, <2>2, <2>3 DEF IsSubnet
<1> QED
  BY <1>8, <1>9

LEMMA UniversalSubnet ==
  /\ IsSubnet(UNIVERSAL_SUBNET)
  /\ UNIVERSAL_SUBNET = [subnet |-> 0, subnet_mask |-> 0]
<1> DEFINE s == <<>>
<1>1. IdDigits \in Nat /\ DigitBits \in Nat
  BY WidthAssumption
<1>2. s \in Seq({0}) /\ Len(s) = 0
  OBVIOUS
<1> HIDE DEF s
<1>3. ValueOf(s) = 0
  BY <1>2, ValueZero, Zenon
<1>4. Width - DigitBits * Len(s) = Width
  BY <1>1, <1>2 DEF Width
<1>5. 0 * 2 ^ Width = 0 /\ 0 < 2 ^ Width - 1 /\ 2 ^ Width - 2 ^ Width = 0
  BY WidthFacts
<1>7. Parse(s) = [subnet |-> 0, subnet_mask |-> 0]
  BY <1>1, <1>2, <1>3, <1>4, <1>5 DEF Parse
<1>8. UNIVERSAL_SUBNET = [subnet |-> 0, subnet_mask |-> 0]
  BY <1>7 DEF UNIVERSAL_SUBNET, s
<1>9. IsSubnet(UNIVERSAL_SUBNET)
  <2>1. IdDigits \in 0 .. IdDigits /\ 0 \in Nat /\ DigitBits * IdDigits = Width
    BY <1>1 DEF Width
  <2>2. 0 * 2 ^ (DigitBits * IdDigits) = 0 /\ 2 ^ Width - 2 ^ (DigitBits * IdDigits) = 0
    BY <1>5, <2>1
  <2>3. 0 < 2 ^ Width
    BY WidthFacts
  <2> QED
    BY <1>8, <2>1, <2>2, <2>3 DEF IsSubnet
<1> QED
  BY <1>8, <1>9

-----------------------------------------------------------------------------
(* Subnet.match                                                            *)

\* A subnet has r IDs, there are k subnets of this size, and it is number v.
Shape(sn, r, k, v) ==
    /\ r \in Nat \ {0} /\ k \in Nat \ {0} /\ v \in 0 .. k - 1
    /\ 2 ^ Width = r * k
    /\ sn.subnet = r * v /\ sn.subnet_mask = 2 ^ Width - r
    /\ k = 1 \/ \E h \in Nat \ {0} : k = 2 * h

LEMMA ShapeOf ==
  ASSUME NEW sn, NEW t \in 0 .. IdDigits, NEW v \in Nat,
         v * 2 ^ (DigitBits * t) < 2 ^ Width,
         sn = [subnet |-> v * 2 ^ (DigitBits * t),
               subnet_mask |-> 2 ^ Width - 2 ^ (DigitBits * t)]
  PROVE  Shape(sn, 2 ^ (DigitBits * t), 2 ^ (DigitBits * (IdDigits - t)), v)
<1> DEFINE r == 2 ^ (DigitBits * t)
           k == 2 ^ (DigitBits * (IdDigits - t))
           B == 2 ^ Width
           e == DigitBits * (IdDigits - t)
<1>1. DigitBits \in Nat \ {0} /\ IdDigits \in Nat /\ t \in Nat /\ IdDigits - t \in Nat
  BY WidthAssumption
<1>2. DigitBits * t \in Nat /\ e \in Nat /\ DigitBits * t + e = Width
  BY <1>1 DEF Width
<1>3. r \in Nat \ {0} /\ k \in Nat \ {0} /\ B = r * k
  <2> HIDE DEF e
  <2>1. 2 ^ e \in Nat \ {0} /\ 2 ^ (DigitBits * t) \in Nat \ {0}
    BY <1>2, PowNat
  <2>2. 2 ^ (DigitBits * t + e) = 2 ^ (DigitBits * t) * 2 ^ e
    BY <1>2, PowAdd, Zenon
  <2>3. 2 ^ Width = 2 ^ (DigitBits * t) * 2 ^ e
    BY <1>2, <2>2
  <2> QED
    BY <2>1, <2>3 DEF e
<1>4. k = 1 \/ \E h \in Nat \ {0} : k = 2 * h
  <2>1. CASE t = IdDigits
    <3>1. e = 0
      BY <1>1, <2>1
    <3> HIDE DEF e
    <3>2. 2 ^ e = 1
      BY <3>1
    <3> QED
      BY <3>2 DEF e
  <2>2. CASE t # IdDigits
    <3>1. IdDigits - t >= 1
      BY <1>1, <2>2
    <3>2. e # 0
      BY <1>1, <3>1
    <3>3. e - 1 \in Nat /\ 1 + (e - 1) = e
      <4> HIDE DEF e
      <4> QED
        BY <1>2, <3>2
    <3> HIDE DEF e
    <3>4. 2 ^ (1 + (e - 1)) = 2 ^ 1 * 2 ^ (e - 1) /\ 2 ^ (e - 1) \in Nat \ {0}
      BY <3>3, PowAdd, PowNat, Zenon
    <3>5. 2 ^ 1 = 2
      OBVIOUS
    <3>6. 2 ^ e = 2 * 2 ^ (e - 1)
      BY <3>3, <3>4, <3>5
    <3> QED
      BY <3>4, <3>6 DEF e
  <2> QED
    BY <2>1, <2>2
<1>5. sn.subnet = r * v /\ sn.subnet_mask = B - r /\ r * v < B
  <2>1. sn.subnet = v * r /\ sn.subnet_mask = B - r /\ v * r < B
    OBVIOUS
  <2>2. v * r = r * v
    <3> HIDE DEF r
    <3> QED
      BY <1>3
  <2> QED
    BY <2>1, <2>2
<1> HIDE DEF r, k, B
<1>6. v \in 0 .. k - 1
  <2> SUFFICES ASSUME k <= v PROVE FALSE
    BY <1>3
  <2>1. r * k <= r * v
    BY <1>3, MulMono
  <2> QED
    BY <1>3, <1>5, <2>1
<1>7. Shape(sn, r, k, v)
  BY <1>3, <1>4, <1>5, <1>6 DEF Shape, B
<1> QED
  BY <1>7 DEF r, k

LEMMA HasShape ==
  ASSUME NEW sn, IsSubnet(sn)
  PROVE  \E r, k, v : Shape(sn, r, k, v)
  BY ShapeOf DEF IsSubnet

\* `n & subnet_mask` is the start of the subnet that n is in.
LEMMA AndValue ==
  ASSUME NEW sn, NEW r, NEW k, NEW v, Shape(sn, r, k, v), NEW n \in Int
  PROVE  /\ n % 2 ^ Width \in 0 .. 2 ^ Width - 1
         /\ (n % 2 ^ Width) \div r \in 0 .. k - 1
         /\ n % r \in 0 .. r - 1
         /\ n % 2 ^ Width = r * ((n % 2 ^ Width) \div r) + (n % r)
         /\ And(n, sn.subnet_mask) = r * ((n % 2 ^ Width) \div r)
<1> DEFINE B == 2 ^ Width
           u == n % B
           q == u \div r
           a == u % r
<1>1. /\ r \in Nat \ {0} /\ k \in Nat \ {0} /\ B = r * k /\ B \in Nat \ {0}
      /\ sn.subnet_mask = B - r
  BY WidthFacts DEF Shape
<1> HIDE DEF B
<1>2. u \in 0 .. B - 1
  BY <1>1, DivMod, Zenon
<1>3. q \in Int /\ a \in 0 .. r - 1 /\ u = r * q + a
  <2>1. u \in Int
    <3> HIDE DEF u
    <3> QED
      BY <1>1, <1>2
  <2> HIDE DEF u
  <2> QED
    BY <1>1, <2>1, DivMod, Zenon
<1>4. n % r = a
  <2>1. (n % (r * k)) % r = n % r
    BY <1>1, ModOfMod, Zenon
  <2> QED
    BY <1>1, <2>1
<1>5. And(n, sn.subnet_mask) = r * q
  <2>1. And(n, sn.subnet_mask) = (n % B) - (n % (B - (B - r)))
    BY <1>1 DEF And, B
  <2>2. B - (B - r) = r
    BY <1>1
  <2>3. And(n, sn.subnet_mask) = u - a
    BY <1>4, <2>1, <2>2
  <2> HIDE DEF u, q, a
  <2> QED
    BY <1>1, <1>2, <1>3, <2>3
<1>6. q \in 0 .. k - 1
  <2> HIDE DEF u, q, a
  <2>1. ~(q <= -1)
    <3> SUFFICES ASSUME q <= -1 PROVE FALSE
      OBVIOUS
    <3>1. r * q <= r * (-1)
      BY <1>1, <1>3, MulMono
    <3>2. r * (-1) = -r
      BY <1>1
    <3> QED
      BY <1>1, <1>2, <1>3, <3>1, <3>2
  <2>2. ~(k <= q)
    <3> SUFFICES ASSUME k <= q PROVE FALSE
      OBVIOUS
    <3>1. r * k <= r * q
      BY <1>1, <1>3, MulMono
    <3> QED
      BY <1>1, <1>2, <1>3, <3>1
  <2> QED
    BY <1>1, <1>3, <2>1, <2>2
<1>7. u = r * q + (n % r) /\ n % r \in 0 .. r - 1
  BY <1>3, <1>4
<1> QED
  BY <1>2, <1>5, <1>6, <1>7 DEF B

\* An ID matches a subnet if it is in the subnet with the same number.
LEMMA MatchShape ==
  ASSUME NEW sn, NEW r, NEW k, NEW v, Shape(sn, r, k, v), NEW n \in Int
  PROVE  Match(sn, n) <=> n \in Int64 /\ (n % 2 ^ Width) \div r = v
<1> DEFINE q == (n % 2 ^ Width) \div r
<1>1. And(n, sn.subnet_mask) = r * q /\ q \in Int
  BY AndValue
<1> HIDE DEF q
<1>2. r \in Nat \ {0} /\ v \in Int /\ sn.subnet = r * v
  BY DEF Shape
<1>3. And(n, sn.subnet_mask) = sn.subnet <=> q = v
  BY <1>1, <1>2, Cancel
<1> QED
  BY <1>3 DEF Match, q

\* Every ID matches _UNIVERSAL_SUBNET.
LEMMA MatchUniversal ==
  ASSUME NEW n \in Int
  PROVE  Match(UNIVERSAL_SUBNET, n) <=> n \in Int64
<1> DEFINE B == 2 ^ Width
<1>1. B \in Nat \ {0}
  BY WidthFacts
<1>2. And(n, 0) = 0
  <2>1. And(n, 0) = (n % B) - (n % (B - 0))
    BY DEF And
  <2> HIDE DEF B
  <2>2. B - 0 = B /\ n % B \in Int
    BY <1>1, DivMod
  <2> QED
    BY <2>1, <2>2
<1> QED
  BY <1>2, UniversalSubnet DEF Match

\* Only the root creditor's ID matches _ZERO_SUBNET.
LEMMA MatchZero ==
  ASSUME NEW n \in Int
  PROVE  Match(ZERO_SUBNET, n) <=> n = 0
<1> DEFINE B == 2 ^ Width
           H == 2 ^ (Width - 1)
<1>1. B \in Nat \ {0} /\ H \in Nat \ {0} /\ B = 2 * H
  BY WidthFacts
<1>2. Match(ZERO_SUBNET, n) <=> n \in -H .. H - 1 /\ (n % B) - (n % (B - (B - 1))) = 0
  BY ZeroSubnet DEF Match, And, Int64
<1> HIDE DEF B, H
<1>3. B - (B - 1) = 1 /\ n % 1 = 0
  BY <1>1
<1>4. n \div B \in Int /\ n % B \in 0 .. B - 1 /\ n = B * (n \div B) + (n % B)
  BY <1>1, DivMod, Zenon
<1>5. ASSUME n \in -H .. H - 1, n % B = 0 PROVE n = 0
  <2> DEFINE q == n \div B
  <2>0. q \in Int /\ n = B * q + 0
    BY <1>4, <1>5
  <2> HIDE DEF q
  <2>1. q \in Int /\ n = B * q
    BY <1>1, <2>0
  <2>2. ~(1 <= q)
    <3> SUFFICES ASSUME 1 <= q PROVE FALSE
      OBVIOUS
    <3>1. B * 1 <= B * q
      BY <1>1, <2>1, MulMono
    <3> QED
      BY <1>1, <1>5, <2>1, <3>1
  <2>3. ~(q <= -1)
    <3> SUFFICES ASSUME q <= -1 PROVE FALSE
      OBVIOUS
    <3>1. B * q <= B * (-1)
      BY <1>1, <2>1, MulMono
    <3>2. B * (-1) = -B
      BY <1>1
    <3> QED
      BY <1>1, <1>5, <2>1, <3>1, <3>2
  <2>4. q = 0
    BY <2>1, <2>2, <2>3
  <2> QED
    BY <1>1, <2>1, <2>4
<1>6. ASSUME n = 0 PROVE n \in -H .. H - 1 /\ n % B = 0
  <2>1. 0 \in 0 .. B - 1 /\ B * 0 + 0 = 0
    BY <1>1
  <2>2. (B * 0 + 0) % B = 0
    BY <1>1, <2>1, DivUnique
  <2> QED
    BY <1>1, <1>6, <2>1, <2>2
<1>7. Match(ZERO_SUBNET, n) <=> n \in -H .. H - 1 /\ n % B = 0
  BY <1>2, <1>3, <1>4
<1> QED
  BY <1>5, <1>6, <1>7

-----------------------------------------------------------------------------
(* _change_subnet                                                          *)

\* Subnets with the same mask have the same size.
LEMMA SameShape ==
  ASSUME NEW sn1, NEW r1, NEW k1, NEW v1, Shape(sn1, r1, k1, v1),
         NEW sn2, NEW r2, NEW k2, NEW v2, Shape(sn2, r2, k2, v2),
         sn1.subnet_mask = sn2.subnet_mask
  PROVE  r1 = r2 /\ k1 = k2
<1> DEFINE B == 2 ^ Width
<1>1. /\ r1 \in Nat \ {0} /\ k1 \in Nat /\ B = r1 * k1
      /\ r2 \in Nat \ {0} /\ k2 \in Nat /\ B = r2 * k2
      /\ B - r1 = B - r2 /\ B \in Nat
  BY WidthFacts DEF Shape
<1> HIDE DEF B
<1>2. r1 = r2
  BY <1>1
<1>3. r1 * k1 = r1 * k2
  BY <1>1, <1>2
<1> QED
  BY <1>1, <1>2, <1>3, Cancel

\* _change_subnet keeps the place of an ID in its subnet.
LEMMA Changed ==
  ASSUME NEW from, NEW r, NEW k, NEW v, Shape(from, r, k, v),
         NEW to, NEW w, Shape(to, r, k, w), NEW n \in Int
  PROVE  /\ n \div 2 ^ Width \in Int
         /\ n % r \in 0 .. r - 1
         /\ r * w + (n % r) \in 0 .. 2 ^ Width - 1
         /\ ChangeSubnet(n, from, to) = 2 ^ Width * (n \div 2 ^ Width) + (r * w + (n % r))
<1> DEFINE B == 2 ^ Width
           x == n \div B
           u == n % B
           q == u \div r
           a == n % r
<1>1. /\ r \in Nat \ {0} /\ k \in Nat \ {0} /\ B = r * k /\ B \in Nat \ {0}
      /\ w \in 0 .. k - 1 /\ to.subnet = r * w
  BY WidthFacts DEF Shape
<1>2. u \in 0 .. B - 1 /\ q \in 0 .. k - 1 /\ a \in 0 .. r - 1 /\ u = r * q + a
      /\ And(n, from.subnet_mask) = r * q
  BY AndValue
<1>3. x \in Int /\ n = B * x + u
  <2> HIDE DEF B
  <2> QED
    BY <1>1, DivMod, Zenon
<1>4. ChangeSubnet(n, from, to) = r * w + (n - r * q)
  BY <1>1, <1>2 DEF ChangeSubnet
<1> HIDE DEF B, x, u, q, a
<1>5. ChangeSubnet(n, from, to) = B * x + (r * w + a)
  BY <1>1, <1>2, <1>3, <1>4
<1>6. r * w + a \in 0 .. B - 1
  <2>1. w \in Int /\ 0 <= w /\ w <= k - 1 /\ k - 1 \in Int
    BY <1>1
  <2>2. r * 0 <= r * w /\ r * w <= r * (k - 1)
    BY <1>1, <2>1, MulMono
  <2>3. r * 0 = 0 /\ r * (k - 1) = B - r /\ r * w \in Int
    BY <1>1, <2>1
  <2> QED
    BY <1>1, <1>2, <2>2, <2>3
<1> QED
  BY <1>2, <1>3, <1>5, <1>6 DEF B, x, a

\* _change_subnet, between subnets of one size, moves every ID into its second
\* subnet, as far as the bits of the mask tell.
THEOREM ChangeInto ==
  ASSUME NEW from, IsSubnet(from), NEW to, IsSubnet(to),
         from.subnet_mask = to.subnet_mask, NEW n \in Int
  PROVE  /\ ChangeSubnet(n, from, to) \in Int
         /\ And(ChangeSubnet(n, from, to), to.subnet_mask) = to.subnet
<1>1. PICK r, k, v : Shape(from, r, k, v)
  BY HasShape
<1>2. PICK r2, k2, w : Shape(to, r2, k2, w)
  BY HasShape
<1>3. Shape(to, r, k, w)
  BY <1>1, <1>2, SameShape
<1> DEFINE B == 2 ^ Width
           x == n \div B
           a == n % r
           c == ChangeSubnet(n, from, to)
<1>4. /\ x \in Int /\ a \in 0 .. r - 1 /\ r * w + a \in 0 .. B - 1
      /\ c = B * x + (r * w + a)
  BY <1>1, <1>3, Changed
<1>5. B \in Nat \ {0} /\ r \in Nat \ {0} /\ w \in Int /\ to.subnet = r * w
  BY <1>3, WidthFacts DEF Shape
<1> HIDE DEF B, x, a, c
<1>6. c \in Int
  BY <1>4, <1>5
<1>7. c % B = r * w + a
  <2> DEFINE y == r * w + a
  <2>1. y \in 0 .. B - 1 /\ c = B * x + y
    BY <1>4
  <2> HIDE DEF y
  <2>2. (B * x + y) % B = y
    BY <1>4, <1>5, <2>1, DivUnique, Zenon
  <2>3. c % B = y
    BY <2>1, <2>2
  <2> QED
    BY <2>3 DEF y
<1>8. (c % B) \div r = w
  <2>1. (r * w + a) \div r = w
    BY <1>4, <1>5, DivUnique
  <2> QED
    BY <1>7, <2>1
<1>9. And(c, to.subnet_mask) = r * ((c % B) \div r)
  BY <1>3, <1>6, AndValue DEF B
<1> QED
  BY <1>5, <1>6, <1>8, <1>9 DEF c

\* Two translations, there and back, give the ID that one has begun with: a
\* creditors agent gets back the ID that it sent.
THEOREM ChangeBack ==
  ASSUME NEW from, IsSubnet(from), NEW to, IsSubnet(to),
         from.subnet_mask = to.subnet_mask, NEW n \in Int,
         And(n, from.subnet_mask) = from.subnet
  PROVE  ChangeSubnet(ChangeSubnet(n, from, to), to, from) = n
<1> DEFINE c == ChangeSubnet(n, from, to)
<1>1. c \in Int /\ And(c, to.subnet_mask) = to.subnet
  BY ChangeInto
<1>2. c = to.subnet + (n - from.subnet)
  BY DEF ChangeSubnet
<1>3. from.subnet \in Int /\ to.subnet \in Int
  <2>1. \A sn : IsSubnet(sn) => sn.subnet \in Int
    <3> TAKE sn
    <3> HAVE IsSubnet(sn)
    <3>1. PICK r, k, v : Shape(sn, r, k, v)
      BY HasShape
    <3>2. r \in Nat /\ v \in Int /\ sn.subnet = r * v
      BY <3>1 DEF Shape
    <3> QED
      BY <3>2
  <2> QED
    BY <2>1
<1>4. ChangeSubnet(c, to, from) = from.subnet + (c - to.subnet)
  BY <1>1 DEF ChangeSubnet
<1> HIDE DEF c
<1>5. ChangeSubnet(c, to, from) = n
  BY <1>1, <1>2, <1>3, <1>4
<1> QED
  BY <1>5 DEF c

\* The translated ID is a 64-bit one when the two subnets have IDs of the same
\* sign.  (Without this premise the run messages_sign shows that it need not be.)
THEOREM ChangeInInt64 ==
  ASSUME NEW from, IsSubnet(from), NEW to, IsSubnet(to),
         from.subnet_mask = to.subnet_mask, NEW n \in Int, Match(from, n),
         from.subnet >= 2 ^ (Width - 1) <=> to.subnet >= 2 ^ (Width - 1)
  PROVE  ChangeSubnet(n, from, to) \in Int64
<1>1. PICK r, k, v : Shape(from, r, k, v)
  BY HasShape
<1>2. PICK r2, k2, w : Shape(to, r2, k2, w)
  BY HasShape
<1>3. Shape(to, r, k, w)
  BY <1>1, <1>2, SameShape
<1> DEFINE B == 2 ^ Width
           H == 2 ^ (Width - 1)
           x == n \div B
           u == n % B
           a == n % r
           c == ChangeSubnet(n, from, to)
<1>4. /\ x \in Int /\ a \in 0 .. r - 1
      /\ c = B * x + (r * w + a)
  BY <1>1, <1>3, Changed
<1>5. n \in Int64 /\ u \div r = v
  BY <1>1, MatchShape
<1>6. u \in 0 .. B - 1 /\ u = r * v + a
  BY <1>1, <1>5, AndValue
<1>7. /\ B \in Nat \ {0} /\ H \in Nat \ {0} /\ B = 2 * H /\ n \in -H .. H - 1
      /\ r \in Nat \ {0} /\ k \in Nat \ {0} /\ B = r * k
      /\ v \in 0 .. k - 1 /\ w \in 0 .. k - 1
      /\ r * v >= H <=> r * w >= H
      /\ k = 1 \/ \E h \in Nat \ {0} : k = 2 * h
  BY <1>1, <1>3, <1>5, WidthFacts DEF Shape, Int64
<1>8. n = B * x + u
  <2> HIDE DEF B
  <2> QED
    BY <1>7, DivMod, Zenon
<1> HIDE DEF B, H, x, u, a, c
<1>9. c = n + (r * w - r * v)
  BY <1>4, <1>6, <1>7, <1>8
<1>10. CASE k = 1
  BY <1>7, <1>9, <1>10 DEF Int64, H, c
<1>11. ASSUME NEW h \in Nat \ {0}, k = 2 * h PROVE c \in -H .. H - 1
  <2>1. H = r * h
    <3>1. 2 * H = 2 * (r * h) /\ r * h \in Int
      BY <1>7, <1>11
    <3> QED
      BY <1>7, <3>1
  <2>2. v \in Int /\ w \in Int /\ r * v \in Int /\ r * w \in Int
    BY <1>7
  <2>3. v <= h - 1 => r * v <= H - r
    <3>1. v <= h - 1 => r * v <= r * (h - 1)
      BY <1>7, <2>2, MulMono
    <3>2. r * (h - 1) = H - r
      BY <1>7, <2>1
    <3> QED
      BY <3>1, <3>2
  <2>4. w <= h - 1 => r * w <= H - r
    <3>1. w <= h - 1 => r * w <= r * (h - 1)
      BY <1>7, <2>2, MulMono
    <3>2. r * (h - 1) = H - r
      BY <1>7, <2>1
    <3> QED
      BY <3>1, <3>2
  <2>5. (h <= v => H <= r * v) /\ (h <= w => H <= r * w)
    BY <1>7, <2>1, <2>2, MulMono
  <2>6. 0 <= r * w /\ 0 <= r * v
    BY <1>7, MulMono
  <2>7. r * w <= B - r
    <3>1. r * w <= r * (k - 1)
      BY <1>7, <2>2, MulMono
    <3>2. r * (k - 1) = B - r
      BY <1>7
    <3> QED
      BY <3>1, <3>2
  <2>8. (x = 0 /\ n >= 0) \/ (x = -1 /\ n < 0)
    <3>1. ~(1 <= x)
      <4> SUFFICES ASSUME 1 <= x PROVE FALSE
        OBVIOUS
      <4>1. B * 1 <= B * x
        BY <1>4, <1>7, MulMono
      <4> QED
        BY <1>4, <1>6, <1>7, <1>8, <4>1
    <3>2. ~(x <= -2)
      <4> SUFFICES ASSUME x <= -2 PROVE FALSE
        OBVIOUS
      <4>1. B * x <= B * (-2)
        BY <1>4, <1>7, MulMono
      <4> QED
        BY <1>4, <1>6, <1>7, <1>8, <4>1
    <3>3. x = 0 \/ x = -1
      BY <1>4, <3>1, <3>2
    <3>4. x = 0 => n = u
      BY <1>6, <1>7, <1>8
    <3>5. x = -1 => n = u - B
      BY <1>6, <1>7, <1>8
    <3> QED
      BY <1>6, <1>7, <3>3, <3>4, <3>5
  <2>9. CASE x = 0 /\ n >= 0
    <3>1. n = r * v + a /\ c = r * w + a
      <4>1. B * x = 0
        BY <1>7, <2>9
      <4> QED
        BY <1>4, <1>6, <1>7, <1>8, <2>2, <4>1
    <3>2. r * v < H
      BY <1>4, <1>7, <2>2, <3>1
    <3>3. r * w < H
      BY <1>7, <2>2, <3>2
    <3>4. w <= h - 1
      BY <1>7, <2>2, <2>5, <3>3
    <3> QED
      BY <1>4, <1>7, <2>2, <2>4, <2>6, <3>1, <3>4
  <2>10. CASE x = -1 /\ n < 0
    <3>1. n = r * v + a - B /\ c = r * w + a - B
      <4>1. B * x = -B
        BY <1>7, <2>10
      <4> QED
        BY <1>4, <1>6, <1>7, <1>8, <2>2, <4>1
    <3>2. r * v + a >= H
      BY <1>4, <1>7, <2>2, <3>1
    <3>3. ~(v <= h - 1)
      BY <1>4, <1>7, <2>2, <2>3, <3>2
    <3>4. r * w >= H
      BY <1>7, <2>2, <2>5, <3>3
    <3> QED
      BY <1>4, <1>7, <2>2, <2>7, <3>1, <3>4
  <2> QED
    BY <2>8, <2>9, <2>10
<1> QED
  BY <1>7, <1>10, <1>11, Zenon DEF Int64, H, c

-----------------------------------------------------------------------------
(* Subnet.binding_key                                                      *)

\* u without the bytes after byte i.
Above(u, i) == u \div 2 ^ (ByteBits * (Bytes - i))

LEMMA ByteFacts ==
   /\ Bytes \in Nat \ {0} /\ IdDigits = 2 * Bytes
   /\ ByteBits \in Nat \ {0} /\ ByteBits = DigitBits + DigitBits /\ DigitBits \in Nat \ {0}
   /\ Width = ByteBits * Bytes
  BY WidthAssumption DEF Bytes, ByteBits, Width

LEMMA BytePowers == \A i, j \in Nat :
  /\ 2 ^ (ByteBits * i) \in Nat \ {0}
  /\ 2 ^ (ByteBits * (i + j)) = 2 ^ (ByteBits * i) * 2 ^ (ByteBits * j)
<1> TAKE i, j \in Nat
<1>1. ByteBits \in Nat
  BY ByteFacts
<1>2. /\ ByteBits * i \in Nat /\ ByteBits * j \in Nat
      /\ ByteBits * (i + j) = ByteBits * i + ByteBits * j
  BY <1>1
<1>3. 2 ^ (ByteBits * i) \in Nat \ {0}
  BY <1>2, PowNat
<1>4. 2 ^ (ByteBits * i + ByteBits * j) = 2 ^ (ByteBits * i) * 2 ^ (ByteBits * j)
  BY <1>2, PowAdd, Zenon
<1> QED
  BY <1>2, <1>3, <1>4

LEMMA OneByte ==
  /\ 2 ^ (ByteBits * 1) = 2 ^ ByteBits /\ 2 ^ (ByteBits * 0) = 1
  /\ 2 ^ DigitBits \in Nat /\ 2 ^ DigitBits >= 2
  /\ 2 ^ ByteBits \in Nat \ {0} /\ 2 ^ ByteBits = 2 ^ DigitBits * 2 ^ DigitBits
<1>1. ByteBits \in Nat \ {0} /\ ByteBits = DigitBits + DigitBits /\ DigitBits \in Nat \ {0}
  BY ByteFacts
<1>2. ByteBits * 1 = ByteBits /\ ByteBits * 0 = 0
  BY <1>1
<1>3. 2 ^ (ByteBits * 0) = 1
  <2> DEFINE e == ByteBits * 0
  <2>1. e = 0
    BY <1>2
  <2> HIDE DEF e
  <2>2. 2 ^ e = 1
    BY <2>1
  <2> QED
    BY <2>2 DEF e
<1>4. 2 ^ DigitBits \in Nat /\ 2 ^ DigitBits >= 2
  <2>1. DigitBits - 1 \in Nat /\ 1 + (DigitBits - 1) = DigitBits
    BY <1>1
  <2>2. /\ 2 ^ (1 + (DigitBits - 1)) = 2 ^ 1 * 2 ^ (DigitBits - 1)
        /\ 2 ^ (DigitBits - 1) \in Nat \ {0}
    BY <2>1, PowAdd, PowNat, Zenon
  <2>3. 2 ^ 1 = 2
    OBVIOUS
  <2>4. 2 ^ DigitBits = 2 * 2 ^ (DigitBits - 1)
    BY <2>1, <2>2, <2>3
  <2> DEFINE y == 2 ^ (DigitBits - 1)
             z == 2 ^ DigitBits
  <2>5. z = 2 * y /\ y \in Nat \ {0}
    BY <2>2, <2>4
  <2> HIDE DEF y, z
  <2>6. z \in Nat /\ z >= 2
    BY <2>5
  <2> QED
    BY <2>6 DEF z
<1>5. 2 ^ ByteBits = 2 ^ DigitBits * 2 ^ DigitBits /\ 2 ^ ByteBits \in Nat \ {0}
  BY <1>1, PowAdd, PowNat
<1> QED
  BY <1>2, <1>3, <1>4, <1>5

\* The first i bytes are the first i - 1 ones and byte i.
LEMMA AboveStep ==
  ASSUME NEW u \in Int, NEW i \in 1 .. Bytes
  PROVE  /\ Above(u, i - 1) \in Int /\ Above(u, i) \in Int
         /\ ByteOf(u, i) = Above(u, i) % 2 ^ ByteBits
         /\ Above(u, i) \div 2 ^ ByteBits = Above(u, i - 1)
         /\ ByteOf(u, i) \in Int
         /\ Above(u, i) = 2 ^ ByteBits * Above(u, i - 1) + ByteOf(u, i)
<1> DEFINE p == 2 ^ ByteBits
           j == Bytes - i
           s == 2 ^ (ByteBits * j)
           S == 2 ^ (ByteBits * (j + 1))
<1>1. j \in Nat /\ 1 \in Nat /\ Bytes - (i - 1) = j + 1 /\ i - 1 \in Nat
  BY ByteFacts
<1>2. p \in Nat \ {0} /\ s \in Nat \ {0} /\ S = s * p
  <2> HIDE DEF j
  <2>1. 2 ^ (ByteBits * (j + 1)) = 2 ^ (ByteBits * j) * 2 ^ (ByteBits * 1)
        /\ 2 ^ (ByteBits * j) \in Nat \ {0}
    BY <1>1, BytePowers, Zenon
  <2> QED
    BY <2>1, OneByte
<1>3. Above(u, i) = u \div s /\ Above(u, i - 1) = u \div S /\ ByteOf(u, i) = (u \div s) % p
  BY <1>1 DEF Above, ByteOf
<1> HIDE DEF p, s, S
<1>4. u \div s \in Int
  BY <1>2, DivMod
<1>5. (u \div s) \div p = u \div S
  BY <1>2, DivOfDiv, Zenon
<1> DEFINE d == u \div s
<1>6. d \in Int /\ Above(u, i) = d /\ ByteOf(u, i) = d % p /\ d \div p = Above(u, i - 1)
  BY <1>3, <1>4, <1>5
<1> HIDE DEF d
<1>7. d \div p \in Int /\ d % p \in 0 .. p - 1 /\ d = p * (d \div p) + (d % p)
  BY <1>2, <1>6, DivMod, Zenon
<1>8. d % p \in Int
  BY <1>2, <1>7
<1> QED
  BY <1>6, <1>7, <1>8 DEF p

LEMMA AboveNone ==
  ASSUME NEW u \in 0 .. 2 ^ Width - 1
  PROVE  Above(u, 0) = 0
<1> DEFINE B == 2 ^ Width
<1>1. B \in Nat \ {0} /\ Width = ByteBits * (Bytes - 0)
  BY WidthFacts, ByteFacts
<1>2. Above(u, 0) = u \div B
  BY <1>1 DEF Above
<1> HIDE DEF B
<1>3. u \in 0 .. B - 1
  BY DEF B
<1>4. u \div B = 0
  BY <1>1, <1>3, DivSmall
<1> QED
  BY <1>2, <1>4

\* Two numbers agree in their first k bytes if they agree byte by byte.
LEMMA SamePrefix ==
  ASSUME NEW u \in 0 .. 2 ^ Width - 1, NEW w \in 0 .. 2 ^ Width - 1,
         NEW k \in 0 .. Bytes
  PROVE  (\A i \in 1 .. k : ByteOf(u, i) = ByteOf(w, i)) <=> Above(u, k) = Above(w, k)
<1> DEFINE Same(j) == \A i \in 1 .. j : ByteOf(u, i) = ByteOf(w, i)
           T == {j \in Nat : j <= Bytes => (Same(j) <=> Above(u, j) = Above(w, j))}
<1>0. u \in Int /\ w \in Int /\ Bytes \in Nat /\ k \in Nat /\ k <= Bytes
  BY WidthFacts, ByteFacts
<1>1. 0 \in T
  <2>1. Same(0)
    OBVIOUS
  <2>2. Above(u, 0) = Above(w, 0)
    BY AboveNone
  <2> QED
    BY <2>1, <2>2
<1>2. \A j \in T : j + 1 \in T
  <2> TAKE j \in T
  <2>1. j \in Nat /\ j + 1 \in Nat
    OBVIOUS
  <2>2. ASSUME j + 1 <= Bytes PROVE Same(j + 1) <=> Above(u, j + 1) = Above(w, j + 1)
    <3>1. j + 1 \in 1 .. Bytes /\ j <= Bytes /\ (j + 1) - 1 = j
      BY <1>0, <2>1, <2>2
    <3>2. Same(j) <=> Above(u, j) = Above(w, j)
      BY <3>1
    <3>3. Same(j + 1) <=> Same(j) /\ ByteOf(u, j + 1) = ByteOf(w, j + 1)
      <4>1. 1 .. j + 1 = (1 .. j) \cup {j + 1}
        BY <2>1
      <4> QED
        BY <4>1
    <3> DEFINE p == 2 ^ ByteBits
    <3>4. /\ Above(u, j + 1) = p * Above(u, j) + ByteOf(u, j + 1)
          /\ Above(w, j + 1) = p * Above(w, j) + ByteOf(w, j + 1)
          /\ Above(u, j + 1) % p = ByteOf(u, j + 1) /\ Above(u, j + 1) \div p = Above(u, j)
          /\ Above(w, j + 1) % p = ByteOf(w, j + 1) /\ Above(w, j + 1) \div p = Above(w, j)
      <4> DEFINE i == j + 1
      <4>1. i \in 1 .. Bytes /\ i - 1 = j
        BY <3>1
      <4> HIDE DEF i
      <4>2. /\ Above(u, i) = p * Above(u, i - 1) + ByteOf(u, i)
            /\ Above(u, i) % p = ByteOf(u, i) /\ Above(u, i) \div p = Above(u, i - 1)
        BY <1>0, <4>1, AboveStep, Zenon
      <4>3. /\ Above(w, i) = p * Above(w, i - 1) + ByteOf(w, i)
            /\ Above(w, i) % p = ByteOf(w, i) /\ Above(w, i) \div p = Above(w, i - 1)
        BY <1>0, <4>1, AboveStep, Zenon
      <4> QED
        BY <4>1, <4>2, <4>3 DEF i
    <3> HIDE DEF p, Same
    <3>5. /\ Above(u, j) = Above(w, j) /\ ByteOf(u, j + 1) = ByteOf(w, j + 1)
             => Above(u, j + 1) = Above(w, j + 1)
          /\ Above(u, j + 1) = Above(w, j + 1)
             => Above(u, j) = Above(w, j) /\ ByteOf(u, j + 1) = ByteOf(w, j + 1)
      BY <3>4, Zenon
    <3> QED
      BY <3>2, <3>3, <3>5
  <2> QED
    BY <2>1, <2>2
<1>3. T \in SUBSET Nat
  OBVIOUS
<1> HIDE DEF T
<1>4. T = Nat
  BY <1>1, <1>2, <1>3, NatInductionSet
<1>5. k \in T
  BY <1>0, <1>4
<1> QED
  BY <1>0, <1>5 DEF T

\* The bytes of a mask of whole bytes are ones and then zeros.
LEMMA MaskBytes ==
  ASSUME NEW j \in 0 .. Bytes, NEW i \in 1 .. Bytes
  PROVE  ByteOf(2 ^ Width - 2 ^ (ByteBits * j), i) =
            IF i <= Bytes - j THEN 2 ^ ByteBits - 1 ELSE 0
<1> DEFINE B == 2 ^ Width
           r == 2 ^ (ByteBits * j)
           s == 2 ^ (ByteBits * (Bytes - i))
           p == 2 ^ ByteBits
           c == 2 ^ (ByteBits * (i - 1))
<1>1. /\ Bytes \in Nat /\ i \in Nat /\ j \in Nat
      /\ Bytes - i \in Nat /\ i - 1 \in Nat /\ 1 \in Nat
  BY ByteFacts
<1>2. s \in Nat \ {0} /\ r \in Nat \ {0} /\ p \in Nat \ {0} /\ c \in Nat \ {0}
  BY <1>1, BytePowers, OneByte, Zenon
<1>3. B = s * (p * c)
  <2> DEFINE e == ByteBits * i
  <2>1. (Bytes - i) + i = Bytes /\ 1 + (i - 1) = i
    BY <1>1
  <2>2. 2 ^ (ByteBits * ((Bytes - i) + i)) = s * 2 ^ (ByteBits * i)
    BY <1>1, BytePowers
  <2>3. 2 ^ (ByteBits * (1 + (i - 1))) = 2 ^ (ByteBits * 1) * 2 ^ (ByteBits * (i - 1))
    BY <1>1, BytePowers
  <2>4. 2 ^ (ByteBits * i) = p * c
    BY <2>1, <2>3, OneByte
  <2>5. B = s * 2 ^ (ByteBits * i)
    BY <2>1, <2>2, ByteFacts
  <2> QED
    BY <2>4, <2>5
<1>4. ByteOf(B - r, i) = ((B - r) \div s) % p
  BY DEF ByteOf
<1>5. CASE i <= Bytes - j
  <2> DEFINE b == 2 ^ (ByteBits * ((Bytes - i) - j))
  <2>1. (Bytes - i) - j \in Nat /\ j + ((Bytes - i) - j) = Bytes - i
    BY <1>1, <1>5
  <2>2. 2 ^ (ByteBits * (j + ((Bytes - i) - j))) = r * b /\ b \in Nat \ {0}
    BY <1>1, <2>1, BytePowers
  <2>3. s = r * b
    BY <2>1, <2>2
  <2> HIDE DEF B, r, s, p, c, b
  <2>4. s - r \in 0 .. s - 1
    <3>1. r * 1 <= r * b
      BY <1>2, <2>2, MulMono
    <3> QED
      BY <1>2, <2>3, <3>1
  <2>5. B - r = s * (p * c - 1) + (s - r) /\ p * c - 1 \in Int
    BY <1>2, <1>3
  <2>6. (B - r) \div s = p * c - 1
    <3> DEFINE x == p * c - 1
               y == s - r
    <3>1. x \in Int /\ y \in 0 .. s - 1 /\ B - r = s * x + y
      BY <2>4, <2>5
    <3> HIDE DEF x, y
    <3>2. (s * x + y) \div s = x
      BY <1>2, <3>1, DivUnique
    <3> QED
      BY <3>1, <3>2 DEF x
  <2>7. p * c - 1 = p * (c - 1) + (p - 1) /\ c - 1 \in Int /\ p - 1 \in 0 .. p - 1
    BY <1>2
  <2>8. (p * (c - 1) + (p - 1)) % p = p - 1
    BY <1>2, <2>7, DivUnique, Zenon
  <2>9. ByteOf(B - r, i) = p - 1
    BY <1>4, <2>6, <2>7, <2>8
  <2> QED
    BY <1>5, <2>9 DEF B, r, p
<1>6. CASE ~(i <= Bytes - j)
  <2> DEFINE b == 2 ^ (ByteBits * ((j - 1) - (Bytes - i)))
  <2>1. /\ (j - 1) - (Bytes - i) \in Nat /\ (Bytes - i) + ((j - 1) - (Bytes - i)) = j - 1
        /\ j - 1 \in Nat /\ (j - 1) + 1 = j
    BY <1>1, <1>6
  <2>2. 2 ^ (ByteBits * ((Bytes - i) + ((j - 1) - (Bytes - i)))) = s * b /\ b \in Nat \ {0}
    BY <1>1, <2>1, BytePowers
  <2>3. 2 ^ (ByteBits * ((j - 1) + 1)) = 2 ^ (ByteBits * (j - 1)) * 2 ^ (ByteBits * 1)
    BY <1>1, <2>1, BytePowers
  <2>4. r = (s * b) * p
    BY <2>1, <2>2, <2>3, OneByte
  <2> HIDE DEF B, r, s, p, c, b
  <2>5. B - r = s * (p * (c - b)) + 0 /\ p * (c - b) \in Int /\ c - b \in Int
    BY <1>2, <1>3, <2>2, <2>4
  <2>6. (B - r) \div s = p * (c - b)
    <3> DEFINE x == p * (c - b)
    <3>1. x \in Int /\ 0 \in 0 .. s - 1 /\ B - r = s * x + 0
      BY <1>2, <2>5
    <3> HIDE DEF x
    <3>2. (s * x + 0) \div s = x
      BY <1>2, <3>1, DivUnique
    <3> QED
      BY <3>1, <3>2 DEF x
  <2>7. (p * (c - b)) % p = 0
    <3> DEFINE x == c - b
    <3>1. x \in Int /\ 0 \in 0 .. p - 1
      BY <1>2, <2>5
    <3> HIDE DEF x
    <3>2. (p * x + 0) % p = 0 /\ p * x + 0 = p * x
      BY <1>2, <3>1, DivUnique
    <3>3. (p * x) % p = 0
      BY <3>2
    <3> QED
      BY <3>3 DEF x
  <2>8. ByteOf(B - r, i) = 0
    BY <1>4, <2>6, <2>7
  <2> QED
    BY <1>6, <2>8 DEF B, r
<1> QED
  BY <1>5, <1>6

\* A mask that Subnet.binding_key accepts does not end inside a byte.
LEMMA EvenMask ==
  ASSUME NEW t \in 0 .. IdDigits,
         \A i \in 1 .. Bytes :
            ByteOf(2 ^ Width - 2 ^ (DigitBits * t), i) \in {0, 2 ^ ByteBits - 1}
  PROVE  \E j \in 0 .. Bytes : DigitBits * t = ByteBits * j
<1>1. /\ t \in Nat /\ Bytes \in Nat /\ t <= 2 * Bytes
      /\ DigitBits \in Nat /\ ByteBits = 2 * DigitBits
  BY ByteFacts
<1>2. CASE t % 2 = 0
  <2>1. t \div 2 \in 0 .. Bytes /\ t = 2 * (t \div 2)
    BY <1>1, <1>2
  <2>2. DigitBits * t = ByteBits * (t \div 2)
    <3> DEFINE j == t \div 2
    <3>1. t = 2 * j /\ j \in Nat
      BY <2>1
    <3> HIDE DEF j
    <3>2. DigitBits * t = ByteBits * j
      BY <1>1, <3>1
    <3> QED
      BY <3>2 DEF j
  <2> QED
    BY <2>1, <2>2
<1>3. CASE t % 2 # 0
  <2> DEFINE j == t \div 2
             i == Bytes - j
  <2>1. j \in Nat /\ t = 2 * j + 1
    BY <1>1, <1>3
  <2> HIDE DEF j
  <2>2. i \in 1 .. Bytes /\ Bytes - i = j /\ i \in Nat /\ i - 1 \in Nat
    BY <1>1, <2>1
  <2> DEFINE B == 2 ^ Width
             s == 2 ^ (ByteBits * j)
             r == 2 ^ (DigitBits * t)
             p == 2 ^ ByteBits
             d == 2 ^ DigitBits
             c == 2 ^ (ByteBits * (i - 1))
  <2>3. d \in Nat /\ d >= 2 /\ p = d * d /\ p \in Nat \ {0}
    BY OneByte
  <2>4. s \in Nat \ {0} /\ c \in Nat \ {0}
    BY <2>1, <2>2, BytePowers
  <2>5. r = s * d
    <3>1. ByteBits * j \in Nat /\ DigitBits * t = ByteBits * j + DigitBits
      BY <1>1, <2>1
    <3>2. 2 ^ (ByteBits * j + DigitBits) = s * d
      BY <1>1, <3>1, PowAdd, Zenon
    <3> QED
      BY <3>1, <3>2
  <2>6. B = s * (p * c)
    <3>1. j + i = Bytes /\ 1 + (i - 1) = i /\ 1 \in Nat
      BY <1>1, <2>1, <2>2
    <3>2. 2 ^ (ByteBits * (j + i)) = s * 2 ^ (ByteBits * i)
      BY <2>1, <2>2, BytePowers
    <3>3. 2 ^ (ByteBits * (1 + (i - 1))) = 2 ^ (ByteBits * 1) * 2 ^ (ByteBits * (i - 1))
      BY <2>2, <3>1, BytePowers
    <3>4. 2 ^ (ByteBits * i) = p * c
      BY <3>1, <3>3, OneByte
    <3>5. B = s * 2 ^ (ByteBits * i)
      BY <3>1, <3>2, ByteFacts
    <3> QED
      BY <3>4, <3>5
  <2>7. ByteOf(B - r, i) = ((B - r) \div s) % p
    BY <2>2 DEF ByteOf
  <2>8. ByteOf(B - r, i) \in {0, p - 1}
    BY <2>2
  <2> HIDE DEF B, s, r, p, d, c, i
  <2>9. (B - r) \div s = p * c - d
    <3> DEFINE x == p * c - d
    <3>1. x \in Int /\ 0 \in 0 .. s - 1 /\ B - r = s * x + 0
      BY <2>3, <2>4, <2>5, <2>6
    <3> HIDE DEF x
    <3>2. (s * x + 0) \div s = x
      BY <2>4, <3>1, DivUnique
    <3> QED
      BY <3>1, <3>2 DEF x
  <2>10. p - d \in 0 .. p - 1 /\ p - d # 0 /\ p - d # p - 1
    <3>1. d * 2 <= d * d
      BY <2>3, MulMono
    <3> QED
      BY <2>3, <3>1
  <2>11. (p * c - d) % p = p - d
    <3>1. p * c - d = p * (c - 1) + (p - d) /\ c - 1 \in Int
      BY <2>3, <2>4
    <3>2. (p * (c - 1) + (p - d)) % p = p - d
      BY <2>3, <2>10, <3>1, DivUnique
    <3> QED
      BY <3>1, <3>2
  <2> QED
    BY <2>7, <2>8, <2>9, <2>10, <2>11
<1> QED
  BY <1>2, <1>3

\* The binding key of a subnet matches the routing key of an ID exactly when the
\* ID is in the subnet: the broker's bindings and Subnet.match select the same.
THEOREM KeyMatchesIffMatch ==
  ASSUME NEW sn, IsSubnet(sn), HasBindingKey(sn), NEW n \in Int64
  PROVE  KeyMatches(sn, n) <=> Match(sn, n)
<1>1. PICK t \in 0 .. IdDigits, v \in Nat :
        /\ v * 2 ^ (DigitBits * t) < 2 ^ Width
        /\ sn = [subnet |-> v * 2 ^ (DigitBits * t),
                 subnet_mask |-> 2 ^ Width - 2 ^ (DigitBits * t)]
  BY DEF IsSubnet
<1>2. PICK j \in 0 .. Bytes : DigitBits * t = ByteBits * j
  <2>1. sn.subnet_mask = 2 ^ Width - 2 ^ (DigitBits * t)
    BY <1>1
  <2>2. \A i \in 1 .. Bytes :
           ByteOf(2 ^ Width - 2 ^ (DigitBits * t), i) \in {0, 2 ^ ByteBits - 1}
    BY <2>1 DEF HasBindingKey
  <2> QED
    BY <2>2, EvenMask
<1> DEFINE r == 2 ^ (ByteBits * j)
           k == 2 ^ (DigitBits * (IdDigits - t))
           B == 2 ^ Width
           u == n % B
           c == Bytes - j
<1>3. Shape(sn, r, k, v)
  BY <1>1, <1>2, ShapeOf
<1>4. n \in Int
  BY WidthFacts DEF Int64
<1>5. Bytes \in Nat /\ c \in 0 .. Bytes /\ Bytes - c = j
  BY ByteFacts
<1>6. B \in Nat \ {0} /\ r \in Nat \ {0} /\ k \in Nat \ {0} /\ B = r * k /\ v \in 0 .. k - 1
      /\ sn.subnet = r * v /\ sn.subnet_mask = B - r
  BY <1>3, WidthFacts DEF Shape
<1>7. DOMAIN BindingKey(sn) = 1 .. c
  <2> DEFINE S == {i \in 1 .. Bytes : ByteOf(sn.subnet_mask, i) # 0}
  <2>1. \A i \in 1 .. Bytes : ByteOf(B - r, i) = IF i <= c THEN 2 ^ ByteBits - 1 ELSE 0
    BY MaskBytes
  <2>2. 2 ^ ByteBits - 1 # 0
    <3> DEFINE d == 2 ^ DigitBits
               p == 2 ^ ByteBits
    <3>1. d \in Nat /\ d >= 2 /\ p = d * d
      BY OneByte
    <3> HIDE DEF d, p
    <3>2. d * 2 <= d * d
      BY <3>1, MulMono
    <3>3. p - 1 # 0
      BY <3>1, <3>2
    <3> QED
      BY <3>3 DEF p
  <2>3. S = 1 .. c
    <3>1. \A i \in 1 .. Bytes : ByteOf(sn.subnet_mask, i) # 0 <=> i <= c
      BY <1>6, <2>1, <2>2, Zenon
    <3> HIDE DEF c
    <3> QED
      BY <1>5, <3>1
  <2>4. Cardinality(1 .. c) = c
    BY <1>5, FS_Interval
  <2>5. BindingKey(sn) = [i \in 1 .. Cardinality(S) |-> ByteOf(sn.subnet, i)]
    BY DEF BindingKey
  <2> HIDE DEF S, c
  <2> QED
    BY <2>3, <2>4, <2>5
<1>8. \A i \in 1 .. c : BindingKey(sn)[i] = ByteOf(sn.subnet, i)
  BY <1>7, Zenon DEF BindingKey
<1>9. \A i \in 1 .. c : RoutingKey(n)[i] = ByteOf(u, i)
  <2>1. \A i \in 1 .. c : i \in 1 .. Bytes
    <3> HIDE DEF c
    <3> QED
      BY <1>5
  <2> QED
    BY <2>1 DEF RoutingKey
<1>10. KeyMatches(sn, n) <=> \A i \in 1 .. c : ByteOf(u, i) = ByteOf(sn.subnet, i)
  BY <1>7, <1>8, <1>9 DEF KeyMatches
<1>11. u \in 0 .. B - 1
  BY <1>3, <1>4, AndValue
<1>12. sn.subnet \in 0 .. B - 1
  <2> HIDE DEF B, r, k
  <2>1. 0 <= v /\ v <= k - 1 /\ v \in Int /\ k - 1 \in Int
    BY <1>6
  <2>2. r * 0 <= r * v /\ r * v <= r * (k - 1)
    BY <1>6, <2>1, MulMono
  <2>3. r * 0 = 0 /\ r * (k - 1) = B - r /\ r * v \in Int
    BY <1>6, <2>1
  <2> QED
    BY <1>6, <2>2, <2>3
<1>13. KeyMatches(sn, n) <=> Above(u, c) = Above(sn.subnet, c)
  BY <1>5, <1>10, <1>11, <1>12, SamePrefix
<1>14. Above(u, c) = u \div r /\ Above(sn.subnet, c) = (r * v) \div r
  BY <1>5, <1>6 DEF Above
<1>15. (r * v) \div r = v
  <2> HIDE DEF r, k, B
  <2>1. (r * v + 0) \div r = v /\ r * v + 0 = r * v
    BY <1>6, DivUnique
  <2> QED
    BY <2>1
<1>16. Match(sn, n) <=> n \in Int64 /\ u \div r = v
  BY <1>3, <1>4, MatchShape
<1> QED
  BY <1>13, <1>14, <1>15, <1>16

-----------------------------------------------------------------------------
(* Messages                                                                *)

\* The fields of the messages that the applications publish.
Common == {"type", "debtor_id", "creditor_id", "rest_ok", "content_type", "asker", "sound"}
Coordinator == {"coordinator_type", "coordinator_id"}

FieldsOf(type) ==
    Common \cup
    CASE type = "PrepareTransfer" ->
            Coordinator \cup {"min_locked_amount", "max_locked_amount"}
      [] type \in {"FinalizeTransfer", "PreparedTransfer"} -> Coordinator
      [] type = "RejectedTransfer" -> Coordinator \cup {"status_code"}
      [] type = "FinalizedTransfer" -> Coordinator \cup {"status_code", "committed_amount"}
      [] type = "AccountTransfer" ->
            {"coordinator_type", "acquired_amount", "transfer_number",
             "previous_transfer_number"}
      [] OTHER -> {}

MsgTypes == IN_MESSAGE_TYPES \cup OUT_MESSAGE_TYPES

\* The values that the applications give to amounts, numbers and status codes.
Amounts(m) ==
    /\ m.type = "PrepareTransfer" => m.min_locked_amount = 0 /\ m.max_locked_amount = 0
    /\ m.type = "RejectedTransfer" => m.status_code = "LATE"
    /\ m.type = "FinalizedTransfer" => m.status_code = "OK" /\ m.committed_amount = 1
    /\ m.type = "AccountTransfer" =>
          m.acquired_amount = 1 /\ m.transfer_number = 1 /\ m.previous_transfer_number = 0

\* What the schema of PrepareTransfer asks of the coordinator.
Coordinates(m) ==
    m.type = "PrepareTransfer" =>
        /\ m.coordinator_id \in Int64
        /\ \/ m.coordinator_type = "direct" /\ m.coordinator_id = m.creditor_id
           \/ /\ m.coordinator_type = "issuing" /\ m.coordinator_id = m.debtor_id
              /\ m.creditor_id = ROOT_CREDITOR_ID

\* A message as an application publishes it, but for its coordinator.
Sent(m, types, debtor, creditor, asker) ==
    /\ m.type \in types /\ DOMAIN m = FieldsOf(m.type)
    /\ m.debtor_id = debtor /\ m.creditor_id = creditor /\ m.asker = asker
    /\ m.sound = TRUE /\ m.content_type = "application/json" /\ m.rest_ok = TRUE
    /\ Amounts(m)

\* What neither side of a link lets through.
Broken(m) == ~m.sound /\ ~(m.content_type = "application/json" /\ Loads(m))

LEMMA Ints == Int64 \subseteq Int
  BY WidthFacts DEF Int64

LEMMA LoadsRest == ASSUME NEW m, Loads(m) PROVE m.rest_ok
<1>1. \/ ValidateMixin(m) \/ ValidateCoordinatorFieldsMixin(m)
  BY DEF Loads, ConfigureAccount, RejectedConfig, PrepareTransfer, FinalizeTransfer,
         RejectedTransfer, PreparedTransfer, FinalizedTransfer, AccountUpdate,
         AccountPurge, AccountTransfer
<1> QED
  BY <1>1 DEF ValidateMixin, ValidateCoordinatorFieldsMixin

\* Which fields a message has follows from its type.
LEMMA FieldFacts ==
  ASSUME NEW m, m.type \in MsgTypes, DOMAIN m = FieldsOf(m.type)
  PROVE  /\ Common \subseteq DOMAIN m
         /\ "max_locked_amount" \in DOMAIN m <=> m.type = "PrepareTransfer"
         /\ "status_code" \in DOMAIN m <=> m.type \in {"RejectedTransfer", "FinalizedTransfer"}
         /\ "acquired_amount" \in DOMAIN m <=> m.type = "AccountTransfer"
         /\ HasCoordinator(m) <=>
               m.type \in {"PrepareTransfer", "FinalizeTransfer", "PreparedTransfer",
                           "RejectedTransfer", "FinalizedTransfer"}
         /\ HasCoordinator(m) => "coordinator_type" \in DOMAIN m
  BY DEF FieldsOf, Common, Coordinator, HasCoordinator, MsgTypes, IN_MESSAGE_TYPES,
         OUT_MESSAGE_TYPES

\* Every unsound variant of a message fails the schema or has a wrong content type.
LEMMA UnsoundBroken ==
  ASSUME NEW m, m.type \in MsgTypes, DOMAIN m = FieldsOf(m.type), Amounts(m), Coordinates(m),
         NEW u \in Unsound(m)
  PROVE  Broken(u)
<1>1. Common \subseteq DOMAIN m
  BY FieldFacts
<1>2. CASE u = [m EXCEPT !.sound = FALSE, !.rest_ok = FALSE]
  <2>1. u.sound = FALSE /\ u.rest_ok = FALSE
    BY <1>1, <1>2 DEF Common
  <2> QED
    BY <2>1, LoadsRest DEF Broken
<1>3. CASE u = [m EXCEPT !.sound = FALSE, !.content_type = "text/plain"]
  <2>1. u.sound = FALSE /\ u.content_type = "text/plain"
    BY <1>1, <1>3 DEF Common
  <2> QED
    BY <2>1 DEF Broken
<1>4. CASE /\ "max_locked_amount" \in DOMAIN m
           /\ u = [m EXCEPT !.sound = FALSE, !.max_locked_amount = -1]
  <2>1. m.type = "PrepareTransfer"
    BY <1>4, FieldFacts
  <2>2. DOMAIN m = Common \cup Coordinator \cup {"min_locked_amount", "max_locked_amount"}
    BY <2>1 DEF FieldsOf
  <2>3. /\ u.sound = FALSE /\ u.type = "PrepareTransfer" /\ u.min_locked_amount = 0
        /\ u.max_locked_amount = -1
    BY <1>4, <2>1, <2>2 DEF Common, Amounts
  <2> QED
    BY <2>3 DEF Broken, Loads, PrepareTransfer
<1>5. CASE /\ "max_locked_amount" \in DOMAIN m
           /\ u = [m EXCEPT !.sound = FALSE, !.coordinator_id = @ + 1]
  <2>1. m.type = "PrepareTransfer"
    BY <1>5, FieldFacts
  <2>2. DOMAIN m = Common \cup Coordinator \cup {"min_locked_amount", "max_locked_amount"}
    BY <2>1 DEF FieldsOf
  <2>3. /\ u.sound = FALSE /\ u.type = "PrepareTransfer" /\ u.coordinator_id = m.coordinator_id + 1
        /\ u.coordinator_type = m.coordinator_type /\ u.creditor_id = m.creditor_id
        /\ u.debtor_id = m.debtor_id
    BY <1>5, <2>1, <2>2 DEF Common, Coordinator
  <2>4. m.coordinator_id + 1 # m.coordinator_id
    <3>1. m.coordinator_id \in Int
      BY <2>1, Ints, Zenon DEF Coordinates
    <3> DEFINE i == m.coordinator_id
    <3> HIDE DEF i
    <3>2. i + 1 # i
      BY <3>1 DEF i
    <3> QED
      BY <3>2 DEF i
  <2> QED
    BY <2>1, <2>3, <2>4 DEF Broken, Loads, PrepareTransfer, Coordinates
<1>6. CASE /\ "status_code" \in DOMAIN m
           /\ u = [m EXCEPT !.sound = FALSE, !.status_code = IF @ = "OK" THEN "LATE" ELSE "OK"]
  <2>1. CASE m.type = "RejectedTransfer"
    <3>1. u.sound = FALSE /\ u.type = "RejectedTransfer" /\ u.status_code = "OK"
      BY <1>1, <1>6, <2>1 DEF Common, Amounts
    <3> QED
      BY <3>1 DEF Broken, Loads, RejectedTransfer
  <2>2. CASE m.type = "FinalizedTransfer"
    <3>1. DOMAIN m = Common \cup Coordinator \cup {"status_code", "committed_amount"}
      BY <2>2 DEF FieldsOf
    <3>2. /\ u.sound = FALSE /\ u.type = "FinalizedTransfer" /\ u.status_code = "LATE"
          /\ u.committed_amount = 1
      BY <1>6, <2>2, <3>1 DEF Common, Amounts
    <3> QED
      BY <3>2 DEF Broken, Loads, FinalizedTransfer
  <2> QED
    BY <1>6, <2>1, <2>2, FieldFacts
<1>7. CASE /\ "acquired_amount" \in DOMAIN m
           /\ u = [m EXCEPT !.sound = FALSE, !.acquired_amount = 0]
  <2>1. m.type = "AccountTransfer"
    BY <1>7, FieldFacts
  <2>2. u.sound = FALSE /\ u.type = "AccountTransfer" /\ u.acquired_amount = 0
    BY <1>1, <1>7, <2>1 DEF Common
  <2> QED
    BY <2>2 DEF Broken, Loads, AccountTransfer
<1>8. CASE /\ "acquired_amount" \in DOMAIN m
           /\ u = [m EXCEPT !.sound = FALSE, !.transfer_number = 0]
  <2>1. m.type = "AccountTransfer"
    BY <1>8, FieldFacts
  <2>2. {"transfer_number", "previous_transfer_number"} \subseteq DOMAIN m
    BY <2>1 DEF FieldsOf
  <2>3. /\ u.sound = FALSE /\ u.type = "AccountTransfer" /\ u.transfer_number = 0
        /\ u.previous_transfer_number = 0
    BY <1>1, <1>8, <2>1, <2>2 DEF Common, Amounts
  <2> QED
    BY <2>3 DEF Broken, Loads, AccountTransfer
<1>9. \/ u = [m EXCEPT !.sound = FALSE, !.rest_ok = FALSE]
      \/ u = [m EXCEPT !.sound = FALSE, !.content_type = "text/plain"]
      \/ /\ "max_locked_amount" \in DOMAIN m
         /\ u = [m EXCEPT !.sound = FALSE, !.max_locked_amount = -1]
      \/ /\ "max_locked_amount" \in DOMAIN m
         /\ u = [m EXCEPT !.sound = FALSE, !.coordinator_id = @ + 1]
      \/ /\ "status_code" \in DOMAIN m
         /\ u = [m EXCEPT !.sound = FALSE, !.status_code = IF @ = "OK" THEN "LATE" ELSE "OK"]
      \/ /\ "acquired_amount" \in DOMAIN m
         /\ u = [m EXCEPT !.sound = FALSE, !.acquired_amount = 0]
      \/ /\ "acquired_amount" \in DOMAIN m
         /\ u = [m EXCEPT !.sound = FALSE, !.transfer_number = 0]
  BY Zenon DEF Unsound
<1> QED
  BY <1>2, <1>3, <1>4, <1>5, <1>6, <1>7, <1>8, <1>9

\* A message of an application passes the schema of its type.
LEMMA SentLoads ==
  ASSUME NEW m, NEW types, types \subseteq MsgTypes, NEW d \in Int64, NEW c \in Int64, NEW a,
         Sent(m, types, d, c, a), Coordinates(m),
         HasCoordinator(m) => m.coordinator_id \in Int64
  PROVE  Loads(m)
<1>1. ValidateMixin(m)
  BY DEF Sent, ValidateMixin
<1>2. m.type \in MsgTypes /\ DOMAIN m = FieldsOf(m.type)
  BY DEF Sent
<1>3. HasCoordinator(m) => ValidateCoordinatorFieldsMixin(m)
  BY <1>1 DEF ValidateCoordinatorFieldsMixin
<1>4. CASE m.type \in {"ConfigureAccount", "RejectedConfig", "AccountUpdate", "AccountPurge"}
  BY <1>1, <1>4 DEF Loads, ConfigureAccount, RejectedConfig, AccountUpdate, AccountPurge
<1>5. CASE m.type \in {"FinalizeTransfer", "PreparedTransfer"}
  <2>1. HasCoordinator(m)
    BY <1>2, <1>5, FieldFacts
  <2> QED
    BY <1>3, <1>5, <2>1 DEF Loads, FinalizeTransfer, PreparedTransfer
<1>6. CASE m.type \in {"RejectedTransfer", "FinalizedTransfer"}
  <2>1. HasCoordinator(m)
    BY <1>2, <1>6, FieldFacts
  <2> QED
    BY <1>3, <1>6, <2>1 DEF Loads, RejectedTransfer, FinalizedTransfer, Sent, Amounts
<1>7. CASE m.type = "PrepareTransfer"
  <2>1. HasCoordinator(m)
    BY <1>2, <1>7, FieldFacts
  <2>2. m.min_locked_amount = 0 /\ m.max_locked_amount = 0
    BY <1>7 DEF Sent, Amounts
  <2> QED
    BY <1>3, <1>7, <2>1, <2>2 DEF Loads, PrepareTransfer, Coordinates
<1>8. CASE m.type = "AccountTransfer"
  <2>1. m.acquired_amount = 1 /\ m.transfer_number = 1 /\ m.previous_transfer_number = 0
    BY <1>8 DEF Sent, Amounts
  <2> QED
    BY <1>1, <1>8, <2>1 DEF Loads, AccountTransfer
<1> QED
  BY <1>2, <1>4, <1>5, <1>6, <1>7, <1>8 DEF MsgTypes, IN_MESSAGE_TYPES, OUT_MESSAGE_TYPES

\* The coordinator that the node n gives to its transfers: a creditors agent its
\* creditor, a debtors agent its debtor.
CoordinatorIs(n, m, c, d) ==
    HasCoordinator(m) =>
       IF Net[n].nodetype = "CA"
       THEN m.coordinator_type = "direct" /\ m.coordinator_id = c
       ELSE m.coordinator_type = "issuing" /\ m.coordinator_id = d

\* A request of the node n for its creditor c about an account with the debtor d.
Asks(n, m, d, c) ==
    /\ Sent(m, IN_MESSAGE_TYPES, d, c, <<n, c>>)
    /\ CoordinatorIs(n, m, c, d)

\* Requests are as Asks says.
LEMMA RequestsAsk ==
  ASSUME NEW n, NEW d, NEW c, NEW m \in Requests(n, d, c)
  PROVE  Asks(n, m, d, c)
<1> DEFINE b(type) == Basic(type, d, c, <<n, c>>)
           t == IF Net[n].nodetype = "CA" THEN "direct" ELSE "issuing"
           i == IF Net[n].nodetype = "CA" THEN c ELSE d
           by(x) == Coordinated(x, t, i)
<1>1. \/ m = b("ConfigureAccount")
      \/ m = by(b("FinalizeTransfer"))
      \/ m = With(by(b("PrepareTransfer")), [min_locked_amount |-> 0, max_locked_amount |-> 0])
  BY DEF Requests
<1>2. CASE m = b("ConfigureAccount")
  <2>1. /\ m.type = "ConfigureAccount" /\ DOMAIN m = Common
        /\ m.debtor_id = d /\ m.creditor_id = c /\ m.asker = <<n, c>>
        /\ m.sound = TRUE /\ m.content_type = "application/json" /\ m.rest_ok = TRUE
    BY <1>2 DEF Basic, Common
  <2>2. DOMAIN m = FieldsOf(m.type) /\ ~HasCoordinator(m) /\ Amounts(m)
    BY <2>1 DEF FieldsOf, HasCoordinator, Amounts, Common
  <2> QED
    BY <2>1, <2>2 DEF Asks, CoordinatorIs, Sent, IN_MESSAGE_TYPES
<1>3. CASE m = by(b("FinalizeTransfer"))
  <2> HIDE DEF t, i
  <2>1. /\ m.type = "FinalizeTransfer" /\ DOMAIN m = Common \cup Coordinator
        /\ m.debtor_id = d /\ m.creditor_id = c /\ m.asker = <<n, c>>
        /\ m.sound = TRUE /\ m.content_type = "application/json" /\ m.rest_ok = TRUE
        /\ m.coordinator_type = t /\ m.coordinator_id = i
    BY <1>3 DEF Basic, Common, Coordinator, Coordinated, With
  <2>2. DOMAIN m = FieldsOf(m.type) /\ Amounts(m)
    BY <2>1 DEF FieldsOf, Amounts
  <2> QED
    BY <2>1, <2>2 DEF Asks, CoordinatorIs, Sent, IN_MESSAGE_TYPES, t, i
<1>4. CASE m = With(by(b("PrepareTransfer")), [min_locked_amount |-> 0, max_locked_amount |-> 0])
  <2> HIDE DEF t, i
  <2>1. /\ m.type = "PrepareTransfer"
        /\ DOMAIN m = Common \cup (Coordinator \cup {"min_locked_amount", "max_locked_amount"})
        /\ m.debtor_id = d /\ m.creditor_id = c /\ m.asker = <<n, c>>
        /\ m.sound = TRUE /\ m.content_type = "application/json" /\ m.rest_ok = TRUE
        /\ m.coordinator_type = t /\ m.coordinator_id = i
        /\ m.min_locked_amount = 0 /\ m.max_locked_amount = 0
    BY <1>4 DEF Basic, Common, Coordinator, Coordinated, With
  <2>2. DOMAIN m = FieldsOf(m.type) /\ Amounts(m)
    BY <2>1 DEF FieldsOf, Amounts
  <2> QED
    BY <2>1, <2>2 DEF Asks, CoordinatorIs, Sent, IN_MESSAGE_TYPES, t, i
<1> QED
  BY <1>1, <1>2, <1>3, <1>4

\* An answer to, or an update about the account of, the message m.
AnswerOf(a, m) ==
    /\ Sent(a, OUT_MESSAGE_TYPES, m.debtor_id, m.creditor_id, m.asker)
    /\ HasCoordinator(a) =>
          /\ HasCoordinator(m) /\ a.coordinator_type = m.coordinator_type
          /\ a.coordinator_id = m.coordinator_id

\* Answers are as AnswerOf says.
LEMMA AnswersAre ==
  ASSUME NEW m, NEW a \in Answers(m)
  PROVE  AnswerOf(a, m)
<1> DEFINE d == m.debtor_id
           c == m.creditor_id
           asker == m.asker
           t == m.coordinator_type
           i == m.coordinator_id
           b(type) == Basic(type, d, c, asker)
           by(x) == Coordinated(x, t, i)
           Same == /\ a.debtor_id = d /\ a.creditor_id = c /\ a.asker = asker
                   /\ a.sound = TRUE /\ a.content_type = "application/json" /\ a.rest_ok = TRUE
<1>1. \/ \E type \in {"AccountUpdate", "AccountPurge", "RejectedConfig"} : a = b(type)
      \/ a = With(b("AccountTransfer"),
                  [coordinator_type |-> "direct", acquired_amount |-> 1,
                   transfer_number |-> 1, previous_transfer_number |-> 0])
      \/ /\ HasCoordinator(m)
         /\ \/ a = by(b("PreparedTransfer"))
            \/ a = With(by(b("RejectedTransfer")), [status_code |-> "LATE"])
            \/ a = With(by(b("FinalizedTransfer")),
                        [status_code |-> "OK", committed_amount |-> 1])
  BY Zenon DEF Answers
<1> HIDE DEF d, c, asker, t, i
<1>2. CASE \E type \in {"AccountUpdate", "AccountPurge", "RejectedConfig"} : a = b(type)
  <2>1. /\ a.type \in {"AccountUpdate", "AccountPurge", "RejectedConfig"} /\ DOMAIN a = Common
        /\ Same
    BY <1>2 DEF Basic, Common
  <2>2. DOMAIN a = FieldsOf(a.type) /\ ~HasCoordinator(a) /\ Amounts(a)
    BY <2>1 DEF FieldsOf, HasCoordinator, Amounts, Common
  <2> QED
    BY <2>1, <2>2 DEF AnswerOf, Sent, OUT_MESSAGE_TYPES, d, c, asker
<1>3. CASE a = With(b("AccountTransfer"),
                    [coordinator_type |-> "direct", acquired_amount |-> 1,
                     transfer_number |-> 1, previous_transfer_number |-> 0])
  <2>1. /\ a.type = "AccountTransfer"
        /\ DOMAIN a = Common \cup {"coordinator_type", "acquired_amount", "transfer_number",
                                   "previous_transfer_number"}
        /\ Same
        /\ a.acquired_amount = 1 /\ a.transfer_number = 1 /\ a.previous_transfer_number = 0
    BY <1>3 DEF Basic, Common, With
  <2>2. DOMAIN a = FieldsOf(a.type) /\ ~HasCoordinator(a) /\ Amounts(a)
    BY <2>1 DEF FieldsOf, HasCoordinator, Amounts, Common
  <2> QED
    BY <2>1, <2>2 DEF AnswerOf, Sent, OUT_MESSAGE_TYPES, d, c, asker
<1>4. CASE HasCoordinator(m) /\ a = by(b("PreparedTransfer"))
  <2>1. /\ a.type = "PreparedTransfer" /\ DOMAIN a = Common \cup Coordinator
        /\ Same /\ a.coordinator_type = t /\ a.coordinator_id = i
    BY <1>4 DEF Basic, Common, Coordinator, Coordinated, With
  <2>2. DOMAIN a = FieldsOf(a.type) /\ Amounts(a)
    BY <2>1 DEF FieldsOf, Amounts
  <2> QED
    BY <1>4, <2>1, <2>2 DEF AnswerOf, Sent, OUT_MESSAGE_TYPES, d, c, asker, t, i
<1>5. CASE HasCoordinator(m) /\ a = With(by(b("RejectedTransfer")), [status_code |-> "LATE"])
  <2>1. /\ a.type = "RejectedTransfer" /\ DOMAIN a = Common \cup (Coordinator \cup {"status_code"})
        /\ Same /\ a.coordinator_type = t /\ a.coordinator_id = i /\ a.status_code = "LATE"
    BY <1>5 DEF Basic, Common, Coordinator, Coordinated, With
  <2>2. DOMAIN a = FieldsOf(a.type) /\ Amounts(a)
    BY <2>1 DEF FieldsOf, Amounts
  <2> QED
    BY <1>5, <2>1, <2>2 DEF AnswerOf, Sent, OUT_MESSAGE_TYPES, d, c, asker, t, i
<1>6. CASE /\ HasCoordinator(m)
           /\ a = With(by(b("FinalizedTransfer")), [status_code |-> "OK", committed_amount |-> 1])
  <2>1. /\ a.type = "FinalizedTransfer"
        /\ DOMAIN a = Common \cup (Coordinator \cup {"status_code", "committed_amount"})
        /\ Same /\ a.coordinator_type = t /\ a.coordinator_id = i
        /\ a.status_code = "OK" /\ a.committed_amount = 1
    BY <1>6 DEF Basic, Common, Coordinator, Coordinated, With
  <2>2. DOMAIN a = FieldsOf(a.type) /\ Amounts(a)
    BY <2>1 DEF FieldsOf, Amounts
  <2> QED
    BY <1>6, <2>1, <2>2 DEF AnswerOf, Sent, OUT_MESSAGE_TYPES, d, c, asker, t, i
<1> QED
  BY <1>1, <1>2, <1>3, <1>4, <1>5, <1>6

\* The translation changes two fields.
LEMMA TranslateFields ==
  ASSUME NEW m, m.type \in MsgTypes, DOMAIN m = FieldsOf(m.type), NEW from, NEW to,
         NEW c, c = ChangeSubnet(m.creditor_id, from, to),
         NEW o, o = Translate(m, from, to)
  PROVE  /\ DOMAIN o = DOMAIN m /\ o.creditor_id = c
         /\ \A k \in DOMAIN m : k \notin {"creditor_id", "coordinator_id"} => o[k] = m[k]
         /\ HasCoordinator(o) <=> HasCoordinator(m)
         /\ HasCoordinator(m) => o.coordinator_type = m.coordinator_type
         /\ HasCoordinator(m) => o.coordinator_id = IF m.coordinator_type = "direct"
                                                    THEN c ELSE m.coordinator_id
<1>1. Common \subseteq DOMAIN m /\ (HasCoordinator(m) => "coordinator_type" \in DOMAIN m)
  BY FieldFacts
<1>2. CASE DirectlyCoordinated(m)
  <2>1. o = [m EXCEPT !.creditor_id = c, !.coordinator_id = c]
    BY <1>2 DEF Translate
  <2>2. HasCoordinator(m) /\ m.coordinator_type = "direct" /\ "coordinator_id" \in DOMAIN m
    BY <1>2 DEF DirectlyCoordinated, HasCoordinator
  <2> QED
    BY <1>1, <2>1, <2>2, Zenon DEF HasCoordinator, Common
<1>3. CASE ~DirectlyCoordinated(m)
  <2>1. o = [m EXCEPT !.creditor_id = c]
    BY <1>3 DEF Translate
  <2>2. HasCoordinator(m) => m.coordinator_type # "direct" /\ "coordinator_id" \in DOMAIN m
    BY <1>3 DEF DirectlyCoordinated, HasCoordinator
  <2> QED
    BY <1>1, <2>1, <2>2 DEF HasCoordinator, Common
<1> QED
  BY <1>2, <1>3

\* What it leaves of the coordinator of m, when c is the translated creditor ID.
CoordinatorKept(o, m, c) ==
    /\ HasCoordinator(o) <=> HasCoordinator(m)
    /\ HasCoordinator(m) => o.coordinator_type = m.coordinator_type
    /\ HasCoordinator(m) =>
          o.coordinator_id = IF m.coordinator_type = "direct" THEN c ELSE m.coordinator_id

\* So the coordinator of a creditors agent's message is translated with its creditor.
LEMMA TranslateCoordinator ==
  ASSUME NEW n, Net[n].nodetype = "CA", NEW m, NEW e, NEW d, CoordinatorIs(n, m, e, d),
         NEW o, NEW c, CoordinatorKept(o, m, c)
  PROVE  CoordinatorIs(n, o, c, d)
<1>1. HasCoordinator(m) => m.coordinator_type = "direct"
  BY DEF CoordinatorIs
<1>2. HasCoordinator(o) => o.coordinator_type = "direct" /\ o.coordinator_id = c
  BY <1>1 DEF CoordinatorKept
<1> QED
  BY <1>2 DEF CoordinatorIs

\* It keeps a message as an application publishes it.
LEMMA TranslateSent ==
  ASSUME NEW m, NEW types, types \subseteq MsgTypes, NEW d, NEW e, NEW a,
         Sent(m, types, d, e, a), NEW from, NEW to
  PROVE  /\ Sent(Translate(m, from, to), types, d, ChangeSubnet(e, from, to), a)
         /\ CoordinatorKept(Translate(m, from, to), m, ChangeSubnet(e, from, to))
<1> DEFINE o == Translate(m, from, to)
           c == ChangeSubnet(e, from, to)
<1>1. m.type \in MsgTypes /\ DOMAIN m = FieldsOf(m.type) /\ m.creditor_id = e
  BY DEF Sent
<1>2. /\ DOMAIN o = DOMAIN m /\ o.creditor_id = c
      /\ \A k \in DOMAIN m : k \notin {"creditor_id", "coordinator_id"} => o[k] = m[k]
      /\ HasCoordinator(o) <=> HasCoordinator(m)
      /\ HasCoordinator(m) => o.coordinator_type = m.coordinator_type
      /\ HasCoordinator(m) => o.coordinator_id = IF m.coordinator_type = "direct"
                                                 THEN c ELSE m.coordinator_id
  BY <1>1, TranslateFields
<1> HIDE DEF o, c
<1>3. /\ o.type = m.type /\ o.debtor_id = m.debtor_id /\ o.asker = m.asker
      /\ o.sound = m.sound /\ o.content_type = m.content_type /\ o.rest_ok = m.rest_ok
  <2>1. Common \subseteq DOMAIN m
    BY <1>1, FieldFacts
  <2> QED
    BY <1>2, <2>1 DEF Common
<1>4. Amounts(o)
  <2>1. Amounts(m)
    BY DEF Sent
  <2>2. m.type = "PrepareTransfer" =>
           o.min_locked_amount = m.min_locked_amount /\ o.max_locked_amount = m.max_locked_amount
    <3>1. m.type = "PrepareTransfer" =>
             {"min_locked_amount", "max_locked_amount"} \subseteq DOMAIN m
      BY <1>1 DEF FieldsOf
    <3> QED
      BY <1>2, <3>1
  <2>3. m.type = "RejectedTransfer" => o.status_code = m.status_code
    <3>1. m.type = "RejectedTransfer" => "status_code" \in DOMAIN m
      BY <1>1 DEF FieldsOf
    <3> QED
      BY <1>2, <3>1
  <2>4. m.type = "FinalizedTransfer" =>
           o.status_code = m.status_code /\ o.committed_amount = m.committed_amount
    <3>1. m.type = "FinalizedTransfer" => {"status_code", "committed_amount"} \subseteq DOMAIN m
      BY <1>1 DEF FieldsOf
    <3> QED
      BY <1>2, <3>1
  <2>5. m.type = "AccountTransfer" =>
           /\ o.acquired_amount = m.acquired_amount /\ o.transfer_number = m.transfer_number
           /\ o.previous_transfer_number = m.previous_transfer_number
    <3>1. m.type = "AccountTransfer" =>
             {"acquired_amount", "transfer_number", "previous_transfer_number"} \subseteq DOMAIN m
      BY <1>1 DEF FieldsOf
    <3> QED
      BY <1>2, <3>1
  <2> QED
    BY <1>3, <2>1, <2>2, <2>3, <2>4, <2>5 DEF Amounts
<1>5. Sent(o, types, d, c, a)
  BY <1>1, <1>2, <1>3, <1>4 DEF Sent
<1>6. CoordinatorKept(o, m, c)
  BY <1>2 DEF CoordinatorKept
<1> QED
  BY <1>5, <1>6 DEF o, c

-----------------------------------------------------------------------------
(* Directories                                                             *)

\* The directories, in terms of a link.
LEMMA LinkFacts ==
  ASSUME NEW l \in Links
  PROVE  /\ l[1] \in Nodes /\ l[2] \in Nodes /\ l = <<l[1], l[2]>>
         /\ l[2] \in DOMAIN Net[l[1]].peers
         /\ Net[l[1]].nodetype \in {"AA", "CA", "DA"} /\ Net[l[2]].nodetype \in {"AA", "CA", "DA"}
         /\ Net[l[1]].peers[l[2]].nodetype = Net[l[2]].nodetype
         /\ Net[l[1]].peers[l[2]].subnet \in Seq(Digits)
         /\ Net[l[1]].nodeid \in Seq(Digits) /\ Net[l[1]].subnet \in Seq(Digits)
         /\ Net[l[2]].nodeid \in Seq(Digits) /\ Net[l[2]].subnet \in Seq(Digits)
<1>1. l[1] \in Nodes /\ l[2] \in Nodes /\ l = <<l[1], l[2]>> /\ l[2] \in DOMAIN Net[l[1]].peers
  BY DEF Links
<1> QED
  BY <1>1, NetAssumption

\* The two subnets of a node, by its type.
LEMMA NodeDataIs ==
  ASSUME NEW n \in Nodes
  PROVE  /\ NodeData[n].node_type = Net[n].nodetype
         /\ Net[n].nodetype = "AA" =>
               /\ NodeData[n].creditors_subnet = UNIVERSAL_SUBNET
               /\ NodeData[n].debtors_subnet = Parse(Net[n].nodeid)
         /\ Net[n].nodetype = "CA" =>
               /\ NodeData[n].creditors_subnet = Parse(Net[n].subnet)
               /\ NodeData[n].debtors_subnet = UNIVERSAL_SUBNET
         /\ Net[n].nodetype = "DA" =>
               /\ NodeData[n].creditors_subnet = ZERO_SUBNET
               /\ NodeData[n].debtors_subnet = Parse(Net[n].subnet)
  BY DEF NodeData, GetNodeData

LEMMA PeerDataIs ==
  ASSUME NEW l \in Links, NEW isActive \in BOOLEAN, NEW only \in BOOLEAN
  PROVE  PeerDataBy[l][isActive][only] =
            GetPeerData(Net[l[1]], l[2], Net[l[2]].nodeid, isActive, only)
  BY DEF PeerDataBy

LEMMA SubnetNotInvalid ==
  ASSUME NEW sn, IsSubnet(sn)
  PROVE  sn # Invalid
<1>1. PICK r, k, v : Shape(sn, r, k, v)
  BY HasShape
<1>2. sn.subnet = r * v /\ r \in Nat /\ v \in Nat
  BY <1>1 DEF Shape
<1>3. r * v >= 0
  BY <1>2, MulMono
<1>4. sn.subnet # -1
  BY <1>2, <1>3
<1> QED
  BY <1>4 DEF Invalid

\* The subnets that a node n has for its peer p, by the types of the two nodes.
PeerIs(n, p, peer) ==
    LET owner == NodeData[n]
        range == Parse(Net[n].peers[p].subnet)
    IN /\ peer.node_type = Net[p].nodetype
       /\ Net[n].nodetype = "AA" => Net[p].nodetype \in {"CA", "DA"}
       /\ Net[n].nodetype # "AA" => Net[n].nodetype \in {"CA", "DA"} /\ Net[p].nodetype = "AA"
       /\ Net[n].nodetype = "AA" /\ Net[p].nodetype = "CA" =>
             /\ peer.creditors_subnet = range /\ peer.debtors_subnet = owner.debtors_subnet
       /\ Net[n].nodetype = "AA" /\ Net[p].nodetype = "DA" =>
             /\ peer.creditors_subnet = ZERO_SUBNET /\ peer.debtors_subnet = range
       /\ Net[n].nodetype = "CA" =>
             /\ peer.creditors_subnet = range /\ peer.debtors_subnet = Parse(Net[p].nodeid)
             /\ peer.creditors_subnet.subnet_mask = owner.creditors_subnet.subnet_mask
       /\ Net[n].nodetype = "DA" =>
             /\ peer.creditors_subnet = ZERO_SUBNET
             /\ peer.debtors_subnet = owner.debtors_subnet

\* _get_peer_data gives the peer subnets as PeerIs says, all of them well-formed.
LEMMA KnownPeerIs ==
  ASSUME NEW l \in Links, KnownPeer(l) # NoPeer
  PROVE  /\ PeerIs(l[1], l[2], KnownPeer(l))
         /\ IsSubnet(KnownPeer(l).creditors_subnet) /\ IsSubnet(KnownPeer(l).debtors_subnet)
         /\ IsSubnet(NodeData[l[1]].creditors_subnet) /\ IsSubnet(NodeData[l[1]].debtors_subnet)
<1> DEFINE dir == Net[l[1]]
           p == l[2]
           id == Net[l[2]].nodeid
           owner == NodeData[l[1]]
           file == dir.peers[p]
           subnets == PeerSubnets(owner, id, file)
           peer == KnownPeer(l)
<1>1. /\ l[1] \in Nodes /\ l[2] \in Nodes
      /\ dir.nodetype \in {"AA", "CA", "DA"} /\ Net[l[2]].nodetype \in {"AA", "CA", "DA"}
      /\ file.nodetype = Net[l[2]].nodetype /\ file.subnet \in Seq(Digits)
      /\ dir.nodeid \in Seq(Digits) /\ dir.subnet \in Seq(Digits) /\ id \in Seq(Digits)
  BY LinkFacts
<1>2. GetNodeData(dir) = owner
  BY <1>1 DEF NodeData
<1>3. peer = GetPeerData(dir, p, id, FALSE, FALSE)
  BY PeerDataIs, Zenon DEF KnownPeer
<1>4. /\ subnets[1] # Invalid /\ subnets[2] # Invalid
      /\ owner.creditors_subnet # Invalid /\ owner.debtors_subnet # Invalid
      /\ owner.node_type = "CA" => subnets[1].subnet_mask = owner.creditors_subnet.subnet_mask
      /\ peer.node_type = file.nodetype
      /\ peer.creditors_subnet = subnets[1] /\ peer.debtors_subnet = subnets[2]
  <2> HIDE DEF dir, p, id, peer
  <2>1. peer # NoPeer
    BY DEF peer
  <2>2. /\ ~(Invalid \in {subnets[1], subnets[2]})
        /\ ~(Invalid \in {owner.creditors_subnet, owner.debtors_subnet})
    BY <1>2, <1>3, <2>1 DEF GetPeerData
  <2>3. owner.node_type = "CA" => subnets[1].subnet_mask = owner.creditors_subnet.subnet_mask
    BY <1>2, <1>3, <2>1 DEF GetPeerData
  <2>4. peer = [node_type |-> file.nodetype, creditors_subnet |-> subnets[1],
                debtors_subnet |-> subnets[2]]
    BY <1>2, <1>3, <2>1 DEF GetPeerData
  <2> HIDE DEF owner, file, subnets
  <2> QED
    BY <2>2, <2>3, <2>4
<1>5. /\ owner.node_type = dir.nodetype
      /\ dir.nodetype = "AA" => /\ owner.creditors_subnet = UNIVERSAL_SUBNET
                                /\ owner.debtors_subnet = Parse(dir.nodeid)
      /\ dir.nodetype = "CA" => /\ owner.creditors_subnet = Parse(dir.subnet)
                                /\ owner.debtors_subnet = UNIVERSAL_SUBNET
      /\ dir.nodetype = "DA" => /\ owner.creditors_subnet = ZERO_SUBNET
                                /\ owner.debtors_subnet = Parse(dir.subnet)
  BY <1>1, NodeDataIs
<1> HIDE DEF dir, p, id, owner, file
<1>6. IsSubnet(owner.creditors_subnet) /\ IsSubnet(owner.debtors_subnet)
  BY <1>1, <1>4, <1>5, ParseSubnet, ZeroSubnet, UniversalSubnet
<1>7. CASE dir.nodetype = "AA" /\ file.nodetype = "CA"
  <2>1. subnets = <<Parse(file.subnet), owner.debtors_subnet>>
    BY <1>5, <1>7 DEF PeerSubnets
  <2>2. subnets[1] = Parse(file.subnet) /\ subnets[2] = owner.debtors_subnet
    BY <2>1
  <2>3. IsSubnet(subnets[1]) /\ IsSubnet(subnets[2])
    BY <1>1, <1>4, <1>6, <2>2, ParseSubnet
  <2> QED
    BY <1>1, <1>4, <1>6, <1>7, <2>2, <2>3, Zenon DEF PeerIs, dir, p, owner, file
<1>8. CASE dir.nodetype = "AA" /\ file.nodetype = "DA"
  <2>1. subnets = <<ZERO_SUBNET, Parse(file.subnet)>>
    BY <1>5, <1>8 DEF PeerSubnets
  <2>2. subnets[1] = ZERO_SUBNET /\ subnets[2] = Parse(file.subnet)
    BY <2>1
  <2>3. IsSubnet(subnets[1]) /\ IsSubnet(subnets[2])
    BY <1>1, <1>4, <2>2, ParseSubnet, ZeroSubnet
  <2> QED
    BY <1>1, <1>4, <1>6, <1>8, <2>2, <2>3, Zenon DEF PeerIs, dir, p, owner, file
<1>9. CASE dir.nodetype = "CA" /\ file.nodetype = "AA"
  <2>1. subnets = <<Parse(file.subnet), Parse(id)>>
    BY <1>5, <1>9 DEF PeerSubnets
  <2>2. subnets[1] = Parse(file.subnet) /\ subnets[2] = Parse(id)
    BY <2>1
  <2>3. IsSubnet(subnets[1]) /\ IsSubnet(subnets[2])
    BY <1>1, <1>4, <2>2, ParseSubnet
  <2> QED
    BY <1>1, <1>4, <1>5, <1>6, <1>9, <2>2, <2>3, Zenon DEF PeerIs, dir, p, owner, file, id
<1>10. CASE dir.nodetype = "DA" /\ file.nodetype = "AA"
  <2>1. subnets = <<ZERO_SUBNET, owner.debtors_subnet>>
    BY <1>5, <1>10 DEF PeerSubnets
  <2>2. subnets[1] = ZERO_SUBNET /\ subnets[2] = owner.debtors_subnet
    BY <2>1
  <2>3. IsSubnet(subnets[1]) /\ IsSubnet(subnets[2])
    BY <1>6, <2>2, ZeroSubnet
  <2> QED
    BY <1>1, <1>4, <1>6, <1>10, <2>2, <2>3, Zenon DEF PeerIs, dir, p, owner, file
<1>11. ASSUME ~(\/ dir.nodetype = "AA" /\ file.nodetype = "CA"
                \/ dir.nodetype = "AA" /\ file.nodetype = "DA"
                \/ dir.nodetype = "CA" /\ file.nodetype = "AA"
                \/ dir.nodetype = "DA" /\ file.nodetype = "AA")
       PROVE FALSE
  <2>1. subnets = <<Invalid, Invalid>>
    BY <1>5, <1>11 DEF PeerSubnets
  <2> QED
    BY <1>4, <2>1
<1> QED
  BY <1>7, <1>8, <1>9, <1>10, <1>11

\* With active_peers_only the data are the same or missing.
LEMMA ActivePeerIs ==
  ASSUME NEW l \in Links, ActivePeer(l) # NoPeer
  PROVE  ActivePeer(l) = KnownPeer(l) /\ l \in active
<1>1. (l \in active) \in BOOLEAN
  OBVIOUS
<1>2. /\ ActivePeer(l) = GetPeerData(Net[l[1]], l[2], Net[l[2]].nodeid, (l \in active), TRUE)
      /\ KnownPeer(l) = GetPeerData(Net[l[1]], l[2], Net[l[2]].nodeid, FALSE, FALSE)
  BY <1>1, PeerDataIs, Zenon DEF ActivePeer, KnownPeer
<1>3. l \in active
  BY <1>2, Zenon DEF GetPeerData
<1> QED
  BY <1>2, <1>3, Zenon DEF GetPeerData

\* What a queue is bound with.
LEMMA BindingIs ==
  ASSUME NEW l \in Links, KnownPeer(l) # NoPeer
  PROVE  /\ BindingSubnet(l) =
              IF Net[l[1]].nodetype = "DA" THEN UNIVERSAL_SUBNET
              ELSE IF Net[l[2]].nodetype = "CA" THEN KnownPeer(l).creditors_subnet
              ELSE KnownPeer(l).debtors_subnet
         /\ IsSubnet(BindingSubnet(l))
<1>1. NodeData[l[1]].node_type = Net[l[1]].nodetype
  BY LinkFacts, NodeDataIs
<1>2. /\ PeerIs(l[1], l[2], KnownPeer(l)) /\ IsSubnet(KnownPeer(l).creditors_subnet)
      /\ IsSubnet(KnownPeer(l).debtors_subnet)
  BY KnownPeerIs
<1>3. BindingSubnet(l) =
              IF Net[l[1]].nodetype = "DA" THEN UNIVERSAL_SUBNET
              ELSE IF Net[l[2]].nodetype = "CA" THEN KnownPeer(l).creditors_subnet
              ELSE KnownPeer(l).debtors_subnet
  BY <1>1, <1>2 DEF BindingSubnet, PeerIs
<1> QED
  BY <1>2, <1>3, UniversalSubnet

-----------------------------------------------------------------------------
(* A link                                                                  *)

\* The two translations of a message on its way over l: by the client at the
\* start and by the server at the end.
Leaving(l, m) ==
    IF Net[l[1]].nodetype = "CA"
    THEN Translate(m, NodeData[l[1]].creditors_subnet, KnownPeer(l).creditors_subnet)
    ELSE m
Entering(l, m) ==
    IF Net[l[2]].nodetype = "CA"
    THEN Translate(m, KnownPeer(Back(l)).creditors_subnet, NodeData[l[2]].creditors_subnet)
    ELSE m

\* The checks of transform_message and of preprocess_message over the link l.
LeavingChecks(l, m) ==
    /\ ParseMessageBody(m, Net[l[1]].nodetype # "AA", Net[l[1]].nodetype = "AA")
    /\ Net[l[1]].nodetype = "CA" =>
          Match(NodeData[l[1]].creditors_subnet, m.creditor_id) /\ Translatable(m)
    /\ Match(KnownPeer(l).creditors_subnet, Leaving(l, m).creditor_id)
    /\ Match(KnownPeer(l).debtors_subnet, Leaving(l, m).debtor_id)
EnteringChecks(l, m) ==
    /\ ParseMessageBody(m, Net[l[2]].nodetype = "AA", Net[l[2]].nodetype # "AA")
    /\ Match(KnownPeer(Back(l)).creditors_subnet, m.creditor_id)
    /\ Match(KnownPeer(Back(l)).debtors_subnet, m.debtor_id)
    /\ Net[l[2]].nodetype = "CA" => Translatable(m)
    /\ AllowedCoordinator(KnownPeer(Back(l)), m)
    /\ Entering(l, m).creditor_id \in Int64

\* What both ends of a connected link have.
LEMMA ConnectedLinks ==
  ASSUME NEW l \in Links, Connected(l)
  PROVE  /\ l = <<l[1], l[2]>> /\ Back(l) = <<l[2], l[1]>> /\ Back(l) \in Links
         /\ l[1] \in Nodes /\ l[2] \in Nodes
         /\ KnownPeer(l) # NoPeer /\ KnownPeer(Back(l)) # NoPeer
         /\ ActivePeer(l) = KnownPeer(l) /\ ActivePeer(Back(l)) = KnownPeer(Back(l))
         /\ PeerIs(l[1], l[2], KnownPeer(l)) /\ PeerIs(l[2], l[1], KnownPeer(Back(l)))
         /\ IsSubnet(NodeData[l[1]].creditors_subnet)
         /\ IsSubnet(NodeData[l[2]].creditors_subnet)
         /\ IsSubnet(KnownPeer(l).creditors_subnet)
         /\ IsSubnet(KnownPeer(Back(l)).creditors_subnet)
<1>1. Back(l) \in Links /\ ActivePeer(l) # NoPeer /\ ActivePeer(Back(l)) # NoPeer
  BY DEF Connected
<1>2. /\ ActivePeer(l) = KnownPeer(l) /\ ActivePeer(Back(l)) = KnownPeer(Back(l))
      /\ KnownPeer(l) # NoPeer /\ KnownPeer(Back(l)) # NoPeer
  BY <1>1, ActivePeerIs
<1>3. /\ l = <<l[1], l[2]>> /\ l[1] \in Nodes /\ l[2] \in Nodes
      /\ Back(l) = <<l[2], l[1]>> /\ Back(l)[1] = l[2] /\ Back(l)[2] = l[1]
  BY LinkFacts DEF Back
<1>4. /\ PeerIs(l[1], l[2], KnownPeer(l))
      /\ IsSubnet(NodeData[l[1]].creditors_subnet) /\ IsSubnet(KnownPeer(l).creditors_subnet)
  BY <1>2, KnownPeerIs
<1>5. /\ PeerIs(Back(l)[1], Back(l)[2], KnownPeer(Back(l)))
      /\ IsSubnet(NodeData[Back(l)[1]].creditors_subnet)
      /\ IsSubnet(KnownPeer(Back(l)).creditors_subnet)
  BY <1>1, <1>2, KnownPeerIs
<1> QED
  BY <1>1, <1>2, <1>3, <1>4, <1>5

\* The two functions, in terms of the checks and the translations.
LEMMA ArrivingIs ==
  ASSUME NEW l \in Links, Connected(l), NEW m
  PROVE  /\ TransformMessage(NodeData[l[1]], ActivePeer(l), m) =
              IF LeavingChecks(l, m) THEN Leaving(l, m) ELSE Refused
         /\ \A o : PreprocessMessage(NodeData[l[2]], ActivePeer(Back(l)), o) =
                      IF EnteringChecks(l, o) THEN Entering(l, o) ELSE Refused
<1>1. ActivePeer(l) = KnownPeer(l) /\ ActivePeer(Back(l)) = KnownPeer(Back(l))
  BY ConnectedLinks
<1>2. /\ NodeData[l[1]].node_type = Net[l[1]].nodetype
      /\ NodeData[l[2]].node_type = Net[l[2]].nodetype
  BY LinkFacts, NodeDataIs
<1>3. TransformMessage(NodeData[l[1]], ActivePeer(l), m) =
         IF LeavingChecks(l, m) THEN Leaving(l, m) ELSE Refused
  BY <1>1, <1>2 DEF TransformMessage, LeavingChecks, Leaving
<1>4. \A o : PreprocessMessage(NodeData[l[2]], ActivePeer(Back(l)), o) =
                IF EnteringChecks(l, o) THEN Entering(l, o) ELSE Refused
  BY <1>1, <1>2, Zenon DEF PreprocessMessage, EnteringChecks, Entering
<1> QED
  BY <1>3, <1>4

\* A message that arrives has passed all checks,
LEMMA Accepted ==
  ASSUME NEW l \in Links, Connected(l), NEW m, Arriving(l, m) # Refused
  PROVE  /\ LeavingChecks(l, m) /\ EnteringChecks(l, Leaving(l, m))
         /\ Arriving(l, m) = Entering(l, Leaving(l, m))
  BY ArrivingIs DEF Arriving

\* and one that passes them arrives.
LEMMA NotRefused ==
  ASSUME NEW l \in Links, Connected(l), NEW m,
         LeavingChecks(l, m), EnteringChecks(l, Leaving(l, m)),
         Leaving(l, m).type \in MsgTypes, Entering(l, Leaving(l, m)).type \in MsgTypes
  PROVE  Arriving(l, m) # Refused
<1>1. \A o : o.type \in MsgTypes => o # Refused
  BY DEF MsgTypes, IN_MESSAGE_TYPES, OUT_MESSAGE_TYPES, Refused
<1> QED
  BY <1>1, ArrivingIs DEF Arriving

\* What is broken does not arrive.
LEMMA BrokenRefused ==
  ASSUME NEW l \in Links, Connected(l), NEW m, Broken(m)
  PROVE  Arriving(l, m) = Refused
<1>1. ~LeavingChecks(l, m)
  BY DEF LeavingChecks, ParseMessageBody, Broken
<1> QED
  BY <1>1, Accepted

\* The ID under which the accounting authority at the end of l knows the creditor c
\* of the agent at its start.
AuthorityId(l, c) ==
    IF Net[l[1]].nodetype = "CA"
    THEN ChangeSubnet(c, NodeData[l[1]].creditors_subnet, KnownPeer(l).creditors_subnet)
    ELSE c

\* What the inbox of the accounting authority n has: a request, under the ID that n
\* uses for the asker, about an account that its directory gives to the sender.
FromAgent(n, x) ==
    LET m == x.message
    IN /\ x.from \in Nodes /\ <<n, x.from>> \in Links /\ <<x.from, n>> \in Links
       /\ KnownPeer(<<n, x.from>>) # NoPeer /\ KnownPeer(<<x.from, n>>) # NoPeer
       /\ x.shard = ShardOf(NodeData[n], m)
       /\ Sent(m, IN_MESSAGE_TYPES, m.debtor_id, m.creditor_id, m.asker) /\ Loads(m)
       /\ Match(KnownPeer(<<n, x.from>>).creditors_subnet, m.creditor_id)
       /\ Match(KnownPeer(<<n, x.from>>).debtors_subnet, m.debtor_id)
       /\ \E c \in Int64 :
             /\ m.asker = <<x.from, c>> /\ Match(NodeData[x.from].creditors_subnet, c)
             /\ m.creditor_id = AuthorityId(<<x.from, n>>, c)
       /\ CoordinatorIs(x.from, m, m.creditor_id, m.debtor_id)

\* What the inbox of another node n has: an answer for the creditor that asked.
FromAuthority(n, x) ==
    LET m == x.message
    IN /\ x.from \in Nodes /\ <<n, x.from>> \in Links /\ <<x.from, n>> \in Links
       /\ KnownPeer(<<n, x.from>>) # NoPeer /\ KnownPeer(<<x.from, n>>) # NoPeer
       /\ Sent(m, OUT_MESSAGE_TYPES, m.debtor_id, m.creditor_id, m.asker) /\ Loads(m)
       /\ Match(NodeData[n].creditors_subnet, m.creditor_id)
       /\ Match(KnownPeer(<<n, x.from>>).debtors_subnet, m.debtor_id)
       /\ Match(NodeData[x.from].debtors_subnet, m.debtor_id)
       /\ m.asker = <<n, m.creditor_id>>
       /\ HasCoordinator(m) /\ m.coordinator_type = "direct" => m.coordinator_id = m.creditor_id

\* What the client makes of a request.
LEMMA RequestLeaves ==
  ASSUME NEW l \in Links, Net[l[1]].nodetype # "AA", NEW d, NEW c, NEW m, Asks(l[1], m, d, c)
  PROVE  /\ Sent(Leaving(l, m), IN_MESSAGE_TYPES, d, AuthorityId(l, c), <<l[1], c>>)
         /\ CoordinatorIs(l[1], Leaving(l, m), AuthorityId(l, c), d)
<1> DEFINE o == Leaving(l, m)
           e == AuthorityId(l, c)
<1>1. Sent(m, IN_MESSAGE_TYPES, d, c, <<l[1], c>>) /\ IN_MESSAGE_TYPES \subseteq MsgTypes
  BY DEF Asks, MsgTypes
<1>2. CASE Net[l[1]].nodetype = "CA"
  <2> DEFINE own == NodeData[l[1]].creditors_subnet
             to == KnownPeer(l).creditors_subnet
  <2>1. o = Translate(m, own, to) /\ e = ChangeSubnet(c, own, to)
    BY <1>2 DEF Leaving, AuthorityId
  <2> HIDE DEF own, to, o, e
  <2>2. /\ Sent(o, IN_MESSAGE_TYPES, d, e, <<l[1], c>>)
        /\ CoordinatorKept(o, m, e)
    <3>1. /\ Sent(Translate(m, own, to), IN_MESSAGE_TYPES, d, ChangeSubnet(c, own, to), <<l[1], c>>)
          /\ CoordinatorKept(Translate(m, own, to), m, ChangeSubnet(c, own, to))
      BY <1>1, TranslateSent, Zenon
    <3> QED
      BY <2>1, <3>1, Zenon
  <2> QED
    <3>1. CoordinatorIs(l[1], o, e, d)
      BY <1>2, <2>2, TranslateCoordinator DEF Asks
    <3> QED
      BY <2>2, <3>1, Zenon DEF o, e
<1>3. CASE Net[l[1]].nodetype # "CA"
  <2>1. o = m /\ e = c
    BY <1>3 DEF Leaving, AuthorityId
  <2> HIDE DEF o, e
  <2>2. Sent(o, IN_MESSAGE_TYPES, d, e, <<l[1], c>>) /\ CoordinatorIs(l[1], o, e, d)
    BY <1>1, <2>1 DEF Asks
  <2> QED
    BY <2>2, Zenon DEF o, e
<1> QED
  BY <1>2, <1>3

\* A request that the server accepts is as FromAgent says.
LEMMA RequestArrives ==
  ASSUME NEW l \in Links, Connected(l), Net[l[1]].nodetype # "AA",
         NEW d \in Int64, NEW c \in Int64, Match(NodeData[l[1]].creditors_subnet, c),
         NEW m, Asks(l[1], m, d, c), Arriving(l, m) # Refused,
         NEW x, x = [message |-> Arriving(l, m), from |-> l[1],
                     shard |-> ShardOf(NodeData[l[2]], Arriving(l, m))]
  PROVE  Net[l[2]].nodetype = "AA" /\ FromAgent(l[2], x)
<1> DEFINE o == Leaving(l, m)
           e == AuthorityId(l, c)
<1>1. /\ Back(l) \in Links /\ Back(l) = <<l[2], l[1]>> /\ l = <<l[1], l[2]>>
      /\ KnownPeer(l) # NoPeer /\ KnownPeer(Back(l)) # NoPeer
      /\ l[1] \in Nodes /\ PeerIs(l[1], l[2], KnownPeer(l))
  BY ConnectedLinks
<1>2. Net[l[2]].nodetype = "AA"
  BY <1>1 DEF PeerIs
<1>3. EnteringChecks(l, o) /\ Arriving(l, m) = Entering(l, o)
  BY Accepted, Zenon
<1>4. Arriving(l, m) = o
  BY <1>2, <1>3 DEF Entering
<1>5. /\ Sent(o, IN_MESSAGE_TYPES, d, e, <<l[1], c>>)
      /\ CoordinatorIs(l[1], o, e, d)
  BY RequestLeaves, Zenon
<1> HIDE DEF o
<1>6. /\ Match(KnownPeer(Back(l)).creditors_subnet, o.creditor_id)
      /\ Match(KnownPeer(Back(l)).debtors_subnet, o.debtor_id) /\ Loads(o)
  BY <1>3, Zenon DEF EnteringChecks, ParseMessageBody
<1>7. /\ o.creditor_id = e /\ o.debtor_id = d /\ o.asker = <<l[1], c>>
      /\ Sent(o, IN_MESSAGE_TYPES, o.debtor_id, o.creditor_id, o.asker)
  BY <1>5, Zenon DEF Sent
<1>8. x.message = o /\ x.from = l[1] /\ x.shard = ShardOf(NodeData[l[2]], o)
  BY <1>4, Zenon
<1>9. \E b \in Int64 :
             /\ o.asker = <<l[1], b>> /\ Match(NodeData[l[1]].creditors_subnet, b)
             /\ o.creditor_id = AuthorityId(l, b)
  BY <1>7
<1> QED
  BY <1>1, <1>2, <1>5, <1>6, <1>7, <1>8, <1>9 DEF FromAgent


\* The agent that the directory of an accounting authority gives an account to.
LEMMA AgentOfAccount ==
  ASSUME NEW l \in Links, Net[l[1]].nodetype = "AA", KnownPeer(l) # NoPeer,
         NEW c \in Int64, NEW d \in Int64,
         Match(KnownPeer(l).creditors_subnet, c), Match(KnownPeer(l).debtors_subnet, d)
  PROVE  /\ Net[l[2]].nodetype = IF c = ROOT_CREDITOR_ID THEN "DA" ELSE "CA"
         /\ (IF c = ROOT_CREDITOR_ID THEN d ELSE c) \in IdRange(l)
         /\ Match(NodeData[l[1]].debtors_subnet, d)
<1> DEFINE range == Net[l[1]].peers[l[2]].subnet
<1>1. /\ PeerIs(l[1], l[2], KnownPeer(l)) /\ c \in Int /\ l[1] \in Nodes
      /\ IsSubnet(KnownPeer(l).creditors_subnet) /\ IsSubnet(KnownPeer(l).debtors_subnet)
      /\ NodeData[l[1]].debtors_subnet = Parse(Net[l[1]].nodeid)
  BY KnownPeerIs, LinkFacts, NodeDataIs, Ints
<1>2. \A id \in Int64 : IsSubnet(Parse(range)) /\ Match(Parse(range), id) => id \in IdRange(l)
  BY SubnetNotInvalid, Zenon DEF IdRange, Ids
<1>3. CASE Net[l[2]].nodetype = "DA"
  <2>1. KnownPeer(l).creditors_subnet = ZERO_SUBNET /\ KnownPeer(l).debtors_subnet = Parse(range)
    BY <1>1, <1>3 DEF PeerIs
  <2>2. c = ROOT_CREDITOR_ID
    BY <1>1, <2>1, MatchZero, Zenon DEF ROOT_CREDITOR_ID
  <2>3. d \in IdRange(l)
    BY <1>1, <1>2, <2>1, Zenon
  <2>4. d \in Ids(Net[l[1]].nodeid)
    BY <1>3, <2>3, RangesAssumption
  <2> QED
    BY <1>1, <1>3, <2>2, <2>3, <2>4 DEF Ids
<1>4. CASE Net[l[2]].nodetype # "DA"
  <2>1. /\ Net[l[2]].nodetype = "CA" /\ KnownPeer(l).creditors_subnet = Parse(range)
        /\ KnownPeer(l).debtors_subnet = NodeData[l[1]].debtors_subnet
    BY <1>1, <1>4, Zenon DEF PeerIs
  <2>2. c \in IdRange(l)
    BY <1>1, <1>2, <2>1, Zenon
  <2>3. c # ROOT_CREDITOR_ID
    BY <2>1, <2>2, RangesAssumption, Zenon
  <2> QED
    BY <2>1, <2>2, <2>3
<1> QED
  BY <1>3, <1>4

\* There is one such agent.
LEMMA OneAgent ==
  ASSUME NEW k \in Links, NEW l \in Links, k[1] = l[1], Net[l[1]].nodetype = "AA",
         KnownPeer(k) # NoPeer, KnownPeer(l) # NoPeer, NEW c \in Int64, NEW d \in Int64,
         Match(KnownPeer(k).creditors_subnet, c), Match(KnownPeer(k).debtors_subnet, d),
         Match(KnownPeer(l).creditors_subnet, c), Match(KnownPeer(l).debtors_subnet, d)
  PROVE  k = l
<1>1. /\ Net[k[2]].nodetype = IF c = ROOT_CREDITOR_ID THEN "DA" ELSE "CA"
      /\ (IF c = ROOT_CREDITOR_ID THEN d ELSE c) \in IdRange(k)
  BY AgentOfAccount
<1>2. /\ Net[l[2]].nodetype = IF c = ROOT_CREDITOR_ID THEN "DA" ELSE "CA"
      /\ (IF c = ROOT_CREDITOR_ID THEN d ELSE c) \in IdRange(l)
  BY AgentOfAccount
<1>3. Net[k[2]].nodetype = Net[l[2]].nodetype /\ IdRange(k) \cap IdRange(l) # {}
  BY <1>1, <1>2
<1> QED
  BY <1>3, RangesAssumption

\* The bindings place an answer in the queue of the agent that asked, and in no
\* other.
LEMMA AskerFound ==
  ASSUME NEW l \in Links, Net[l[1]].nodetype = "AA", Configurable(l),
         NEW y, FromAgent(l[1], y), NEW a,
         a.creditor_id = y.message.creditor_id, a.debtor_id = y.message.debtor_id
  PROVE  SameExchange(l, a) /\ KeyMatches(BindingSubnet(l), KeyedId(l, a)) <=> l[2] = y.from
<1> DEFINE k == <<l[1], y.from>>
           c == y.message.creditor_id
           d == y.message.debtor_id
<1>1. /\ k \in Links /\ KnownPeer(k) # NoPeer /\ KnownPeer(l) # NoPeer
      /\ k[1] = l[1] /\ k[2] = y.from
      /\ Match(KnownPeer(k).creditors_subnet, c) /\ Match(KnownPeer(k).debtors_subnet, d)
      /\ HasBindingKey(BindingSubnet(l))
  BY DEF FromAgent, Configurable
<1>2. c \in Int64 /\ d \in Int64 /\ c \in Int
  BY <1>1, Ints DEF Match
<1>3. /\ PeerIs(l[1], l[2], KnownPeer(l)) /\ l = <<l[1], l[2]>>
      /\ Net[l[1]].peers[l[2]].nodetype = Net[l[2]].nodetype
      /\ NodeData[l[1]].node_type = "AA"
  BY <1>1, KnownPeerIs, LinkFacts, NodeDataIs
<1>4. /\ BindingSubnet(l) = IF Net[l[2]].nodetype = "CA" THEN KnownPeer(l).creditors_subnet
                            ELSE KnownPeer(l).debtors_subnet
      /\ IsSubnet(BindingSubnet(l))
  BY <1>1, BindingIs
<1>5. KeyMatches(BindingSubnet(l), KeyedId(l, a)) <=> Match(BindingSubnet(l), KeyedId(l, a))
  <2>1. KeyedId(l, a) \in Int64
    BY <1>2 DEF KeyedId
  <2> QED
    BY <1>1, <1>4, <2>1, KeyMatchesIffMatch
<1>6. SameExchange(l, a) <=> Net[l[2]].nodetype = IF c = ROOT_CREDITOR_ID THEN "DA" ELSE "CA"
  BY <1>3 DEF SameExchange
<1>7. /\ Net[k[2]].nodetype = IF c = ROOT_CREDITOR_ID THEN "DA" ELSE "CA"
      /\ Match(NodeData[l[1]].debtors_subnet, d)
  <2> HIDE DEF k, c, d
  <2> QED
    BY <1>1, <1>2, AgentOfAccount
<1>8. ASSUME l[2] = y.from
      PROVE  SameExchange(l, a) /\ KeyMatches(BindingSubnet(l), KeyedId(l, a))
  <2>1. k = l
    BY <1>3, <1>8
  <2>2. Match(BindingSubnet(l), KeyedId(l, a))
    BY <1>1, <1>4, <2>1 DEF KeyedId
  <2> QED
    BY <1>1, <1>5, <1>6, <1>7, <1>8, <2>2
<1>9. ASSUME SameExchange(l, a), Match(BindingSubnet(l), KeyedId(l, a))
      PROVE  l[2] = y.from
  <2>1. Match(KnownPeer(l).creditors_subnet, c) /\ Match(KnownPeer(l).debtors_subnet, d)
    <3>1. CASE c = ROOT_CREDITOR_ID
      <4>1. Net[l[2]].nodetype = "DA" /\ KnownPeer(l).creditors_subnet = ZERO_SUBNET
        BY <1>3, <1>6, <1>9, <3>1 DEF PeerIs
      <4>2. Match(KnownPeer(l).debtors_subnet, d)
        BY <1>4, <1>9, <4>1 DEF KeyedId
      <4>3. Match(ZERO_SUBNET, c)
        BY <1>2, <3>1, MatchZero DEF ROOT_CREDITOR_ID
      <4> QED
        BY <4>1, <4>2, <4>3
    <3>2. CASE c # ROOT_CREDITOR_ID
      <4>1. /\ Net[l[2]].nodetype = "CA"
            /\ KnownPeer(l).debtors_subnet = NodeData[l[1]].debtors_subnet
        BY <1>3, <1>6, <1>9, <3>2 DEF PeerIs
      <4> QED
        BY <1>4, <1>7, <1>9, <4>1, Zenon DEF KeyedId
    <3> QED
      BY <3>1, <3>2
  <2>2. k = l
    <3> HIDE DEF k, c, d
    <3> QED
      BY <1>1, <1>2, <2>1, OneAgent
  <2> QED
    BY <1>1, <2>2
<1> QED
  BY <1>5, <1>8, <1>9

\* The message o, about the debtor d, as it enters the node l[2] for one of its own
\* creditors.
EnteredFor(l, o, d) ==
    \E c \in Int64 : /\ Match(NodeData[l[2]].creditors_subnet, c)
                     /\ Sent(o, OUT_MESSAGE_TYPES, d, c, <<l[2], c>>)
                     /\ CoordinatorIs(l[2], o, c, d)

\* What the server of an agent makes of an answer: it gives the creditor the ID
\* that the agent knows it under.
LEMMA AnswerEnters ==
  ASSUME NEW l \in Links, Connected(l), Net[l[1]].nodetype = "AA",
         NEW y, FromAgent(l[1], y), y.from = l[2],
         NEW a, AnswerOf(a, y.message)
  PROVE  /\ Net[l[2]].nodetype \in {"CA", "DA"}
         /\ Match(KnownPeer(l).creditors_subnet, a.creditor_id) /\ a.creditor_id \in Int64
         /\ Match(KnownPeer(l).debtors_subnet, y.message.debtor_id)
         /\ y.message.debtor_id \in Int64
         /\ Match(NodeData[l[1]].debtors_subnet, y.message.debtor_id)
         /\ CoordinatorIs(l[2], a, a.creditor_id, y.message.debtor_id)
         /\ EnteredFor(l, Entering(l, a), y.message.debtor_id)
<1> DEFINE own == NodeData[l[2]].creditors_subnet
           r == KnownPeer(Back(l)).creditors_subnet
           q == y.message
           e == q.creditor_id
           d == q.debtor_id
           o == Entering(l, a)
<1>1. /\ Back(l) = <<l[2], l[1]>> /\ l = <<l[1], l[2]>> /\ IsSubnet(own) /\ IsSubnet(r)
      /\ PeerIs(l[1], l[2], KnownPeer(l)) /\ PeerIs(l[2], l[1], KnownPeer(Back(l)))
      /\ KnownPeer(l) # NoPeer
  BY ConnectedLinks
<1>2. Net[l[2]].nodetype \in {"CA", "DA"}
  BY <1>1 DEF PeerIs
<1>3. /\ Sent(a, OUT_MESSAGE_TYPES, d, e, q.asker) /\ OUT_MESSAGE_TYPES \subseteq MsgTypes
      /\ a.creditor_id = e
  BY DEF AnswerOf, Sent, MsgTypes
<1>4. /\ Match(KnownPeer(l).creditors_subnet, e) /\ Match(KnownPeer(l).debtors_subnet, d)
      /\ e \in Int64 /\ d \in Int64
  BY <1>1 DEF FromAgent, Match
<1>5. Match(NodeData[l[1]].debtors_subnet, d)
  <2> HIDE DEF e, d
  <2> QED
    BY <1>1, <1>4, AgentOfAccount
<1>6. CoordinatorIs(l[2], a, e, d)
  BY DEF FromAgent, AnswerOf, CoordinatorIs
<1>7. PICK c \in Int64 :
        /\ q.asker = <<l[2], c>> /\ Match(own, c)
        /\ e = IF Net[l[2]].nodetype = "CA" THEN ChangeSubnet(c, own, r) ELSE c
  <2>1. Back(l)[1] = l[2]
    BY <1>1
  <2> QED
    BY <1>1, <2>1 DEF FromAgent, AuthorityId
<1>8. /\ Sent(o, OUT_MESSAGE_TYPES, d, c, q.asker)
      /\ CoordinatorIs(l[2], o, c, d)
  <2>1. CASE Net[l[2]].nodetype = "CA"
    <3>1. o = Translate(a, r, own)
      BY <2>1 DEF Entering
    <3>2. /\ own.subnet_mask = r.subnet_mask /\ c \in Int
          /\ And(c, own.subnet_mask) = own.subnet
      BY <1>1, <1>7, <2>1, Ints DEF PeerIs, Match
    <3> HIDE DEF own, r, e, q, d, o
    <3>3. ChangeSubnet(ChangeSubnet(c, own, r), r, own) = c
      BY <1>1, <3>2, ChangeBack
    <3>4. ChangeSubnet(e, r, own) = c
      BY <1>7, <2>1, <3>3
    <3>5. /\ Sent(o, OUT_MESSAGE_TYPES, d, c, q.asker)
          /\ CoordinatorKept(o, a, c)
      <4>1. /\ Sent(Translate(a, r, own), OUT_MESSAGE_TYPES, d, ChangeSubnet(e, r, own), q.asker)
            /\ CoordinatorKept(Translate(a, r, own), a, ChangeSubnet(e, r, own))
        BY <1>3, TranslateSent, Zenon
      <4> QED
        BY <3>1, <3>4, <4>1, Zenon
    <3> QED
      BY <1>6, <2>1, <3>5, TranslateCoordinator, Zenon
  <2>2. CASE Net[l[2]].nodetype # "CA"
    <3>1. o = a /\ e = c
      BY <1>7, <2>2 DEF Entering
    <3> HIDE DEF e, q, d, o
    <3> QED
      BY <1>3, <1>6, <2>2, <3>1
  <2> QED
    BY <2>1, <2>2
<1>9. EnteredFor(l, o, d)
  <2> HIDE DEF e, q, d, o
  <2> QED
    BY <1>7, <1>8, Zenon DEF EnteredFor
<1> HIDE DEF e
<1> QED
  BY <1>2, <1>3, <1>4, <1>5, <1>6, <1>9, Zenon

\* An answer that the server accepts is as FromAuthority says.
LEMMA AnswerArrives ==
  ASSUME NEW l \in Links, Connected(l), Net[l[1]].nodetype = "AA",
         NEW y, FromAgent(l[1], y), y.from = l[2],
         NEW a, AnswerOf(a, y.message), Arriving(l, a) # Refused,
         NEW x, x = [message |-> Arriving(l, a), from |-> l[1],
                     shard |-> ShardOf(NodeData[l[2]], Arriving(l, a))]
  PROVE  Net[l[2]].nodetype # "AA" /\ FromAuthority(l[2], x)
<1> DEFINE o == Entering(l, a)
           d == y.message.debtor_id
<1>1. /\ Back(l) \in Links /\ Back(l) = <<l[2], l[1]>> /\ l = <<l[1], l[2]>>
      /\ KnownPeer(l) # NoPeer /\ KnownPeer(Back(l)) # NoPeer /\ l[1] \in Nodes
  BY ConnectedLinks
<1>2. EnteringChecks(l, a) /\ Arriving(l, a) = o
  <2>1. Leaving(l, a) = a
    BY DEF Leaving
  <2> QED
    BY <2>1, Accepted
<1>3. a.debtor_id = d
  BY DEF AnswerOf, Sent
<1>4. /\ Net[l[2]].nodetype \in {"CA", "DA"} /\ d \in Int64
      /\ Match(NodeData[l[1]].debtors_subnet, d)
      /\ EnteredFor(l, o, d)
  BY AnswerEnters, Zenon
<1> HIDE DEF o, d
<1>5. PICK c \in Int64 :
        /\ Match(NodeData[l[2]].creditors_subnet, c)
        /\ Sent(o, OUT_MESSAGE_TYPES, d, c, <<l[2], c>>)
        /\ CoordinatorIs(l[2], o, c, d)
  BY <1>4, Zenon DEF EnteredFor
<1>6. Match(KnownPeer(Back(l)).debtors_subnet, d)
  BY <1>2, <1>3, Zenon DEF EnteringChecks
<1>7. Loads(o)
  <2>1. Coordinates(o) /\ OUT_MESSAGE_TYPES \subseteq MsgTypes
    BY <1>5, Zenon DEF Coordinates, Sent, OUT_MESSAGE_TYPES, MsgTypes
  <2>2. HasCoordinator(o) => o.coordinator_id \in Int64
    BY <1>4, <1>5, Zenon DEF CoordinatorIs
  <2> QED
    BY <1>4, <1>5, <2>1, <2>2, SentLoads, Zenon
<1>8. /\ o.creditor_id = c /\ o.debtor_id = d /\ o.asker = <<l[2], c>>
      /\ Sent(o, OUT_MESSAGE_TYPES, o.debtor_id, o.creditor_id, o.asker)
  BY <1>5, Zenon DEF Sent
<1>9. x.message = o /\ x.from = l[1]
  BY <1>2, Zenon
<1>10. HasCoordinator(o) /\ o.coordinator_type = "direct" => o.coordinator_id = o.creditor_id
  BY <1>5, <1>8, Zenon DEF CoordinatorIs
<1> QED
  BY <1>1, <1>4, <1>5, <1>6, <1>7, <1>8, <1>9, <1>10 DEF FromAuthority

=============================================================================
