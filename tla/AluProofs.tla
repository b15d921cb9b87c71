----------------------------- MODULE AluProofs -----------------------------
(***************************************************************************)
(* Proofs about the operators of Alu, for words of any width: powers of    *)
(* two, the bits of C's & | ^ ~, and that every instruction yields words.  *)
(*                                                                         *)
(* Conjunction is a recursive function; that it exists, and what holds of  *)
(* each of its values, follows from the least number for which it would    *)
(* not be so.                                                              *)
(***************************************************************************)
EXTENDS Alu, FiniteSetTheorems, NaturalsInduction, WellFoundedInduction, TLAPS

(* Powers of two *)

LEMMA Least ==
    ASSUME NEW S \in SUBSET Nat, S # {}
    PROVE  \E k \in S : \A m \in S : k =< m
<1>1. IsWellFoundedOn(OpToRel(<, Nat), Nat)
    BY NatLessThanWellFounded
<1>2. \E k \in S : \A m \in S : ~(<<m, k>> \in OpToRel(<, Nat))
    BY <1>1, WFMin, Zenon
<1>3. \E k \in S : \A m \in S : ~(m < k)
    BY <1>2, Zenon DEF OpToRel
<1> QED BY <1>3

\* 2^n counts the subsets of n numbers; those of one number more are twice as many, with
\* that number and without it.
LEMMA Subsets ==
    ASSUME NEW A, IsFiniteSet(A), NEW x, x \notin A
    PROVE  /\ IsFiniteSet(SUBSET A) /\ Cardinality(SUBSET A) \in Nat \ {0}
           /\ Cardinality(SUBSET (A \cup {x})) = 2 * Cardinality(SUBSET A)
<1> DEFINE P == SUBSET A
           Q == {B \cup {x} : B \in P}
<1>1. IsFiniteSet(P) /\ Cardinality(P) \in Nat
    BY FS_SUBSET, FS_CardinalityType
<1>2. Cardinality(P) # 0
    <2>1. {} \in P
        OBVIOUS
    <2> HIDE DEF P
    <2> QED BY <2>1, <1>1, FS_EmptySet
<1>3. ExistsBijection(P, Q)
    <2> DEFINE f == [B \in P |-> B \cup {x}]
    <2>1. f \in [P -> Q]
        BY Zenon
    <2>2. ASSUME NEW B \in P, NEW C \in P, f[B] = f[C]
          PROVE  B = C
        BY <2>2, Zenon
    <2>3. \A D \in Q : \E B \in P : f[B] = D
        BY Zenon
    <2>4. f \in Injection(P, Q)
        BY <2>1, <2>2, Zenon DEF Injection, IsInjective
    <2>5. f \in Surjection(P, Q)
        BY <2>1, <2>3, Zenon DEF Surjection
    <2> QED BY <2>4, <2>5, Zenon DEF Bijection, ExistsBijection
<1>4. IsFiniteSet(Q) /\ Cardinality(Q) = Cardinality(P)
    BY <1>1, <1>3, FS_Bijection, Zenon
<1>5. SUBSET (A \cup {x}) = P \cup Q
    <2>1. \A D \in SUBSET (A \cup {x}) : D \in P \cup Q
        <3>1. TAKE D \in SUBSET (A \cup {x})
        <3>2. CASE x \in D
            <4>1. D \ {x} \in P /\ D = (D \ {x}) \cup {x}
                BY <3>2
            <4> QED BY <4>1
        <3>3. CASE x \notin D
            BY <3>3
        <3> QED BY <3>2, <3>3
    <2>2. \A D \in P \cup Q : D \in SUBSET (A \cup {x})
        OBVIOUS
    <2> HIDE DEF P, Q
    <2> QED BY <2>1, <2>2
<1>6. P \cap Q = {}
    OBVIOUS
<1>7. Cardinality(P \cup Q) = Cardinality(P) + Cardinality(Q) - 0
    <2> HIDE DEF P, Q
    <2> QED BY <1>1, <1>4, <1>6, FS_Union, FS_EmptySet
<1> HIDE DEF P, Q
<1>8. Cardinality(SUBSET (A \cup {x})) = 2 * Cardinality(P)
    <2>1. PICK c : c = Cardinality(P)
        OBVIOUS
    <2>2. c \in Nat /\ Cardinality(SUBSET (A \cup {x})) = c + c - 0
        BY <2>1, <1>1, <1>4, <1>5, <1>7, Zenon
    <2>3. Cardinality(SUBSET (A \cup {x})) = 2 * c
        BY <2>2
    <2> QED BY <2>1, <2>3
<1> QED BY <1>1, <1>2, <1>8 DEF P

LEMMA TwoPower ==
    ASSUME NEW n \in Nat
    PROVE  2^n \in Nat \ {0} /\ 2^(n + 1) = 2 * 2^n
<1> DEFINE A == 1..n
           x == n + 1
<1>1. IsFiniteSet(A) /\ Cardinality(A) = n
    BY FS_Interval
<1>2. x \notin A
    OBVIOUS
<1>3. A \cup {x} = 1..(n + 1)
    OBVIOUS
<1>4. IsFiniteSet(A \cup {x}) /\ Cardinality(A \cup {x}) = n + 1
    <2>1. IsFiniteSet(1..(n + 1)) /\ Cardinality(1..(n + 1)) = n + 1
        BY FS_Interval
    <2> HIDE DEF A, x
    <2> QED BY <2>1, <1>3
<1> HIDE DEF A, x
<1>5. Cardinality(SUBSET A) = 2^n /\ Cardinality(SUBSET (A \cup {x})) = 2^(n + 1)
    BY <1>1, <1>4, FS_SUBSET, Zenon
<1>6. Cardinality(SUBSET A) \in Nat \ {0} /\ Cardinality(SUBSET (A \cup {x})) = 2 * Cardinality(SUBSET A)
    BY <1>1, <1>2, Subsets, Zenon
<1> QED BY <1>5, <1>6, Zenon

LEMMA PowersAdd ==
    ASSUME NEW m \in Nat, NEW n \in Nat
    PROVE  2^(m + n) = 2^m * 2^n
<1> DEFINE Bad == {k \in Nat : ~(2^(m + k) = 2^m * 2^k)}
<1>1. ASSUME NEW k \in Bad, \A j \in Bad : k =< j
      PROVE  FALSE
    <2>0. k \in Nat /\ ~(2^(m + k) = 2^m * 2^k)
        OBVIOUS
    <2>1. CASE k = 0
        <3>1. 2^k = 1 /\ m + k = m
            BY <2>1
        <3>2. 2^m \in Nat
            BY TwoPower
        <3> DEFINE p == 2^m
                   q == 2^k
        <3>3. p * q = p
            <4>1. p \in Nat /\ q = 1
                BY <3>1, <3>2
            <4> HIDE DEF p, q
            <4> QED BY <4>1
        <3> QED BY <3>1, <3>3, <2>0
    <2>2. CASE k # 0
        <3>1. PICK j \in Nat : k = j + 1
            BY <2>0, <2>2
        <3>2. 2^(m + j) = 2^m * 2^j
            <4>1. ~(k =< j)
                BY <3>1
            <4> QED BY <4>1, <1>1
        <3>3. m + k = (m + j) + 1 /\ m + j \in Nat
            BY <3>1
        <3>4. 2^((m + j) + 1) = 2 * 2^(m + j) /\ 2^(j + 1) = 2 * 2^j /\ 2^j \in Nat /\ 2^m \in Nat
            BY <3>3, TwoPower
        <3>5. 2^(m + k) = 2 * (2^m * 2^j) /\ 2^k = 2 * 2^j
            BY <3>1, <3>2, <3>3, <3>4, Zenon
        <3> DEFINE p == 2^m
                   q == 2^j
        <3>6. 2 * (p * q) = p * (2 * q)
            <4>1. p \in Nat /\ q \in Nat
                BY <3>4
            <4> HIDE DEF p, q
            <4> QED BY <4>1
        <3> QED BY <3>5, <3>6, <2>0, Zenon
    <2> QED BY <2>1, <2>2
<1>2. Bad = {}
    <2>1. Bad \in SUBSET Nat
        OBVIOUS
    <2> HIDE DEF Bad
    <2> QED BY <2>1, <1>1, Least
<1> QED BY <1>2

\* The bits are those of a word whose sign is the highest.
LEMMA ModPower == WIDTH \in Nat \ {0} /\ MSB \in Nat \ {0} /\ Mod = 2^WIDTH
<1>1. WIDTH - 1 \in Nat /\ (WIDTH - 1) + 1 = WIDTH
    BY AluAssumption
<1>2. 2^(WIDTH - 1) \in Nat \ {0} /\ 2^((WIDTH - 1) + 1) = 2 * 2^(WIDTH - 1)
    BY <1>1, TwoPower
<1>3. MSB = 2^(WIDTH - 1) /\ 2^WIDTH = 2 * MSB
    BY <1>1, <1>2, AluAssumption, Zenon
<1> QED BY <1>2, <1>3, AluAssumption, Zenon DEF Mod

LEMMA AluNumbers == WIDTH \in Nat \ {0} /\ MSB \in Nat \ {0} /\ Mod \in Nat \ {0}
BY ModPower, SMT DEF Mod

USE AluNumbers

----------------------------------------------------------------------------
(* Quotients and remainders *)

LEMMA DivMod ==
    ASSUME NEW x \in Int, NEW d \in Nat \ {0}
    PROVE  /\ x \div d \in Int /\ x % d \in 0..(d - 1)
           /\ x = d * (x \div d) + (x % d)
OBVIOUS

LEMMA Monotone ==
    ASSUME NEW d \in Nat \ {0}, NEW p \in Int, NEW q \in Int, p < q
    PROVE  d * p + d =< d * q
<1> DEFINE e == q - p - 1
<1>1. e \in Nat /\ q = p + 1 + e
    OBVIOUS
<1> HIDE DEF e
<1>2. d * e \in Nat /\ d * q = d * p + d + d * e
    BY <1>1
<1>3. d * p \in Int
    OBVIOUS
<1> QED BY <1>2, <1>3

LEMMA DivUnique ==
    ASSUME NEW d \in Nat \ {0}, NEW q \in Int, NEW r \in 0..(d - 1)
    PROVE  (d * q + r) \div d = q /\ (d * q + r) % d = r
<1> DEFINE x == d * q + r
           p == x \div d
           m == x % d
<1>1. x \in Int /\ x = d * q + r /\ d * q \in Int
    OBVIOUS
<1>2. p \in Int /\ m \in 0..(d - 1) /\ x = d * p + m
    BY <1>1, DivMod
<1> HIDE DEF x, p, m
<1>3. d * p \in Int
    BY <1>2
<1>4. p < q => d * p + d =< d * q
    BY <1>2, Monotone
<1>5. q < p => d * q + d =< d * p
    BY <1>2, Monotone
<1>6. p = q
    BY <1>1, <1>2, <1>3, <1>4, <1>5
<1> QED BY <1>1, <1>2, <1>6 DEF p, m, x

\* A quotient of naturals is no larger than the dividend, and less than what the dividend
\* is less than as often as the divisor.
LEMMA DivBounds ==
    ASSUME NEW x \in Nat, NEW d \in Nat \ {0}
    PROVE  /\ x \div d \in 0..x /\ x % d \in 0..x
           /\ \A n \in Nat : x < d * n => x \div d < n
<1> DEFINE q == x \div d
           r == x % d
<1>1. q \in Int /\ r \in 0..(d - 1) /\ x = d * q + r
    BY DivMod
<1> HIDE DEF q, r
<1>2. q \in Nat
    <2>1. ASSUME q < 0
          PROVE  FALSE
        <3>1. d * q + d =< d * 0
            BY <2>1, <1>1, Monotone
        <3>2. d * 0 = 0
            OBVIOUS
        <3> DEFINE dq == d * q
        <3>3. dq + d =< 0 /\ dq \in Int /\ x = dq + r
            BY <3>1, <3>2, <1>1
        <3> HIDE DEF dq
        <3> QED BY <3>3, <1>1
    <2> QED BY <2>1, <1>1
<1>3. q =< x /\ r =< x
    <2>1. PICK e \in Nat : d = e + 1
        BY d - 1 \in Nat
    <2>2. d * q = e * q + q /\ e * q \in Nat
        BY <2>1, <1>2
    <2> QED BY <2>2, <1>1, <1>2
<1>4. ASSUME NEW n \in Nat, x < d * n
      PROVE  q < n
    <2>1. ASSUME n =< q
          PROVE  FALSE
        <3>1. n < q => d * n + d =< d * q
            BY <1>1, Monotone
        <3>2. n = q => d * n = d * q
            OBVIOUS
        <3> DEFINE dq == d * q
                   dn == d * n
        <3>3. dq \in Int /\ dn \in Int /\ x = dq + r /\ x < dn
            BY <1>1, <1>4
        <3>4. (n < q => dn + d =< dq) /\ (n = q => dn = dq)
            BY <3>1, <3>2
        <3> HIDE DEF dq, dn
        <3> QED BY <2>1, <3>3, <3>4, <1>1
    <2> QED BY <2>1, <1>1
<1> QED BY <1>1, <1>2, <1>3, <1>4 DEF q, r

----------------------------------------------------------------------------
(* Bits *)

\* One bit more.
LEMMA NextBit ==
    ASSUME NEW x \in Nat, NEW k \in Nat
    PROVE  /\ Bit(x, k) \in {0, 1} /\ x % 2^k \in Nat /\ x % 2^k < 2^k
           /\ x % 2^(k + 1) = (x % 2^k) + (Bit(x, k) * 2^k)
<1>1. PICK d : d = 2^k
    OBVIOUS
<1>2. d \in Nat \ {0} /\ 2^(k + 1) = 2 * d
    BY <1>1, TwoPower
<1> DEFINE h == x \div d
           r == x % d
           q == h \div 2
           c == h % 2
<1>3. h \in Int /\ r \in 0..(d - 1) /\ x = d * h + r
    BY <1>2, DivMod
<1>4. q \in Int /\ c \in {0, 1} /\ h = 2 * q + c
    <2> HIDE DEF h
    <2> QED BY <1>3
<1>5. Bit(x, k) = c
    BY <1>1, Zenon DEF Bit
<1> HIDE DEF h, r, q, c
<1>6. x = (2 * d) * q + (c * d + r) /\ c * d + r \in 0..(2 * d - 1)
    <2>1. CASE c = 0
        <3>1. d * (2 * q) = (2 * d) * q
            BY <1>2, <1>4
        <3>2. c * d = 0 /\ h = 2 * q
            BY <2>1, <1>2, <1>4
        <3>3. x = (2 * d) * q + r
            BY <1>3, <3>1, <3>2, Zenon
        <3>4. (2 * d) * q \in Int
            BY <1>2, <1>4
        <3> QED BY <3>2, <3>3, <1>2, <1>3
    <2>2. CASE c = 1
        <3>1. d * (2 * q + 1) = (2 * d) * q + d
            BY <1>2, <1>4
        <3>2. c * d = d /\ h = 2 * q + 1
            BY <2>2, <1>2, <1>4
        <3> DEFINE z == (2 * d) * q
        <3>3. x = (z + d) + r
            BY <1>3, <3>1, <3>2, Zenon
        <3>4. z \in Int
            BY <1>2, <1>4
        <3> HIDE DEF z
        <3>5. x = z + (d + r)
            BY <3>3, <3>4, <1>2, <1>3
        <3> QED BY <3>2, <3>5, <1>2, <1>3 DEF z
    <2> QED BY <1>4, <2>1, <2>2
<1>7. x % (2 * d) = c * d + r
    <2>1. 2 * d \in Nat \ {0}
        BY <1>2
    <2> DEFINE e == 2 * d
               s == c * d + r
    <2>2. e \in Nat \ {0} /\ s \in 0..(e - 1) /\ x = e * q + s
        BY <2>1, <1>6
    <2> HIDE DEF e, s
    <2>3. x % e = s
        BY <2>2, <1>4, DivUnique
    <2> QED BY <2>3 DEF e, s
<1>8. c * d + r = r + (c * d)
    BY <1>2, <1>3, <1>4
<1>9. x % 2^(k + 1) = (x % 2^k) + (Bit(x, k) * 2^k)
    BY <1>1, <1>2, <1>5, <1>7, <1>8, Zenon DEF r
<1>10. x % 2^k \in Nat /\ x % 2^k < 2^k
    <2>1. r \in Nat /\ r < d
        BY <1>2, <1>3
    <2> QED BY <2>1, <1>1, Zenon DEF r
<1> QED BY <1>4, <1>5, <1>9, <1>10, Zenon

\* And is the last of the sums over the bits.
LEMMA AndSums ==
    ASSUME NEW p, NEW q
    PROVE  \E f : /\ And(p, q) = f[WIDTH] /\ f[0] = 0
                  /\ \A k \in 0..(WIDTH - 1) :
                        f[k + 1] = f[k] + (Bit(p, k) * Bit(q, k) * 2^k)
<1> DEFINE Term(k) == Bit(p, k) * Bit(q, k) * 2^k
           Step(f, k) == IF k = 0 THEN 0 ELSE f[k - 1] + Term(k - 1)
           Upto(f, n) == f = [k \in 0..n |-> Step(f, k)]
           Bad == {n \in Nat : ~ \E f : Upto(f, n)}
<1> HIDE DEF Term
<1>1. ASSUME NEW n \in Bad, \A m \in Bad : n =< m
      PROVE  FALSE
    <2>0. n \in Nat
        OBVIOUS
    <2>1. CASE n = 0
        <3> DEFINE f == [k \in 0..n |-> 0]
        <3>1. \A k \in 0..n : Step(f, k) = 0
            BY <2>1
        <3> HIDE DEF Step
        <3>2. Upto(f, n)
            BY <3>1
        <3> HIDE DEF Upto
        <3> QED BY <3>2
    <2>2. CASE n # 0
        <3>1. PICK m \in Nat : n = m + 1
            BY <2>0, <2>2
        <3>2. \E f : Upto(f, m)
            <4>1. ~(n =< m)
                BY <3>1
            <4> HIDE DEF Upto
            <4> QED BY <4>1, <1>1
        <3>3. PICK g : Upto(g, m)
            BY <3>2
        <3> DEFINE f == [k \in 0..n |-> IF k = n THEN Step(g, n) ELSE g[k]]
        <3>4. \A k \in 0..m : g[k] = Step(g, k)
            BY <3>3
        <3>5. \A k \in 0..n : f[k] = Step(f, k)
            <4>1. TAKE k \in 0..n
            <4>2. CASE k = n
                <5>1. n - 1 \in 0..n /\ n - 1 # n /\ n \in 0..n
                    BY <3>1
                <5>2. f[n] = Step(g, n) /\ f[n - 1] = g[n - 1]
                    BY <5>1
                <5> HIDE DEF f
                <5> QED BY <4>2, <5>2
            <4>3. CASE k # n
                <5>1. k \in 0..m /\ (k # 0 => k - 1 \in 0..n /\ k - 1 # n)
                    BY <4>3, <3>1
                <5>2. f[k] = g[k] /\ (k # 0 => f[k - 1] = g[k - 1])
                    BY <4>3, <5>1
                <5> HIDE DEF f
                <5> QED BY <3>4, <5>1, <5>2
            <4> QED BY <4>2, <4>3
        <3>6. f = [k \in 0..n |-> f[k]]
            OBVIOUS
        <3> HIDE DEF f, Step
        <3>7. Upto(f, n)
            BY <3>5, <3>6
        <3> HIDE DEF Upto
        <3> QED BY <3>7
    <2> QED BY <2>1, <2>2
<1>2. Bad = {}
    <2>1. Bad \in SUBSET Nat
        OBVIOUS
    <2> HIDE DEF Bad
    <2> QED BY <2>1, <1>1, Least
<1>3. \E f : Upto(f, WIDTH)
    BY <1>2
<1> DEFINE and == CHOOSE f : Upto(f, WIDTH)
<1>4. Upto(and, WIDTH)
    <2> HIDE DEF Upto
    <2> QED BY <1>3
<1>5. And(p, q) = and[WIDTH]
    BY DEF And, Term
<1> HIDE DEF and
<1>6. \A k \in 0..WIDTH : and[k] = Step(and, k)
    BY <1>4
<1>7. and[0] = 0
    BY <1>6
<1>8. ASSUME NEW k \in 0..(WIDTH - 1)
      PROVE  and[k + 1] = and[k] + Term(k)
    <2>1. k + 1 \in 0..WIDTH /\ k + 1 # 0 /\ (k + 1) - 1 = k
        OBVIOUS
    <2>2. and[k + 1] = and[(k + 1) - 1] + Term((k + 1) - 1)
        BY <2>1, <1>6
    <2> QED BY <2>1, <2>2
<1> QED BY <1>5, <1>7, <1>8, Zenon DEF Term

\* Bit by bit, a conjunction is in both of its operands, and what is in either of them is
\* a word.
LEMMA AndBounds ==
    ASSUME NEW p \in Word, NEW q \in Word
    PROVE  /\ And(p, q) \in Nat /\ And(p, q) =< p /\ And(p, q) =< q
           /\ p + q - And(p, q) < Mod
<1>0. p \in Nat /\ q \in Nat /\ p < Mod /\ q < Mod
    BY SMT DEF Word
<1>1. PICK f : /\ And(p, q) = f[WIDTH] /\ f[0] = 0
               /\ \A k \in 0..(WIDTH - 1) :
                     f[k + 1] = f[k] + (Bit(p, k) * Bit(q, k) * 2^k)
    BY AndSums, Zenon
<1> DEFINE Bounded(k) == /\ f[k] \in Nat /\ f[k] =< p % 2^k /\ f[k] =< q % 2^k
                         /\ (p % 2^k) + (q % 2^k) - f[k] < 2^k
           Bad == {k \in 0..WIDTH : ~Bounded(k)}
<1>2. ASSUME NEW n \in Bad, \A m \in Bad : n =< m
      PROVE  FALSE
    <2>0. n \in 0..WIDTH /\ ~Bounded(n)
        OBVIOUS
    <2>1. CASE n = 0
        <3>1. 2^n = 1
            BY <2>1
        <3>2. p % 1 = 0 /\ q % 1 = 0 /\ f[n] = 0
            BY <1>0, <1>1, <2>1
        <3>3. p % 2^n = 0 /\ q % 2^n = 0
            BY <3>1, <3>2, Zenon
        <3>4. 0 \in Nat /\ 0 =< 0 /\ 0 + 0 - 0 < 1
            OBVIOUS
        <3> QED BY <2>0, <3>1, <3>2, <3>3, <3>4, Zenon
    <2>2. CASE n # 0
        <3>1. PICK m \in 0..(WIDTH - 1) : n = m + 1 /\ m \in 0..WIDTH /\ m \in Nat
            <4>1. n - 1 \in 0..(WIDTH - 1) /\ n = (n - 1) + 1
                BY <2>0, <2>2
            <4> QED BY <4>1
        <3>2. Bounded(m)
            <4>1. ~(n =< m)
                BY <3>1
            <4> HIDE DEF Bounded
            <4> QED BY <4>1, <3>1, <1>2
        <3>3. PICK d : d = 2^m
            OBVIOUS
        <3>4. d \in Nat \ {0} /\ 2^n = 2 * d
            BY <3>1, <3>3, TwoPower
        <3>5. PICK c : c = Bit(p, m)
            OBVIOUS
        <3>6. PICK e : e = Bit(q, m)
            OBVIOUS
        <3>7. PICK r : r = p % d
            OBVIOUS
        <3>8. PICK s : s = q % d
            OBVIOUS
        <3>9. /\ c \in {0, 1} /\ r \in Nat /\ r < d /\ p % 2^n = r + (c * d)
              /\ e \in {0, 1} /\ s \in Nat /\ s < d /\ q % 2^n = s + (e * d)
            BY <1>0, <3>1, <3>3, <3>5, <3>6, <3>7, <3>8, NextBit, Zenon
        <3>10. PICK g : g = f[m]
            OBVIOUS
        <3>11. g \in Nat /\ g =< r /\ g =< s /\ r + s - g < d
            BY <3>2, <3>3, <3>7, <3>8, <3>10, Zenon
        <3>12. PICK h : h = f[n]
            OBVIOUS
        <3>13. h = g + (c * e * d)
            BY <1>1, <3>1, <3>3, <3>5, <3>6, <3>10, <3>12, Zenon
        <3>14. PICK u : u = p % 2^n
            OBVIOUS
        <3>15. PICK v : v = q % 2^n
            OBVIOUS
        <3>16. h \in Nat /\ h =< u /\ h =< v /\ u + v - h < 2 * d
            <4>1. u = r + (c * d) /\ v = s + (e * d)
                BY <3>9, <3>14, <3>15, Zenon
            <4>2. CASE c = 0 /\ e = 0
                <5>1. c * d = 0 /\ e * d = 0 /\ c * e * d = 0
                    BY <4>2, <3>4
                <5> QED BY <5>1, <4>1, <3>4, <3>9, <3>11, <3>13
            <4>3. CASE c = 1 /\ e = 0
                <5>1. c * d = d /\ e * d = 0 /\ c * e * d = 0
                    BY <4>3, <3>4
                <5> QED BY <5>1, <4>1, <3>4, <3>9, <3>11, <3>13
            <4>4. CASE c = 0 /\ e = 1
                <5>1. c * d = 0 /\ e * d = d /\ c * e * d = 0
                    BY <4>4, <3>4
                <5> QED BY <5>1, <4>1, <3>4, <3>9, <3>11, <3>13
            <4>5. CASE c = 1 /\ e = 1
                <5>1. c * d = d /\ e * d = d /\ c * e * d = d
                    BY <4>5, <3>4
                <5> QED BY <5>1, <4>1, <3>4, <3>9, <3>11, <3>13
            <4> QED BY <4>2, <4>3, <4>4, <4>5, <3>9
        <3>17. Bounded(n)
            BY <3>4, <3>12, <3>14, <3>15, <3>16, Zenon
        <3> QED BY <2>0, <3>17
    <2> QED BY <2>1, <2>2
<1>3. Bad = {}
    <2>1. Bad \in SUBSET Nat
        <3> HIDE DEF Bounded
        <3> QED OBVIOUS
    <2> HIDE DEF Bad
    <2> QED BY <2>1, <1>2, Least
<1>4. Bounded(WIDTH)
    <2>1. WIDTH \in 0..WIDTH
        OBVIOUS
    <2> HIDE DEF Bounded
    <2> QED BY <2>1, <1>3
<1>5. 2^WIDTH = Mod
    BY ModPower
<1>6. p % Mod = p /\ q % Mod = q
    BY <1>0
<1> QED BY <1>1, <1>4, <1>5, <1>6, Zenon

LEMMA BitwiseTyped ==
    ASSUME NEW p \in Word, NEW q \in Word
    PROVE  And(p, q) \in Word /\ Or(p, q) \in Word /\ Xor(p, q) \in Word /\ Not(p) \in Word
<1>0. p \in Nat /\ q \in Nat /\ p < Mod /\ q < Mod
    BY SMT DEF Word
<1>1. PICK x : x = And(p, q)
    OBVIOUS
<1>2. x \in Nat /\ x =< p /\ x =< q /\ p + q - x < Mod
    BY <1>1, AndBounds, Zenon
<1>3. x \in 0..(Mod - 1) /\ (p + q) - x \in 0..(Mod - 1) /\ (p + q) - (2 * x) \in 0..(Mod - 1)
      /\ Mod - 1 - p \in 0..(Mod - 1)
    BY <1>0, <1>2
<1> QED BY <1>1, <1>3, Zenon DEF Or, Xor, Not, Word

----------------------------------------------------------------------------
(* Instructions *)

LEMMA ModBounds ==
    ASSUME NEW x \in Int
    PROVE  x % Mod \in Word
BY SMT DEF Word

LEMMA IccTyped ==
    ASSUME NEW r, NEW p, NEW q
    PROVE  /\ ICC_writeLogic(r) \in Flags /\ ICC_writeAdd(r, p, q) \in Flags
           /\ ICC_writeSub(r, p, q) \in Flags
BY DEF ICC_writeLogic, ICC_writeAdd, ICC_writeSub, ICC, Flags, Sign

LEMMA SignedTyped ==
    ASSUME NEW x \in Word
    PROVE  Signed(x) \in -MSB..(MSB - 1) /\ (Signed(x) = 0 <=> x = 0)
BY SMT DEF Signed, Sign, Word, Mod

LEMMA QuotientTyped ==
    ASSUME NEW p \in Int, NEW q \in Int, q # 0
    PROVE  Quotient(p, q) \in Int
<1> DEFINE m == IF p < 0 THEN -p ELSE p
           d == IF q < 0 THEN -q ELSE q
<1>1. m \in Int /\ d \in Nat \ {0}
    OBVIOUS
<1>2. Quotient(p, q) = IF (p < 0) = (q < 0) THEN m \div d ELSE -(m \div d)
    BY DEF Quotient
<1> HIDE DEF m, d
<1>3. m \div d \in Int
    BY <1>1, DivMod
<1> QED BY <1>2, <1>3

\* What an instruction leaves is a word, condition codes and a word for Y.
Typed(s) == s.result \in Word /\ s.icc \in Flags /\ s.y \in Word

LEMMA ResultTyped ==
    ASSUME NEW r \in Word, NEW k \in Flags, NEW z \in Word
    PROVE  Typed(Result(r, k, z))
BY DEF Typed, Result

LEMMA SumsTyped ==
    ASSUME NEW p \in Word, NEW q \in Word, NEW k \in Flags, NEW z \in Word
    PROVE  /\ Typed(ADD(p, q, k, z)) /\ Typed(ADDX(p, q, k, z))
           /\ Typed(SUB(p, q, k, z)) /\ Typed(SUBX(p, q, k, z))
           /\ Typed(ADDcc(p, q, k, z)) /\ Typed(ADDXcc(p, q, k, z))
           /\ Typed(SUBcc(p, q, k, z)) /\ Typed(SUBXcc(p, q, k, z))
<1>1. p \in Int /\ q \in Int /\ Carry(k) \in Int
    BY SMT DEF Word, Carry
<1>2. /\ p + q \in Int /\ p + q + Carry(k) \in Int
      /\ p - q \in Int /\ p - q - Carry(k) \in Int
    BY <1>1
<1>3. /\ (p + q) % Mod \in Word /\ (p + q + Carry(k)) % Mod \in Word
      /\ (p - q) % Mod \in Word /\ (p - q - Carry(k)) % Mod \in Word
    BY <1>2, ModBounds, Zenon
<1> QED BY <1>3, IccTyped, ResultTyped, Zenon DEF ADD, ADDX, SUB, SUBX, ADDcc, ADDXcc, SUBcc, SUBXcc

LEMMA TaggedTyped ==
    ASSUME NEW p \in Word, NEW q \in Word, NEW k \in Flags, NEW z \in Word
    PROVE  /\ Typed(TADDcc(p, q, k, z)) /\ Typed(TSUBcc(p, q, k, z))
           /\ Typed(TADDccTV(p, q, k, z)) /\ Typed(TSUBccTV(p, q, k, z))
<1>1. ASSUME NEW r \in Word, NEW c \in Flags
      PROVE  Typed(WithTag(Result(r, c, z), p, q))
    <2>1. PICK t \in BOOLEAN : t = (c.v \/ Tagged(p, q))
        OBVIOUS
    <2>2. WithTag(Result(r, c, z), p, q) = Result(r, [c EXCEPT !.v = t], z)
        <3>1. WithTag(Result(r, c, z), p, q) = [Result(r, c, z) EXCEPT !.icc.v = t]
            BY <2>1, Zenon DEF WithTag, Result
        <3> QED BY <3>1 DEF Result
    <2>3. [c EXCEPT !.v = t] \in Flags
        BY DEF Flags
    <2> QED BY <2>2, <2>3, ResultTyped, Zenon
<1>2. (p + q) % Mod \in Word /\ (p - q) % Mod \in Word
    <2>1. p + q \in Int /\ p - q \in Int
        BY SMT DEF Word
    <2> QED BY <2>1, ModBounds
<1>3. Typed(TADDcc(p, q, k, z)) /\ Typed(TSUBcc(p, q, k, z))
    BY <1>1, <1>2, IccTyped, Zenon DEF TADDcc, TSUBcc, ADDcc, SUBcc
<1>4. ASSUME NEW s, Typed(s)
      PROVE  Typed(Traps(s))
    BY <1>4, Zenon DEF Typed, Traps
<1> QED BY <1>3, <1>4, Zenon DEF TADDccTV, TSUBccTV
LEMMA LogicTyped ==
    ASSUME NEW p \in Word, NEW q \in Word, NEW k \in Flags, NEW z \in Word
    PROVE  /\ Typed(AND(p, q, k, z)) /\ Typed(ANDcc(p, q, k, z))
           /\ Typed(ANDN(p, q, k, z)) /\ Typed(ANDNcc(p, q, k, z))
           /\ Typed(OR(p, q, k, z)) /\ Typed(ORcc(p, q, k, z))
           /\ Typed(ORN(p, q, k, z)) /\ Typed(ORNcc(p, q, k, z))
           /\ Typed(XOR(p, q, k, z)) /\ Typed(XORcc(p, q, k, z))
           /\ Typed(XNOR(p, q, k, z)) /\ Typed(XNORcc(p, q, k, z))
<1>1. Not(q) \in Word
    BY BitwiseTyped, Zenon
<1>2. /\ And(p, q) \in Word /\ And(p, Not(q)) \in Word
      /\ Or(p, q) \in Word /\ Or(p, Not(q)) \in Word
      /\ Xor(p, q) \in Word /\ Xor(p, Not(q)) \in Word
    BY <1>1, BitwiseTyped, Zenon
<1>3. ASSUME NEW r \in Word
      PROVE  /\ Typed(Result(r, ICC_writeLogic(r), z))
             /\ Typed(Plain(Result(r, ICC_writeLogic(r), z), k))
    <2>1. Plain(Result(r, ICC_writeLogic(r), z), k) = Result(r, k, z)
        BY DEF Plain, Result
    <2> QED BY <2>1, IccTyped, ResultTyped, Zenon
<1> QED BY <1>2, <1>3, Zenon DEF AND, ANDcc, ANDN, ANDNcc, OR, ORcc, ORN, ORNcc, XOR, XORcc, XNOR,
        XNORcc

LEMMA ShiftsTyped ==
    ASSUME NEW p \in Word, NEW q \in Word, NEW k \in Flags, NEW z \in Word
    PROVE  /\ Typed(SLL(p, q, k, z)) /\ Typed(SRL(p, q, k, z)) /\ Typed(SRA(p, q, k, z))
           /\ Typed(SETHI(p, q, k, z))
<1>1. p \in Nat /\ q \in Nat /\ p < Mod /\ q < Mod
    BY SMT DEF Word
<1>2. q % WIDTH \in Nat
    BY <1>1
<1>3. PICK d : d = 2^(q % WIDTH)
    OBVIOUS
<1>4. d \in Nat \ {0}
    BY <1>2, <1>3, TwoPower, Zenon
<1>5. (p * d) % Mod \in Word
    <2>1. p * d \in Int
        BY <1>1, <1>4
    <2> QED BY <2>1, ModBounds
<1>6. p \div d \in Word
    <2>1. p \div d \in 0..p
        BY <1>1, <1>4, DivBounds, Zenon
    <2> HIDE DEF Mod
    <2> QED BY <2>1, <1>1 DEF Word
<1>7. (Signed(p) \div d) % Mod \in Word
    <2>1. Signed(p) \in Int
        BY SignedTyped
    <2>2. Signed(p) \div d \in Int
        BY <2>1, <1>4, DivMod, Zenon
    <2> QED BY <2>2, ModBounds, Zenon
<1>8. q - (q % 2^10) \in Word
    <2>1. q % 1024 \in 0..q
        BY <1>1, DivBounds
    <2>2. 2^10 = 1024
        OBVIOUS
    <2> QED BY <2>1, <2>2, <1>1 DEF Word
<1> QED BY <1>3, <1>5, <1>6, <1>7, <1>8, ResultTyped, Zenon DEF SLL, SRL, SRA, SETHI, ShiftLeft,
        ShiftRight, ShiftRightSigned

LEMMA ProductsTyped ==
    ASSUME NEW p \in Word, NEW q \in Word, NEW k \in Flags, NEW z \in Word
    PROVE  /\ Typed(UMUL(p, q, k, z)) /\ Typed(SMUL(p, q, k, z))
           /\ Typed(UMULcc(p, q, k, z)) /\ Typed(SMULcc(p, q, k, z))
<1>1. ASSUME NEW x \in Int
      PROVE  Typed(Product(x, k, z))
    <2>1. x % Mod \in Word /\ (x \div Mod) % Mod \in Word
        BY DivMod, ModBounds, Zenon
    <2> QED BY <2>1, ResultTyped, Zenon DEF Product
<1>2. p * q \in Int /\ Signed(p) * Signed(q) \in Int
    <2>1. p \in Int /\ q \in Int /\ Signed(p) \in Int /\ Signed(q) \in Int
        BY SignedTyped, SMT DEF Word
    <2> QED BY <2>1
<1>3. Typed(UMUL(p, q, k, z)) /\ Typed(SMUL(p, q, k, z))
    BY <1>1, <1>2, Zenon DEF UMUL, SMUL
<1>4. ASSUME NEW s, Typed(s), s = Result(s.result, s.icc, s.y)
      PROVE  Typed([s EXCEPT !.icc = ICC_writeLogic(s.result)])
    <2>1. [s EXCEPT !.icc = ICC_writeLogic(s.result)] = Result(s.result, ICC_writeLogic(s.result), s.y)
        BY <1>4 DEF Result
    <2> QED BY <1>4, <2>1, IccTyped, ResultTyped, Zenon DEF Typed
<1>5. ASSUME NEW x
      PROVE  Product(x, k, z) = Result(Product(x, k, z).result, Product(x, k, z).icc, Product(x, k, z).y)
    BY DEF Product, Result
<1>6. Typed(UMULcc(p, q, k, z)) /\ Typed(SMULcc(p, q, k, z))
    BY <1>3, <1>4, <1>5, Zenon DEF UMUL, SMUL, UMULcc, SMULcc
<1> QED BY <1>3, <1>6

LEMMA MULSccTyped ==
    ASSUME NEW p \in Word, NEW q \in Word, NEW k \in Flags, NEW z \in Word
    PROVE  Typed(MULScc(p, q, k, z))
<1> DEFINE shifted == (p \div 2) + (IF k.n # k.v THEN MSB ELSE 0)
           addend == IF z % 2 = 1 THEN q ELSE 0
<1>1. shifted \in Int /\ addend \in Int
    BY SMT DEF Word
<1>2. (shifted + addend) % Mod \in Word
    <2>1. shifted + addend \in Int
        BY <1>1
    <2> QED BY <2>1, ModBounds
<1>3. (z \div 2) + ((p % 2) * MSB) \in Word
    <2>1. z \div 2 \in 0..(MSB - 1)
        BY SMT DEF Word, Mod
    <2>2. (p % 2) = 0 \/ (p % 2) = 1
        BY SMT DEF Word
    <2> QED BY <2>1, <2>2, SMT DEF Word, Mod
<1> QED BY <1>2, <1>3, IccTyped, ResultTyped, Zenon DEF MULScc

LEMMA DivisionTyped ==
    ASSUME NEW p \in Word, NEW q \in Word, NEW k \in Flags, NEW z \in Word, q # 0
    PROVE  /\ Typed(UDIV(p, q, k, z)) /\ Typed(UDIVcc(p, q, k, z))
           /\ Typed(SDIV(p, q, k, z)) /\ Typed(SDIVcc(p, q, k, z))
<1>1. ASSUME NEW r \in Word, NEW v \in BOOLEAN
      PROVE  /\ Typed(Result(r, ICC(r, v, FALSE), z))
             /\ Typed(Plain(Result(r, ICC(r, v, FALSE), z), k))
    <2>1. Plain(Result(r, ICC(r, v, FALSE), z), k) = Result(r, k, z)
        BY DEF Plain, Result
    <2>2. ICC(r, v, FALSE) \in Flags
        BY DEF ICC, Flags, Sign
    <2> QED BY <2>1, <2>2, ResultTyped, Zenon
<1>2. PICK u : u = ((z * Mod) + p) \div q
    OBVIOUS
<1>3. u \in Nat
    <2>1. (z * Mod) + p \in Nat /\ q \in Nat \ {0}
        <3>1. z \in Nat /\ p \in Nat /\ q \in Nat
            BY SMT DEF Word
        <3> QED BY <3>1
    <2>2. u \in 0..((z * Mod) + p)
        BY <1>2, <2>1, DivBounds, Zenon
    <2> QED BY <2>1, <2>2
<1>4. (IF u >= Mod THEN Mod - 1 ELSE u) \in Word
    BY <1>3, SMT DEF Word
<1>5. PICK s : s = Quotient((Signed(z) * Mod) + p, Signed(q))
    OBVIOUS
<1>6. s \in Int
    <2>1. Signed(z) \in Int /\ Signed(q) \in Int /\ Signed(q) # 0
        BY SignedTyped, SMT
    <2>2. (Signed(z) * Mod) + p \in Int
        <3>1. p \in Int
            BY SMT DEF Word
        <3> QED BY <2>1, <3>1
    <2> QED BY <1>5, <2>1, <2>2, QuotientTyped, Zenon
<1>7. (IF TooLarge(s) THEN IF s > 0 THEN MSB - 1 ELSE MSB ELSE s % Mod) \in Word
    <2>1. s % Mod \in Word /\ MSB - 1 \in Word /\ MSB \in Word
        BY <1>6, ModBounds, SMT DEF Word, Mod
    <2> QED BY <2>1
<1>8. (u >= Mod) \in BOOLEAN /\ TooLarge(s) \in BOOLEAN
    BY DEF TooLarge
<1> QED BY <1>1, <1>2, <1>4, <1>5, <1>7, <1>8, Zenon DEF UDIV, UDIVcc, SDIV, SDIVcc

\* Every instruction yields words and condition codes from words and condition codes: a
\* division but by 0, which traps.
THEOREM ComputeTyped ==
    ASSUME NEW op \in Arithmetic, NEW p \in Word, NEW q \in Word, NEW k \in Flags,
           NEW z \in Word, op \in Division => q # 0
    PROVE  Typed(Compute(op, p, q, k, z))
<1>1. CASE op \in Division
    <2>1. q # 0
        BY <1>1
    <2> QED BY <1>1, <2>1, DivisionTyped, Zenon DEF Division, Compute
<1>2. CASE op \notin Division
    <2>1. CASE op \in {"ADD", "ADDX", "ADDcc", "ADDXcc", "SUB", "SUBX", "SUBcc", "SUBXcc"}
        BY <2>1, SumsTyped, Zenon DEF Compute
    <2>2. CASE op \in {"TADDcc", "TSUBcc"} \cup TaggedTrap
        BY <2>2, TaggedTyped, Zenon DEF Compute, TaggedTrap
    <2>3. CASE op \in {"AND", "ANDcc", "ANDN", "ANDNcc", "OR", "ORcc", "ORN", "ORNcc", "XOR",
                       "XORcc", "XNOR", "XNORcc"}
        BY <2>3, LogicTyped, Zenon DEF Compute
    <2>4. CASE op \in {"SLL", "SRL", "SRA", "SETHI"}
        BY <2>4, ShiftsTyped, Zenon DEF Compute
    <2>5. CASE op \in {"UMUL", "UMULcc", "SMUL", "SMULcc"}
        BY <2>5, ProductsTyped, Zenon DEF Compute
    <2>6. CASE op = "MULScc"
        BY <2>6, MULSccTyped, Zenon DEF Compute
    <2> QED BY <1>2, <2>1, <2>2, <2>3, <2>4, <2>5, <2>6, Zenon DEF Arithmetic
<1> QED BY <1>1, <1>2
=============================================================================
