---------------------------- MODULE AluRunProofs ----------------------------
(***************************************************************************)
(* Proofs about AluRun, for words of any width: what the condition codes   *)
(* and the carries mean (Compares, Chains), when a division saturates      *)
(* (Saturates), and that a multiplication by steps multiplies (Multiplies).*)
(*                                                                         *)
(* A sum of words leaves them by at most one turn; most of the rest is a   *)
(* case split on signs.  The invariant of the multiplication, Multiplying, *)
(* says what number accumulator, Y and condition codes stand for together. *)
(***************************************************************************)
EXTENDS AluRun, AluProofs

USE AluNumbers

\* A sum or a difference of words leaves the words by at most one turn.
LEMMA Wraps ==
    ASSUME NEW x \in Int, -Mod =< x, x < 2 * Mod
    PROVE  x % Mod = IF x < 0 THEN x + Mod ELSE IF x < Mod THEN x ELSE x - Mod
<1>1. CASE x < 0
    <2>1. x = Mod * (-1) + (x + Mod) /\ x + Mod \in 0..(Mod - 1)
        BY <1>1, SMT DEF Mod
    <2> QED BY <1>1, <2>1, SMT DEF Mod
<1>2. CASE x >= 0 /\ x < Mod
    BY <1>2, SMT DEF Mod
<1>3. CASE x >= Mod
    <2>1. x = Mod * 1 + (x - Mod) /\ x - Mod \in 0..(Mod - 1)
        BY <1>3, SMT DEF Mod
    <2> QED BY <1>3, <2>1, SMT DEF Mod
<1> QED BY <1>1, <1>2, <1>3, SMT DEF Mod

\* The codes of a subtraction order its operands.
LEMMA SubCompares ==
    ASSUME NEW p \in Word, NEW q \in Word
    PROVE  LET k == ICC_writeSub((p - q) % Mod, p, q)
           IN  /\ k.z <=> p = q
               /\ k.n # k.v <=> Signed(p) < Signed(q)
               /\ k.c <=> p < q
<1>0. /\ p \in Int /\ q \in Int /\ p - q \in Int
      /\ -Mod =< p - q /\ p - q < 2 * Mod
    BY SMT DEF Word, Mod
<1>1. (p - q) % Mod = IF p - q < 0 THEN p - q + Mod ELSE IF p - q < Mod THEN p - q
                      ELSE p - q - Mod
    BY <1>0, Wraps
<1>2. PICK r : r = (p - q) % Mod
    OBVIOUS
<1>3. r = IF p < q THEN p - q + Mod ELSE p - q
    BY <1>0, <1>1, <1>2, SMT DEF Word, Mod
<1>4. ICC_writeSub(r, p, q) =
        [n |-> Sign(r), z |-> r = 0,
         v |-> (Sign(p) /\ ~Sign(q) /\ ~Sign(r)) \/ (~Sign(p) /\ Sign(q) /\ Sign(r)),
         c |-> (~Sign(p) /\ Sign(q)) \/ ((~Sign(p) \/ Sign(q)) /\ Sign(r))]
    BY DEF ICC_writeSub, ICC
<1>5. r = 0 <=> p = q
    BY <1>3, SMT DEF Word, Mod
<1>6. ((~Sign(p) /\ Sign(q)) \/ ((~Sign(p) \/ Sign(q)) /\ Sign(r))) <=> p < q
    BY <1>3, SMT DEF Word, Mod, Sign
<1>7. (Sign(r) # ((Sign(p) /\ ~Sign(q) /\ ~Sign(r)) \/ (~Sign(p) /\ Sign(q) /\ Sign(r))))
            <=> Signed(p) < Signed(q)
    BY <1>3, SMT DEF Word, Mod, Sign, Signed
<1>8. PICK k : k = ICC_writeSub(r, p, q)
    OBVIOUS
<1>9. /\ k.n = Sign(r) /\ k.z = (r = 0)
      /\ k.v = ((Sign(p) /\ ~Sign(q) /\ ~Sign(r)) \/ (~Sign(p) /\ Sign(q) /\ Sign(r)))
      /\ k.c = ((~Sign(p) /\ Sign(q)) \/ ((~Sign(p) \/ Sign(q)) /\ Sign(r)))
    BY <1>4, <1>8
<1>10. k.z <=> p = q
    BY <1>5, <1>9
<1>11. k.c <=> p < q
    BY <1>6, <1>9
<1>12. k.n # k.v <=> Signed(p) < Signed(q)
    BY <1>7, <1>9
<1> QED BY <1>2, <1>8, <1>10, <1>11, <1>12

\* BranchesCompare holds of any two words: bl, bgu and the rest of Bicc compare.
THEOREM Compares == Spec => []BranchesCompare
<1> DEFINE Operands == a \in Word /\ b \in Word
<1>1. Init => Operands
    BY DEF Init
<1>2. Operands /\ [Next]_aluvars => Operands'
    BY DEF Next, MulStep, LastStep, Done, Execute, aluvars
<1>3. Operands => BranchesCompare
    <2> SUFFICES ASSUME Operands PROVE BranchesCompare
        OBVIOUS
    <2> DEFINE k == SUBcc(a, b, icc, y).icc
    <2>1. k = ICC_writeSub((a - b) % Mod, a, b)
        BY DEF SUBcc, Result
    <2>2. /\ k.z <=> a = b
          /\ k.n # k.v <=> Signed(a) < Signed(b)
          /\ k.c <=> a < b
        BY <2>1, SubCompares
    <2>3. /\ a \in Int /\ b \in Int /\ Signed(a) \in Int /\ Signed(b) \in Int
          /\ Signed(a) = Signed(b) <=> a = b
        BY SMT DEF Signed, Sign, Word, Mod
    <2> HIDE DEF k
    <2>4. Taken(1, k) <=> a = b
        BY <2>2 DEF Taken
    <2>5. Taken(3, k) <=> Signed(a) < Signed(b)
        BY <2>2 DEF Taken
    <2>6. Taken(5, k) <=> a < b
        BY <2>2 DEF Taken
    <2>7. Taken(2, k) <=> (a = b \/ Signed(a) < Signed(b))
        BY <2>2 DEF Taken
    <2>8. Taken(10, k) <=> (a # b /\ ~(Signed(a) < Signed(b)))
        BY <2>2 DEF Taken
    <2>9. Taken(4, k) <=> (a < b \/ a = b)
        BY <2>2 DEF Taken
    <2>10. Taken(12, k) <=> (~(a < b) /\ a # b)
        BY <2>2 DEF Taken
    <2>11. /\ Taken(2, k) <=> Signed(a) =< Signed(b)
           /\ Taken(10, k) <=> Signed(a) > Signed(b)
           /\ Taken(4, k) <=> a =< b
           /\ Taken(12, k) <=> a > b
        BY <2>3, <2>7, <2>8, <2>9, <2>10, SMT
    <2> QED BY <2>4, <2>5, <2>6, <2>11 DEF BranchesCompare, k
<1> QED BY <1>1, <1>2, <1>3, PTL DEF Spec

\* The carry of an addition or a subtraction with carry in, and its signed overflow.
LEMMA AddCarries ==
    ASSUME NEW p \in Word, NEW q \in Word, NEW i \in {0, 1}
    PROVE  LET r == (p + q + i) % Mod
               k == ICC_writeAdd(r, p, q)
           IN  /\ r + (Mod * (IF k.c THEN 1 ELSE 0)) = p + q + i
               /\ k.v <=> Signed(p) + Signed(q) + i \notin -MSB..(MSB - 1)
<1>0. /\ p \in Int /\ q \in Int /\ p + q + i \in Int
      /\ -Mod =< p + q + i /\ p + q + i < 2 * Mod
    BY SMT DEF Word, Mod
<1>1. PICK x : x = p + q + i
    OBVIOUS
<1>2. PICK r : r = (p + q + i) % Mod
    OBVIOUS
<1>a. r = x % Mod
    BY <1>1, <1>2, Zenon
<1>b. x \in Int /\ -Mod =< x /\ x < 2 * Mod
    BY <1>0, <1>1
<1>c. x % Mod = IF x < 0 THEN x + Mod ELSE IF x < Mod THEN x ELSE x - Mod
    BY <1>b, Wraps
<1>3. r = IF p + q + i < Mod THEN p + q + i ELSE p + q + i - Mod
    BY <1>1, <1>a, <1>b, <1>c, SMT DEF Word, Mod
<1>4. PICK k : k = ICC_writeAdd(r, p, q)
    OBVIOUS
<1>5. /\ k.c = ((Sign(p) /\ Sign(q)) \/ ((Sign(p) \/ Sign(q)) /\ ~Sign(r)))
      /\ k.v = ((Sign(p) /\ Sign(q) /\ ~Sign(r)) \/ (~Sign(p) /\ ~Sign(q) /\ Sign(r)))
    BY <1>4 DEF ICC_writeAdd, ICC
<1>6. ((Sign(p) /\ Sign(q)) \/ ((Sign(p) \/ Sign(q)) /\ ~Sign(r))) <=> p + q + i >= Mod
    BY <1>3, SMT DEF Word, Mod, Sign
<1>7. k.c <=> p + q + i >= Mod
    BY <1>5, <1>6
<1>8. r + (Mod * (IF k.c THEN 1 ELSE 0)) = p + q + i
    <2>1. CASE k.c
        BY <1>3, <1>7, <2>1, SMT DEF Word, Mod
    <2>2. CASE ~k.c
        BY <1>3, <1>7, <2>2, SMT DEF Word, Mod
    <2> QED BY <2>1, <2>2
<1>9. ((Sign(p) /\ Sign(q) /\ ~Sign(r)) \/ (~Sign(p) /\ ~Sign(q) /\ Sign(r)))
            <=> Signed(p) + Signed(q) + i \notin -MSB..(MSB - 1)
    BY <1>3, SMT DEF Word, Mod, Sign, Signed
<1>10. k.v <=> Signed(p) + Signed(q) + i \notin -MSB..(MSB - 1)
    BY <1>5, <1>9
<1> QED BY <1>2, <1>4, <1>8, <1>10

LEMMA SubCarries ==
    ASSUME NEW p \in Word, NEW q \in Word, NEW i \in {0, 1}
    PROVE  LET r == (p - q - i) % Mod
               k == ICC_writeSub(r, p, q)
           IN  /\ r - (Mod * (IF k.c THEN 1 ELSE 0)) = p - q - i
               /\ k.v <=> Signed(p) - Signed(q) - i \notin -MSB..(MSB - 1)
<1>0. /\ p \in Int /\ q \in Int /\ p - q - i \in Int
      /\ -Mod =< p - q - i /\ p - q - i < 2 * Mod
    BY SMT DEF Word, Mod
<1>1. (p - q - i) % Mod = IF p - q - i < 0 THEN p - q - i + Mod
                          ELSE IF p - q - i < Mod THEN p - q - i ELSE p - q - i - Mod
    BY <1>0, Wraps
<1>2. PICK r : r = (p - q - i) % Mod
    OBVIOUS
<1>3. r = IF p - q - i < 0 THEN p - q - i + Mod ELSE p - q - i
    BY <1>0, <1>1, <1>2, SMT DEF Word, Mod
<1>4. PICK k : k = ICC_writeSub(r, p, q)
    OBVIOUS
<1>5. /\ k.c = ((~Sign(p) /\ Sign(q)) \/ ((~Sign(p) \/ Sign(q)) /\ Sign(r)))
      /\ k.v = ((Sign(p) /\ ~Sign(q) /\ ~Sign(r)) \/ (~Sign(p) /\ Sign(q) /\ Sign(r)))
    BY <1>4 DEF ICC_writeSub, ICC
<1>6. ((~Sign(p) /\ Sign(q)) \/ ((~Sign(p) \/ Sign(q)) /\ Sign(r))) <=> p - q - i < 0
    BY <1>3, SMT DEF Word, Mod, Sign
<1>7. k.c <=> p - q - i < 0
    BY <1>5, <1>6
<1>8. r - (Mod * (IF k.c THEN 1 ELSE 0)) = p - q - i
    <2>1. CASE k.c
        BY <1>3, <1>7, <2>1, SMT DEF Word, Mod
    <2>2. CASE ~k.c
        BY <1>3, <1>7, <2>2, SMT DEF Word, Mod
    <2> QED BY <2>1, <2>2
<1>9. ((Sign(p) /\ ~Sign(q) /\ ~Sign(r)) \/ (~Sign(p) /\ Sign(q) /\ Sign(r)))
            <=> Signed(p) - Signed(q) - i \notin -MSB..(MSB - 1)
    BY <1>3, SMT DEF Word, Mod, Sign, Signed
<1>10. k.v <=> Signed(p) - Signed(q) - i \notin -MSB..(MSB - 1)
    BY <1>5, <1>9
<1> QED BY <1>2, <1>4, <1>8, <1>10

\* TypeOK is inductive: no step of MULScc leaves the words.
THEOREM TypeCorrect == Spec => []TypeOK
<1>1. Init => TypeOK
    <2> SUFFICES ASSUME Init PROVE TypeOK
        OBVIOUS
    <2>1. icc \in Flags
        <3>1. PICK c \in BOOLEAN : icc = [NoFlags EXCEPT !.c = c]
            BY DEF Init
        <3> QED BY <3>1 DEF NoFlags, Flags
    <2>2. a \in Word /\ b \in Word /\ y \in Word /\ acc = 0 /\ steps = 0
        BY DEF Init
    <2>3. 0 \in Word /\ 0 \in 0..(WIDTH + 1)
        BY SMT DEF Word, Mod
    <2> QED BY <2>1, <2>2, <2>3 DEF TypeOK
<1>2. TypeOK /\ [Next]_aluvars => TypeOK'
    <2> SUFFICES ASSUME TypeOK, [Next]_aluvars PROVE TypeOK'
        OBVIOUS
    <2>1. ASSUME NEW q \in Word, Execute(MULScc(acc, q, icc, y)), steps =< WIDTH PROVE TypeOK'
        <3> DEFINE s == MULScc(acc, q, icc, y)
                   shifted == (acc \div 2) + (IF icc.n # icc.v THEN MSB ELSE 0)
                   addend == IF y % 2 = 1 THEN q ELSE 0
        <3>1. /\ s.result = (shifted + addend) % Mod
              /\ s.icc = ICC_writeAdd((shifted + addend) % Mod, shifted, addend)
              /\ s.y = (y \div 2) + ((acc % 2) * MSB)
            BY DEF MULScc, Result
        <3>2. acc \in Word /\ y \in Word
            BY DEF TypeOK
        <3>3. shifted \in Int /\ addend \in Int
            BY <3>2, SMT DEF Word, Mod
        <3>4. (shifted + addend) % Mod \in Word
            BY <3>3, ModBounds
        <3>5. (y \div 2) + ((acc % 2) * MSB) \in Word
            <4>1. y \div 2 \in 0..(MSB - 1)
                BY <3>2, SMT DEF Word, Mod
            <4>2. (acc % 2) = 0 \/ (acc % 2) = 1
                BY <3>2, SMT DEF Word, Mod
            <4> QED BY <4>1, <4>2, SMT DEF Word, Mod
        <3>6. s.icc \in Flags
            BY <3>1 DEF ICC_writeAdd, ICC, Flags, Sign
        <3> QED BY <2>1, <3>1, <3>4, <3>5, <3>6 DEF Execute, TypeOK
    <2>2. CASE MulStep
        BY <2>1, <2>2 DEF MulStep, TypeOK
    <2>3. CASE LastStep
        <3>1. 0 \in Word
            BY SMT DEF Word, Mod
        <3> QED BY <2>1, <2>3, <3>1 DEF LastStep
    <2>4. CASE UNCHANGED aluvars \/ Done
        BY <2>4 DEF TypeOK, aluvars, Done
    <2> QED BY <2>2, <2>3, <2>4 DEF Next
<1> QED BY <1>1, <1>2, PTL DEF Spec

\* CarryChains holds of any two words and either carry: ADDX and SUBX are one digit of
\* an addition or a subtraction of any length.
THEOREM Chains == Spec => []CarryChains
<1>1. TypeOK => CarryChains
    <2> SUFFICES ASSUME TypeOK PROVE CarryChains
        OBVIOUS
    <2> DEFINE i == Carry(icc)
    <2>1. i \in {0, 1}
        BY DEF Carry
    <2>2. a \in Word /\ b \in Word
        BY DEF TypeOK
    <2>3. /\ ADDXcc(a, b, icc, y).result = (a + b + i) % Mod
          /\ ADDXcc(a, b, icc, y).icc = ICC_writeAdd((a + b + i) % Mod, a, b)
        BY DEF ADDXcc, Result
    <2>4. /\ SUBXcc(a, b, icc, y).result = (a - b - i) % Mod
          /\ SUBXcc(a, b, icc, y).icc = ICC_writeSub((a - b - i) % Mod, a, b)
        BY DEF SUBXcc, Result
    <2> HIDE DEF i
    <2>5. /\ ADDXcc(a, b, icc, y).result + (Mod * Carry(ADDXcc(a, b, icc, y).icc)) = a + b + i
          /\ ADDXcc(a, b, icc, y).icc.v <=> Signed(a) + Signed(b) + i \notin -MSB..(MSB - 1)
        BY <2>1, <2>2, <2>3, AddCarries DEF Carry
    <2>6. /\ SUBXcc(a, b, icc, y).result - (Mod * Carry(SUBXcc(a, b, icc, y).icc)) = a - b - i
          /\ SUBXcc(a, b, icc, y).icc.v <=> Signed(a) - Signed(b) - i \notin -MSB..(MSB - 1)
        BY <2>1, <2>2, <2>4, SubCarries DEF Carry
    <2> QED BY <2>5, <2>6 DEF CarryChains, i
<1> QED BY <1>1, TypeCorrect, PTL

----------------------------------------------------------------------------
(* Quotients *)

\* The bits above the word, with its sign, are neither all 0 nor all 1 exactly if the
\* number is not a signed word.
LEMMA TooLargeForWord ==
    ASSUME NEW q \in Int
    PROVE  TooLarge(q) <=> q < -MSB \/ q >= MSB
<1> DEFINE d == q \div MSB
           m == q % MSB
<1>1. d \in Int /\ m \in 0..(MSB - 1) /\ q = MSB * d + m
    BY DivMod
<1>2. TooLarge(q) <=> d # 0 /\ d # -1
    BY DEF TooLarge
<1> HIDE DEF d, m
<1>3. CASE d > 0
    <2> DEFINE z == 0
    <2>1. z \in Int /\ z < d /\ MSB * z = 0
        BY <1>3
    <2> HIDE DEF z
    <2>2. MSB * z + MSB =< MSB * d
        BY <2>1, <1>1, Monotone
    <2> QED BY <2>1, <2>2, <1>1, <1>2, <1>3
<1>4. CASE d = 0
    BY <1>1, <1>2, <1>4
<1>5. CASE d = -1
    BY <1>1, <1>2, <1>5
<1>6. CASE d < -1
    <2> DEFINE z == -1
    <2>1. z \in Int /\ d < z /\ MSB * z = -MSB
        BY <1>6
    <2> HIDE DEF z
    <2>2. MSB * d + MSB =< MSB * z
        BY <2>1, <1>1, Monotone
    <2>3. q < -MSB
        BY <2>1, <2>2, <1>1
    <2> QED BY <2>3, <1>2, <1>6
<1> QED BY <1>1, <1>3, <1>4, <1>5, <1>6

\* SDIV clamps to the nearest word.
LEMMA SignedSaturates ==
    ASSUME NEW q \in Int
    PROVE  LET r == IF TooLarge(q) THEN IF q > 0 THEN MSB - 1 ELSE MSB ELSE q % Mod
               near == IF q < -MSB THEN -MSB ELSE IF q >= MSB THEN MSB - 1 ELSE q
           IN  Signed(r) = near /\ (TooLarge(q) <=> near # q)
<1>1. TooLarge(q) <=> q < -MSB \/ q >= MSB
    BY TooLargeForWord
<1>2. CASE q < -MSB
    BY <1>1, <1>2, SMT DEF Signed, Sign, Mod
<1>3. CASE q >= MSB
    BY <1>1, <1>3, SMT DEF Signed, Sign, Mod
<1>4. CASE ~(q < -MSB \/ q >= MSB)
    <2>1. -Mod =< q /\ q < 2 * Mod
        BY <1>4, SMT DEF Mod
    <2>2. q % Mod = IF q < 0 THEN q + Mod ELSE IF q < Mod THEN q ELSE q - Mod
        BY <2>1, Wraps
    <2>3. q % Mod = IF q < 0 THEN q + Mod ELSE q
        BY <2>2, <1>4, SMT DEF Mod
    <2> DEFINE r == q % Mod
    <2>4. r = IF q < 0 THEN q + Mod ELSE q
        BY <2>3
    <2> HIDE DEF r
    <2>5. Signed(r) = q
        BY <2>4, <1>4, SMT DEF Signed, Sign, Mod
    <2> QED BY <2>5, <1>1, <1>4 DEF r
<1> QED BY <1>2, <1>3, <1>4

\* The quotient of UDIV is a word exactly if the high word is less than the divisor.
LEMMA UnsignedQuotient ==
    ASSUME NEW h \in Word, NEW p \in Word, NEW d \in Word, d # 0
    PROVE  LET q == (h * Mod + p) \div d
           IN  /\ q \in Int
               /\ q >= Mod <=> h >= d
               /\ h * Mod + p - (q * d) \in 0..(d - 1)
<1> DEFINE x == h * Mod + p
           q == x \div d
           m == x % d
           hm == Mod * h
           dm == Mod * d
           qd == d * q
<1>1. /\ h \in Nat /\ p \in Nat /\ p < Mod /\ d \in Nat \ {0} /\ Mod \in Nat \ {0}
    BY SMT DEF Word, Mod
<1> USE <1>1
<1>2. hm \in Nat /\ h * Mod = hm /\ dm \in Nat /\ d * Mod = dm
    OBVIOUS
<1>3. x \in Int /\ x = hm + p
    BY <1>2
<1> HIDE DEF x
<1>4. q \in Int /\ m \in 0..(d - 1) /\ x = qd + m
    BY <1>3, DivMod
<1> HIDE DEF q, m
<1>5. qd \in Int /\ q * d = qd
    BY <1>4
<1>6. x - (q * d) \in 0..(d - 1)
    BY <1>3, <1>4, <1>5
<1>7. ASSUME h >= d
      PROVE  q >= Mod
    <2>1. hm >= dm
        <3>1. d < h => dm + Mod =< hm
            BY Monotone
        <3>2. d = h => dm = hm
            OBVIOUS
        <3> HIDE DEF hm, dm
        <3> QED BY <3>1, <3>2, <1>2, <1>7
    <2>2. ASSUME q < Mod
          PROVE  FALSE
        <3>1. qd + d =< d * Mod
            BY <2>2, <1>4, Monotone
        <3> HIDE DEF qd, hm, dm
        <3> QED BY <3>1, <2>1, <1>2, <1>3, <1>4, <1>5
    <2> QED BY <2>2, <1>4
<1>8. ASSUME h < d
      PROVE  q < Mod
    <2>1. hm + Mod =< dm
        BY <1>8, Monotone
    <2>2. ASSUME Mod =< q
          PROVE  FALSE
        <3>1. d * Mod =< qd
            <4>1. Mod < q => d * Mod + d =< qd
                BY <1>4, Monotone
            <4>2. Mod = q => d * Mod = qd
                OBVIOUS
            <4> HIDE DEF qd, dm
            <4> QED BY <4>1, <4>2, <2>2, <1>2, <1>4, <1>5
        <3> HIDE DEF qd, hm, dm
        <3> QED BY <3>1, <2>1, <1>2, <1>3, <1>4, <1>5
    <2> QED BY <2>2, <1>4
<1>9. q >= Mod <=> h >= d
    BY <1>4, <1>7, <1>8
<1> QED BY <1>4, <1>6, <1>9 DEF q, x

\* Division of any double word by any word but 0 saturates.
LEMMA DivisionOfWords ==
    ASSUME NEW h \in Word, NEW p \in Word, NEW d \in Word, d # 0, NEW k
    PROVE  LET s == SDIVcc(p, d, k, h)
               u == UDIVcc(p, d, k, h)
               q == Quotient((Signed(h) * Mod) + p, Signed(d))
               near == IF q < -MSB THEN -MSB ELSE IF q >= MSB THEN MSB - 1 ELSE q
           IN  /\ Signed(s.result) = near /\ (s.icc.v <=> near # q)
               /\ (u.icc.v <=> h >= d)
               /\ ~u.icc.v => (h * Mod) + p - (u.result * d) \in 0..(d - 1)
<1> DEFINE s == SDIVcc(p, d, k, h)
           u == UDIVcc(p, d, k, h)
           x == (Signed(h) * Mod) + p
           q == Quotient(x, Signed(d))
           near == IF q < -MSB THEN -MSB ELSE IF q >= MSB THEN MSB - 1 ELSE q
           r == IF TooLarge(q) THEN IF q > 0 THEN MSB - 1 ELSE MSB ELSE q % Mod
           uq == ((h * Mod) + p) \div d
<1>1. q \in Int
    <2>1. /\ Signed(d) \in Int /\ Signed(d) # 0
        BY SignedTyped, SMT
    <2>2. x \in Int
        <3>1. Signed(h) \in Int /\ Mod \in Int /\ p \in Int
            BY SignedTyped, SMT DEF Word, Mod
        <3> QED BY <3>1
    <2> HIDE DEF x
    <2> QED BY <2>1, <2>2, QuotientTyped
<1>2. s.result = r /\ s.icc.v = TooLarge(q)
    BY DEF SDIVcc, Result, ICC
<1>3. u.icc.v = (uq >= Mod) /\ u.result = IF uq >= Mod THEN Mod - 1 ELSE uq
    BY DEF UDIVcc, Result, ICC
<1>4. /\ uq \in Int /\ (uq >= Mod <=> h >= d)
      /\ h * Mod + p - (uq * d) \in 0..(d - 1)
    BY UnsignedQuotient
<1> HIDE DEF s, u, q, uq
<1>5. Signed(r) = near /\ (TooLarge(q) <=> near # q)
    BY <1>1, SignedSaturates
<1>6. Signed(s.result) = near /\ (s.icc.v <=> near # q)
    BY <1>2, <1>5
<1>7. u.icc.v <=> h >= d
    BY <1>3, <1>4
<1>8. ~u.icc.v => (h * Mod) + p - (u.result * d) \in 0..(d - 1)
    BY <1>3, <1>4
<1> QED BY <1>6, <1>7, <1>8 DEF s, u, q

\* Division saturates: the overflow is set exactly if the quotient is not a word, and the result is
\* then the nearest word.
THEOREM Saturates == Spec => []DivisionSaturates
<1>1. TypeOK => DivisionSaturates
    <2> SUFFICES ASSUME TypeOK, NEW high \in {0, 1, MSB - 1, MSB, Mod - 2, Mod - 1}, b # 0
                 PROVE  LET s == SDIVcc(a, b, icc, high)
                            u == UDIVcc(a, b, icc, high)
                            q == Quotient((Signed(high) * Mod) + a, Signed(b))
                            near == IF q < -MSB THEN -MSB ELSE IF q >= MSB THEN MSB - 1 ELSE q
                        IN  /\ Signed(s.result) = near /\ (s.icc.v <=> near # q)
                            /\ (u.icc.v <=> high >= b)
                            /\ ~u.icc.v => (high * Mod) + a - (u.result * b) \in 0..(b - 1)
        BY DEF DivisionSaturates
    <2>1. high \in Word
        BY SMT DEF Word, Mod
    <2>2. a \in Word /\ b \in Word
        BY DEF TypeOK
    <2> QED BY <2>1, <2>2, DivisionOfWords
<1> QED BY <1>1, TypeCorrect, PTL

----------------------------------------------------------------------------
(* Multiplication by steps *)

\* The powers of two up to the number of words: MSB is 2^(WIDTH-1).
Powers(pow) ==
    /\ pow \in [0..WIDTH -> Nat \ {0}]
    /\ pow[0] = 1 /\ pow[WIDTH] = Mod
    /\ \A k \in 0..(WIDTH - 1) : pow[k + 1] = 2 * pow[k]

\* They exist: 2^k counts the subsets of k numbers.
LEMMA PowersOfTwo == \E pow : Powers(pow)
<1> DEFINE pow == [k \in 0..WIDTH |-> 2^k]
<1>1. \A k \in 0..WIDTH : 2^k \in Nat \ {0}
    BY TwoPower
<1>2. pow \in [0..WIDTH -> Nat \ {0}]
    BY <1>1
<1>3. pow[0] = 1 /\ pow[WIDTH] = Mod
    <2>1. 0 \in 0..WIDTH /\ WIDTH \in 0..WIDTH /\ 2^0 = 1
        OBVIOUS
    <2>2. pow[0] = 2^0 /\ pow[WIDTH] = 2^WIDTH
        BY <2>1, Zenon
    <2> QED BY <2>1, <2>2, ModPower, Zenon
<1>4. ASSUME NEW k \in 0..(WIDTH - 1)
      PROVE  pow[k + 1] = 2 * pow[k]
    <2>1. k \in Nat /\ k \in 0..WIDTH /\ k + 1 \in 0..WIDTH
        OBVIOUS
    <2>2. pow[k] = 2^k /\ pow[k + 1] = 2^(k + 1)
        BY <2>1, Zenon
    <2> QED BY <2>1, <2>2, TwoPower, Zenon
<1> HIDE DEF pow
<1> QED BY <1>2, <1>3, <1>4, Zenon DEF Powers

\* The word and the condition codes of a sum t of two signed words.
SumOf(t, word, k) ==
    /\ word = IF t < 0 THEN t + Mod ELSE t
    /\ k.n # k.v <=> t < 0

\* After so many steps, b without the bits s that have been multiplied is the number r;
\* the product of a and s is in the partial product t, in full, and in the bits m that have been
\* shifted into Y above r.  Twice it, because the first bit to be shifted is none of it.
Multiplied(pow, t, m, r, s) ==
    /\ SumOf(t, acc, icc)
    /\ b = r * pow[steps] + s
    /\ y = m * pow[WIDTH - steps] + r
    /\ r < pow[WIDTH - steps]
    /\ 2 * (Signed(a) * s) = t * pow[steps] + m

\* The inductive invariant, with TypeOK.
Multiplying(pow) ==
    steps =< WIDTH =>
        /\ pow[steps] * pow[WIDTH - steps] = Mod
        /\ \E t \in (-Mod)..(Mod - 1), m \in Int, r \in Nat, s \in Nat : Multiplied(pow, t, m, r, s)

\* What a step does to the partial product: it is halved and the multiplicand may be added,
\* without loss, since the sign is N xor V.
LEMMA StepAdds ==
    ASSUME NEW t \in (-Mod)..(Mod - 1), NEW word \in Word, NEW k, SumOf(t, word, k),
           NEW q \in Word, NEW z \in Word
    PROVE  LET s == MULScc(word, q, k, z)
               t2 == (t \div 2) + (IF z % 2 = 1 THEN Signed(q) ELSE 0)
           IN  /\ t2 \in (-Mod)..(Mod - 1)
               /\ SumOf(t2, s.result, s.icc)
               /\ s.y = (z \div 2) + ((t % 2) * MSB)
<1> DEFINE s == MULScc(word, q, k, z)
           shifted == (word \div 2) + (IF k.n # k.v THEN MSB ELSE 0)
           addend == IF z % 2 = 1 THEN q ELSE 0
           r == (shifted + addend) % Mod
           h == t \div 2
           c == t % 2
           j == IF z % 2 = 1 THEN Signed(q) ELSE 0
           t2 == h + j
<1>1. /\ s.result = r /\ s.icc = ICC_writeAdd(r, shifted, addend)
      /\ s.y = (z \div 2) + ((word % 2) * MSB)
    BY DEF MULScc, Result
<1>2. h \in Int /\ c \in 0..1 /\ t = 2 * h + c
    BY SMT DEF Mod
<1>3. word % 2 = c
    BY SMT DEF SumOf, Mod
<1>4. shifted = IF h < 0 THEN h + Mod ELSE h
    BY SMT DEF SumOf, Mod, Word
<1>5. h >= -MSB /\ h < MSB
    BY SMT DEF Mod
<1> HIDE DEF h, c
<1>6. shifted \in Word /\ Signed(shifted) = h
    BY <1>2, <1>4, <1>5, SMT DEF Word, Mod, Signed, Sign
<1>7. addend \in Word /\ Signed(addend) = j /\ j \in -MSB..(MSB - 1)
    BY SMT DEF Word, Mod, Signed, Sign
<1> HIDE DEF shifted, addend, j
<1> DEFINE i == 0
<1>8. LET x == (shifted + addend + i) % Mod
          codes == ICC_writeAdd(x, shifted, addend)
      IN  /\ x + (Mod * (IF codes.c THEN 1 ELSE 0)) = shifted + addend + i
          /\ codes.v <=> Signed(shifted) + Signed(addend) + i \notin -MSB..(MSB - 1)
    <2>1. i \in {0, 1}
        OBVIOUS
    <2> HIDE DEF i
    <2> QED BY <2>1, <1>6, <1>7, AddCarries
<1>9. shifted + addend + i = shifted + addend
    BY <1>6, <1>7, SMT DEF Word, Mod
<1> DEFINE codes == ICC_writeAdd(r, shifted, addend)
<1>10. /\ r + (Mod * (IF codes.c THEN 1 ELSE 0)) = shifted + addend
       /\ codes.v <=> h + j + i \notin -MSB..(MSB - 1)
    BY <1>6, <1>7, <1>8, <1>9
<1>11. codes.n = Sign(r)
    BY DEF ICC_writeAdd, ICC
<1>12. r \in Word
    <2>1. shifted + addend \in Int
        BY <1>6, <1>7, SMT DEF Word, Mod
    <2> QED BY <2>1, ModBounds
<1> HIDE DEF r, codes
<1>13. /\ t2 \in (-Mod)..(Mod - 1)
       /\ r = IF t2 < 0 THEN t2 + Mod ELSE t2
    <2>1. shifted = IF h < 0 THEN h + Mod ELSE h
        BY <1>4
    <2>2. addend = IF j < 0 THEN j + Mod ELSE j
        BY <1>7, SMT DEF Signed, Sign, Mod, Word
    <2>3. CASE codes.c
        <3>1. r + Mod = shifted + addend
            BY <2>3, <1>10, SMT DEF Mod
        <3> QED BY <3>1, <2>1, <2>2, <1>2, <1>5, <1>7, <1>12, SMT DEF Mod, Word
    <2>4. CASE ~codes.c
        <3>1. r = shifted + addend
            BY <2>4, <1>10, <1>12, SMT DEF Mod, Word
        <3> QED BY <3>1, <2>1, <2>2, <1>2, <1>5, <1>7, <1>12, SMT DEF Mod, Word
    <2> QED BY <2>3, <2>4
<1>14. codes.n # codes.v <=> t2 < 0
    <2>1. codes.v <=> t2 < -MSB \/ t2 >= MSB
        BY <1>2, <1>7, <1>10
    <2>2. Sign(r) <=> (t2 < 0 /\ t2 >= -MSB) \/ t2 >= MSB
        BY <1>13, <1>2, <1>5, <1>7, SMT DEF Sign, Mod
    <2> HIDE DEF t2
    <2>3. codes.n <=> (t2 < 0 /\ t2 >= -MSB) \/ t2 >= MSB
        BY <2>2, <1>11
    <2>4. codes.n \in BOOLEAN /\ codes.v \in BOOLEAN
        BY <1>11 DEF codes, ICC_writeAdd, ICC, Sign
    <2>5. t2 \in Int
        BY <1>13, SMT DEF Mod
    <2> QED BY <2>1, <2>3, <2>4, <2>5
<1>15. SumOf(t2, s.result, s.icc)
    BY <1>1, <1>13, <1>14 DEF SumOf, codes
<1>16. s.y = (z \div 2) + (c * MSB)
    BY <1>1, <1>3
<1> QED BY <1>13, <1>15, <1>16 DEF h, c, j

\* What it does to the numbers, with A = pow[steps] and E = pow[WIDTH-steps-1].
LEMMA StepMultiplies ==
    ASSUME NEW A \in Nat, NEW E \in Nat, A * E = MSB,
           NEW h \in Int, NEW c \in 0..1, NEW m \in Int, NEW r \in Nat, NEW s \in Nat,
           NEW g \in Int, NEW u \in Int, NEW w \in Int,
           w = r * A + s, u = m * (2 * E) + r, r < 2 * E,
           2 * (g * s) = (2 * h + c) * A + m
    PROVE  LET bit == u % 2
               t2 == h + (IF bit = 1 THEN g ELSE 0)
               m2 == m + c * A
               r2 == r \div 2
               s2 == s + bit * A
           IN  /\ r2 \in Nat /\ r2 < E /\ m2 \in Int /\ s2 \in Nat
               /\ w = r2 * (2 * A) + s2
               /\ (u \div 2) + (c * MSB) = m2 * E + r2
               /\ 2 * (g * s2) = t2 * (2 * A) + m2
<1> DEFINE r2 == r \div 2
           bit == r % 2
           m2 == m + c * A
           s2 == s + bit * A
           t2 == h + (IF bit = 1 THEN g ELSE 0)
           me == m * E
           ra == r2 * A
           ha == h * A
           ga == g * A
           gs == g * s
<1>1. r2 \in Nat /\ bit \in 0..1 /\ r = 2 * r2 + bit /\ r2 < E
    BY SMT
<1> HIDE DEF r2, bit
<1>2. /\ me \in Int /\ ra \in Int /\ ha \in Int /\ ga \in Int /\ gs \in Int
      /\ m2 \in Int /\ s2 \in Nat
    <2>1. c * A \in Int /\ bit * A \in Nat
        BY <1>1
    <2> QED BY <2>1, <1>1
<1>3. m * (2 * E) = 2 * me /\ r * A = 2 * ra + bit * A /\ r2 * (2 * A) = 2 * ra
    BY <1>1
<1>4. w = r2 * (2 * A) + s2
    <2>1. bit * A \in Int
        BY <1>1
    <2> HIDE DEF ra
    <2> QED BY <2>1, <1>2, <1>3
<1>5. u = 2 * (me + r2) + bit
    <2> HIDE DEF me
    <2> QED BY <1>1, <1>2, <1>3
<1>6. u % 2 = bit /\ u \div 2 = me + r2
    <2> HIDE DEF me
    <2> QED BY <1>1, <1>2, <1>5
<1>7. (u \div 2) + (c * MSB) = m2 * E + r2
    <2>1. m2 * E = me + c * MSB
        <3>1. CASE c = 0
            BY <3>1
        <3>2. CASE c = 1
            <4>1. m2 = m + A
                BY <3>2
            <4>2. (m + A) * E = m * E + A * E
                OBVIOUS
            <4> HIDE DEF m2
            <4>3. m2 * E = me + MSB
                BY <4>1, <4>2
            <4> HIDE DEF me
            <4> QED BY <4>3, <3>2
        <3> QED BY <3>1, <3>2
    <2> DEFINE me2 == m2 * E
    <2>2. me2 = me + c * MSB /\ c * MSB \in Int
        BY <2>1
    <2> HIDE DEF me2, me
    <2>3. (u \div 2) + (c * MSB) = me2 + r2
        BY <2>2, <1>1, <1>2, <1>6
    <2> QED BY <2>3 DEF me2
<1>8. 2 * (g * s2) = t2 * (2 * A) + m2
    <2>1. (2 * h + c) * A = 2 * ha + c * A
        BY <1>1
    <2>2. CASE bit = 0
        <3>1. s2 = s /\ t2 = h
            BY <2>2
        <3>2. h * (2 * A) = 2 * ha
            OBVIOUS
        <3>3. c * A \in Int
            OBVIOUS
        <3> HIDE DEF s2, t2
        <3>4. g * s2 = gs /\ t2 * (2 * A) = 2 * ha
            BY <3>1, <3>2
        <3> HIDE DEF gs, ha
        <3>5. 2 * gs = (2 * ha + c * A) + m
            BY <2>1 DEF gs
        <3> QED BY <3>3, <3>4, <3>5, <1>2
    <2>3. CASE bit = 1
        <3>1. s2 = s + A /\ t2 = h + g
            BY <2>3
        <3>2. g * (s + A) = gs + ga /\ (h + g) * (2 * A) = 2 * ha + 2 * ga
            BY <1>1
        <3>3. c * A \in Int
            OBVIOUS
        <3> HIDE DEF s2, t2
        <3>4. g * s2 = gs + ga /\ t2 * (2 * A) = 2 * ha + 2 * ga
            BY <3>1, <3>2
        <3> HIDE DEF gs, ha, ga
        <3>5. 2 * gs = (2 * ha + c * A) + m
            BY <2>1 DEF gs
        <3> QED BY <3>3, <3>4, <3>5, <1>2
    <2> QED BY <2>2, <2>3, <1>1
<1> QED BY <1>1, <1>2, <1>4, <1>6, <1>7, <1>8 DEF r2, bit

\* What the last step leaves: with the partial product t and the bits m in Y, the double word is the
\* signed product, but for the high word if q is negative.
LEMMA LastMultiplies ==
    ASSUME NEW p \in Word, NEW q \in Word, NEW t \in (-Mod)..(Mod - 1), NEW m \in Int,
           2 * (Signed(p) * q) = t * Mod + m,
           NEW low \in Word, low = (m \div 2) + ((t % 2) * MSB),
           NEW high, high = IF t \div 2 < 0 THEN (t \div 2) + Mod ELSE t \div 2
    PROVE  LET product == Signed(p) * Signed(q)
           IN  /\ low = product % Mod
               /\ (IF Sign(q) THEN (high - p) % Mod ELSE high) = (product \div Mod) % Mod
<1> DEFINE g == Signed(p)
           h == t \div 2
           c == t % 2
           gq == g * q
           hm == h * Mod
           gm == g * Mod
           P == g * Signed(q)
<1>0. Mod \in Nat \ {0} /\ Mod = 2 * MSB /\ MSB \in Nat
    BY SMT DEF Mod
<1>1. h \in Int /\ c \in 0..1 /\ t = 2 * h + c /\ h >= -MSB /\ h < MSB
    BY SMT DEF Mod
<1>2. g \in -MSB..(MSB - 1)
    BY SignedTyped
<1>3. p = IF g < 0 THEN g + Mod ELSE g
    BY SMT DEF Signed, Sign, Word, Mod
<1>4. q \in Nat /\ q < Mod /\ low \in 0..(Mod - 1)
    BY SMT DEF Word, Mod
<1>5. Signed(q) = IF Sign(q) THEN q - Mod ELSE q
    BY DEF Signed
<1>6. high = IF h < 0 THEN h + Mod ELSE h
    OBVIOUS
<1>7. low = (m \div 2) + (c * MSB)
    OBVIOUS
<1>8. 2 * gq = t * Mod + m
    OBVIOUS
<1> HIDE DEF g, h, c
<1>9. gq \in Int /\ hm \in Int /\ gm \in Int
    <2>1. g \in Int
        BY <1>0, <1>2
    <2> QED BY <2>1, <1>0, <1>1, <1>4
<1>10. t * Mod = 2 * hm + 2 * (c * MSB)
    <2>1. CASE c = 0
        <3>1. t = 2 * h
            BY <2>1, <1>1
        <3>2. (2 * h) * Mod = 2 * (h * Mod)
            BY <1>0, <1>1
        <3>3. c * MSB = 0
            BY <2>1, <1>0
        <3>4. t * Mod = 2 * hm
            BY <3>1, <3>2
        <3> HIDE DEF hm
        <3> QED BY <3>3, <3>4, <1>9
    <2>2. CASE c = 1
        <3>1. t = 2 * h + 1
            BY <2>2, <1>1
        <3>2. (2 * h + 1) * Mod = 2 * (h * Mod) + Mod
            BY <1>0, <1>1
        <3>3. c * MSB = MSB
            BY <2>2, <1>0
        <3>4. t * Mod = 2 * hm + Mod
            BY <3>1, <3>2
        <3> HIDE DEF hm
        <3> QED BY <3>3, <3>4, <1>0, <1>9
    <2> QED BY <2>1, <2>2, <1>1
<1> DEFINE e == c * MSB
<1>11. e \in Int
    BY <1>0, <1>1
<1>12. low = gq - hm
    <2>1. /\ 2 * gq = (2 * hm + 2 * e) + m
          /\ low = (m \div 2) + e
        BY <1>7, <1>8, <1>10
    <2> HIDE DEF gq, hm, e
    <2>2. m = 2 * (gq - hm - e)
        BY <2>1, <1>9, <1>11
    <2> QED BY <2>1, <2>2, <1>9, <1>11
<1> DEFINE k == IF Sign(q) THEN h - g ELSE h
<1>13. k \in Int
    BY <1>0, <1>1, <1>2
<1>14. P = Mod * k + low
    <2>1. CASE Sign(q)
        <3>0. g \in Int
            BY <1>0, <1>2
        <3>1. P = gq - gm
            <4>1. Signed(q) = q - Mod
                BY <2>1, <1>5
            <4>2. g * (q - Mod) = g * q - g * Mod
                BY <3>0, <1>0, <1>4
            <4> QED BY <4>1, <4>2
        <3>2. Mod * k = hm - gm
            <4>1. k = h - g
                BY <2>1
            <4>2. Mod * (h - g) = h * Mod - g * Mod
                BY <3>0, <1>0, <1>1
            <4> QED BY <4>1, <4>2
        <3> DEFINE mk == Mod * k
        <3>3. P = gq - gm /\ mk = hm - gm
            BY <3>1, <3>2
        <3> HIDE DEF gq, gm, hm, mk, P
        <3>4. P = mk + low
            BY <3>3, <1>4, <1>9, <1>12
        <3> QED BY <3>4 DEF mk
    <2>2. CASE ~Sign(q)
        <3>1. P = gq /\ k = h
            BY <2>2, <1>5
        <3>2. Mod * h = hm
            BY <1>0, <1>1
        <3> HIDE DEF P, k, gq
        <3>3. Mod * k = hm
            BY <3>1, <3>2
        <3> HIDE DEF hm
        <3>4. P = hm + low
            BY <3>1, <1>4, <1>9, <1>12
        <3> QED BY <3>3, <3>4
    <2> QED BY <2>1, <2>2
<1>15. P \div Mod = k /\ P % Mod = low
    <2> HIDE DEF k, P
    <2> QED BY <1>0, <1>4, <1>13, <1>14, DivUnique
<1>16. (IF Sign(q) THEN (high - p) % Mod ELSE high) = k % Mod
    <2>1. /\ -Mod =< k /\ k < 2 * Mod
          /\ k % Mod = IF k < 0 THEN k + Mod ELSE IF k < Mod THEN k ELSE k - Mod
        <3>1. -Mod =< k /\ k < 2 * Mod
            BY <1>0, <1>1, <1>2
        <3> HIDE DEF k
        <3> QED BY <3>1, <1>13, Wraps
    <2>2. CASE ~Sign(q)
        BY <2>1, <2>2, <1>0, <1>1, <1>6
    <2>3. CASE Sign(q)
        <3> DEFINE x == high - p
        <3>1. x \in Int /\ -Mod =< x /\ x < 2 * Mod
            BY <1>0, <1>1, <1>2, <1>3, <1>6
        <3>2. x % Mod = IF x < 0 THEN x + Mod ELSE IF x < Mod THEN x ELSE x - Mod
            <4> HIDE DEF x
            <4> QED BY <3>1, Wraps
        <3>3. k = h - g
            BY <2>3
        <3> HIDE DEF k
        <3> QED BY <2>1, <2>3, <3>1, <3>2, <3>3, <1>0, <1>1, <1>2, <1>3, <1>6
    <2> QED BY <2>2, <2>3
<1> QED BY <1>15, <1>16 DEF g, P

LEMMA MultiplyingInit ==
    ASSUME NEW pow, Powers(pow), Init
    PROVE  Multiplying(pow)
<1>1. /\ a \in Word /\ b \in Nat /\ b < Mod /\ y = b /\ acc = 0 /\ steps = 0
      /\ icc.n = FALSE /\ icc.v = FALSE
    BY SMT DEF Init, NoFlags, Word, Mod
<1>2. pow[0] = 1 /\ pow[WIDTH] = Mod /\ WIDTH - steps = WIDTH
    BY <1>1 DEF Powers
<1>3. SumOf(0, acc, icc)
    <2>1. ~(0 < 0)
        OBVIOUS
    <2>2. acc = IF 0 < 0 THEN 0 + Mod ELSE 0
        BY <1>1, <2>1
    <2>3. ~(icc.n # icc.v)
        BY <1>1
    <2> QED BY <2>1, <2>2, <2>3 DEF SumOf
<1>4. Signed(a) \in Int
    BY <1>1, SignedTyped
<1>5. /\ b = b * 1 + 0 /\ y = 0 * Mod + b /\ 2 * (Signed(a) * 0) = 0 * 1 + 0
      /\ 1 * Mod = Mod
    BY <1>1, <1>4, SMT DEF Mod
<1>6. Multiplied(pow, 0, 0, b, 0)
    BY <1>1, <1>2, <1>3, <1>5 DEF Multiplied
<1>7. 0 \in (-Mod)..(Mod - 1)
    BY SMT DEF Mod
<1> QED BY <1>1, <1>2, <1>5, <1>6, <1>7 DEF Multiplying

\* A step keeps the invariant: the sum by StepAdds, the numbers by StepMultiplies.
LEMMA MultiplyingStep ==
    ASSUME NEW pow, Powers(pow), TypeOK, Multiplying(pow), MulStep
    PROVE  Multiplying(pow)'
<1> DEFINE A == pow[steps]
           E == pow[WIDTH - steps - 1]
           z == MULScc(acc, a, icc, y)
<1>1. /\ steps \in 0..(WIDTH - 1) /\ WIDTH - steps - 1 \in 0..(WIDTH - 1)
      /\ (WIDTH - steps - 1) + 1 = WIDTH - steps /\ WIDTH - (steps + 1) = WIDTH - steps - 1
    BY DEF MulStep, TypeOK
<1>2. /\ acc' = z.result /\ icc' = z.icc /\ y' = z.y /\ steps' = steps + 1
      /\ a' = a /\ b' = b
    BY DEF MulStep, Execute
<1>3. /\ A \in Nat \ {0} /\ E \in Nat \ {0}
      /\ pow[steps + 1] = 2 * A /\ pow[WIDTH - steps] = 2 * E
    <2>1. 0..(WIDTH - 1) \subseteq 0..WIDTH
        OBVIOUS
    <2>2. A \in Nat \ {0} /\ E \in Nat \ {0}
        BY <1>1, <2>1 DEF Powers
    <2>3. pow[steps + 1] = 2 * A
        BY <1>1 DEF Powers
    <2>4. pow[(WIDTH - steps - 1) + 1] = 2 * E
        BY <1>1 DEF Powers
    <2> QED BY <1>1, <2>2, <2>3, <2>4
<1>4. /\ A * (2 * E) = Mod
      /\ \E t \in (-Mod)..(Mod - 1), m \in Int, r \in Nat, s \in Nat : Multiplied(pow, t, m, r, s)
    BY <1>1, <1>3 DEF Multiplying
<1> HIDE DEF A, E, z
<1>5. A * E = MSB
    <2> DEFINE ae == A * E
    <2>1. ae \in Int /\ A * (2 * E) = 2 * ae
        BY <1>3
    <2> HIDE DEF ae
    <2>2. ae = MSB
        BY <2>1, <1>4 DEF Mod
    <2> QED BY <2>2 DEF ae
<1>6. (2 * A) * E = Mod
    <2> DEFINE ae == A * E
    <2>1. ae \in Int /\ (2 * A) * E = 2 * ae
        BY <1>3
    <2> QED BY <2>1, <1>5 DEF Mod
<1>7. PICK t \in (-Mod)..(Mod - 1), m \in Int, r \in Nat, s \in Nat : Multiplied(pow, t, m, r, s)
    BY <1>4
<1>8. /\ SumOf(t, acc, icc)
      /\ b = r * A + s /\ y = m * (2 * E) + r /\ r < 2 * E
      /\ 2 * (Signed(a) * s) = t * A + m
    BY <1>3, <1>7 DEF Multiplied, A
<1>9. a \in Word /\ b \in Int /\ y \in Word /\ y \in Int /\ acc \in Word /\ Signed(a) \in Int
    BY SignedTyped, SMT DEF TypeOK, Word, Mod
<1> DEFINE h == t \div 2
           c == t % 2
           bit == y % 2
           t2 == h + (IF bit = 1 THEN Signed(a) ELSE 0)
           m2 == m + c * A
           r2 == r \div 2
           s2 == s + bit * A
<1>10. h \in Int /\ c \in 0..1 /\ t = 2 * h + c
    BY SMT DEF Mod
<1>11. /\ t2 \in (-Mod)..(Mod - 1) /\ SumOf(t2, z.result, z.icc)
       /\ z.y = (y \div 2) + (c * MSB)
    BY <1>8, <1>9, StepAdds DEF z
<1> HIDE DEF h, c
<1>12. 2 * (Signed(a) * s) = (2 * h + c) * A + m
    BY <1>8, <1>10
<1>13. /\ r2 \in Nat /\ r2 < E /\ m2 \in Int /\ s2 \in Nat
       /\ b = r2 * (2 * A) + s2
       /\ (y \div 2) + (c * MSB) = m2 * E + r2
       /\ 2 * (Signed(a) * s2) = t2 * (2 * A) + m2
    BY <1>3, <1>5, <1>8, <1>9, <1>10, <1>12, StepMultiplies
<1> HIDE DEF t2, m2, r2, s2
<1>14. PICK T \in (-Mod)..(Mod - 1), M \in Int, R \in Nat, S \in Nat :
            /\ SumOf(T, z.result, z.icc)
            /\ b = R * (2 * A) + S /\ z.y = M * E + R /\ R < E
            /\ 2 * (Signed(a) * S) = T * (2 * A) + M
    BY <1>11, <1>13
<1>15. /\ pow[steps'] = 2 * A /\ pow[WIDTH - steps'] = E
    BY <1>1, <1>2, <1>3 DEF E
<1>16. Multiplied(pow, T, M, R, S)'
    BY <1>2, <1>14, <1>15 DEF Multiplied, SumOf
<1>17. pow[steps'] * pow[WIDTH - steps'] = Mod
    BY <1>6, <1>15
<1> QED BY <1>16, <1>17 DEF Multiplying

\* All bits of b have been multiplied: the last step shifts the product into place.
LEMMA MultiplyingLast ==
    ASSUME NEW pow, Powers(pow), TypeOK, TypeOK', Multiplying(pow), LastStep
    PROVE  StepsMultiply'
<1> DEFINE z == MULScc(acc, 0, icc, y)
<1>1. /\ steps = WIDTH /\ WIDTH - steps = 0 /\ steps =< WIDTH
      /\ acc' = z.result /\ icc' = z.icc /\ y' = z.y
      /\ a' = a /\ b' = b
    BY DEF LastStep, Execute
<1>2. pow[steps] = Mod /\ pow[WIDTH - steps] = 1
    BY <1>1 DEF Powers
<1>3. PICK t \in (-Mod)..(Mod - 1), m \in Int, r \in Nat, s \in Nat : Multiplied(pow, t, m, r, s)
    BY <1>1 DEF Multiplying
<1>4. /\ SumOf(t, acc, icc)
      /\ b = r * Mod + s /\ y = m * 1 + r /\ r < 1
      /\ 2 * (Signed(a) * s) = t * Mod + m
    BY <1>2, <1>3 DEF Multiplied
<1>5. r = 0 /\ s = b /\ m = y
    <2>1. r = 0
        BY <1>4
    <2>2. 0 * Mod = 0
        BY SMT DEF Mod
    <2> QED BY <1>4, <2>1, <2>2
<1>6. a \in Word /\ b \in Word /\ y \in Word /\ acc \in Word /\ y' \in Word /\ 0 \in Word
    BY SMT DEF TypeOK, Word, Mod
<1>7. Signed(0) = 0
    BY <1>6, SignedTyped
<1> DEFINE h == t \div 2
           j == IF y % 2 = 1 THEN Signed(0) ELSE 0
<1>8. /\ SumOf(h + j, z.result, z.icc)
      /\ z.y = (y \div 2) + ((t % 2) * MSB)
    BY <1>4, <1>6, StepAdds
<1>9. h \in Int /\ j = 0
    BY <1>7, SMT DEF Mod
<1> HIDE DEF h, j, z
<1>10. acc' = IF h < 0 THEN h + Mod ELSE h
    BY <1>1, <1>8, <1>9 DEF SumOf
<1>11. y' = (m \div 2) + ((t % 2) * MSB)
    BY <1>1, <1>5, <1>8
<1>12. 2 * (Signed(a) * b) = t * Mod + m
    BY <1>4, <1>5
<1> DEFINE product == Signed(a) * Signed(b)
<1>13. /\ y' = product % Mod
       /\ (IF Sign(b) THEN (acc' - a) % Mod ELSE acc') = (product \div Mod) % Mod
    <2>1. PICK low \in Word : low = y'
        BY <1>6
    <2>2. PICK high : high = acc'
        OBVIOUS
    <2>3. high = IF t \div 2 < 0 THEN (t \div 2) + Mod ELSE t \div 2
        BY <1>10, <2>2 DEF h
    <2>4. low = (m \div 2) + ((t % 2) * MSB)
        BY <1>11, <2>1
    <2>5. a \in Word /\ b \in Word
        BY <1>6
    <2> HIDE AluNumbers
    <2>6. /\ low = (Signed(a) * Signed(b)) % Mod
          /\ (IF Sign(b) THEN (high - a) % Mod ELSE high) = ((Signed(a) * Signed(b)) \div Mod) % Mod
        BY <1>12, <2>3, <2>4, <2>5, LastMultiplies
    <2> QED BY <2>1, <2>2, <2>6
<1> DEFINE p == SMUL(a, b, icc', y')
<1>14. p.result = product % Mod /\ p.y = (product \div Mod) % Mod
    BY DEF SMUL, Product, Result
<1> HIDE DEF p
<1>15. y' = p.result /\ (IF Sign(b) THEN (acc' - a) % Mod ELSE acc') = p.y
    BY <1>13, <1>14
<1> QED BY <1>1, <1>15 DEF StepsMultiply, p

\* MULScc, repeated as the architecture manual says, is SMUL for words of any width.
THEOREM Multiplies == Spec => []StepsMultiply
<1>0. PICK pow : Powers(pow)
    BY PowersOfTwo
<1> DEFINE IInv == TypeOK /\ Multiplying(pow) /\ StepsMultiply
<1>1. Init /\ TypeOK => IInv
    BY <1>0, MultiplyingInit DEF Init, StepsMultiply
<1>2. IInv /\ TypeOK' /\ [Next]_aluvars => IInv'
    <2> SUFFICES ASSUME IInv, TypeOK', [Next]_aluvars PROVE IInv'
        OBVIOUS
    <2> USE <1>0
    <2>1. CASE MulStep
        <3>1. steps' =< WIDTH
            BY <2>1 DEF MulStep, Execute, TypeOK
        <3> QED BY <2>1, <3>1, MultiplyingStep DEF StepsMultiply, TypeOK
    <2>2. CASE LastStep
        <3>1. ~(steps' =< WIDTH)
            BY <2>2 DEF LastStep, Execute
        <3> QED BY <2>2, <3>1, MultiplyingLast DEF Multiplying
    <2>3. CASE UNCHANGED aluvars \/ Done
        BY <2>3 DEF aluvars, Done, TypeOK, Multiplying, Multiplied, StepsMultiply
    <2> QED BY <2>1, <2>2, <2>3 DEF Next
<1>3. IInv => StepsMultiply
    OBVIOUS
<1> QED BY <1>1, <1>2, <1>3, TypeCorrect, PTL DEF Spec
=============================================================================
