-------------------------------- MODULE Alu --------------------------------
(***************************************************************************)
(* The arithmetic of the instruction set simulator: what the behaviours of *)
(* the arithmetic instructions compute from their operands, the Y register *)
(* and the condition codes.  Operands of the form _imm and _reg differ in  *)
(* where the second one comes from, not in what is done with it.           *)
(*                                                                         *)
(* The registers have WIDTH bits, 32 in the code; a result is              *)
(*   [result, icc, y] with icc = [n, z, v, c].                             *)
(***************************************************************************)
EXTENDS Integers

CONSTANTS
    WIDTH,
    MSB         \* the sign bit

ASSUME AluAssumption == WIDTH \in Nat \ {0} /\ MSB = 2^(WIDTH - 1)

Mod == 2 * MSB
Word == 0..(Mod - 1)
Flags == [n : BOOLEAN, z : BOOLEAN, v : BOOLEAN, c : BOOLEAN]
NoFlags == [n |-> FALSE, z |-> FALSE, v |-> FALSE, c |-> FALSE]

Sign(x) == x >= MSB
Signed(x) == IF Sign(x) THEN x - Mod ELSE x
Carry(icc) == IF icc.c THEN 1 ELSE 0

\* The operators of C on unsigned words.
Bit(x, k) == (x \div 2^k) % 2
\* and[k]: of the low k bits.
And(a, b) ==
    LET and[k \in 0..WIDTH] ==
            IF k = 0 THEN 0 ELSE and[k - 1] + (Bit(a, k - 1) * Bit(b, k - 1) * 2^(k - 1))
    IN  and[WIDTH]
Not(a) == Mod - 1 - a
Or(a, b) == (a + b) - And(a, b)
Xor(a, b) == (a + b) - (2 * And(a, b))
ShiftLeft(a, n) == (a * 2^n) % Mod
ShiftRight(a, n) == a \div 2^n
ShiftRightSigned(a, n) == (Signed(a) \div 2^n) % Mod
\* SignExtend: of the low bits of a word.
SignExtend(x, length) ==
    IF Bit(x, length - 1) = 1 THEN (x - 2^length) % Mod ELSE x

----------------------------------------------------------------------------
(* The condition codes: every expression of the code is shifted right by    *)
(* 31, so only the signs of the operands count.                            *)

ICC(r, v, c) == [n |-> Sign(r), z |-> r = 0, v |-> v, c |-> c]

ICC_writeLogic(r) == ICC(r, FALSE, FALSE)

\* Mutant: the carry out of a full adder is forgotten.
HalfAdd(r, a, b) == ICC(r, (Sign(a) /\ Sign(b) /\ ~Sign(r)) \/ (~Sign(a) /\ ~Sign(b) /\ Sign(r)),
                        Sign(a) /\ Sign(b))

ICC_writeAdd(r, a, b) ==
    ICC(r, (Sign(a) /\ Sign(b) /\ ~Sign(r)) \/ (~Sign(a) /\ ~Sign(b) /\ Sign(r)),
           (Sign(a) /\ Sign(b)) \/ ((Sign(a) \/ Sign(b)) /\ ~Sign(r)))

\* Mutant: the overflow of an addition.
SubOverflow(r, a, b) ==
    ICC(r, (Sign(a) /\ Sign(b) /\ ~Sign(r)) \/ (~Sign(a) /\ ~Sign(b) /\ Sign(r)),
           (~Sign(a) /\ Sign(b)) \/ ((~Sign(a) \/ Sign(b)) /\ Sign(r)))

ICC_writeSub(r, a, b) ==
    ICC(r, (Sign(a) /\ ~Sign(b) /\ ~Sign(r)) \/ (~Sign(a) /\ Sign(b) /\ Sign(r)),
           (~Sign(a) /\ Sign(b)) \/ ((~Sign(a) \/ Sign(b)) /\ Sign(r)))

\* The conditions of BRANCH; TRAP has the same.  8 is always, 0 never.
Taken(cond, icc) ==
    CASE cond = 8 -> TRUE
      [] cond = 0 -> FALSE
      [] cond = 9 -> ~icc.z
      [] cond = 1 -> icc.z
      [] cond = 10 -> ~icc.z /\ icc.n = icc.v
      [] cond = 2 -> icc.z \/ icc.n # icc.v
      [] cond = 11 -> icc.n = icc.v
      [] cond = 3 -> icc.n # icc.v
      [] cond = 12 -> ~icc.c /\ ~icc.z
      [] cond = 4 -> icc.c \/ icc.z
      [] cond = 13 -> ~icc.c
      [] cond = 5 -> icc.c
      [] cond = 14 -> ~icc.n
      [] cond = 6 -> icc.n
      [] cond = 15 -> ~icc.v
      [] cond = 7 -> icc.v

----------------------------------------------------------------------------
(* Instructions.  icc and y are those before the instruction. *)

Result(r, icc, y) == [result |-> r, icc |-> icc, y |-> y]

ADD(a, b, icc, y) == Result((a + b) % Mod, icc, y)
ADDX(a, b, icc, y) == Result((a + b + Carry(icc)) % Mod, icc, y)
SUB(a, b, icc, y) == Result((a - b) % Mod, icc, y)
SUBX(a, b, icc, y) == Result((a - b - Carry(icc)) % Mod, icc, y)

ADDcc(a, b, icc, y) == LET r == (a + b) % Mod IN Result(r, ICC_writeAdd(r, a, b), y)
ADDXcc(a, b, icc, y) ==
    LET r == (a + b + Carry(icc)) % Mod IN Result(r, ICC_writeAdd(r, a, b), y)
SUBcc(a, b, icc, y) == LET r == (a - b) % Mod IN Result(r, ICC_writeSub(r, a, b), y)
SUBXcc(a, b, icc, y) ==
    LET r == (a - b - Carry(icc)) % Mod IN Result(r, ICC_writeSub(r, a, b), y)

\* Tagged: the overflow is also set by a tag, the two low bits of either operand; the
\* form ccTV traps then and changes nothing.
Tagged(a, b) == a % 4 # 0 \/ b % 4 # 0
WithTag(s, a, b) == [s EXCEPT !.icc.v = @ \/ Tagged(a, b)]
TADDcc(a, b, icc, y) == WithTag(ADDcc(a, b, icc, y), a, b)
TSUBcc(a, b, icc, y) == WithTag(SUBcc(a, b, icc, y), a, b)
Traps(s) == [result |-> s.result, icc |-> s.icc, y |-> s.y, trap |-> s.icc.v]
TADDccTV(a, b, icc, y) == Traps(TADDcc(a, b, icc, y))
TSUBccTV(a, b, icc, y) == Traps(TSUBcc(a, b, icc, y))

ANDcc(a, b, icc, y) == LET r == And(a, b) IN Result(r, ICC_writeLogic(r), y)
ANDNcc(a, b, icc, y) == LET r == And(a, Not(b)) IN Result(r, ICC_writeLogic(r), y)
ORcc(a, b, icc, y) == LET r == Or(a, b) IN Result(r, ICC_writeLogic(r), y)
ORNcc(a, b, icc, y) == LET r == Or(a, Not(b)) IN Result(r, ICC_writeLogic(r), y)
XORcc(a, b, icc, y) == LET r == Xor(a, b) IN Result(r, ICC_writeLogic(r), y)
XNORcc(a, b, icc, y) == LET r == Xor(a, Not(b)) IN Result(r, ICC_writeLogic(r), y)

SLL(a, b, icc, y) == Result(ShiftLeft(a, b % WIDTH), icc, y)
SRL(a, b, icc, y) == Result(ShiftRight(a, b % WIDTH), icc, y)
SRA(a, b, icc, y) == Result(ShiftRightSigned(a, b % WIDTH), icc, y)

\* Mutant: the sign of the partial product is taken from its bit.
MulStepUnsigned(a, b, icc, y) ==
    LET shifted == (a \div 2) + (IF icc.n THEN MSB ELSE 0)
        addend == IF y % 2 = 1 THEN b ELSE 0
        r == (shifted + addend) % Mod
    IN  Result(r, ICC_writeAdd(r, shifted, addend), (y \div 2) + ((a % 2) * MSB))

\* Mutant: the carry of the step stays in the partial product.
MulStepWide(a, b, icc, y) ==
    LET shifted == (a \div 2) + (IF icc.n # icc.v THEN MSB ELSE 0)
        addend == IF y % 2 = 1 THEN b ELSE 0
        r == shifted + addend
    IN  Result(r, ICC_writeAdd(r, shifted, addend), (y \div 2) + ((a % 2) * MSB))

\* One step of a multiplication: the partial product moves into Y bit by bit.
MULScc(a, b, icc, y) ==
    LET shifted == (a \div 2) + (IF icc.n # icc.v THEN MSB ELSE 0)
        addend == IF y % 2 = 1 THEN b ELSE 0
        r == (shifted + addend) % Mod
    IN  Result(r, ICC_writeAdd(r, shifted, addend), (y \div 2) + ((a % 2) * MSB))

\* The product as a double word: Y and the result.
Product(p, icc, y) == Result(p % Mod, icc, (p \div Mod) % Mod)
UMUL(a, b, icc, y) == Product(a * b, icc, y)
SMUL(a, b, icc, y) == Product(Signed(a) * Signed(b), icc, y)
UMULcc(a, b, icc, y) == LET s == UMUL(a, b, icc, y) IN [s EXCEPT !.icc = ICC_writeLogic(s.result)]
SMULcc(a, b, icc, y) == LET s == SMUL(a, b, icc, y) IN [s EXCEPT !.icc = ICC_writeLogic(s.result)]

\* b is not 0: the instructions trap then.
UDIVcc(a, b, icc, y) ==
    LET q == ((y * Mod) + a) \div b
        r == IF q >= Mod THEN Mod - 1 ELSE q
    IN  Result(r, ICC(r, q >= Mod, FALSE), y)

\* / of C rounds towards zero.
Quotient(p, q) ==
    LET abs(x) == IF x < 0 THEN -x ELSE x
    IN  IF (p < 0) = (q < 0) THEN abs(p) \div abs(q) ELSE -(abs(p) \div abs(q))

\* Mutant: only a quotient with bits above the word is too large.
HighBits(q) == q >= Mod \/ q < -Mod

\* The high bits are neither all 0 nor all 1: the sign bit is one of them.
TooLarge(q) == q \div MSB # 0 /\ q \div MSB # -1

SDIVcc(a, b, icc, y) ==
    LET q == Quotient((Signed(y) * Mod) + a, Signed(b))
        r == IF TooLarge(q) THEN IF q > 0 THEN MSB - 1 ELSE MSB ELSE q % Mod
    IN  Result(r, ICC(r, TooLarge(q), FALSE), y)

\* The forms that leave the condition codes alone.
Plain(s, icc) == [s EXCEPT !.icc = icc]
AND(a, b, icc, y) == Plain(ANDcc(a, b, icc, y), icc)
ANDN(a, b, icc, y) == Plain(ANDNcc(a, b, icc, y), icc)
OR(a, b, icc, y) == Plain(ORcc(a, b, icc, y), icc)
ORN(a, b, icc, y) == Plain(ORNcc(a, b, icc, y), icc)
XOR(a, b, icc, y) == Plain(XORcc(a, b, icc, y), icc)
XNOR(a, b, icc, y) == Plain(XNORcc(a, b, icc, y), icc)
UDIV(a, b, icc, y) == Plain(UDIVcc(a, b, icc, y), icc)
SDIV(a, b, icc, y) == Plain(SDIVcc(a, b, icc, y), icc)

\* The value of SETHI comes shifted.
SETHI(a, b, icc, y) == Result(b - (b % 2^10), icc, y)

Division == {"UDIV", "UDIVcc", "SDIV", "SDIVcc"}
TaggedTrap == {"TADDccTV", "TSUBccTV"}
Arithmetic == Division \cup TaggedTrap \cup
    {"ADD", "ADDX", "ADDcc", "ADDXcc", "SUB", "SUBX", "SUBcc", "SUBXcc", "TADDcc", "TSUBcc",
     "AND", "ANDcc", "ANDN", "ANDNcc", "OR", "ORcc", "ORN", "ORNcc", "XOR", "XORcc", "XNOR",
     "XNORcc", "SLL", "SRL", "SRA", "SETHI", "MULScc", "UMUL", "UMULcc", "SMUL", "SMULcc"}

Compute(op, p, q, icc, y) ==
    CASE op = "ADD" -> ADD(p, q, icc, y)            [] op = "ADDX" -> ADDX(p, q, icc, y)
      [] op = "ADDcc" -> ADDcc(p, q, icc, y)        [] op = "ADDXcc" -> ADDXcc(p, q, icc, y)
      [] op = "SUB" -> SUB(p, q, icc, y)            [] op = "SUBX" -> SUBX(p, q, icc, y)
      [] op = "SUBcc" -> SUBcc(p, q, icc, y)        [] op = "SUBXcc" -> SUBXcc(p, q, icc, y)
      [] op = "TADDcc" -> TADDcc(p, q, icc, y)      [] op = "TSUBcc" -> TSUBcc(p, q, icc, y)
      [] op = "TADDccTV" -> TADDccTV(p, q, icc, y)  [] op = "TSUBccTV" -> TSUBccTV(p, q, icc, y)
      [] op = "AND" -> AND(p, q, icc, y)            [] op = "ANDcc" -> ANDcc(p, q, icc, y)
      [] op = "ANDN" -> ANDN(p, q, icc, y)          [] op = "ANDNcc" -> ANDNcc(p, q, icc, y)
      [] op = "OR" -> OR(p, q, icc, y)              [] op = "ORcc" -> ORcc(p, q, icc, y)
      [] op = "ORN" -> ORN(p, q, icc, y)            [] op = "ORNcc" -> ORNcc(p, q, icc, y)
      [] op = "XOR" -> XOR(p, q, icc, y)            [] op = "XORcc" -> XORcc(p, q, icc, y)
      [] op = "XNOR" -> XNOR(p, q, icc, y)          [] op = "XNORcc" -> XNORcc(p, q, icc, y)
      [] op = "SLL" -> SLL(p, q, icc, y)            [] op = "SRL" -> SRL(p, q, icc, y)
      [] op = "SRA" -> SRA(p, q, icc, y)            [] op = "SETHI" -> SETHI(p, q, icc, y)
      [] op = "UMUL" -> UMUL(p, q, icc, y)          [] op = "UMULcc" -> UMULcc(p, q, icc, y)
      [] op = "SMUL" -> SMUL(p, q, icc, y)          [] op = "SMULcc" -> SMULcc(p, q, icc, y)
      [] op = "UDIV" -> UDIV(p, q, icc, y)          [] op = "UDIVcc" -> UDIVcc(p, q, icc, y)
      [] op = "SDIV" -> SDIV(p, q, icc, y)          [] op = "SDIVcc" -> SDIVcc(p, q, icc, y)
      [] op = "MULScc" -> MULScc(p, q, icc, y)
=============================================================================
