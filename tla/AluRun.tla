------------------------------- MODULE AluRun -------------------------------
(***************************************************************************)
(* The arithmetic at work: a multiplication by steps of MULScc, the way    *)
(* software without a multiplier does it, and what the instructions        *)
(* compute from the operands of a state, checked against the integers.     *)
(***************************************************************************)
EXTENDS Alu

VARIABLES
    a, b,           \* the operands, any two words
    icc, y, acc,    \* condition codes, the Y register, the partial product
    steps           \* MULScc instructions executed

aluvars == <<a, b, icc, y, acc, steps>>

\* b is moved to Y; the carry is left over from before.
Init ==
    /\ a \in Word /\ b \in Word
    /\ icc \in {[NoFlags EXCEPT !.c = c] : c \in BOOLEAN}
    /\ y = b /\ acc = 0 /\ steps = 0

Execute(s) ==
    /\ acc' = s.result /\ icc' = s.icc /\ y' = s.y
    /\ steps' = steps + 1
    /\ UNCHANGED <<a, b>>

MulStep == steps < WIDTH /\ Execute(MULScc(acc, a, icc, y))
\* The last step only shifts.
LastStep == steps = WIDTH /\ Execute(MULScc(acc, 0, icc, y))
Done == steps > WIDTH /\ UNCHANGED aluvars

Next == MulStep \/ LastStep \/ Done

Spec == Init /\ [][Next]_aluvars

----------------------------------------------------------------------------
(* Properties *)

\* Every sequence of steps stays within words.
TypeOK ==
    /\ a \in Word /\ b \in Word /\ y \in Word /\ acc \in Word
    /\ icc \in Flags /\ steps \in 0..(WIDTH + 1)

\* After SUBcc the branches compare: the condition codes that one instruction computes
\* from signs and the conditions of another are together the orders of the integers.
BranchesCompare ==
    LET k == SUBcc(a, b, icc, y).icc
    IN  /\ Taken(1, k) <=> a = b
        /\ Taken(3, k) <=> Signed(a) < Signed(b)        \* bl
        /\ Taken(2, k) <=> Signed(a) =< Signed(b)       \* ble
        /\ Taken(10, k) <=> Signed(a) > Signed(b)       \* bg
        /\ Taken(5, k) <=> a < b                        \* bcs
        /\ Taken(4, k) <=> a =< b                       \* bleu
        /\ Taken(12, k) <=> a > b                       \* bgu

\* The instructions with carry chain to any length: the result and the carry out are
\* exactly the sum or the difference with the carry in, and the overflow tells that it
\* is not a signed word.
CarryChains ==
    LET add == ADDXcc(a, b, icc, y)
        sub == SUBXcc(a, b, icc, y)
        word == -MSB..(MSB - 1)
    IN  /\ add.result + (Mod * Carry(add.icc)) = a + b + Carry(icc)
        /\ sub.result - (Mod * Carry(sub.icc)) = a - b - Carry(icc)
        /\ add.icc.v <=> Signed(a) + Signed(b) + Carry(icc) \notin word
        /\ sub.icc.v <=> Signed(a) - Signed(b) - Carry(icc) \notin word

\* Multiplying by steps is SMUL: the same double word, but for a negative b, which the
\* steps take as unsigned: a is then subtracted from the high word.
StepsMultiply ==
    steps > WIDTH =>
        LET p == SMUL(a, b, icc, y)
        IN  /\ y = p.result
            /\ (IF Sign(b) THEN (acc - a) % Mod ELSE acc) = p.y

\* A quotient that is not a word becomes the nearest word, and only then the overflow
\* is set: of Y and a divided by b, but for the one quotient the host does not compute.
DivisionSaturates ==
    \A high \in {0, 1, MSB - 1, MSB, Mod - 2, Mod - 1} :
        b # 0 /\ ~(high = MSB /\ a = 0 /\ b = Mod - 1) =>
            LET s == SDIVcc(a, b, icc, high)
                u == UDIVcc(a, b, icc, high)
                q == Quotient((Signed(high) * Mod) + a, Signed(b))
                near == IF q < -MSB THEN -MSB ELSE IF q >= MSB THEN MSB - 1 ELSE q
            IN  /\ Signed(s.result) = near /\ (s.icc.v <=> near # q)
                /\ (u.icc.v <=> high >= b)
                /\ ~u.icc.v => (high * Mod) + a - (u.result * b) \in 0..(b - 1)
=============================================================================
