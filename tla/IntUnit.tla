------------------------------ MODULE IntUnit ------------------------------
(***************************************************************************)
(* The instruction set simulator of the LEON3 (leon3/intunit) behind its   *)
(* MMU, with the caches off: the main loop, the register windows, traps,   *)
(* interrupts and the access exceptions that the memory side raises while  *)
(* an instruction executes.                                                *)
(*                                                                         *)
(* The processor is one record, `leon`:                                    *)
(*   psr      [cwp, et, ps, s, pil, icc]                                   *)
(*   wim, tbr, y, pc, npc                                                  *)
(*   regs     GLOBAL at 0..7 and WINREGS behind them                       *)
(*   raised   raisedException with its PC and NPC                          *)
(*   mmu, mem                                                              *)
(*   ack      the interrupt level on the irqAck pin, 0: none               *)
(*   error    an exception left mainLoop: the processor stopped            *)
(* A behaviour is an operator from the record before an instruction to the *)
(* one behind it.  An instruction is a record                              *)
(*   [op, rd, rs1, rs2, imm, disp, cond, a, asi]                           *)
(* whose second operand is the sum of rs2 and imm, one of them 0: the      *)
(* forms _reg and _imm of the code; asi is that of the forms A, else 0.    *)
(* Displacements are in bytes.                                             *)
(***************************************************************************)
EXTENDS Mmu, FiniteSets

CONSTANTS
    NUM_REG_WIN,
    Program,        \* physical address -> instruction
    Ram,            \* initial content of the data memory
    ENTRY_POINT,
    IrqLevels,      \* levels the interrupt controller requests
    MaxIrq          \* bound: requests in a behaviour

ASSUME IntUnitAssumption ==
    /\ WIDTH >= 24 /\ WIDTH % 4 = 0     \* the PSR fits, and bytes
    /\ NUM_REG_WIN \in 2..32 /\ NUM_REG_WIN =< WIDTH   \* WIM is a word
    /\ ENTRY_POINT \in Word
    /\ Ram \in [DOMAIN Ram -> Word]
    /\ IrqLevels \subseteq 1..15
    /\ MaxIrq \in Nat

VARIABLES leon, irq, requests

vars == <<leon, irq, requests>>

NoIrq == -1
NoException == [id |-> "none", pc |-> 0, npc |-> 0]
UNIMP == [op |-> "UNIMP", rd |-> 0, rs1 |-> 0, rs2 |-> 0, imm |-> 0, disp |-> 0,
          cond |-> 0, a |-> FALSE, asi |-> 0]

----------------------------------------------------------------------------
(* Registers *)

\* The alias REGS[r] of a window.
RegIndex(cwp, r) == IF r < 8 THEN r ELSE 8 + (((cwp * 16) + r - 8) % (NUM_REG_WIN * 16))
Reg(c, r) == c.regs[RegIndex(c.psr.cwp, r)]
\* Global 0 is constant.
SetReg(c, r, v) == IF r = 0 THEN c ELSE [c EXCEPT !.regs[RegIndex(c.psr.cwp, r)] = v]

Operand2(c, i) == (Reg(c, i.rs2) + i.imm) % Mod
Address(c, i) == (Reg(c, i.rs1) + Operand2(c, i)) % Mod

Flag(b) == IF b THEN 1 ELSE 0
\* The fields of the PSR; implementation and version, which are constant, left out.
PSRValue(p) ==
    p.cwp + (2^5 * Flag(p.et)) + (2^6 * Flag(p.ps)) + (2^7 * Flag(p.s)) + (2^8 * p.pil)
        + (2^20 * Flag(p.icc.c)) + (2^21 * Flag(p.icc.v))
        + (2^22 * Flag(p.icc.z)) + (2^23 * Flag(p.icc.n))
PSRFields(v) ==
    LET set(k) == Bit(v, k) = 1
    IN  [cwp |-> v % 2^5, et |-> set(5), ps |-> set(6), s |-> set(7),
         pil |-> (v \div 2^8) % 2^4,
         icc |-> [c |-> set(20), v |-> set(21), z |-> set(22), n |-> set(23)]]

IncrementPC(c) == [c EXCEPT !.pc = c.npc, !.npc = (c.npc + 4) % Mod]
Goto(c, pc, npc) == [c EXCEPT !.pc = pc % Mod, !.npc = npc % Mod]

InvalidWindow(c, cwp) == Bit(c.wim, cwp) = 1
WindowAbove(c) == (c.psr.cwp + 1) % NUM_REG_WIN
WindowBelow(c) == (c.psr.cwp - 1) % NUM_REG_WIN
SetWindow(c, cwp) == [c EXCEPT !.psr.cwp = cwp]

----------------------------------------------------------------------------
(* Traps *)

\* The trap type; interrupts have the level, trap instructions the offset as `arg`.
TrapType(id, arg) ==
    CASE id = "INSTR_ACCESS_EXC" -> 1
      [] id = "ILLEGAL_INSTR" -> 2
      [] id = "PRIVILEDGE_INSTR" -> 3
      [] id = "WINDOW_OVERFLOW" -> 5
      [] id = "WINDOW_UNDERFLOW" -> 6
      [] id = "MEM_ADDR_NOT_ALIGNED" -> 7
      [] id = "DATA_ACCESS_EXC" -> 9
      [] id = "TAG_OVERFLOW" -> 10
      [] id = "IRQ_LEV" -> 16 + arg
      [] id = "DIV_ZERO" -> 42
      [] id = "TRAP_INSTRUCTION" -> 128 + arg

TrapNumber(tbr) == (tbr \div 2^4) % 2^8

Stop(c) == [c EXCEPT !.error = TRUE]

\* Mutant: NPC is taken to follow PC, which it does not in a delay slot.
RaiseInLine(c, pcounter, npcounter, id, arg) ==
    LET trapped == [c EXCEPT !.psr.ps = c.psr.s, !.psr.s = TRUE, !.psr.et = FALSE,
                             !.psr.cwp = WindowBelow(c)]
        saved == SetReg(SetReg(trapped, 17, pcounter), 18, (pcounter + 4) % Mod)
        vector == c.tbr - (c.tbr % 2^12) + (TrapType(id, arg) * 2^4)
    IN  IF ~c.psr.et THEN IF id = "IRQ_LEV" THEN c ELSE Stop(c)
        ELSE [Goto(saved, vector, vector + 4) EXCEPT
                !.tbr = vector, !.ack = IF id = "IRQ_LEV" THEN arg ELSE c.ack]

\* Mutant: the interrupt is not acknowledged.
RaiseUnacknowledged(c, pcounter, npcounter, id, arg) ==
    LET trapped == [c EXCEPT !.psr.ps = c.psr.s, !.psr.s = TRUE, !.psr.et = FALSE,
                             !.psr.cwp = WindowBelow(c)]
        saved == SetReg(SetReg(trapped, 17, pcounter), 18, npcounter)
        vector == c.tbr - (c.tbr % 2^12) + (TrapType(id, arg) * 2^4)
    IN  IF ~c.psr.et THEN IF id = "IRQ_LEV" THEN c ELSE Stop(c)
        ELSE [Goto(saved, vector, vector + 4) EXCEPT !.tbr = vector]

\* With traps disabled an interrupt is ignored and any other exception is thrown to
\* the simulation kernel.  The window below is entered whatever WIM says.
RaiseException(c, pcounter, npcounter, id, arg) ==
    LET trapped == [c EXCEPT !.psr.ps = c.psr.s, !.psr.s = TRUE, !.psr.et = FALSE,
                             !.psr.cwp = WindowBelow(c)]
        saved == SetReg(SetReg(trapped, 17, pcounter), 18, npcounter)
        vector == c.tbr - (c.tbr % 2^12) + (TrapType(id, arg) * 2^4)
    IN  IF ~c.psr.et THEN IF id = "IRQ_LEV" THEN c ELSE Stop(c)
        ELSE [Goto(saved, vector, vector + 4) EXCEPT
                !.tbr = vector, !.ack = IF id = "IRQ_LEV" THEN arg ELSE c.ack]

\* An exception of the instruction at PC itself, and one that the code raises behind
\* IncrementPC with the PC it has saved.
Trap(c, before, id) == RaiseException(c, before.pc, before.npc, id, 0)

\* triggerException: remembered with the PC of the moment, raised by the main loop.
triggerException(c, id) ==
    IF id = "none" THEN c
    ELSE [c EXCEPT !.raised = [id |-> id, pc |-> c.pc, npc |-> c.npc]]

----------------------------------------------------------------------------
(* Memory accesses.  A read that faults leaves the 0 of the read buffer. *)

DataAsi(c) == IF c.psr.s THEN 11 ELSE 10

Answered(c, t) ==
    [ok |-> t.ok, paddr |-> t.paddr,
     core |-> triggerException([c EXCEPT !.mmu = t.mmu], t.exception)]
Accessed(c, address, asi, write) ==
    Answered(c, Translate(c.mem, c.mmu, address, asi, write))

BITS == WIDTH \div 4    \* of a byte
Shift(a) == 2^(BITS * (3 - (a % 4)))

\* Bytes, half words and words of the big endian memory, aligned or not.
Load1(mem, a) == (Content(mem, a - (a % 4)) \div Shift(a)) % 2^BITS
Load2(mem, a) == (Load1(mem, a) * 2^BITS) + Load1(mem, a + 1)
Load4(mem, a) ==
    IF a % 4 = 0 THEN Content(mem, a) ELSE (Load2(mem, a) * 2^(2 * BITS)) + Load2(mem, a + 2)

Store1(mem, a, v) ==
    [mem EXCEPT ![a - (a % 4)] = @ + (((v % 2^BITS) - ((@ \div Shift(a)) % 2^BITS)) * Shift(a))]
Store2(mem, a, v) == Store1(Store1(mem, a, v \div 2^BITS), a + 1, v)
Store4(mem, a, v) ==
    IF a % 4 = 0 THEN [mem EXCEPT ![a] = v]
    ELSE Store2(Store2(mem, a, v \div 2^(2 * BITS)), a + 2, v)

\* ASI 0x19: the MMU registers; 0x1c: memory, not translated.
Access(c, address, asi, write) ==
    IF asi = 28 THEN [ok |-> TRUE, paddr |-> address, core |-> c]
    ELSE Accessed(c, address, asi, write)

\* `values`: what is read, and of a double word the second word.
Values(mem, a, n) ==
    CASE n = 1 -> <<Load1(mem, a)>>     [] n = 2 -> <<Load2(mem, a)>>
      [] n = 4 -> <<Load4(mem, a)>>     [] n = 8 -> <<Load4(mem, a), Load4(mem, a + 4)>>
Read(x, n) ==
    [values |-> IF x.ok THEN Values(x.core.mem, x.paddr, n) ELSE <<0, 0>>, core |-> x.core]
ReadData(c, address, asi, n) ==
    IF asi = 25
    THEN [values |-> <<ReadMmu(c.mmu, address)>>,
          core |-> IF address = 768 THEN [c EXCEPT !.mmu = read_mfsr(c.mmu)] ELSE c]
    ELSE Read(Access(c, address, asi, FALSE), n)

Stored(mem, a, n, vs) ==
    CASE n = 1 -> Store1(mem, a, vs[1])     [] n = 2 -> Store2(mem, a, vs[1])
      [] n = 4 -> Store4(mem, a, vs[1])
      [] n = 8 -> Store4(Store4(mem, a, vs[1]), a + 4, vs[2])
Write(x, vs, n) == IF x.ok THEN [x.core EXCEPT !.mem = Stored(@, x.paddr, n, vs)] ELSE x.core
WriteData(c, address, vs, asi, n) ==
    IF asi = 25 THEN [c EXCEPT !.mmu = WriteMmu(c.mmu, address, vs[1])]
    ELSE Write(Access(c, address, asi, TRUE), vs, n)

----------------------------------------------------------------------------
(* Behaviours *)

ArithDone(c, i, s) ==
    IF i.op \in TaggedTrap /\ s.icc.v THEN Trap(IncrementPC(c), c, "TAG_OVERFLOW")
    ELSE SetReg([IncrementPC(c) EXCEPT !.psr.icc = s.icc, !.y = s.y], i.rd, s.result)
Arith(c, i) ==
    IF i.op \in Division /\ Operand2(c, i) = 0 THEN Trap(IncrementPC(c), c, "DIV_ZERO")
    ELSE ArithDone(c, i, Compute(i.op, Reg(c, i.rs1), Operand2(c, i), c.psr.icc, c.y))

\* The result is computed in the old window and written in the new one.
SAVE(c, i) ==
    IF InvalidWindow(c, WindowBelow(c)) THEN Trap(IncrementPC(c), c, "WINDOW_OVERFLOW")
    ELSE SetReg(SetWindow(IncrementPC(c), WindowBelow(c)), i.rd, Address(c, i))

RESTORE(c, i) ==
    IF InvalidWindow(c, WindowAbove(c)) THEN Trap(IncrementPC(c), c, "WINDOW_UNDERFLOW")
    ELSE SetReg(SetWindow(IncrementPC(c), WindowAbove(c)), i.rd, Address(c, i))

CALL(c, i) == SetReg(Goto(c, c.npc, c.pc + i.disp), 15, c.pc)

JUMP(c, i) ==
    IF Address(c, i) % 4 # 0 THEN Trap(c, c, "MEM_ADDR_NOT_ALIGNED")
    ELSE SetReg(Goto(c, c.npc, Address(c, i)), i.rd, c.pc)

BRANCH(c, i) ==
    IF i.cond = 8 THEN IF i.a THEN Goto(c, c.pc + i.disp, c.pc + i.disp + 4)
                              ELSE Goto(c, c.npc, c.pc + i.disp)
    ELSE IF Taken(i.cond, c.psr.icc) THEN Goto(c, c.npc, c.pc + i.disp)
    ELSE IF i.a THEN Goto(c, c.npc + 4, c.npc + 8)
    ELSE Goto(c, c.npc, c.npc + 4)

TRAP(c, i) ==
    IF Taken(i.cond, c.psr.icc)
    THEN RaiseException(c, c.pc, c.npc, "TRAP_INSTRUCTION", Address(c, i) % 2^7)
    ELSE Goto(c, c.npc, c.npc + 4)

\* Return from trap: with traps enabled it traps, with them disabled and anything else
\* wrong it is thrown.
RETT(c, i) ==
    IF c.psr.et
    THEN Trap(IncrementPC(c), c, IF c.psr.s THEN "ILLEGAL_INSTR" ELSE "PRIVILEDGE_INSTR")
    ELSE IF ~c.psr.s \/ InvalidWindow(c, WindowAbove(c)) \/ Address(c, i) % 4 # 0
    THEN Stop(IncrementPC(c))
    ELSE [Goto(c, c.npc, Address(c, i)) EXCEPT
            !.psr.s = c.psr.ps, !.psr.et = TRUE, !.psr.cwp = WindowAbove(c)]

\* The state registers.  A write is the exclusive or of both operands.
\* Mutant: the mode is not looked at.
Unprivileged(c, then) == then
Privileged(c, then) == IF c.psr.s THEN then ELSE Trap(IncrementPC(c), c, "PRIVILEDGE_INSTR")
Written(c, i) == Xor(Reg(c, i.rs1), Operand2(c, i))

READpsr(c, i) == Privileged(c, SetReg(IncrementPC(c), i.rd, PSRValue(c.psr)))
READwim(c, i) == Privileged(c, SetReg(IncrementPC(c), i.rd, c.wim))

WRITEpsr(c, i) ==
    LET p == PSRFields(Written(c, i))
    IN  Privileged(c, IF p.cwp < NUM_REG_WIN THEN [IncrementPC(c) EXCEPT !.psr = p]
                      ELSE Trap(IncrementPC(c), c, "ILLEGAL_INSTR"))
\* Mutant: the bits without a window are kept.
WriteWholeWim(c, i) == Privileged(c, [IncrementPC(c) EXCEPT !.wim = Written(c, i)])
WRITEwim(c, i) ==
    Privileged(c, [IncrementPC(c) EXCEPT !.wim = Written(c, i) % 2^NUM_REG_WIN])
\* TBR |= : the base is or-ed into the one before.
WRITEtbr(c, i) ==
    LET result == Written(c, i)
    IN  Privileged(c, [IncrementPC(c) EXCEPT !.tbr = Or(c.tbr, result - (result % 2^12))])

READy(c, i) == SetReg(IncrementPC(c), i.rd, c.y)
WRITEy(c, i) == [IncrementPC(c) EXCEPT !.y = Written(c, i)]
READtbr(c, i) == Privileged(c, SetReg(IncrementPC(c), i.rd, c.tbr))

\* Loads and stores, with an ASI of their own (the forms A) or, asi = 0, that of the data
\* space.  They increment PC at the end.
Size(op) == CASE op \in {"LDSB", "LDUB", "STB", "LDSTUB"} -> 1
              [] op \in {"LDSH", "LDUH", "STH"} -> 2
              [] op \in {"LD", "ST", "SWAP"} -> 4
              [] op \in {"LDD", "STD"} -> 8
Alternate(i) == i.asi # 0
Asi(c, i) == IF Alternate(i) THEN i.asi ELSE DataAsi(c)
Allowed(c, i) == ~Alternate(i) \/ c.psr.s
\* STDA asks for no more than a word.
Boundary(i) == IF Alternate(i) /\ i.op = "STD" THEN 4 ELSE Size(i.op)
Aligned(c, i) == Address(c, i) % Boundary(i) = 0
\* What a form raises that is not allowed or not aligned, from the state d it has left.
Refused(d, c, i) ==
    Trap(d, c, IF Allowed(c, i) THEN "MEM_ADDR_NOT_ALIGNED" ELSE "PRIVILEDGE_INSTR")

\* A double word is in an even register and the odd one after it.
Even(r) == r - (r % 2)
SetLoaded(c, i, values) ==
    CASE i.op = "LDD" -> SetReg(SetReg(c, Even(i.rd), values[1]), Even(i.rd) + 1, values[2])
      [] i.op \in {"LDSB", "LDSH"} -> SetReg(c, i.rd, SignExtend(values[1], BITS * Size(i.op)))
      [] OTHER -> SetReg(c, i.rd, values[1])

\* What a load or an exchange reads.  But for LDSH, LDD and the exchanges a form reads
\* before it looks at its address, or the privilege.
Reads == {"LDSB", "LDUB", "LDSH", "LDUH", "LD", "LDD", "SWAP", "LDSTUB"}
ReadFirst(c, i) ==
    \/ Allowed(c, i) /\ Aligned(c, i)
    \/ i.op \in {"LDSB", "LDUB", "LDUH", "LD"} \/ (i.op \in {"LDSH", "LDD"} /\ Alternate(i))
DataRead(c, i) ==
    IF i.op \in Reads /\ ReadFirst(c, i)
    THEN ReadData(c, Address(c, i), Asi(c, i), Size(i.op))
    ELSE [values |-> <<>>, core |-> c]

\* An exception of the MMU does not keep a load from its register.
Load(c, i, r) ==
    IF Allowed(c, i) /\ Aligned(c, i) THEN IncrementPC(SetLoaded(r.core, i, r.values))
    ELSE Refused(r.core, c, i)

\* STDA stores the truth value of its registers: || for |.
StoreValues(c, i) ==
    IF i.op # "STD" THEN <<Reg(c, i.rd)>>
    ELSE IF ~Alternate(i) THEN <<Reg(c, Even(i.rd)), Reg(c, Even(i.rd) + 1)>>
    ELSE <<Flag(Reg(c, i.rd) # 0 \/ Reg(c, (i.rd + 1) % 32) # 0), 0>>
\* The forms A store in supervisor mode whatever the address, and but for STBA in user
\* mode what is aligned, and trap then.
StoreFirst(c, i) ==
    IF Alternate(i) THEN c.psr.s \/ (i.op # "STB" /\ Aligned(c, i)) ELSE Aligned(c, i)
StoreDone(c, i, d) ==
    IF Allowed(c, i) /\ Aligned(c, i) THEN IncrementPC(d) ELSE Refused(d, c, i)
Store(c, i) ==
    StoreDone(c, i, IF StoreFirst(c, i)
                    THEN WriteData(c, Address(c, i), StoreValues(c, i), Asi(c, i), Size(i.op))
                    ELSE c)

\* SWAP and LDSTUB: a read and a write, of which either may leave an exception.
Exchange(c, i, r) ==
    LET v == IF i.op = "SWAP" THEN Reg(c, i.rd) ELSE 2^BITS - 1
    IN  IF Allowed(c, i) /\ Aligned(c, i)
        THEN IncrementPC(SetReg(WriteData(r.core, Address(c, i), <<v>>, Asi(c, i), Size(i.op)),
                                i.rd, r.values[1]))
        ELSE Refused(c, c, i)

\* What software is made of.  The MMU registers are words: the code writes a word into the
\* buffer of a shorter access to ASI 0x19.
Instructions ==
    {i \in [op : Arithmetic \cup Reads \cup {"STB", "STH", "ST", "STD", "SAVE", "RESTORE", "CALL",
                    "JUMP", "BRANCH", "TRAP", "RETT", "READpsr", "WRITEpsr", "READwim", "WRITEwim",
                    "READtbr", "WRITEtbr", "READy", "WRITEy", "FLUSH", "STBAR", "UNIMP"},
            rd : 0..31, rs1 : 0..31, rs2 : 0..31, imm : Word, disp : Int, cond : 0..15,
            a : BOOLEAN, asi : {0, 8, 9, 10, 11, 25, 28}] :
        i.asi = 25 => i.op \in {"LD", "ST", "SWAP"}}

\* r: what the instruction has read.
behavior(c, i, r) ==
    CASE i.op \in Arithmetic -> Arith(c, i)
      [] i.op = "SAVE" -> SAVE(c, i)          [] i.op = "RESTORE" -> RESTORE(c, i)
      [] i.op = "CALL" -> CALL(c, i)          [] i.op = "JUMP" -> JUMP(c, i)
      [] i.op = "BRANCH" -> BRANCH(c, i)      [] i.op = "TRAP" -> TRAP(c, i)
      [] i.op = "RETT" -> RETT(c, i)
      [] i.op = "READpsr" -> READpsr(c, i)    [] i.op = "WRITEpsr" -> WRITEpsr(c, i)
      [] i.op = "READwim" -> READwim(c, i)    [] i.op = "WRITEwim" -> WRITEwim(c, i)
      [] i.op = "WRITEtbr" -> WRITEtbr(c, i)  [] i.op = "READtbr" -> READtbr(c, i)
      [] i.op = "READy" -> READy(c, i)        [] i.op = "WRITEy" -> WRITEy(c, i)
      [] i.op \in {"LDSB", "LDUB", "LDSH", "LDUH", "LD", "LDD"} -> Load(c, i, r)
      [] i.op \in {"STB", "STH", "ST", "STD"} -> Store(c, i)
      [] i.op \in {"SWAP", "LDSTUB"} -> Exchange(c, i, r)
      [] i.op \in {"FLUSH", "STBAR"} -> IncrementPC(c)
      [] i.op = "UNIMP" -> Trap(IncrementPC(c), c, "ILLEGAL_INSTR")

----------------------------------------------------------------------------
(* The main loop: an interrupt, else a fetch, then the exception that an   *)
(* access has left, else the instruction.                                  *)

resetOp ==
    [psr |-> [cwp |-> 0, et |-> FALSE, ps |-> FALSE, s |-> TRUE, pil |-> 0, icc |-> NoFlags],
     wim |-> 0, tbr |-> 0, y |-> 0, pc |-> ENTRY_POINT, npc |-> (ENTRY_POINT + 4) % Mod,
     regs |-> [k \in 0..(7 + (16 * NUM_REG_WIN)) |-> 0], raised |-> NoException,
     mmu |-> ResetMmu, mem |-> Ram, ack |-> 0, error |-> FALSE]

Init == leon = resetOp /\ irq = NoIrq /\ requests = 0

IrqEnabled == irq # NoIrq /\ leon.psr.et /\ (irq = 15 \/ irq > leon.psr.pil)

\* read_instr: its fault replaces one that a data access has left.  The 0 of its buffer
\* is UNIMP.
Fetch(c) ==
    LET x == Accessed(c, c.pc, IF c.psr.s THEN 9 ELSE 8, FALSE)
    IN  [instr |-> IF x.ok /\ x.paddr \in DOMAIN Program THEN Program[x.paddr] ELSE UNIMP, core |-> x.core]

TakeIrq ==
    /\ ~leon.error /\ IrqEnabled
    /\ leon' = RaiseException(leon, leon.pc, leon.npc, "IRQ_LEV", irq)
    /\ UNCHANGED <<irq, requests>>


RaiseDeferred ==
    /\ ~leon.error /\ ~IrqEnabled
    /\ \E c \in {Fetch(leon).core} :
          /\ c.raised # NoException
          /\ leon' = RaiseException([c EXCEPT !.raised = NoException],
                                    c.raised.pc, c.raised.npc, c.raised.id, 0)
    /\ UNCHANGED <<irq, requests>>

Execute ==
    /\ ~leon.error /\ ~IrqEnabled
    /\ \E f \in {Fetch(leon)} :
          /\ f.core.raised = NoException
          /\ \E r \in {DataRead(f.core, f.instr)} : leon' = behavior(f.core, f.instr, r)
    /\ UNCHANGED <<irq, requests>>

\* The interrupt controller: a request at any moment, between an access that faults and
\* its trap too, and its end some time after the acknowledge.
Request ==
    /\ irq = NoIrq /\ requests < MaxIrq
    /\ irq' \in IrqLevels
    /\ requests' = requests + 1
    /\ UNCHANGED leon

Lower ==
    /\ irq # NoIrq /\ leon.ack = irq
    /\ irq' = NoIrq
    /\ leon' = [leon EXCEPT !.ack = 0]
    /\ UNCHANGED requests

Next == TakeIrq \/ RaiseDeferred \/ Execute \/ Request \/ Lower

Spec == Init /\ [][Next]_vars

----------------------------------------------------------------------------
(* Properties *)

\* The program is made of instructions.
ASSUME ProgramAssumption == \A p \in DOMAIN Program : Program[p] \in Instructions

PSR == [cwp : 0..(NUM_REG_WIN - 1), et : BOOLEAN, ps : BOOLEAN, s : BOOLEAN, pil : 0..15,
        icc : Flags]
Core ==
    [psr : PSR, wim : 0..(2^NUM_REG_WIN - 1), tbr : Word, y : Word, pc : Word, npc : Word,
     regs : [0..(7 + (16 * NUM_REG_WIN)) -> Word],
     raised : {NoException}
                  \cup [id : {"INSTR_ACCESS_EXC", "DATA_ACCESS_EXC"}, pc : Word, npc : Word],
     mmu : MmuRegisters, mem : [DOMAIN Ram -> Word], ack : 0..15, error : BOOLEAN]

\* Every register stays what its width allows, the window number among the windows, and
\* no access leaves the memory.
TypeOK ==
    /\ leon \in Core
    /\ irq \in IrqLevels \cup {NoIrq}
    /\ requests \in 0..MaxIrq

\* What is the supervisor's: the mode, the interrupt level, the window mask, the trap table.
Kept(c, d) ==
    /\ d.psr.s = c.psr.s /\ d.psr.et = c.psr.et /\ d.psr.ps = c.psr.ps /\ d.psr.pil = c.psr.pil
    /\ d.wim = c.wim /\ d.tbr = c.tbr
\* A trap: traps were enabled and no longer are, the mode before is in PS, the window below
\* is entered, and the vector, in the same trap table, is next.
Entered(c, d) ==
    /\ c.psr.et /\ ~d.psr.et /\ d.psr.s /\ d.psr.ps = c.psr.s /\ d.psr.pil = c.psr.pil
    /\ d.psr.cwp = WindowBelow(c) /\ d.wim = c.wim
    /\ d.tbr - (d.tbr % 2^12) = c.tbr - (c.tbr % 2^12)
    /\ d.pc = d.tbr /\ d.npc = (d.tbr + 4) % Mod

\* User software leaves its mode by a trap and no other way: no instruction, fault or
\* interrupt in user mode changes anything of the supervisor's but by entering a trap whole.
\* In either mode the processor stops only with traps disabled.
UserConfined ==
    [][/\ ~leon.psr.s => Kept(leon, leon') \/ Entered(leon, leon')
       /\ leon'.error => leon.error \/ ~leon.psr.et]_vars

\* The first instruction of an interrupt handler is next, and an access exception from
\* before the interrupt has not been raised yet.
Overtaken ==
    /\ leon.raised # NoException /\ ~leon.psr.et /\ leon.pc = leon.tbr
    /\ TrapNumber(leon.tbr) \in {TrapType("IRQ_LEV", level) : level \in 1..15}

=============================================================================
