--------------------------- MODULE IntUnitProofs ---------------------------
(***************************************************************************)
(* Proofs about IntUnit, for every number of windows, word width, program, *)
(* memory and moment of an interrupt.                                      *)
(*                                                                         *)
(*   TypeCorrect   every instruction, trap and access leaves a processor:  *)
(*                 registers hold words, the window number is one of the   *)
(*                 windows, memory keeps its shape, and what is raised     *)
(*                 later is a real exception.  The last is needed: a trap  *)
(*                 type exists for exceptions only.                        *)
(*   Protects      what is the supervisor's changes in user mode by a trap *)
(*                 only, entered whole.                                    *)
(*                                                                         *)
(* TypeOK is inductive, so the first theorem is an induction over the      *)
(* steps; the work is below it, one lemma per operator of the model: a     *)
(* number that an operator computes stays a word (AluProofs has those of   *)
(* the arithmetic).  The second goes through the same operators and shows  *)
(* that each leaves a frame of fields alone, or enters a trap.             *)
(***************************************************************************)
EXTENDS IntUnit, AluProofs

USE AluNumbers

----------------------------------------------------------------------------
(* Numbers *)

LEMMA UnitNumbers ==
    /\ NUM_REG_WIN \in 2..32 /\ BITS \in Nat \ {0} /\ WIDTH = 4 * BITS
    /\ ENTRY_POINT \in Word /\ Ram \in [DOMAIN Ram -> Word]
<1>1. WIDTH \in Nat /\ WIDTH >= 24 /\ WIDTH % 4 = 0
    BY IntUnitAssumption
<1>2. WIDTH \div 4 \in Nat \ {0} /\ WIDTH = 4 * (WIDTH \div 4)
    BY <1>1
<1> QED BY <1>2, IntUnitAssumption, Zenon DEF BITS

\* A word is 4096 times what is left of it without its low 12 bits, and has at least 24.
LEMMA Pages == \E n \in Nat : n >= 4096 /\ Mod = 4096 * n
<1>1. PICK m \in Nat, n \in Nat : m = 24 /\ n = WIDTH - 24 /\ m + n = WIDTH
    BY IntUnitAssumption
<1>2. 2^WIDTH = 2^m * 2^n /\ 2^n \in Nat \ {0}
    <2>1. 2^(m + n) = 2^m * 2^n
        BY PowersAdd, Zenon
    <2>2. m + n = WIDTH
        BY <1>1
    <2> QED BY <2>1, <2>2, TwoPower, Zenon
<1>3. PICK k \in Nat \ {0} : k = 2^n
    BY <1>2
<1>4. PICK b : b = 2^m
    OBVIOUS
<1>5. Mod = b * k
    BY <1>1, <1>2, <1>3, <1>4, ModPower, Zenon
<1>6. b = 16777216
    BY <1>1, <1>4, SMT
<1>7. Mod = 16777216 * k
    BY <1>5, <1>6, SMT
<1>8. 4096 * k \in Nat /\ 4096 * k >= 4096 /\ Mod = 4096 * (4096 * k)
    BY <1>7, SMT
<1> QED BY <1>8, SMT

LEMMA SmallWords == \A x \in Nat : x < 16777216 => x \in Word
<1>1. PICK n \in Nat : n >= 4096 /\ Mod = 4096 * n
    BY Pages
<1>2. Word = 0..(4096 * n - 1)
    BY <1>1, SMT DEF Word
<1> QED BY <1>1, <1>2, SMT

LEMMA WordNumbers ==
    /\ \A x \in Word : x \in Nat /\ x < Mod
    /\ 0 \in Word /\ 1 \in Word /\ 4 \in Word
BY SmallWords, SMT DEF Word

----------------------------------------------------------------------------
(* One field *)

Registers == 0..(7 + (16 * NUM_REG_WIN))
Memory == [DOMAIN Ram -> Word]
Faults == [id : {"INSTR_ACCESS_EXC", "DATA_ACCESS_EXC"}, pc : Word, npc : Word]
Raised == {NoException} \cup Faults
Wim == 0..(2^NUM_REG_WIN - 1)

LEMMA CoreFields ==
    ASSUME NEW c \in Core
    PROVE  /\ c.psr \in PSR /\ c.wim \in Wim /\ c.tbr \in Word /\ c.y \in Word
           /\ c.pc \in Word /\ c.npc \in Word /\ c.regs \in [Registers -> Word]
           /\ c.raised \in Raised /\ c.mmu \in MmuRegisters /\ c.mem \in Memory
           /\ c.ack \in 0..15 /\ c.error \in BOOLEAN
BY Zenon DEF Core, Registers, Memory, Raised, Faults, Wim

LEMMA PsrFields ==
    ASSUME NEW p \in PSR
    PROVE  /\ p.cwp \in 0..(NUM_REG_WIN - 1) /\ p.et \in BOOLEAN /\ p.ps \in BOOLEAN
           /\ p.s \in BOOLEAN /\ p.pil \in 0..15 /\ p.icc \in Flags
BY Zenon DEF PSR

LEMMA CoreUpdates ==
    ASSUME NEW c \in Core
    PROVE  /\ \A v \in Word, w \in Word : [c EXCEPT !.pc = v, !.npc = w] \in Core
           /\ \A k \in Registers, v \in Word : [c EXCEPT !.regs[k] = v] \in Core
           /\ \A p \in PSR : [c EXCEPT !.psr = p] \in Core
           /\ \A v \in Wim : [c EXCEPT !.wim = v] \in Core
           /\ \A v \in Word : [c EXCEPT !.tbr = v] \in Core
           /\ \A v \in Word, a \in 0..15 : [c EXCEPT !.tbr = v, !.ack = a] \in Core
           /\ \A v \in Word : [c EXCEPT !.y = v] \in Core
           /\ \A r \in Raised : [c EXCEPT !.raised = r] \in Core
           /\ \A m \in MmuRegisters : [c EXCEPT !.mmu = m] \in Core
           /\ \A m \in Memory : [c EXCEPT !.mem = m] \in Core
           /\ \A a \in 0..15 : [c EXCEPT !.ack = a] \in Core
           /\ [c EXCEPT !.error = TRUE] \in Core
BY DEF Core, Registers, Memory, Raised, Faults, Wim

LEMMA PsrUpdates ==
    ASSUME NEW c \in Core
    PROVE  /\ \A w \in 0..(NUM_REG_WIN - 1) : [c EXCEPT !.psr.cwp = w] \in Core
           /\ \A k \in Flags, v \in Word : [c EXCEPT !.psr.icc = k, !.y = v] \in Core
           /\ \A s \in BOOLEAN, t \in BOOLEAN, w \in 0..(NUM_REG_WIN - 1) :
                 /\ [c EXCEPT !.psr.ps = t, !.psr.s = s, !.psr.et = FALSE, !.psr.cwp = w] \in Core
                 /\ [c EXCEPT !.psr.s = s, !.psr.et = t, !.psr.cwp = w] \in Core
<1>1. c.psr \in PSR
    BY CoreFields
<1>2. ASSUME NEW p \in PSR
      PROVE  /\ \A w \in 0..(NUM_REG_WIN - 1) : [p EXCEPT !.cwp = w] \in PSR
             /\ \A k \in Flags : [p EXCEPT !.icc = k] \in PSR
             /\ \A s \in BOOLEAN, t \in BOOLEAN, w \in 0..(NUM_REG_WIN - 1) :
                   /\ [p EXCEPT !.ps = t, !.s = s, !.et = FALSE, !.cwp = w] \in PSR
                   /\ [p EXCEPT !.s = s, !.et = t, !.cwp = w] \in PSR
    BY DEF PSR
<1>3. \A w \in 0..(NUM_REG_WIN - 1) : [c EXCEPT !.psr.cwp = w] \in Core
    <2>1. \A w : [c EXCEPT !.psr.cwp = w] = [c EXCEPT !.psr = [c.psr EXCEPT !.cwp = w]]
        OBVIOUS
    <2> QED BY <1>1, <1>2, <2>1, CoreUpdates, Zenon
<1>4. \A k \in Flags, v \in Word : [c EXCEPT !.psr.icc = k, !.y = v] \in Core
    <2>1. \A k, v : [c EXCEPT !.psr.icc = k, !.y = v]
                     = [[c EXCEPT !.psr = [c.psr EXCEPT !.icc = k]] EXCEPT !.y = v]
        BY DEF Core
    <2> QED BY <1>1, <1>2, <2>1, CoreUpdates, Zenon
<1>5. ASSUME NEW s \in BOOLEAN, NEW t \in BOOLEAN, NEW w \in 0..(NUM_REG_WIN - 1)
      PROVE  /\ [c EXCEPT !.psr.ps = t, !.psr.s = s, !.psr.et = FALSE, !.psr.cwp = w] \in Core
             /\ [c EXCEPT !.psr.s = s, !.psr.et = t, !.psr.cwp = w] \in Core
    <2>1. [c EXCEPT !.psr.ps = t, !.psr.s = s, !.psr.et = FALSE, !.psr.cwp = w]
          = [c EXCEPT !.psr = [c.psr EXCEPT !.ps = t, !.s = s, !.et = FALSE, !.cwp = w]]
        BY DEF Core
    <2>2. [c EXCEPT !.psr.s = s, !.psr.et = t, !.psr.cwp = w]
          = [c EXCEPT !.psr = [c.psr EXCEPT !.s = s, !.et = t, !.cwp = w]]
        BY DEF Core
    <2> QED BY <1>1, <1>2, <2>1, <2>2, CoreUpdates, Zenon
<1> QED BY <1>3, <1>4, <1>5

LEMMA RegIndexTyped ==
    ASSUME NEW w \in 0..(NUM_REG_WIN - 1), NEW r \in 0..31
    PROVE  RegIndex(w, r) \in Registers
<1>1. PICK n : n = NUM_REG_WIN * 16
    OBVIOUS
<1>2. n \in Nat \ {0} /\ 16 * NUM_REG_WIN = n
    BY <1>1, UnitNumbers
<1>3. (w * 16) + r - 8 \in Int
    BY UnitNumbers
<1>4. ((w * 16) + r - 8) % n \in 0..(n - 1)
    BY <1>2, <1>3, DivMod, Zenon
<1>5. r < 8 => r \in 0..(7 + n)
    BY <1>2
<1>6. 8 + (((w * 16) + r - 8) % n) \in 0..(7 + n)
    BY <1>2, <1>4
<1> QED BY <1>1, <1>2, <1>5, <1>6, Zenon DEF RegIndex, Registers

LEMMA RegTyped ==
    ASSUME NEW c \in Core, NEW r \in 0..31
    PROVE  Reg(c, r) \in Word
<1>1. RegIndex(c.psr.cwp, r) \in Registers
    BY CoreFields, PsrFields, RegIndexTyped, Zenon
<1> QED BY <1>1, CoreFields, Zenon DEF Reg

LEMMA SetRegTyped ==
    ASSUME NEW c \in Core, NEW r \in 0..31, NEW v \in Word
    PROVE  SetReg(c, r, v) \in Core
<1>1. RegIndex(c.psr.cwp, r) \in Registers
    BY CoreFields, PsrFields, RegIndexTyped, Zenon
<1> QED BY <1>1, CoreUpdates, Zenon DEF SetReg

LEMMA PcTyped ==
    ASSUME NEW c \in Core
    PROVE  /\ IncrementPC(c) \in Core
           /\ \A p \in Int, n \in Int : Goto(c, p, n) \in Core
<1>1. c.npc \in Word /\ (c.npc + 4) % Mod \in Word
    <2>1. c.npc \in Word /\ c.npc \in Int
        BY CoreFields, WordNumbers
    <2> QED BY <2>1, ModBounds
<1>2. IncrementPC(c) \in Core
    BY <1>1, CoreUpdates, Zenon DEF IncrementPC
<1>3. ASSUME NEW p \in Int, NEW n \in Int
      PROVE  Goto(c, p, n) \in Core
    BY ModBounds, CoreUpdates, Zenon DEF Goto
<1> QED BY <1>2, <1>3

LEMMA WindowTyped ==
    ASSUME NEW c \in Core
    PROVE  /\ WindowAbove(c) \in 0..(NUM_REG_WIN - 1) /\ WindowBelow(c) \in 0..(NUM_REG_WIN - 1)
           /\ \A w \in 0..(NUM_REG_WIN - 1) : SetWindow(c, w) \in Core
<1>1. c.psr.cwp \in Int
    BY CoreFields, PsrFields
<1>2. c.psr.cwp + 1 \in Int /\ c.psr.cwp - 1 \in Int /\ NUM_REG_WIN \in Nat \ {0}
    BY <1>1, UnitNumbers
<1> QED BY <1>2, DivMod, PsrUpdates, Zenon DEF WindowAbove, WindowBelow, SetWindow

LEMMA AddressTyped ==
    ASSUME NEW c \in Core, NEW i \in Instructions
    PROVE  Operand2(c, i) \in Word /\ Address(c, i) \in Word /\ Written(c, i) \in Word
<1>1. i.rs1 \in 0..31 /\ i.rs2 \in 0..31 /\ i.imm \in Word
    BY DEF Instructions
<1>2. Reg(c, i.rs1) \in Word /\ Reg(c, i.rs2) \in Word
    BY <1>1, RegTyped
<1>3. Operand2(c, i) \in Word
    <2>1. Reg(c, i.rs2) + i.imm \in Int
        BY <1>1, <1>2, WordNumbers
    <2> QED BY <2>1, ModBounds DEF Operand2
<1>4. Address(c, i) \in Word
    <2>1. Reg(c, i.rs1) + Operand2(c, i) \in Int
        BY <1>2, <1>3, WordNumbers
    <2> QED BY <2>1, ModBounds DEF Address
<1> QED BY <1>2, <1>3, <1>4, BitwiseTyped DEF Written

----------------------------------------------------------------------------
(* Traps *)

Exceptions ==
    {"INSTR_ACCESS_EXC", "ILLEGAL_INSTR", "PRIVILEDGE_INSTR", "WINDOW_OVERFLOW",
     "WINDOW_UNDERFLOW", "MEM_ADDR_NOT_ALIGNED", "DATA_ACCESS_EXC", "TAG_OVERFLOW", "IRQ_LEV",
     "DIV_ZERO", "TRAP_INSTRUCTION"}

\* A trap type fits in the eight bits that the trap base leaves it.
LEMMA VectorTyped ==
    ASSUME NEW tbr \in Word, NEW id \in Exceptions, NEW arg \in 0..127
    PROVE  tbr - (tbr % 2^12) + (TrapType(id, arg) * 2^4) \in Word
<1>1. TrapType(id, arg) \in 0..255
    BY DEF TrapType, Exceptions
<1>2. PICK n \in Nat : n >= 4096 /\ Mod = 4096 * n
    BY Pages
<1>3. PICK t \in 0..255 : t = TrapType(id, arg)
    BY <1>1
<1>4. tbr \in Nat /\ tbr < Mod
    BY WordNumbers
<1>5. PICK q \in Int : q = tbr \div 4096
    BY <1>4
<1>a. PICK r \in 0..4095 : r = tbr % 4096
    BY <1>4
<1>b. tbr = 4096 * q + r
    BY <1>4, <1>5, <1>a
<1>6. 4096 * q + (t * 16) \in 0..(4096 * n - 1)
    BY <1>2, <1>4, <1>b
<1>7. tbr - (tbr % 4096) + (t * 16) \in 0..(Mod - 1)
    BY <1>2, <1>a, <1>b, <1>6
<1>8. 2^12 = 4096 /\ 2^4 = 16
    BY SMT
<1> QED BY <1>3, <1>7, <1>8, SMT DEF Word

LEMMA RaiseTyped ==
    ASSUME NEW c \in Core, NEW p \in Word, NEW n \in Word, NEW id \in Exceptions,
           NEW arg \in 0..127, id = "IRQ_LEV" => arg \in 0..15
    PROVE  RaiseException(c, p, n, id, arg) \in Core
<1> DEFINE trapped == [c EXCEPT !.psr.ps = c.psr.s, !.psr.s = TRUE, !.psr.et = FALSE,
                                !.psr.cwp = WindowBelow(c)]
           saved == SetReg(SetReg(trapped, 17, p), 18, n)
           vector == c.tbr - (c.tbr % 2^12) + (TrapType(id, arg) * 2^4)
           entered == Goto(saved, vector, vector + 4)
           ack == IF id = "IRQ_LEV" THEN arg ELSE c.ack
<1>1. trapped \in Core
    <2>1. c.psr.s \in BOOLEAN /\ TRUE \in BOOLEAN /\ WindowBelow(c) \in 0..(NUM_REG_WIN - 1)
        BY CoreFields, PsrFields, WindowTyped, Zenon
    <2> QED BY <2>1, PsrUpdates, Zenon
<1> HIDE DEF trapped
<1>2. saved \in Core
    <2>1. 17 \in 0..31 /\ 18 \in 0..31
        OBVIOUS
    <2> QED BY <1>1, <2>1, SetRegTyped, Zenon
<1> HIDE DEF saved
<1>3. vector \in Word /\ vector \in Int /\ vector + 4 \in Int
    <2>1. vector \in Word
        BY CoreFields, VectorTyped, Zenon
    <2> HIDE DEF vector
    <2> QED BY <2>1, WordNumbers
<1> HIDE DEF vector
<1>4. entered \in Core
    BY <1>2, <1>3, PcTyped, Zenon
<1> HIDE DEF entered
<1>5. ack \in 0..15
    BY CoreFields
<1> HIDE DEF ack
<1>6. [entered EXCEPT !.tbr = vector, !.ack = ack] \in Core
    BY <1>3, <1>4, <1>5, CoreUpdates, Zenon
<1>7. Stop(c) \in Core
    BY CoreUpdates, Zenon DEF Stop
<1>8. RaiseException(c, p, n, id, arg) =
        IF ~c.psr.et THEN IF id = "IRQ_LEV" THEN c ELSE Stop(c)
        ELSE [entered EXCEPT !.tbr = vector, !.ack = ack]
    BY Zenon DEF RaiseException, entered, saved, trapped, vector, ack
<1> QED BY <1>6, <1>7, <1>8, Zenon

LEMMA TrapTyped ==
    ASSUME NEW c \in Core, NEW b \in Core, NEW id \in Exceptions \ {"IRQ_LEV"}
    PROVE  Trap(c, b, id) \in Core
<1>1. b.pc \in Word /\ b.npc \in Word /\ id # "IRQ_LEV" /\ id \in Exceptions /\ 0 \in 0..127
    BY CoreFields, SMT
<1> QED BY <1>1, RaiseTyped, Zenon DEF Trap

----------------------------------------------------------------------------
(* The memory management unit *)

LEMMA ContentTyped ==
    ASSUME NEW mem \in Memory, NEW a
    PROVE  Content(mem, a) \in Word
BY WordNumbers DEF Content, Memory

LEMMA MmuFields ==
    ASSUME NEW m \in MmuRegisters
    PROVE  /\ m.e \in BOOLEAN /\ m.nf \in BOOLEAN /\ m.ctxptr \in Word /\ m.ctx \in Word
           /\ m.fsr \in Word /\ m.far \in Word
BY Zenon DEF MmuRegisters

\* The address spaces of instructions and of the software.
Spaces == {0, 8, 9, 10, 11, 25, 28}

Status == 0..1000

Level == [pde : Word, level : 0..3]

LEMMA WalkTyped ==
    ASSUME NEW mem \in Memory, NEW m, NEW vaddr
    PROVE  WalkTables(mem, m, vaddr) \in Level
<1> DEFINE pde_ptr == (m.ctxptr * 2^4) + (m.ctx * 4)
           root == [pde |-> Content(mem, pde_ptr % Mod), level |-> 0]
           table(w) == ((w.pde \div 4) * 2^6) + (Index(vaddr, w.level + 1) * 4)
           step(w) == IF IsPTD(w.pde) /\ w.level < 3
                      THEN [pde |-> Content(mem, table(w) % Mod), level |-> w.level + 1]
                      ELSE w
           down == [w \in [pde : Word, level : 0..3] |-> step(w)]
<1> HIDE DEF pde_ptr, table
<1>1. root \in Level
    BY ContentTyped DEF Level
<1>2. ASSUME NEW w \in Level
      PROVE  step(w) \in Level
    <2>1. Content(mem, table(w) % Mod) \in Word
        BY ContentTyped, Zenon
    <2>2. w.level \in 0..3 /\ (w.level < 3 => w.level + 1 \in 0..3)
        BY DEF Level
    <2> QED BY <2>1, <2>2 DEF Level
<1> HIDE DEF step
<1>3. \A w \in Level : down[w] = step(w)
    BY Zenon DEF Level
<1>4. WalkTables(mem, m, vaddr) = down[down[down[root]]]
    BY Zenon DEF WalkTables, pde_ptr, table, step
<1> HIDE DEF down, root
<1>5. \A w \in Level : down[w] \in Level
    BY <1>2, <1>3, Zenon
<1> QED BY <1>1, <1>4, <1>5, Zenon

LEMMA AccessTableTyped ==
    ASSUME NEW i \in 1..8, NEW j \in 1..8
    PROVE  access_table[i][j] \in {0, 2, 3}
BY SMT DEF access_table

LEMMA IndexTyped ==
    ASSUME NEW asi \in Spaces, NEW write \in BOOLEAN
    PROVE  access_index(asi, write) \in 0..7
BY SMT DEF access_index, IsInstruction, Spaces

LEMMA CheckedTyped ==
    ASSUME NEW w \in Level, NEW vaddr \in Word, NEW asi \in Spaces,
           NEW write \in BOOLEAN
    PROVE  LET g == Checked(w, vaddr, asi, write)
           IN  g.error \in Status /\ g.pde \in Word /\ g.paddr \in Word
<1>1. w.pde \in Word /\ w.pde \in Nat /\ w.level \in 0..3 /\ vaddr \in Nat
    BY WordNumbers DEF Level
<1>2. Permissions(w.pde) + 1 \in 1..8
    BY <1>1, SMT DEF Permissions
<1>3. access_index(asi, write) + 1 \in 1..8
    BY IndexTyped
<1>4. access_table[access_index(asi, write) + 1][Permissions(w.pde) + 1] \in {0, 2, 3}
    BY <1>2, <1>3, AccessTableTyped, Zenon
<1>5. /\ (w.level * 2^8) + (1 * 4) \in Status /\ (w.level * 2^8) + (4 * 4) \in Status
      /\ access_table[access_index(asi, write) + 1][Permissions(w.pde) + 1] * 4 \in Status
    BY <1>1, <1>4, SMT DEF Status
<1>6. PageSize(w.level) \in Nat \ {0}
    BY SMT DEF PageSize
<1>7. (((w.pde \div 2^8) * 2^12) + (vaddr % PageSize(w.level))) % Mod \in Word
    <2>1. vaddr % PageSize(w.level) \in Int
        BY <1>1, <1>6, DivMod
    <2>2. (w.pde \div 2^8) * 2^12 \in Int
        BY <1>1, SMT
    <2>3. ((w.pde \div 2^8) * 2^12) + (vaddr % PageSize(w.level)) \in Int
        BY <2>1, <2>2, SMT
    <2> QED BY <2>3, ModBounds, Zenon
<1> QED BY <1>1, <1>5, <1>7, Zenon DEF Checked

AccessExceptions == {"none", "INSTR_ACCESS_EXC", "DATA_ACCESS_EXC"}

\* What a translation answers.
AnswerTyped(t) ==
    /\ t.paddr \in Word /\ t.mmu \in MmuRegisters
    /\ t.exception \in AccessExceptions

LEMMA FaultTyped ==
    ASSUME NEW m \in MmuRegisters, NEW vaddr \in Word, NEW asi \in Spaces,
           NEW write \in BOOLEAN, NEW error \in Status
    PROVE  SetFault(m, vaddr, asi, write, error) \in MmuRegisters
<1> DEFINE first == IF m.fsr = 0 THEN 1 ELSE m.fsr
           fault == (access_index(asi, write) * 2^5) + error
                     + (IF IsInstruction(asi) THEN 0 ELSE 2)
<1>1. first \in Word
    BY MmuFields, WordNumbers, Zenon
<1>2. fault \in Word
    <2>1. fault \in Nat /\ fault < 2000
        BY IndexTyped, SMT DEF Status
    <2> HIDE DEF fault
    <2> QED BY <2>1, SmallWords, SMT
<1> HIDE DEF first, fault
<1>3. Or(first, fault) \in Word
    BY <1>1, <1>2, BitwiseTyped, Zenon
<1>4. \A v \in Word, a \in Word : [m EXCEPT !.fsr = v, !.far = a] \in MmuRegisters
    BY DEF MmuRegisters
<1> QED BY <1>3, <1>4, Zenon DEF SetFault, first, fault

LEMMA OutcomeTyped ==
    ASSUME NEW ok, NEW a \in Word, NEW m \in MmuRegisters, NEW e \in AccessExceptions
    PROVE  AnswerTyped(Outcome(ok, a, m, e))
BY Zenon DEF AnswerTyped, Outcome

LEMMA TranslateTyped ==
    ASSUME NEW mem \in Memory, NEW m \in MmuRegisters, NEW vaddr \in Word,
           NEW asi \in Spaces, NEW write \in BOOLEAN
    PROVE  AnswerTyped(Translate(mem, m, vaddr, asi, write))
<1>1. PICK w \in Level : w = WalkTables(mem, m, vaddr)
    BY WalkTyped, Zenon
<1>2. PICK g : g = Checked(w, vaddr, asi, write)
    OBVIOUS
<1>3. g.error \in Status /\ g.pde \in Word /\ g.paddr \in Word
    BY <1>2, CheckedTyped, Zenon
<1>4. PICK f \in MmuRegisters : f = SetFault(m, vaddr, asi, write, g.error)
    BY <1>3, FaultTyped, Zenon
<1>5. /\ 0 \in Word /\ "none" \in AccessExceptions
      /\ (IF IsInstruction(asi) THEN "INSTR_ACCESS_EXC" ELSE "DATA_ACCESS_EXC") \in AccessExceptions
    BY WordNumbers DEF AccessExceptions
<1>6. AnswerTyped(Answer(g, m, vaddr, asi, write))
    <2>1. AnswerTyped(Outcome(TRUE, g.paddr, m, "none"))
        BY <1>3, <1>5, OutcomeTyped, Zenon
    <2>2. AnswerTyped(Outcome(FALSE, 0, f, IF IsInstruction(asi) THEN "INSTR_ACCESS_EXC"
                                           ELSE "DATA_ACCESS_EXC"))
        BY <1>4, <1>5, OutcomeTyped, Zenon
    <2>3. AnswerTyped(Outcome(IsPTE(g.pde), g.paddr, f, "none"))
        BY <1>3, <1>4, <1>5, OutcomeTyped, Zenon
    <2> QED BY <1>4, <2>1, <2>2, <2>3, Zenon DEF Answer
<1>7. AnswerTyped(tlb_lookup(mem, m, vaddr, asi, write))
    BY <1>1, <1>2, <1>6, Zenon DEF tlb_lookup, get_physical_address
<1>8. AnswerTyped(Outcome(TRUE, vaddr, m, "none"))
    BY <1>5, OutcomeTyped, Zenon
<1> QED BY <1>7, <1>8, Zenon DEF Translate

LEMMA MmuRegistersTyped ==
    ASSUME NEW m \in MmuRegisters, NEW addr \in Word, NEW v \in Word
    PROVE  ReadMmu(m, addr) \in Word /\ read_mfsr(m) \in MmuRegisters
           /\ WriteMmu(m, addr, v) \in MmuRegisters
<1>1. 0 \in Word /\ 1 \in Word /\ 2 \in Word /\ 3 \in Word /\ v \in Nat
    BY SmallWords, WordNumbers
<1>2. ReadMmu(m, addr) \in Word
    <2>1. (IF m.e THEN 1 ELSE 0) + (IF m.nf THEN 2 ELSE 0) \in Word
        BY <1>1
    <2> QED BY <1>1, <2>1, MmuFields DEF ReadMmu
<1>3. read_mfsr(m) \in MmuRegisters
    BY <1>1 DEF read_mfsr, MmuRegisters
<1>4. v - (v % 4) \in Word
    BY SMT DEF Word
<1>5. WriteMmu(m, addr, v) \in MmuRegisters
    <2>1. [m EXCEPT !.e = (v % 2 = 1), !.nf = ((v \div 2) % 2 = 1)] \in MmuRegisters
        BY DEF MmuRegisters
    <2>2. [m EXCEPT !.ctxptr = v - (v % 4)] \in MmuRegisters /\ [m EXCEPT !.ctx = v] \in MmuRegisters
        BY <1>4 DEF MmuRegisters
    <2> QED BY <2>1, <2>2, Zenon DEF WriteMmu
<1> QED BY <1>2, <1>3, <1>5

----------------------------------------------------------------------------
(* Bytes *)

\* A byte, what is below it and what is above it make a word.
LEMMA ByteNumbers ==
    ASSUME NEW a \in Nat
    PROVE  /\ 2^BITS \in Nat \ {0} /\ Shift(a) \in Nat \ {0}
           /\ \E t \in Nat \ {0} : Mod = Shift(a) * (2^BITS * t)
<1>1. PICK r \in 0..3 : r = a % 4
    OBVIOUS
<1>2. PICK n \in Nat \ {0} : n = BITS /\ WIDTH = 4 * n
    BY UnitNumbers
<1>3. PICK e : e = n * (3 - r)
    OBVIOUS
<1>4. PICK f : f = n * r
    OBVIOUS
<1>5. e \in Nat /\ f \in Nat /\ e + (n + f) = 4 * n
    <2>1. CASE r = 0
        BY <2>1, <1>2, <1>3, <1>4
    <2>2. CASE r = 1
        BY <2>2, <1>2, <1>3, <1>4
    <2>3. CASE r = 2
        BY <2>3, <1>2, <1>3, <1>4
    <2>4. CASE r = 3
        BY <2>4, <1>2, <1>3, <1>4
    <2> QED BY <2>1, <2>2, <2>3, <2>4
<1>6. n + f \in Nat
    BY <1>2, <1>5
<1>7. 2^(e + (n + f)) = 2^e * 2^(n + f) /\ 2^(n + f) = 2^n * 2^f
    BY <1>2, <1>5, <1>6, PowersAdd, Zenon
<1>8. Mod = 2^e * (2^n * 2^f)
    BY <1>2, <1>5, <1>7, ModPower, Zenon
<1>9. Shift(a) = 2^e
    BY <1>1, <1>2, <1>3, Zenon DEF Shift
<1>10. 2^e \in Nat \ {0} /\ 2^n \in Nat \ {0} /\ 2^f \in Nat \ {0}
    BY <1>2, <1>5, TwoPower, Zenon
<1> QED BY <1>2, <1>8, <1>9, <1>10, Zenon

LEMMA HalfWords == 2^(2 * BITS) = 2^BITS * 2^BITS /\ Mod = 2^(2 * BITS) * 2^(2 * BITS)
<1>1. PICK n \in Nat \ {0} : n = BITS /\ WIDTH = 4 * n
    BY UnitNumbers
<1>2. n + n = 2 * n /\ 2 * n + 2 * n = 4 * n /\ 2 * n \in Nat
    BY <1>1
<1>3. 2^(n + n) = 2^n * 2^n /\ 2^(2 * n + 2 * n) = 2^(2 * n) * 2^(2 * n)
    BY <1>1, <1>2, PowersAdd, Zenon
<1> QED BY <1>1, <1>2, <1>3, ModPower, Zenon

LEMMA PairBounds ==
    ASSUME NEW d \in Nat \ {0}, NEW x \in 0..(d - 1), NEW y \in 0..(d - 1)
    PROVE  (x * d) + y \in 0..(d * d - 1)
<1>1. d * x + d =< d * d /\ d * x \in Nat /\ d * d \in Nat /\ x * d = d * x
    BY Monotone
<1> DEFINE dx == d * x
           dd == d * d
<1>2. dx + d =< dd /\ dx \in Nat /\ dd \in Nat /\ x * d = dx
    BY <1>1
<1> HIDE DEF dx, dd
<1>3. (x * d) + y \in 0..(dd - 1)
    BY <1>2
<1> QED BY <1>3 DEF dd

\* A byte v in the place of another.
LEMMA ByteReplaced ==
    ASSUME NEW S \in Nat \ {0}, NEW B \in Nat \ {0}, NEW T \in Nat \ {0},
           NEW w \in Nat, w < S * (B * T), NEW v \in 0..(B - 1)
    PROVE  w + ((v - ((w \div S) % B)) * S) \in 0..(S * (B * T) - 1)
<1> DEFINE h == w \div S
           l == w % S
           g == h \div B
           b == h % B
           BT == B * T
<1>1. BT \in Nat \ {0} /\ w < S * BT
    OBVIOUS
<1>2. h \in Int /\ l \in 0..(S - 1) /\ w = S * h + l
    BY DivMod
<1>3. h \in Nat /\ h < BT
    <2> HIDE DEF BT
    <2>1. h \in 0..w
        BY DivBounds, Zenon
    <2>2. h < BT
        BY <1>1, DivBounds, Zenon
    <2> QED BY <2>1, <2>2
<1>4. g \in Nat /\ g < T
    <2> HIDE DEF h
    <2>1. g \in 0..h
        BY <1>3, DivBounds, Zenon
    <2>2. h < B * T
        BY <1>3
    <2>3. g < T
        BY <1>3, <2>2, DivBounds, Zenon
    <2> QED BY <2>1, <2>3, <1>3
<1>5. b \in 0..(B - 1) /\ h = B * g + b
    <2> HIDE DEF h
    <2> QED BY <1>3, DivMod
<1> HIDE DEF h, l, g, b
<1>6. PICK k : k = B * g + v
    OBVIOUS
<1>7. k \in Nat /\ k < BT
    <2>1. B * g + B =< B * T /\ B * g \in Nat
        BY <1>4, Monotone
    <2> DEFINE bg == B * g
    <2>2. bg + B =< BT /\ bg \in Nat /\ k = bg + v /\ BT \in Nat
        BY <2>1, <1>6
    <2> HIDE DEF bg, BT
    <2> QED BY <2>2
<1>8. (v - b) * S = S * k - S * h /\ S * k \in Nat /\ S * h \in Nat
    <2>1. v - b = k - h
        <3>1. B * g \in Nat
            BY <1>4
        <3> QED BY <3>1, <1>5, <1>6
    <2>2. (k - h) * S = S * k - S * h
        BY <1>3, <1>7
    <2> QED BY <2>1, <2>2, <1>3, <1>7
<1>9. S * k + S =< S * BT
    <2> HIDE DEF BT
    <2> QED BY <1>1, <1>7, Monotone
<1> DEFINE sk == S * k
           sh == S * h
           n == S * BT
           u == (v - b) * S
<1>10. sk \in Nat /\ sh \in Nat /\ n \in Nat /\ sk + S =< n /\ u = sk - sh /\ w = sh + l
    BY <1>1, <1>2, <1>8, <1>9
<1> HIDE DEF sk, sh, n, u
<1>11. w + u \in 0..(n - 1)
    BY <1>2, <1>10
<1> QED BY <1>11 DEF n, u, b, h

LEMMA LoadsTyped ==
    ASSUME NEW mem \in Memory, NEW a \in Nat
    PROVE  Load1(mem, a) \in Word /\ Load2(mem, a) \in Word /\ Load4(mem, a) \in Word
<1>1. PICK B : B = 2^BITS
    OBVIOUS
<1>2. PICK H : H = 2^(2 * BITS)
    OBVIOUS
<1>3. B \in Nat \ {0} /\ H = B * B /\ Mod = H * H
    BY <1>1, <1>2, HalfWords, ByteNumbers, Zenon
<1>4. H \in Nat \ {0} /\ B =< H /\ H =< Mod
    <2>1. \A x \in Nat \ {0} : x * x \in Nat \ {0} /\ x =< x * x
        <3>1. TAKE x \in Nat \ {0}
        <3>2. PICK z \in Nat : x = z + 1
            BY x - 1 \in Nat
        <3>3. x * x = z * x + x /\ z * x \in Nat
            BY <3>2
        <3> DEFINE xx == x * x
                   zx == z * x
        <3>4. xx = zx + x /\ zx \in Nat
            BY <3>3
        <3> HIDE DEF xx, zx
        <3>5. xx \in Nat \ {0} /\ x =< xx
            BY <3>4
        <3> QED BY <3>5 DEF xx
    <2> QED BY <2>1, <1>3
<1>5. ASSUME NEW k \in Nat
      PROVE  Load1(mem, k) \in 0..(B - 1)
    <2>1. PICK s : s = Shift(k)
        OBVIOUS
    <2>2. s \in Nat \ {0}
        BY <2>1, ByteNumbers, Zenon
    <2>3. PICK w : w = Content(mem, k - (k % 4))
        OBVIOUS
    <2>4. w \in Int
        BY <2>3, ContentTyped, WordNumbers
    <2>5. w \div s \in Int
        BY <2>2, <2>4, DivMod
    <2>6. (w \div s) % B \in 0..(B - 1)
        BY <2>5, <1>3, DivMod, Zenon
    <2> QED BY <1>1, <2>1, <2>3, <2>6, Zenon DEF Load1
<1>6. ASSUME NEW k \in Nat
      PROVE  Load2(mem, k) \in 0..(H - 1)
    <2>1. k + 1 \in Nat
        OBVIOUS
    <2>2. (Load1(mem, k) * B) + Load1(mem, k + 1) \in 0..(B * B - 1)
        BY <1>3, <1>5, <2>1, PairBounds, Zenon
    <2> QED BY <1>1, <1>3, <2>2, Zenon DEF Load2
<1>7. Load4(mem, a) \in Word
    <2>1. a + 2 \in Nat
        OBVIOUS
    <2>2. (Load2(mem, a) * H) + Load2(mem, a + 2) \in 0..(H * H - 1)
        BY <1>4, <1>6, <2>1, PairBounds, Zenon
    <2>3. (Load2(mem, a) * H) + Load2(mem, a + 2) \in Word
        BY <1>3, <2>2, Zenon DEF Word
    <2> QED BY <1>2, <2>3, ContentTyped, Zenon DEF Load4
<1>8. 0..(B - 1) \subseteq Word /\ 0..(H - 1) \subseteq Word
    BY <1>3, <1>4, SMT DEF Word
<1> QED BY <1>5, <1>6, <1>7, <1>8, Zenon

LEMMA StoresTyped ==
    ASSUME NEW mem \in Memory, NEW a \in Nat, NEW v \in Nat
    PROVE  Store1(mem, a, v) \in Memory /\ Store2(mem, a, v) \in Memory
<1>1. ASSUME NEW m \in Memory, NEW k \in Nat, NEW x \in Nat
      PROVE  Store1(m, k, x) \in Memory
    <2>1. PICK B : B = 2^BITS
        OBVIOUS
    <2>2. PICK s : s = Shift(k)
        OBVIOUS
    <2>3. PICK t \in Nat \ {0} : Mod = s * (B * t)
        BY <2>1, <2>2, ByteNumbers, Zenon
    <2>4. B \in Nat \ {0} /\ s \in Nat \ {0}
        BY <2>1, <2>2, ByteNumbers, Zenon
    <2>5. x % B \in 0..(B - 1)
        BY <2>4
    <2>6. ASSUME NEW w \in Word
          PROVE  w + (((x % B) - ((w \div s) % B)) * s) \in Word
        <3>1. w \in Nat /\ w < s * (B * t)
            BY <2>3, WordNumbers, Zenon
        <3>2. w + (((x % B) - ((w \div s) % B)) * s) \in 0..(s * (B * t) - 1)
            BY <2>4, <2>5, <3>1, ByteReplaced, Zenon
        <3> QED BY <2>3, <3>2, Zenon DEF Word
    <2>7. PICK p : p = k - (k % 4)
        OBVIOUS
    <2>8. PICK n : n = m[p] + (((x % B) - ((m[p] \div s) % B)) * s)
        OBVIOUS
    <2>9. p \in DOMAIN Ram => n \in Word
        BY <2>6, <2>8, Zenon DEF Memory
    <2>10. [m EXCEPT ![p] = n] \in Memory
        BY <2>9 DEF Memory
    <2> QED BY <2>1, <2>2, <2>7, <2>8, <2>10, Zenon DEF Store1
<1>2. v \div 2^BITS \in Nat /\ a + 1 \in Nat
    <2>1. PICK B \in Nat \ {0} : B = 2^BITS
        BY ByteNumbers, Zenon
    <2>2. v \div B \in 0..v
        BY DivBounds, Zenon
    <2> QED BY <2>1, <2>2
<1> QED BY <1>1, <1>2, Zenon DEF Store2

LEMMA StoreWordTyped ==
    ASSUME NEW mem \in Memory, NEW a \in Nat, NEW v \in Word
    PROVE  Store4(mem, a, v) \in Memory
<1>1. v \in Nat
    BY WordNumbers
<1>2. v \div 2^(2 * BITS) \in Nat /\ a + 2 \in Nat
    <2>1. 2 * BITS \in Nat
        BY UnitNumbers
    <2>2. PICK H \in Nat \ {0} : H = 2^(2 * BITS)
        BY <2>1, TwoPower, Zenon
    <2>3. v \div H \in 0..v
        BY <1>1, DivBounds, Zenon
    <2> QED BY <2>2, <2>3
<1>3. Store2(Store2(mem, a, v \div 2^(2 * BITS)), a + 2, v) \in Memory
    BY <1>1, <1>2, StoresTyped, Zenon
<1>4. [mem EXCEPT ![a] = v] \in Memory
    BY DEF Memory
<1> QED BY <1>3, <1>4, Zenon DEF Store4

----------------------------------------------------------------------------
(* Accesses *)

\* What an access leaves: an address and a processor.
AccessTyped(x) == x.paddr \in Word /\ x.core \in Core

LEMMA AccessedTyped ==
    ASSUME NEW c \in Core, NEW address \in Word, NEW asi \in Spaces, NEW write \in BOOLEAN
    PROVE  AccessTyped(Accessed(c, address, asi, write))
<1>1. PICK t : t = Translate(c.mem, c.mmu, address, asi, write)
    OBVIOUS
<1>2. t.paddr \in Word /\ t.mmu \in MmuRegisters /\ t.exception \in AccessExceptions
    BY <1>1, CoreFields, TranslateTyped, Zenon DEF AnswerTyped
<1>3. PICK d \in Core : d = [c EXCEPT !.mmu = t.mmu]
    BY <1>2, CoreUpdates, Zenon
<1>4. t.exception # "none" => [id |-> t.exception, pc |-> d.pc, npc |-> d.npc] \in Raised
    BY <1>2, CoreFields, Zenon DEF Raised, Faults, AccessExceptions
<1>5. triggerException(d, t.exception) \in Core
    BY <1>4, CoreUpdates, Zenon DEF triggerException
<1> QED BY <1>1, <1>2, <1>3, <1>5, Zenon DEF Accessed, Answered, AccessTyped

LEMMA AccessesTyped ==
    ASSUME NEW c \in Core, NEW address \in Word, NEW asi \in Spaces, NEW write \in BOOLEAN
    PROVE  AccessTyped(Access(c, address, asi, write))
<1>1. AccessTyped([ok |-> TRUE, paddr |-> address, core |-> c])
    BY Zenon DEF AccessTyped
<1> QED BY <1>1, AccessedTyped, Zenon DEF Access

Sizes == {1, 2, 4, 8}

\* A double word is read as two words; it is none of the MMU registers.
ReadTyped(r, n) == r.core \in Core /\ r.values[1] \in Word /\ (n = 8 => r.values[2] \in Word)

LEMMA ReadsTyped ==
    ASSUME NEW c \in Core, NEW address \in Word, NEW asi \in Spaces, NEW n \in Sizes,
           asi = 25 => n # 8
    PROVE  ReadTyped(ReadData(c, address, asi, n), n)
<1>1. CASE asi = 25
    <2>1. ReadMmu(c.mmu, address) \in Word /\ read_mfsr(c.mmu) \in MmuRegisters
        BY CoreFields, MmuRegistersTyped, Zenon
    <2>a. [c EXCEPT !.mmu = read_mfsr(c.mmu)] \in Core
        BY <2>1, CoreUpdates, Zenon
    <2>2. PICK d \in Core : d = IF address = 768 THEN [c EXCEPT !.mmu = read_mfsr(c.mmu)] ELSE c
        BY <2>a, SMT
    <2>3. ReadData(c, address, asi, n) = [values |-> <<ReadMmu(c.mmu, address)>>, core |-> d]
        BY <1>1, <2>2 DEF ReadData
    <2>4. n # 8
        BY <1>1
    <2> HIDE DEF ReadData
    <2> QED BY <2>1, <2>3, <2>4 DEF ReadTyped
<1>2. CASE asi # 25
    <2>1. PICK x : x = Access(c, address, asi, FALSE)
        OBVIOUS
    <2>2. x.paddr \in Word /\ x.core \in Core
        BY <2>1, AccessesTyped, Zenon DEF AccessTyped
    <2>3. PICK a \in Nat : a = x.paddr /\ a + 4 \in Nat
        BY <2>2, WordNumbers
    <2>4. x.core.mem \in Memory
        BY <2>2, CoreFields
    <2>5. PICK v : v = IF x.ok THEN Values(x.core.mem, a, n) ELSE <<0, 0>>
        OBVIOUS
    <2>6. v[1] \in Word /\ (n = 8 => v[2] \in Word)
        <3>1. /\ Load1(x.core.mem, a) \in Word /\ Load2(x.core.mem, a) \in Word
              /\ Load4(x.core.mem, a) \in Word /\ Load4(x.core.mem, a + 4) \in Word
            BY <2>3, <2>4, LoadsTyped, Zenon
        <3>2. CASE x.ok
            BY <3>1, <3>2, <2>5 DEF Values, Sizes
        <3>3. CASE ~x.ok
            BY <3>3, <2>5, WordNumbers
        <3> QED BY <3>2, <3>3
    <2>7. ReadData(c, address, asi, n) = [values |-> v, core |-> x.core]
        BY <1>2, <2>1, <2>3, <2>5 DEF ReadData, Read
    <2> QED BY <2>2, <2>6, <2>7 DEF ReadTyped
<1> QED BY <1>1, <1>2

LEMMA WritesTyped ==
    ASSUME NEW c \in Core, NEW address \in Word, NEW vs, NEW asi \in Spaces, NEW n \in Sizes,
           vs[1] \in Word, n = 8 => vs[2] \in Word
    PROVE  WriteData(c, address, vs, asi, n) \in Core
<1>1. CASE asi = 25
    <2>1. WriteMmu(c.mmu, address, vs[1]) \in MmuRegisters
        BY CoreFields, MmuRegistersTyped, Zenon
    <2>2. [c EXCEPT !.mmu = WriteMmu(c.mmu, address, vs[1])] \in Core
        BY <2>1, CoreUpdates, Zenon
    <2> QED BY <1>1, <2>2, Zenon DEF WriteData
<1>2. CASE asi # 25
    <2>1. PICK x : x = Access(c, address, asi, TRUE)
        OBVIOUS
    <2>2. x.paddr \in Word /\ x.core \in Core
        BY <2>1, AccessesTyped, Zenon DEF AccessTyped
    <2>3. PICK a \in Nat : a = x.paddr /\ a + 4 \in Nat
        BY <2>2, WordNumbers
    <2>4. PICK m \in Memory : m = x.core.mem
        BY <2>2, CoreFields
    <2>5. vs[1] \in Nat
        BY WordNumbers
    <2>6. /\ Store1(m, a, vs[1]) \in Memory /\ Store2(m, a, vs[1]) \in Memory
          /\ Store4(m, a, vs[1]) \in Memory
        BY <2>3, <2>5, StoresTyped, StoreWordTyped, Zenon
    <2>7. n = 8 => Store4(Store4(m, a, vs[1]), a + 4, vs[2]) \in Memory
        BY <2>3, <2>6, StoreWordTyped, Zenon
    <2>8. Stored(m, a, n, vs) \in Memory
        BY <2>6, <2>7, SMT DEF Stored, Sizes
    <2>9. Write(x, vs, n) \in Core
        BY <2>2, <2>3, <2>4, <2>8, CoreUpdates, Zenon DEF Write
    <2> QED BY <1>2, <2>1, <2>9, Zenon DEF WriteData
<1> QED BY <1>1, <1>2

----------------------------------------------------------------------------
(* Behaviours *)

LEMMA InstructionFields ==
    ASSUME NEW i \in Instructions
    PROVE  /\ i.rd \in 0..31 /\ i.rs1 \in 0..31 /\ i.rs2 \in 0..31 /\ i.imm \in Word
           /\ i.disp \in Int /\ i.cond \in 0..15 /\ i.a \in BOOLEAN /\ i.asi \in Spaces
           /\ i.asi = 25 => i.op \in {"LD", "ST", "SWAP"}
BY Zenon DEF Instructions, Spaces

LEMMA PrivilegedTyped ==
    ASSUME NEW c \in Core, NEW d \in Core
    PROVE  Privileged(c, d) \in Core
<1>1. "PRIVILEDGE_INSTR" \in Exceptions \ {"IRQ_LEV"}
    BY DEF Exceptions
<1> QED BY <1>1, PcTyped, TrapTyped, Zenon DEF Privileged

LEMMA ArithTyped ==
    ASSUME NEW c \in Core, NEW i \in Instructions, i.op \in Arithmetic
    PROVE  Arith(c, i) \in Core
<1>1. /\ "DIV_ZERO" \in Exceptions \ {"IRQ_LEV"} /\ "TAG_OVERFLOW" \in Exceptions \ {"IRQ_LEV"}
    BY DEF Exceptions
<1>2. IncrementPC(c) \in Core
    BY PcTyped, Zenon
<1>3. /\ Trap(IncrementPC(c), c, "DIV_ZERO") \in Core
      /\ Trap(IncrementPC(c), c, "TAG_OVERFLOW") \in Core
    BY <1>1, <1>2, TrapTyped, Zenon
<1>4. ASSUME NEW s, Typed(s)
      PROVE  ArithDone(c, i, s) \in Core
    <2>1. s.result \in Word /\ s.icc \in Flags /\ s.y \in Word
        BY <1>4, Zenon DEF Typed
    <2>2. [IncrementPC(c) EXCEPT !.psr.icc = s.icc, !.y = s.y] \in Core
        BY <1>2, <2>1, PsrUpdates, Zenon
    <2> QED BY <1>3, <2>1, <2>2, InstructionFields, SetRegTyped, Zenon DEF ArithDone
<1>5. CASE ~(i.op \in Division /\ Operand2(c, i) = 0)
    <2>1. PICK p \in Word : p = Reg(c, i.rs1)
        BY InstructionFields, RegTyped, Zenon
    <2>2. PICK q \in Word : q = Operand2(c, i)
        BY AddressTyped, Zenon
    <2>3. c.psr.icc \in Flags /\ c.y \in Word
        BY CoreFields, PsrFields, Zenon
    <2>4. Typed(Compute(i.op, p, q, c.psr.icc, c.y))
        BY <1>5, <2>2, <2>3, ComputeTyped, Zenon
    <2> QED BY <1>4, <1>5, <2>1, <2>2, <2>4, Zenon DEF Arith
<1> QED BY <1>3, <1>5, Zenon DEF Arith

LEMMA WindowsTyped ==
    ASSUME NEW c \in Core, NEW i \in Instructions
    PROVE  SAVE(c, i) \in Core /\ RESTORE(c, i) \in Core
<1>1. /\ "WINDOW_OVERFLOW" \in Exceptions \ {"IRQ_LEV"}
      /\ "WINDOW_UNDERFLOW" \in Exceptions \ {"IRQ_LEV"}
    BY DEF Exceptions
<1>2. IncrementPC(c) \in Core
    BY PcTyped, Zenon
<1>3. /\ Trap(IncrementPC(c), c, "WINDOW_OVERFLOW") \in Core
      /\ Trap(IncrementPC(c), c, "WINDOW_UNDERFLOW") \in Core
    BY <1>1, <1>2, TrapTyped, Zenon
<1>4. ASSUME NEW w \in 0..(NUM_REG_WIN - 1)
      PROVE  SetReg(SetWindow(IncrementPC(c), w), i.rd, Address(c, i)) \in Core
    BY <1>2, WindowTyped, InstructionFields, AddressTyped, SetRegTyped, Zenon
<1> QED BY <1>3, <1>4, WindowTyped, Zenon DEF SAVE, RESTORE

LEMMA TransfersTyped ==
    ASSUME NEW c \in Core, NEW i \in Instructions
    PROVE  CALL(c, i) \in Core /\ JUMP(c, i) \in Core /\ BRANCH(c, i) \in Core
<1>1. /\ c.pc \in Word /\ c.npc \in Word /\ c.pc \in Int /\ c.npc \in Int
      /\ i.disp \in Int /\ Address(c, i) \in Int
    BY CoreFields, InstructionFields, AddressTyped, WordNumbers
<1>2. /\ c.pc + i.disp \in Int /\ c.pc + i.disp + 4 \in Int /\ c.npc + 4 \in Int /\ c.npc + 8 \in Int
    BY <1>1
<1>3. CALL(c, i) \in Core
    <2>1. 15 \in 0..31
        OBVIOUS
    <2> QED BY <1>1, <1>2, <2>1, PcTyped, SetRegTyped, Zenon DEF CALL
<1>4. JUMP(c, i) \in Core
    <2>1. "MEM_ADDR_NOT_ALIGNED" \in Exceptions \ {"IRQ_LEV"}
        BY DEF Exceptions
    <2> QED BY <1>1, <2>1, InstructionFields, PcTyped, SetRegTyped, TrapTyped, Zenon DEF JUMP
<1>5. BRANCH(c, i) \in Core
    BY <1>1, <1>2, PcTyped, Zenon DEF BRANCH
<1> QED BY <1>3, <1>4, <1>5

LEMMA TrapInstructionsTyped ==
    ASSUME NEW c \in Core, NEW i \in Instructions
    PROVE  TRAP(c, i) \in Core /\ RETT(c, i) \in Core
<1>1. /\ c.pc \in Word /\ c.npc \in Word /\ c.npc \in Int
      /\ Address(c, i) \in Int /\ c.npc + 4 \in Int
    BY CoreFields, AddressTyped, WordNumbers
<1>2. TRAP(c, i) \in Core
    <2>1. PICK arg \in 0..127 : arg = Address(c, i) % 2^7
        <3>1. 2^7 = 128 /\ Address(c, i) % 128 \in 0..127
            BY <1>1
        <3> QED BY <3>1
    <2>2. "TRAP_INSTRUCTION" \in Exceptions /\ "TRAP_INSTRUCTION" # "IRQ_LEV"
        BY DEF Exceptions
    <2>3. RaiseException(c, c.pc, c.npc, "TRAP_INSTRUCTION", arg) \in Core
        BY <1>1, <2>2, RaiseTyped, Zenon
    <2>4. Goto(c, c.npc, c.npc + 4) \in Core
        BY <1>1, PcTyped, Zenon
    <2> QED BY <2>1, <2>3, <2>4, Zenon DEF TRAP
<1>3. RETT(c, i) \in Core
    <2>1. IncrementPC(c) \in Core /\ Stop(IncrementPC(c)) \in Core
        BY PcTyped, CoreUpdates, Zenon DEF Stop
    <2>2. Trap(IncrementPC(c), c, IF c.psr.s THEN "ILLEGAL_INSTR" ELSE "PRIVILEDGE_INSTR") \in Core
        <3>1. (IF c.psr.s THEN "ILLEGAL_INSTR" ELSE "PRIVILEDGE_INSTR") \in Exceptions \ {"IRQ_LEV"}
            BY DEF Exceptions
        <3> QED BY <2>1, <3>1, TrapTyped, Zenon
    <2>3. Goto(c, c.npc, Address(c, i)) \in Core
        BY <1>1, PcTyped, Zenon
    <2>4. c.psr.ps \in BOOLEAN /\ TRUE \in BOOLEAN /\ WindowAbove(c) \in 0..(NUM_REG_WIN - 1)
        BY CoreFields, PsrFields, WindowTyped, Zenon
    <2>5. [Goto(c, c.npc, Address(c, i)) EXCEPT !.psr.s = c.psr.ps, !.psr.et = TRUE,
                                                !.psr.cwp = WindowAbove(c)] \in Core
        BY <2>3, <2>4, PsrUpdates, Zenon
    <2> QED BY <2>1, <2>2, <2>5, Zenon DEF RETT
<1> QED BY <1>2, <1>3

\* The processor status is a word, and the window mask as well.
LEMMA StateWords ==
    ASSUME NEW c \in Core
    PROVE  PSRValue(c.psr) \in Word /\ c.wim \in Word
<1>1. PSRValue(c.psr) \in Word
    <2>1. PICK p \in PSR : p = c.psr
        BY CoreFields, Zenon
    <2>2. PICK cwp \in 0..31, pil \in 0..15 : cwp = p.cwp /\ pil = p.pil
        <3>1. p.cwp \in 0..31
            BY PsrFields, UnitNumbers
        <3> QED BY <3>1, PsrFields
    <2>3. \A b : Flag(b) \in 0..1
        BY DEF Flag
    <2>4. PICK et \in 0..1, ps \in 0..1, s \in 0..1 :
             et = Flag(p.et) /\ ps = Flag(p.ps) /\ s = Flag(p.s)
        BY <2>3
    <2>5. PICK i \in 0..1, j \in 0..1, k \in 0..1, l \in 0..1 :
             i = Flag(p.icc.c) /\ j = Flag(p.icc.v) /\ k = Flag(p.icc.z) /\ l = Flag(p.icc.n)
        BY <2>3
    <2>6. PSRValue(p) = cwp + (2^5 * et) + (2^6 * ps) + (2^7 * s) + (2^8 * pil)
                          + (2^20 * i) + (2^21 * j) + (2^22 * k) + (2^23 * l)
        BY <2>2, <2>4, <2>5, Zenon DEF PSRValue
    <2>7. PSRValue(p) \in Nat /\ PSRValue(p) < 16777216
        BY <2>6, SMT
    <2> QED BY <2>1, <2>7, SmallWords, SMT
<1>2. c.wim \in Word
    <2>1. PICK m \in Nat, n \in Nat : m = NUM_REG_WIN /\ n = WIDTH - NUM_REG_WIN /\ m + n = WIDTH
        BY IntUnitAssumption, UnitNumbers
    <2>2. 2^(m + n) = 2^m * 2^n /\ 2^m \in Nat \ {0} /\ 2^n \in Nat \ {0}
        BY PowersAdd, TwoPower, Zenon
    <2>3. PICK a \in Nat \ {0}, b \in Nat \ {0} : a = 2^m /\ b = 2^n
        BY <2>2
    <2>4. Mod = a * b
        BY <2>1, <2>2, <2>3, ModPower, Zenon
    <2>5. a =< a * b
        <3>1. a * 1 =< a * b
            BY Monotone
        <3> QED BY <3>1
    <2>6. c.wim \in 0..(a - 1)
        BY <2>1, <2>3, CoreFields, Zenon DEF Wim
    <2> QED BY <2>4, <2>5, <2>6 DEF Word
<1> QED BY <1>1, <1>2

LEMMA ReadStateTyped ==
    ASSUME NEW c \in Core, NEW i \in Instructions
    PROVE  /\ READpsr(c, i) \in Core /\ READwim(c, i) \in Core /\ READtbr(c, i) \in Core
           /\ READy(c, i) \in Core
<1>1. IncrementPC(c) \in Core /\ c.tbr \in Word /\ c.y \in Word /\ i.rd \in 0..31
    BY PcTyped, CoreFields, InstructionFields, Zenon
<1>2. \A v \in Word : SetReg(IncrementPC(c), i.rd, v) \in Core
    BY <1>1, SetRegTyped, Zenon
<1> QED BY <1>1, <1>2, StateWords, PrivilegedTyped, Zenon DEF READpsr, READwim, READtbr, READy

LEMMA WriteStateTyped ==
    ASSUME NEW c \in Core, NEW i \in Instructions
    PROVE  /\ WRITEpsr(c, i) \in Core /\ WRITEwim(c, i) \in Core /\ WRITEtbr(c, i) \in Core
           /\ WRITEy(c, i) \in Core
<1>1. IncrementPC(c) \in Core
    BY PcTyped, Zenon
<1>2. PICK v \in Word : v = Written(c, i)
    BY AddressTyped, Zenon
<1>3. v \in Nat /\ v < Mod
    BY WordNumbers
<1>4. WRITEpsr(c, i) \in Core
    <2>1. PICK p : p = PSRFields(v)
        OBVIOUS
    <2>2. ASSUME p.cwp < NUM_REG_WIN
          PROVE  p \in PSR
        <3>1. v % 2^5 \in Nat /\ (v \div 2^8) % 2^4 \in 0..15
            BY <1>3, SMT
        <3>2. /\ p.cwp = v % 2^5 /\ p.pil = (v \div 2^8) % 2^4
              /\ p = [cwp |-> p.cwp, et |-> p.et, ps |-> p.ps, s |-> p.s, pil |-> p.pil,
                      icc |-> p.icc]
              /\ p.et \in BOOLEAN /\ p.ps \in BOOLEAN /\ p.s \in BOOLEAN /\ p.icc \in Flags
            BY <2>1 DEF PSRFields, Flags
        <3>3. p.cwp \in 0..(NUM_REG_WIN - 1)
            BY <2>2, <3>1, <3>2, UnitNumbers
        <3> QED BY <3>1, <3>2, <3>3, Zenon DEF PSR
    <2>3. "ILLEGAL_INSTR" \in Exceptions \ {"IRQ_LEV"}
        BY DEF Exceptions
    <2>4. Trap(IncrementPC(c), c, "ILLEGAL_INSTR") \in Core
        BY <1>1, <2>3, TrapTyped, Zenon
    <2>5. p.cwp < NUM_REG_WIN => [IncrementPC(c) EXCEPT !.psr = p] \in Core
        BY <1>1, <2>2, CoreUpdates, Zenon
    <2> QED BY <1>2, <2>1, <2>4, <2>5, PrivilegedTyped, Zenon DEF WRITEpsr
<1>5. WRITEwim(c, i) \in Core
    <2>1. v % 2^NUM_REG_WIN \in Wim
        <3>1. 2^NUM_REG_WIN \in Nat \ {0}
            BY UnitNumbers, TwoPower
        <3>2. PICK n \in Nat \ {0} : n = 2^NUM_REG_WIN
            BY <3>1
        <3>3. v % n \in 0..(n - 1)
            BY <1>3, DivMod
        <3> QED BY <3>2, <3>3, Zenon DEF Wim
    <2>2. [IncrementPC(c) EXCEPT !.wim = v % 2^NUM_REG_WIN] \in Core
        BY <1>1, <2>1, CoreUpdates, Zenon
    <2> QED BY <1>2, <2>2, PrivilegedTyped, Zenon DEF WRITEwim
<1>6. WRITEtbr(c, i) \in Core
    <2>1. v - (v % 4096) \in Word /\ 2^12 = 4096
        BY <1>3, SMT DEF Word
    <2>2. Or(c.tbr, v - (v % 2^12)) \in Word
        <3>1. v - (v % 2^12) \in Word
            BY <2>1, SMT
        <3> QED BY <3>1, CoreFields, BitwiseTyped, Zenon
    <2>3. [IncrementPC(c) EXCEPT !.tbr = Or(c.tbr, v - (v % 2^12))] \in Core
        BY <1>1, <2>2, CoreUpdates, Zenon
    <2> QED BY <1>2, <2>3, PrivilegedTyped, Zenon DEF WRITEtbr
<1>7. WRITEy(c, i) \in Core
    BY <1>1, <1>2, CoreUpdates, Zenon DEF WRITEy
<1> QED BY <1>4, <1>5, <1>6, <1>7

----------------------------------------------------------------------------
(* Loads, stores and exchanges *)

Loads == {"LDSB", "LDUB", "LDSH", "LDUH", "LD", "LDD"}
Stores == {"STB", "STH", "ST", "STD"}
Exchanges == {"SWAP", "LDSTUB"}

LEMMA SpaceTyped ==
    ASSUME NEW c \in Core, NEW i \in Instructions, i.op \in Loads \cup Stores \cup Exchanges
    PROVE  /\ Asi(c, i) \in Spaces /\ Size(i.op) \in Sizes
           /\ Asi(c, i) = 25 => Size(i.op) = 4
           /\ Size(i.op) = 8 <=> i.op \in {"LDD", "STD"}
<1>1. /\ i.asi \in Spaces /\ (i.asi = 25 => i.op \in {"LD", "ST", "SWAP"})
    BY InstructionFields, Zenon
<1>2. DataAsi(c) \in Spaces /\ DataAsi(c) # 25
    BY SMT DEF DataAsi, Spaces
<1>3. /\ Size(i.op) \in Sizes /\ (i.op \in {"LD", "ST", "SWAP"} => Size(i.op) = 4)
      /\ Size(i.op) = 8 <=> i.op \in {"LDD", "STD"}
    BY SMT DEF Size, Sizes, Loads, Stores, Exchanges
<1> QED BY <1>1, <1>2, <1>3, Zenon DEF Asi

LEMMA EvenTyped ==
    ASSUME NEW r \in 0..31
    PROVE  Even(r) \in 0..31 /\ Even(r) + 1 \in 0..31
BY SMT DEF Even

LEMMA RefusedTyped ==
    ASSUME NEW d \in Core, NEW c \in Core, NEW i \in Instructions
    PROVE  Refused(d, c, i) \in Core
<1>1. (IF Allowed(c, i) THEN "MEM_ADDR_NOT_ALIGNED" ELSE "PRIVILEDGE_INSTR")
          \in Exceptions \ {"IRQ_LEV"}
    BY DEF Exceptions
<1> QED BY <1>1, TrapTyped, Zenon DEF Refused

\* What an instruction has read.
Fetched(c, i, r) ==
    /\ r.core \in Core
    /\ i.op \in Reads /\ Allowed(c, i) /\ Aligned(c, i) => ReadTyped(r, Size(i.op))

LEMMA DataReadTyped ==
    ASSUME NEW c \in Core, NEW i \in Instructions
    PROVE  Fetched(c, i, DataRead(c, i))
<1>1. CASE i.op \in Reads /\ ReadFirst(c, i)
    <2>1. i.op \in Loads \cup Stores \cup Exchanges
        BY <1>1, Zenon DEF Reads, Loads, Exchanges
    <2>2. Asi(c, i) \in Spaces /\ Size(i.op) \in Sizes /\ (Asi(c, i) = 25 => Size(i.op) = 4)
        BY <2>1, SpaceTyped, Zenon
    <2>3. Asi(c, i) = 25 => Size(i.op) # 8
        BY <2>2, SMT
    <2>4. ReadTyped(ReadData(c, Address(c, i), Asi(c, i), Size(i.op)), Size(i.op))
        BY <2>2, <2>3, AddressTyped, ReadsTyped, Zenon
    <2> QED BY <1>1, <2>4, Zenon DEF Fetched, DataRead, ReadTyped
<1>2. CASE ~(i.op \in Reads /\ ReadFirst(c, i))
    <2>1. ~(i.op \in Reads /\ Allowed(c, i) /\ Aligned(c, i))
        BY <1>2, Zenon DEF ReadFirst
    <2> QED BY <1>2, <2>1, Zenon DEF Fetched, DataRead
<1> QED BY <1>1, <1>2

LEMMA LoadTyped ==
    ASSUME NEW c \in Core, NEW i \in Instructions, NEW r, Fetched(c, i, r), i.op \in Loads
    PROVE  Load(c, i, r) \in Core
<1>1. CASE ~(Allowed(c, i) /\ Aligned(c, i))
    BY <1>1, RefusedTyped, Zenon DEF Load, Fetched
<1>2. CASE Allowed(c, i) /\ Aligned(c, i)
    <2>1. i.op \in Reads
        BY Zenon DEF Loads, Reads
    <2>2. PICK d \in Core : d = r.core
        BY Zenon DEF Fetched
    <2>3. PICK v : v = r.values
        OBVIOUS
    <2>4. ReadTyped(r, Size(i.op))
        BY <1>2, <2>1, Zenon DEF Fetched
    <2>5. v[1] \in Word
        BY <2>3, <2>4, Zenon DEF ReadTyped
    <2>6. i.op = "LDD" => v[2] \in Word
        <3>1. i.op = "LDD" => Size(i.op) = 8
            BY SpaceTyped, Zenon
        <3> QED BY <2>3, <2>4, <3>1, Zenon DEF ReadTyped
    <2>7. i.rd \in 0..31 /\ Even(i.rd) \in 0..31 /\ Even(i.rd) + 1 \in 0..31
        BY InstructionFields, EvenTyped, Zenon
    <2>8. i.op = "LDD" =>
            SetReg(SetReg(d, Even(i.rd), v[1]), Even(i.rd) + 1, v[2]) \in Core
        BY <2>5, <2>6, <2>7, SetRegTyped, Zenon
    <2>9. i.op \in {"LDSB", "LDSH"} =>
            SetReg(d, i.rd, SignExtend(v[1], BITS * Size(i.op))) \in Core
        <3>1. ASSUME i.op \in {"LDSB", "LDSH"}
              PROVE  SignExtend(v[1], BITS * Size(i.op)) \in Word
            <4>1. PICK n \in Nat : n = BITS * Size(i.op)
                <5>1. Size(i.op) \in {1, 2}
                    BY <3>1 DEF Size
                <5> QED BY <5>1, UnitNumbers
            <4>2. v[1] - 2^n \in Int
                BY <2>5, WordNumbers, TwoPower
            <4> QED BY <2>5, <4>1, <4>2, ModBounds, Zenon DEF SignExtend
        <3> QED BY <2>7, <3>1, SetRegTyped, Zenon
    <2>10. SetReg(d, i.rd, v[1]) \in Core
        BY <2>5, <2>7, SetRegTyped, Zenon
    <2>11. SetLoaded(d, i, v) \in Core
        BY <2>8, <2>9, <2>10 DEF SetLoaded
    <2>12. IncrementPC(SetLoaded(d, i, v)) \in Core
        BY <2>11, PcTyped, Zenon
    <2> QED BY <1>2, <2>2, <2>3, <2>12, Zenon DEF Load
<1> QED BY <1>1, <1>2

LEMMA StoreDataTyped ==
    ASSUME NEW c \in Core, NEW i \in Instructions, i.op \in Stores
    PROVE  WriteData(c, Address(c, i), StoreValues(c, i), Asi(c, i), Size(i.op)) \in Core
<1>1. i.rd \in 0..31 /\ Even(i.rd) \in 0..31 /\ Even(i.rd) + 1 \in 0..31
    BY InstructionFields, EvenTyped, Zenon
<1>2. PICK vs : vs = StoreValues(c, i)
    OBVIOUS
<1>3. vs[1] \in Word /\ (Size(i.op) = 8 => vs[2] \in Word)
    <2>1. /\ Reg(c, i.rd) \in Word /\ Reg(c, Even(i.rd)) \in Word
          /\ Reg(c, Even(i.rd) + 1) \in Word
        BY <1>1, RegTyped, Zenon
    <2>2. Size(i.op) = 8 => i.op = "STD"
        BY SMT DEF Size, Stores
    <2>3. \A b : Flag(b) \in Word
        BY WordNumbers, Zenon DEF Flag
    <2>4. CASE i.op # "STD"
        <3>1. vs = <<Reg(c, i.rd)>>
            BY <1>2, <2>4, Zenon DEF StoreValues
        <3> HIDE DEF Reg
        <3> QED BY <2>1, <2>2, <2>4, <3>1
    <2>5. CASE i.op = "STD" /\ ~Alternate(i)
        <3>1. vs = <<Reg(c, Even(i.rd)), Reg(c, Even(i.rd) + 1)>>
            BY <1>2, <2>5, Zenon DEF StoreValues
        <3> QED BY <2>1, <3>1
    <2>6. CASE i.op = "STD" /\ Alternate(i)
        <3>1. PICK f \in Word :
                vs = <<f, 0>>
            BY <1>2, <2>3, <2>6, Zenon DEF StoreValues
        <3> QED BY <3>1, WordNumbers
    <2> QED BY <2>4, <2>5, <2>6
<1>4. Asi(c, i) \in Spaces /\ Size(i.op) \in Sizes
    BY SpaceTyped, Zenon
<1> QED BY <1>2, <1>3, <1>4, AddressTyped, WritesTyped, Zenon

LEMMA StoreTyped ==
    ASSUME NEW c \in Core, NEW i \in Instructions, i.op \in Stores
    PROVE  Store(c, i) \in Core
<1>1. ASSUME NEW d \in Core
      PROVE  StoreDone(c, i, d) \in Core
    BY PcTyped, RefusedTyped, Zenon DEF StoreDone
<1> QED BY <1>1, StoreDataTyped, Zenon DEF Store

LEMMA ExchangeTyped ==
    ASSUME NEW c \in Core, NEW i \in Instructions, NEW r, Fetched(c, i, r), i.op \in Exchanges
    PROVE  Exchange(c, i, r) \in Core
<1>1. CASE ~(Allowed(c, i) /\ Aligned(c, i))
    BY <1>1, RefusedTyped, Zenon DEF Exchange
<1>2. CASE Allowed(c, i) /\ Aligned(c, i)
    <2>1. i.op \in Reads
        BY Zenon DEF Exchanges, Reads
    <2>2. r.core \in Core /\ r.values[1] \in Word
        BY <1>2, <2>1, Zenon DEF Fetched, ReadTyped
    <2>3. PICK v : v = IF i.op = "SWAP" THEN Reg(c, i.rd) ELSE 2^BITS - 1
        OBVIOUS
    <2>4. v \in Word
        <3>1. 2^BITS - 1 \in Word
            <4>1. PICK b \in Nat \ {0}, s \in Nat \ {0}, t \in Nat \ {0} :
                     b = 2^BITS /\ s = Shift(0) /\ Mod = s * (b * t)
                BY ByteNumbers
            <4>2. b =< b * t /\ b * t =< s * (b * t)
                <5>1. b * 1 =< b * t
                    BY Monotone
                <5>2. PICK e \in Nat \ {0} : e = b * t
                    BY <5>1
                <5>3. e * 1 =< e * s
                    BY Monotone
                <5>4. e * 1 = e /\ e * s = s * e
                    BY <5>2
                <5> QED BY <5>1, <5>2, <5>3, <5>4
            <4> QED BY <4>1, <4>2 DEF Word
        <3>2. Reg(c, i.rd) \in Word
            BY InstructionFields, RegTyped, Zenon
        <3> QED BY <2>3, <3>1, <3>2, Zenon
    <2>5. Asi(c, i) \in Spaces /\ Size(i.op) \in Sizes /\ Size(i.op) # 8
        <3>1. Size(i.op) # 8
            BY SMT DEF Size, Exchanges
        <3> QED BY <3>1, SpaceTyped, Zenon
    <2>a. PICK vs : vs = <<v>>
        OBVIOUS
    <2>6. vs[1] \in Word
        BY <2>4, <2>a
    <2>7. WriteData(r.core, Address(c, i), vs, Asi(c, i), Size(i.op)) \in Core
        BY <2>2, <2>5, <2>6, AddressTyped, WritesTyped, Zenon
    <2>8. IncrementPC(SetReg(WriteData(r.core, Address(c, i), vs, Asi(c, i), Size(i.op)),
                             i.rd, r.values[1])) \in Core
        BY <2>2, <2>7, InstructionFields, SetRegTyped, PcTyped, Zenon
    <2> QED BY <1>2, <2>3, <2>a, <2>8, Zenon DEF Exchange
<1> QED BY <1>1, <1>2

----------------------------------------------------------------------------
(* The main loop *)

\* Every instruction has a behavior.
LEMMA Dispatched ==
    ASSUME NEW i \in Instructions
    PROVE  i.op \in Arithmetic \cup Loads \cup Stores \cup Exchanges \cup
               {"SAVE", "RESTORE", "CALL", "JUMP", "BRANCH", "TRAP", "RETT", "READpsr", "WRITEpsr",
                "READwim", "WRITEwim", "READtbr", "WRITEtbr", "READy", "WRITEy", "FLUSH", "STBAR",
                "UNIMP"}
BY Zenon DEF Instructions, Reads, Loads, Stores, Exchanges

LEMMA BehaviorTyped ==
    ASSUME NEW c \in Core, NEW i \in Instructions, NEW r, Fetched(c, i, r)
    PROVE  behavior(c, i, r) \in Core
<1>1. i.op \in Arithmetic => Arith(c, i) \in Core
    BY ArithTyped, Zenon
<1>2. i.op \in Loads => Load(c, i, r) \in Core
    BY LoadTyped, Zenon
<1>3. i.op \in Stores => Store(c, i) \in Core
    BY StoreTyped, Zenon
<1>4. i.op \in Exchanges => Exchange(c, i, r) \in Core
    BY ExchangeTyped, Zenon
<1>5. IncrementPC(c) \in Core /\ Trap(IncrementPC(c), c, "ILLEGAL_INSTR") \in Core
    <2>1. "ILLEGAL_INSTR" \in Exceptions \ {"IRQ_LEV"}
        BY DEF Exceptions
    <2> QED BY <2>1, PcTyped, TrapTyped, Zenon
<1>6. /\ SAVE(c, i) \in Core /\ RESTORE(c, i) \in Core /\ CALL(c, i) \in Core
      /\ JUMP(c, i) \in Core /\ BRANCH(c, i) \in Core /\ TRAP(c, i) \in Core /\ RETT(c, i) \in Core
      /\ READpsr(c, i) \in Core /\ READwim(c, i) \in Core /\ READtbr(c, i) \in Core
      /\ READy(c, i) \in Core /\ WRITEpsr(c, i) \in Core /\ WRITEwim(c, i) \in Core
      /\ WRITEtbr(c, i) \in Core /\ WRITEy(c, i) \in Core
    BY WindowsTyped, TransfersTyped, TrapInstructionsTyped, ReadStateTyped, WriteStateTyped, Zenon
<1>7. PICK op : op = i.op
    OBVIOUS
<1> QED BY <1>1, <1>2, <1>3, <1>4, <1>5, <1>6, Dispatched, SMTT(60)
        DEF behavior, Loads, Stores, Exchanges

LEMMA FetchTyped ==
    ASSUME NEW c \in Core
    PROVE  Fetch(c).instr \in Instructions /\ Fetch(c).core \in Core
<1>1. PICK x : x = Accessed(c, c.pc, IF c.psr.s THEN 9 ELSE 8, FALSE)
    OBVIOUS
<1>2. x.core \in Core
    <2>1. (IF c.psr.s THEN 9 ELSE 8) \in Spaces /\ FALSE \in BOOLEAN
        BY DEF Spaces
    <2> QED BY <1>1, <2>1, CoreFields, AccessedTyped, Zenon DEF AccessTyped
<1>3. UNIMP \in Instructions
    BY WordNumbers DEF UNIMP, Instructions
<1> QED BY <1>1, <1>2, <1>3, ProgramAssumption, Zenon DEF Fetch

LEMMA ResetTyped == resetOp \in Core
<1>1. NoFlags \in Flags
    BY DEF NoFlags, Flags
<1>2. [cwp |-> 0, et |-> FALSE, ps |-> FALSE, s |-> TRUE, pil |-> 0, icc |-> NoFlags] \in PSR
    BY <1>1, UnitNumbers DEF PSR
<1>3. 0 \in Word /\ ENTRY_POINT \in Word /\ (ENTRY_POINT + 4) % Mod \in Word
    <2>1. ENTRY_POINT \in Word /\ ENTRY_POINT + 4 \in Int
        BY UnitNumbers, WordNumbers
    <2> QED BY <2>1, WordNumbers, ModBounds
<1>4. 0 \in Wim
    BY UnitNumbers, TwoPower DEF Wim
<1>5. [k \in Registers |-> 0] \in [Registers -> Word]
    BY <1>3
<1>6. ResetMmu \in MmuRegisters
    BY <1>3 DEF ResetMmu, MmuRegisters
<1>7. Ram \in Memory /\ NoException \in Raised /\ 0 \in 0..15
    BY UnitNumbers DEF Memory, Raised
<1> QED BY <1>2, <1>3, <1>4, <1>5, <1>6, <1>7, Zenon
        DEF resetOp, Core, Registers, Memory, Raised, Faults, Wim

LEMMA InitTyped == Init => TypeOK
BY ResetTyped, IntUnitAssumption DEF Init, TypeOK

LEMMA StepTyped == TypeOK /\ [Next]_vars => TypeOK'
<1> SUFFICES ASSUME TypeOK, [Next]_vars PROVE TypeOK'
    OBVIOUS
<1>0. leon \in Core /\ irq \in IrqLevels \cup {NoIrq} /\ requests \in 0..MaxIrq
    BY DEF TypeOK
<1>1. CASE TakeIrq
    <2>1. irq \in 0..15 /\ irq \in 0..127 /\ "IRQ_LEV" \in Exceptions
        BY <1>0, <1>1, IntUnitAssumption DEF TakeIrq, IrqEnabled, Exceptions
    <2>2. leon' \in Core
        BY <1>0, <1>1, <2>1, CoreFields, RaiseTyped, Zenon DEF TakeIrq
    <2> QED BY <1>0, <1>1, <2>2, Zenon DEF TakeIrq, TypeOK
<1>2. CASE RaiseDeferred
    <2>1. PICK c : /\ c = Fetch(leon).core /\ c.raised # NoException
                   /\ leon' = RaiseException([c EXCEPT !.raised = NoException],
                                             c.raised.pc, c.raised.npc, c.raised.id, 0)
        BY <1>2, Zenon DEF RaiseDeferred
    <2>2. c \in Core
        BY <1>0, <2>1, FetchTyped
    <2>3. c.raised \in Faults
        BY <2>1, <2>2, CoreFields, Zenon DEF Raised
    <2>4. /\ c.raised.pc \in Word /\ c.raised.npc \in Word /\ c.raised.id \in Exceptions
          /\ c.raised.id # "IRQ_LEV" /\ 0 \in 0..127
        BY <2>3 DEF Faults, Exceptions
    <2>5. [c EXCEPT !.raised = NoException] \in Core
        BY <2>2, CoreUpdates, Zenon DEF Raised
    <2>6. leon' \in Core
        BY <2>1, <2>4, <2>5, RaiseTyped, Zenon
    <2> QED BY <1>0, <1>2, <2>6, Zenon DEF RaiseDeferred, TypeOK
<1>3. CASE Execute
    <2>1. PICK f, r : /\ f = Fetch(leon) /\ r = DataRead(f.core, f.instr)
                      /\ leon' = behavior(f.core, f.instr, r)
        BY <1>3, Zenon DEF Execute
    <2>2. f.core \in Core /\ f.instr \in Instructions
        BY <1>0, <2>1, FetchTyped
    <2>3. leon' \in Core
        BY <2>1, <2>2, DataReadTyped, BehaviorTyped, Zenon
    <2> QED BY <1>0, <1>3, <2>3, Zenon DEF Execute, TypeOK
<1>4. CASE Request
    BY <1>0, <1>4, IntUnitAssumption DEF Request, TypeOK
<1>5. CASE Lower
    <2>1. leon' \in Core
        <3>1. 0 \in 0..15
            OBVIOUS
        <3> QED BY <1>0, <1>5, <3>1, CoreUpdates, Zenon DEF Lower
    <2> QED BY <1>0, <1>5, <2>1, Zenon DEF Lower, TypeOK
<1>6. CASE UNCHANGED vars
    BY <1>0, <1>6, Zenon DEF vars, TypeOK
<1> QED BY <1>1, <1>2, <1>3, <1>4, <1>5, <1>6 DEF Next

\* TypeOK: no register, window number or memory word ever leaves its range, whatever
\* software runs.
THEOREM TypeCorrect == Spec => []TypeOK
<1> QED BY InitTyped, StepTyped, PTL DEF Spec

----------------------------------------------------------------------------
(* What an instruction leaves alone *)

\* A record whose fields may be replaced; which values they have does not matter here.
Shape(d) == d = [k \in DOMAIN d |-> d[k]] /\ {"psr", "wim", "tbr", "error"} \subseteq DOMAIN d
Frame(c, d) ==
    Shape(d) /\ d.psr = c.psr /\ d.wim = c.wim /\ d.tbr = c.tbr /\ d.error = c.error

LEMMA CoreShape ==
    ASSUME NEW c \in Core
    PROVE  Shape(c) /\ Frame(c, c)
BY DEF Shape, Frame, Core

LEMMA Frames ==
    ASSUME NEW d, Shape(d)
    PROVE  /\ Frame(d, d) /\ Frame(d, IncrementPC(d))
           /\ \A p, n : Frame(d, Goto(d, p, n))
           /\ \A r, v : Frame(d, SetReg(d, r, v))
           /\ \A m : Frame(d, [d EXCEPT !.mmu = m]) /\ Frame(d, [d EXCEPT !.mem = m])
           /\ \A x : Frame(d, [d EXCEPT !.raised = x]) /\ Frame(d, [d EXCEPT !.y = x])
                     /\ Frame(d, [d EXCEPT !.ack = x])
<1>1. \A k, v : Frame(d, [d EXCEPT !.regs[k] = v])
    BY DEF Frame, Shape
<1>2. Frame(d, d) /\ \A r, v : Frame(d, SetReg(d, r, v))
    BY <1>1, Zenon DEF SetReg, Frame
<1>3. Frame(d, IncrementPC(d)) /\ \A p, n : Frame(d, Goto(d, p, n))
    BY DEF Frame, Shape, IncrementPC, Goto
<1>4. \A m : Frame(d, [d EXCEPT !.mmu = m]) /\ Frame(d, [d EXCEPT !.mem = m])
    BY DEF Frame, Shape
<1>5. \A x : Frame(d, [d EXCEPT !.raised = x]) /\ Frame(d, [d EXCEPT !.y = x])
             /\ Frame(d, [d EXCEPT !.ack = x])
    BY DEF Frame, Shape
<1> QED BY <1>2, <1>3, <1>4, <1>5, Zenon

LEMMA FrameTrans ==
    ASSUME NEW c, NEW d, NEW e, Frame(c, d), Frame(d, e)
    PROVE  Frame(c, e)
BY Zenon DEF Frame

\* What UserConfined says of a step.
Quiet(c, d) == Shape(d) /\ Kept(c, d) /\ d.error = c.error
Confined(c, d) ==
    /\ ~c.psr.s => Kept(c, d) \/ Entered(c, d)
    /\ d.error => c.error \/ ~c.psr.et

LEMMA QuietConfined ==
    ASSUME NEW c, NEW d
    PROVE  (Frame(c, d) => Quiet(c, d)) /\ (Quiet(c, d) => Confined(c, d))
BY Zenon DEF Frame, Quiet, Kept, Confined

LEMMA ConfinedTrans ==
    ASSUME NEW c, NEW d, NEW e, Frame(c, d)
    PROVE  /\ Quiet(d, e) => Quiet(c, e)
           /\ Confined(d, e) => Confined(c, e)
<1>1. WindowBelow(c) = WindowBelow(d)
    BY Zenon DEF WindowBelow, Frame
<1> QED BY <1>1, Zenon DEF Frame, Quiet, Kept, Confined, Entered

LEMMA QuietUpdates ==
    ASSUME NEW c \in Core
    PROVE  /\ \A k, v : Quiet(c, [c EXCEPT !.psr.icc = k, !.y = v])
           /\ \A w : Quiet(c, SetWindow(c, w))
<1>1. \A k, v : Shape([c EXCEPT !.psr.icc = k, !.y = v])
    <2>1. \A k, v : [c EXCEPT !.psr.icc = k, !.y = v]
                     = [[c EXCEPT !.psr = [c.psr EXCEPT !.icc = k]] EXCEPT !.y = v]
        BY DEF Core
    <2>2. ASSUME NEW d, Shape(d), NEW x
          PROVE  Shape([d EXCEPT !.psr = x]) /\ Shape([d EXCEPT !.y = x])
        BY <2>2 DEF Shape
    <2> QED BY <2>1, <2>2, CoreShape, Zenon
<1>2. \A w : Shape(SetWindow(c, w))
    BY CoreShape DEF Shape, SetWindow
<1>3. \A k, v : LET d == [c EXCEPT !.psr.icc = k, !.y = v] IN Kept(c, d) /\ d.error = c.error
    BY DEF Kept, Core, PSR
<1>4. \A w : Kept(c, SetWindow(c, w)) /\ SetWindow(c, w).error = c.error
    BY DEF Kept, SetWindow, Core, PSR
<1> QED BY <1>1, <1>2, <1>3, <1>4, Zenon DEF Quiet

LEMMA QuietThenFrame ==
    ASSUME NEW c, NEW d, NEW e, Quiet(c, d), Frame(d, e)
    PROVE  Quiet(c, e)
BY Zenon DEF Frame, Quiet, Kept

LEMMA Within ==
    ASSUME NEW d \in Nat \ {0}, NEW x \in 0..(d - 1)
    PROVE  x % d = x
<1>1. PICK y : y = d * 0 + x
    OBVIOUS
<1>2. y % d = x
    <2>1. (d * 0 + x) % d = x
        BY DivUnique
    <2> QED BY <1>1, <2>1, Zenon
<1>3. y = x
    BY <1>1
<1> QED BY <1>2, <1>3

Vector(tbr, id, arg) == tbr - (tbr % 2^12) + (TrapType(id, arg) * 2^4)
SamePage(v, w) == v - (v % 2^12) = w - (w % 2^12)

\* The trap base stays, and the vector is a word.
LEMMA VectorBase ==
    ASSUME NEW tbr \in Word, NEW id \in Exceptions, NEW arg \in 0..127
    PROVE  /\ Vector(tbr, id, arg) \in Word /\ Vector(tbr, id, arg) % Mod = Vector(tbr, id, arg)
           /\ SamePage(Vector(tbr, id, arg), tbr)
<1>0. PICK v \in Word : v = Vector(tbr, id, arg)
    BY VectorTyped, Zenon DEF Vector
<1>1. TrapType(id, arg) \in 0..255
    BY DEF TrapType, Exceptions
<1>2. PICK t \in 0..255 : t = TrapType(id, arg)
    BY <1>1
<1>3. tbr \in Nat /\ v \in Nat /\ v < Mod
    BY WordNumbers
<1>4. PICK q \in Int, r \in 0..4095 : q = tbr \div 4096 /\ r = tbr % 4096
    BY <1>3
<1>5. tbr = 4096 * q + r
    BY <1>3, <1>4
<1>6. 2^12 = 4096 /\ 2^4 = 16
    BY SMT
<1>a. v = tbr - (tbr % 4096) + (t * 16)
    BY <1>0, <1>2, <1>6, SMT DEF Vector
<1>7. v = 4096 * q + 16 * t
    BY <1>3, <1>4, <1>5, <1>a, SMT
<1>8. v % 4096 = 16 * t
    BY <1>7, SMT
<1>9. v - (v % 4096) = tbr - (tbr % 4096)
    BY <1>4, <1>5, <1>7, <1>8, SMT
<1>10. SamePage(v, tbr)
    BY <1>6, <1>9, SMT DEF SamePage
<1>11. v % Mod = v
    BY <1>3, Within
<1> QED BY <1>0, <1>10, <1>11

LEMMA RaiseConfined ==
    ASSUME NEW c \in Core, NEW p \in Word, NEW n \in Word, NEW id \in Exceptions,
           NEW arg \in 0..127, id = "IRQ_LEV" => arg \in 0..15
    PROVE  Confined(c, RaiseException(c, p, n, id, arg))
<1> DEFINE trapped == [c EXCEPT !.psr.ps = c.psr.s, !.psr.s = TRUE, !.psr.et = FALSE,
                                !.psr.cwp = WindowBelow(c)]
           saved == SetReg(SetReg(trapped, 17, p), 18, n)
           vector == Vector(c.tbr, id, arg)
           entered == Goto(saved, vector, vector + 4)
           ack == IF id = "IRQ_LEV" THEN arg ELSE c.ack
           e == [entered EXCEPT !.tbr = vector, !.ack = ack]
<1>1. trapped \in Core
    <2>1. c.psr.s \in BOOLEAN /\ TRUE \in BOOLEAN /\ WindowBelow(c) \in 0..(NUM_REG_WIN - 1)
        BY CoreFields, PsrFields, WindowTyped, Zenon
    <2> QED BY <2>1, PsrUpdates, Zenon
<1>2. /\ ~trapped.psr.et /\ trapped.psr.s /\ trapped.psr.ps = c.psr.s
      /\ trapped.psr.pil = c.psr.pil /\ trapped.psr.cwp = WindowBelow(c)
      /\ trapped.wim = c.wim /\ trapped.error = c.error
    <2> HIDE DEF WindowBelow
    <2> QED BY DEF Core, PSR
<1> HIDE DEF trapped
<1>3. saved \in Core /\ Frame(trapped, saved)
    <2>1. 17 \in 0..31 /\ 18 \in 0..31
        OBVIOUS
    <2>2. SetReg(trapped, 17, p) \in Core /\ saved \in Core
        BY <1>1, <2>1, SetRegTyped, Zenon
    <2> QED BY <1>1, <2>2, Frames, CoreShape, FrameTrans, Zenon
<1> HIDE DEF saved
<1>4. vector \in Word /\ vector % Mod = vector /\ SamePage(vector, c.tbr)
    BY CoreFields, VectorBase, Zenon
<1> HIDE DEF vector
<1>5. entered \in Core /\ Frame(trapped, entered)
    <2>1. vector \in Int /\ vector + 4 \in Int
        BY <1>4, WordNumbers
    <2> QED BY <1>3, <2>1, PcTyped, Frames, CoreShape, FrameTrans, Zenon
<1>6. entered.pc = vector /\ entered.npc = (vector + 4) % Mod
    BY <1>3, <1>4 DEF Goto, Core
<1> HIDE DEF entered, ack
<1>7. /\ e.psr = entered.psr /\ e.wim = entered.wim /\ e.error = entered.error
      /\ e.pc = entered.pc /\ e.npc = entered.npc /\ e.tbr = vector
    BY <1>5 DEF Core
<1> HIDE DEF e
<1>8. c.psr.et => Confined(c, e)
    BY <1>2, <1>4, <1>5, <1>6, <1>7, Zenon DEF Confined, Entered, Frame, SamePage
<1>9. ~c.psr.et => Confined(c, Stop(c)) /\ Confined(c, c)
    <2>1. Kept(c, Stop(c))
        BY DEF Kept, Stop, Core
    <2> QED BY <2>1, Zenon DEF Confined, Kept
<1>10. RaiseException(c, p, n, id, arg) =
        IF ~c.psr.et THEN IF id = "IRQ_LEV" THEN c ELSE Stop(c) ELSE e
    BY Zenon DEF RaiseException, e, entered, saved, trapped, vector, Vector, ack
<1> QED BY <1>8, <1>9, <1>10, Zenon

LEMMA TrapConfined ==
    ASSUME NEW c \in Core, NEW d \in Core, Frame(c, d), NEW b \in Core,
           NEW id \in Exceptions \ {"IRQ_LEV"}
    PROVE  Confined(c, Trap(d, b, id))
<1>1. b.pc \in Word /\ b.npc \in Word /\ id # "IRQ_LEV" /\ id \in Exceptions /\ 0 \in 0..127
    BY CoreFields, SMT
<1>2. Confined(d, Trap(d, b, id))
    BY <1>1, RaiseConfined, Zenon DEF Trap
<1> QED BY <1>2, ConfinedTrans, Zenon

----------------------------------------------------------------------------
(* Accesses *)

LEMMA AccessFrame ==
    ASSUME NEW c \in Core, NEW address \in Word, NEW asi \in Spaces, NEW write \in BOOLEAN
    PROVE  Frame(c, Access(c, address, asi, write).core)
<1>1. PICK t : t = Translate(c.mem, c.mmu, address, asi, write)
    OBVIOUS
<1>2. t.mmu \in MmuRegisters
    BY <1>1, CoreFields, TranslateTyped, Zenon DEF AnswerTyped
<1>3. PICK d \in Core : d = [c EXCEPT !.mmu = t.mmu]
    BY <1>2, CoreUpdates, Zenon
<1>4. Frame(c, d) /\ Frame(d, triggerException(d, t.exception))
    BY <1>3, Frames, CoreShape, Zenon DEF triggerException
<1>5. Accessed(c, address, asi, write).core = triggerException(d, t.exception)
    BY <1>1, <1>3, Zenon DEF Accessed, Answered
<1>6. Frame(c, Accessed(c, address, asi, write).core)
    BY <1>4, <1>5, FrameTrans, Zenon
<1>7. Frame(c, [ok |-> TRUE, paddr |-> address, core |-> c].core)
    BY Frames, CoreShape, Zenon
<1> QED BY <1>6, <1>7, Zenon DEF Access

LEMMA AccessedFrame ==
    ASSUME NEW c \in Core, NEW address \in Word, NEW asi \in Spaces, NEW write \in BOOLEAN,
           asi # 28
    PROVE  Frame(c, Accessed(c, address, asi, write).core)
BY AccessFrame, Zenon DEF Access

LEMMA ReadFrame ==
    ASSUME NEW c \in Core, NEW address \in Word, NEW asi \in Spaces, NEW n
    PROVE  Frame(c, ReadData(c, address, asi, n).core)
<1>1. CASE asi = 25
    <2>1. PICK d : d = [c EXCEPT !.mmu = read_mfsr(c.mmu)]
        OBVIOUS
    <2>2. Frame(c, c) /\ Frame(c, d)
        BY <2>1, Frames, CoreShape, Zenon
    <2>3. PICK e : e = IF address = 768 THEN d ELSE c
        OBVIOUS
    <2>4. e = c \/ e = d
        BY <2>3
    <2>5. ReadData(c, address, asi, n) = [values |-> <<ReadMmu(c.mmu, address)>>, core |-> e]
        BY <1>1, <2>1, <2>3 DEF ReadData
    <2>6. ReadData(c, address, asi, n).core = e
        BY <2>5
    <2> QED BY <2>2, <2>4, <2>6, Zenon
<1>2. CASE asi # 25
    <2>1. ReadData(c, address, asi, n).core = Access(c, address, asi, FALSE).core
        BY <1>2 DEF ReadData, Read
    <2> QED BY <2>1, AccessFrame, Zenon
<1> QED BY <1>1, <1>2

LEMMA WriteFrame ==
    ASSUME NEW c \in Core, NEW address \in Word, NEW vs, NEW asi \in Spaces, NEW n
    PROVE  Frame(c, WriteData(c, address, vs, asi, n))
<1>1. asi = 25 => Frame(c, WriteData(c, address, vs, asi, n))
    BY Frames, CoreShape, Zenon DEF WriteData
<1>2. PICK x : x = Access(c, address, asi, TRUE)
    OBVIOUS
<1>3. x.core \in Core /\ Frame(c, x.core)
    BY <1>2, AccessFrame, AccessesTyped, Zenon DEF AccessTyped
<1>4. Frame(c, Write(x, vs, n))
    BY <1>3, Frames, CoreShape, FrameTrans, Zenon DEF Write
<1> QED BY <1>1, <1>2, <1>4, Zenon DEF WriteData

----------------------------------------------------------------------------
(* Every instruction is confined *)

LEMMA FrameConfined ==
    ASSUME NEW c, NEW d, Frame(c, d)
    PROVE  Confined(c, d) /\ Quiet(c, d)
BY QuietConfined, Zenon

\* What a behavior does when it moves on, and when it traps.
LEMMA OnwardConfined ==
    ASSUME NEW c \in Core
    PROVE  /\ IncrementPC(c) \in Core /\ Frame(c, IncrementPC(c))
           /\ \A id \in Exceptions \ {"IRQ_LEV"} :
                 Confined(c, Trap(IncrementPC(c), c, id)) /\ Confined(c, Trap(c, c, id))
<1>1. IncrementPC(c) \in Core /\ Frame(c, IncrementPC(c))
    BY PcTyped, CoreShape, Frames, Zenon
<1> QED BY <1>1, CoreShape, TrapConfined, Zenon

\* Registers and counters behind what a frame has left.
LEMMA FrameOnward ==
    ASSUME NEW c, NEW d, Frame(c, d)
    PROVE  Frame(c, IncrementPC(d)) /\ \A r, v : Frame(c, SetReg(d, r, v))
<1>1. Frame(d, IncrementPC(d)) /\ \A r, v : Frame(d, SetReg(d, r, v))
    BY Frames, Zenon DEF Frame
<1> QED BY <1>1, FrameTrans, Zenon

LEMMA ExceptionNames ==
    {"TAG_OVERFLOW", "DIV_ZERO", "WINDOW_OVERFLOW", "WINDOW_UNDERFLOW", "MEM_ADDR_NOT_ALIGNED",
     "ILLEGAL_INSTR", "PRIVILEDGE_INSTR"} \subseteq Exceptions \ {"IRQ_LEV"}
BY DEF Exceptions

LEMMA ArithConfined ==
    ASSUME NEW c \in Core, NEW i
    PROVE  Confined(c, Arith(c, i))
<1>1. /\ Confined(c, Trap(IncrementPC(c), c, "DIV_ZERO"))
      /\ Confined(c, Trap(IncrementPC(c), c, "TAG_OVERFLOW"))
    BY ExceptionNames, OnwardConfined
<1>2. ASSUME NEW s
      PROVE  Confined(c, ArithDone(c, i, s))
    <2>1. PICK d : d = [IncrementPC(c) EXCEPT !.psr.icc = s.icc, !.y = s.y]
        OBVIOUS
    <2>2. Quiet(IncrementPC(c), d)
        BY <2>1, OnwardConfined, QuietUpdates, Zenon
    <2>3. Quiet(c, d)
        BY <2>2, OnwardConfined, ConfinedTrans, Zenon
    <2>4. Frame(d, SetReg(d, i.rd, s.result))
        BY <2>3, Frames, Zenon DEF Quiet
    <2>5. Confined(c, SetReg(d, i.rd, s.result))
        BY <2>3, <2>4, QuietThenFrame, QuietConfined, Zenon
    <2> QED BY <1>1, <2>1, <2>5, Zenon DEF ArithDone
<1> QED BY <1>1, <1>2, Zenon DEF Arith

LEMMA WindowsConfined ==
    ASSUME NEW c \in Core, NEW i
    PROVE  Confined(c, SAVE(c, i)) /\ Confined(c, RESTORE(c, i))
<1>1. /\ Confined(c, Trap(IncrementPC(c), c, "WINDOW_OVERFLOW"))
      /\ Confined(c, Trap(IncrementPC(c), c, "WINDOW_UNDERFLOW"))
    BY ExceptionNames, OnwardConfined
<1>2. ASSUME NEW w, NEW v
      PROVE  Confined(c, SetReg(SetWindow(IncrementPC(c), w), i.rd, v))
    <2>1. PICK d : d = SetWindow(IncrementPC(c), w)
        OBVIOUS
    <2>2. Quiet(c, d)
        BY <2>1, OnwardConfined, QuietUpdates, ConfinedTrans, Zenon
    <2>3. Frame(d, SetReg(d, i.rd, v))
        BY <2>2, Frames, Zenon DEF Quiet
    <2> QED BY <2>1, <2>2, <2>3, QuietThenFrame, QuietConfined, Zenon
<1> QED BY <1>1, <1>2, Zenon DEF SAVE, RESTORE

LEMMA TransfersConfined ==
    ASSUME NEW c \in Core, NEW i
    PROVE  Confined(c, CALL(c, i)) /\ Confined(c, JUMP(c, i)) /\ Confined(c, BRANCH(c, i))
<1>1. \A p, n : Frame(c, Goto(c, p, n))
    BY CoreShape, Frames, Zenon
<1>2. \A p, n, r, v : Frame(c, SetReg(Goto(c, p, n), r, v))
    <2>1. ASSUME NEW d, Frame(c, d), NEW r, NEW v
          PROVE  Frame(c, SetReg(d, r, v))
        BY <2>1, FrameOnward, Zenon
    <2> QED BY <1>1, <2>1, Zenon
<1>3. Confined(c, Trap(c, c, "MEM_ADDR_NOT_ALIGNED"))
    BY ExceptionNames, OnwardConfined
<1>4. Confined(c, CALL(c, i))
    BY <1>2, FrameConfined, Zenon DEF CALL
<1>5. Confined(c, JUMP(c, i))
    BY <1>2, <1>3, FrameConfined, Zenon DEF JUMP
<1>6. Confined(c, BRANCH(c, i))
    BY <1>1, FrameConfined, Zenon DEF BRANCH
<1> QED BY <1>4, <1>5, <1>6

LEMMA TrapInstructionsConfined ==
    ASSUME NEW c \in Core, NEW i \in Instructions
    PROVE  Confined(c, TRAP(c, i)) /\ Confined(c, RETT(c, i))
<1>1. Confined(c, TRAP(c, i))
    <2>1. c.pc \in Word /\ c.npc \in Word /\ Address(c, i) \in Int
        BY CoreFields, AddressTyped, WordNumbers
    <2>2. PICK arg \in 0..127 : arg = Address(c, i) % 2^7
        <3>1. 2^7 = 128 /\ Address(c, i) % 128 \in 0..127
            BY <2>1
        <3> QED BY <3>1
    <2>3. "TRAP_INSTRUCTION" \in Exceptions /\ "TRAP_INSTRUCTION" # "IRQ_LEV"
        BY DEF Exceptions
    <2>4. Confined(c, RaiseException(c, c.pc, c.npc, "TRAP_INSTRUCTION", arg))
        BY <2>1, <2>3, RaiseConfined, Zenon
    <2>5. Confined(c, Goto(c, c.npc, c.npc + 4))
        <3>1. \A p, n : Frame(c, Goto(c, p, n))
            BY CoreShape, Frames, Zenon
        <3> QED BY <3>1, FrameConfined, Zenon
    <2> QED BY <2>2, <2>4, <2>5, Zenon DEF TRAP
<1>2. Confined(c, RETT(c, i))
    <2>1. CASE c.psr.et
        <3>1. (IF c.psr.s THEN "ILLEGAL_INSTR" ELSE "PRIVILEDGE_INSTR") \in Exceptions \ {"IRQ_LEV"}
            BY ExceptionNames
        <3> QED BY <2>1, <3>1, OnwardConfined, Zenon DEF RETT
    <2>2. CASE ~c.psr.et /\ ~c.psr.s
        <3>1. PICK d \in Core : d = IncrementPC(c)
            BY OnwardConfined
        <3>2. Kept(d, Stop(d))
            BY DEF Kept, Stop, Core
        <3>3. Kept(c, Stop(d))
            BY <3>1, <3>2, OnwardConfined, Zenon DEF Kept, Frame
        <3>4. RETT(c, i) = Stop(d)
            BY <2>2, <3>1, Zenon DEF RETT
        <3> QED BY <2>2, <3>3, <3>4, Zenon DEF Confined
    <2>3. CASE ~c.psr.et /\ c.psr.s
        BY <2>3, Zenon DEF Confined
    <2> QED BY <2>1, <2>2, <2>3
<1> QED BY <1>1, <1>2

\* A privileged instruction changes what is the supervisor's in supervisor mode, and the
\* processor goes on.
LEMMA PrivilegedConfined ==
    ASSUME NEW c \in Core, NEW d, c.psr.s => d.error = c.error
    PROVE  Confined(c, Privileged(c, d))
<1>1. Confined(c, Trap(IncrementPC(c), c, "PRIVILEDGE_INSTR"))
    BY ExceptionNames, OnwardConfined
<1>2. c.psr.s => Confined(c, d)
    BY Zenon DEF Confined
<1> QED BY <1>1, <1>2, Zenon DEF Privileged

LEMMA StateConfined ==
    ASSUME NEW c \in Core, NEW i
    PROVE  /\ Confined(c, READpsr(c, i)) /\ Confined(c, READwim(c, i)) /\ Confined(c, READtbr(c, i))
           /\ Confined(c, READy(c, i)) /\ Confined(c, WRITEwim(c, i))
           /\ Confined(c, WRITEtbr(c, i)) /\ Confined(c, WRITEy(c, i))
<1>1. PICK d \in Core : d = IncrementPC(c) /\ Frame(c, d)
    BY OnwardConfined
<1>2. \A v : Frame(c, SetReg(d, i.rd, v))
    <2>1. \A v : Frame(d, SetReg(d, i.rd, v))
        BY CoreShape, Frames, Zenon
    <2> QED BY <1>1, <2>1, FrameTrans, Zenon
<1>3. \A v : SetReg(d, i.rd, v).error = c.error
    BY <1>2, Zenon DEF Frame
<1>4. d.error = c.error
    BY <1>1, Zenon DEF Frame
<1>5. \A v : [d EXCEPT !.wim = v].error = c.error /\ [d EXCEPT !.tbr = v].error = c.error
    BY <1>4 DEF Core
<1>6. \A v : Frame(c, [d EXCEPT !.y = v])
    BY <1>1, CoreShape, Frames, FrameTrans, Zenon
<1>7. Confined(c, READpsr(c, i)) /\ Confined(c, READwim(c, i)) /\ Confined(c, READtbr(c, i))
    BY <1>1, <1>3, PrivilegedConfined, Zenon DEF READpsr, READwim, READtbr
<1>8. Confined(c, READy(c, i)) /\ Confined(c, WRITEy(c, i))
    BY <1>1, <1>2, <1>6, FrameConfined, Zenon DEF READy, WRITEy
<1>9. Confined(c, WRITEwim(c, i)) /\ Confined(c, WRITEtbr(c, i))
    BY <1>1, <1>5, PrivilegedConfined, Zenon DEF WRITEwim, WRITEtbr
<1> QED BY <1>7, <1>8, <1>9

LEMMA WRITEpsrConfined ==
    ASSUME NEW c \in Core, NEW i
    PROVE  Confined(c, WRITEpsr(c, i))
<1>1. PICK d \in Core : d = IncrementPC(c) /\ Frame(c, d)
    BY OnwardConfined
<1>2. \A p : [d EXCEPT !.psr = p].error = c.error
    BY <1>1 DEF Core, Frame
<1>3. PICK p : p = PSRFields(Written(c, i))
    OBVIOUS
<1>4. CASE p.cwp < NUM_REG_WIN
    BY <1>1, <1>2, <1>3, <1>4, PrivilegedConfined, Zenon DEF WRITEpsr
<1>5. CASE ~(p.cwp < NUM_REG_WIN)
    <2>1. /\ Confined(c, Trap(d, c, "ILLEGAL_INSTR"))
          /\ Confined(c, Trap(d, c, "PRIVILEDGE_INSTR"))
        BY <1>1, ExceptionNames, OnwardConfined
    <2> QED BY <1>1, <1>3, <1>5, <2>1, Zenon DEF WRITEpsr, Privileged
<1> QED BY <1>4, <1>5

\* What an instruction has read left the processor as it was but for faults.
LEMMA DataReadFrame ==
    ASSUME NEW c \in Core, NEW i \in Instructions
    PROVE  Frame(c, DataRead(c, i).core)
<1>1. CASE i.op \in Reads /\ ReadFirst(c, i)
    <2>1. i.op \in Loads \cup Stores \cup Exchanges
        BY <1>1, Zenon DEF Reads, Loads, Exchanges
    <2>2. Asi(c, i) \in Spaces
        BY <2>1, SpaceTyped, Zenon
    <2> QED BY <1>1, <2>2, AddressTyped, ReadFrame, Zenon DEF DataRead
<1>2. CASE ~(i.op \in Reads /\ ReadFirst(c, i))
    BY <1>2, CoreShape, Zenon DEF DataRead
<1> QED BY <1>1, <1>2

LEMMA RefusedConfined ==
    ASSUME NEW c \in Core, NEW d \in Core, Frame(c, d), NEW i
    PROVE  Confined(c, Refused(d, c, i))
<1>1. (IF Allowed(c, i) THEN "MEM_ADDR_NOT_ALIGNED" ELSE "PRIVILEDGE_INSTR")
          \in Exceptions \ {"IRQ_LEV"}
    BY ExceptionNames
<1> QED BY <1>1, TrapConfined, Zenon DEF Refused

LEMMA LoadConfined ==
    ASSUME NEW c \in Core, NEW i, NEW r, r.core \in Core, Frame(c, r.core)
    PROVE  Confined(c, Load(c, i, r))
<1>1. Frame(c, SetLoaded(r.core, i, r.values))
    BY FrameOnward DEF SetLoaded
<1> QED BY <1>1, FrameOnward, FrameConfined, RefusedConfined, Zenon DEF Load

LEMMA StoreConfined ==
    ASSUME NEW c \in Core, NEW i \in Instructions, i.op \in Stores
    PROVE  Confined(c, Store(c, i))
<1>1. PICK d : d = IF StoreFirst(c, i)
                   THEN WriteData(c, Address(c, i), StoreValues(c, i), Asi(c, i), Size(i.op))
                   ELSE c
    OBVIOUS
<1>2. d \in Core
    BY <1>1, StoreDataTyped, Zenon
<1>3. Frame(c, d)
    BY <1>1, SpaceTyped, AddressTyped, WriteFrame, CoreShape, Zenon
<1> QED BY <1>1, <1>2, <1>3, FrameOnward, FrameConfined, RefusedConfined, Zenon
        DEF Store, StoreDone

LEMMA ExchangeConfined ==
    ASSUME NEW c \in Core, NEW i \in Instructions, i.op \in Exchanges, NEW r,
           r.core \in Core, Frame(c, r.core)
    PROVE  Confined(c, Exchange(c, i, r))
<1>1. ASSUME NEW v
      PROVE  Frame(c, IncrementPC(SetReg(WriteData(r.core, Address(c, i), <<v>>, Asi(c, i),
                                                   Size(i.op)), i.rd, r.values[1])))
    <2>1. PICK d : d = WriteData(r.core, Address(c, i), <<v>>, Asi(c, i), Size(i.op))
        OBVIOUS
    <2>2. Frame(r.core, d)
        BY <2>1, SpaceTyped, AddressTyped, WriteFrame, Zenon
    <2>3. Frame(c, d)
        BY <2>2, FrameTrans, Zenon
    <2> QED BY <2>1, <2>3, FrameOnward, Zenon
<1>2. Confined(c, Refused(c, c, i))
    BY CoreShape, RefusedConfined, Zenon
<1> QED BY <1>1, <1>2, FrameConfined, Zenon DEF Exchange

LEMMA BehaviorConfined ==
    ASSUME NEW c \in Core, NEW i \in Instructions, NEW r, r.core \in Core, Frame(c, r.core)
    PROVE  Confined(c, behavior(c, i, r))
<1>1. i.op \in Arithmetic => Confined(c, Arith(c, i))
    BY ArithConfined, Zenon
<1>2. i.op \in Loads => Confined(c, Load(c, i, r))
    BY LoadConfined, Zenon
<1>3. i.op \in Stores => Confined(c, Store(c, i))
    BY StoreConfined, Zenon
<1>4. i.op \in Exchanges => Confined(c, Exchange(c, i, r))
    BY ExchangeConfined, Zenon
<1>5. Confined(c, IncrementPC(c)) /\ Confined(c, Trap(IncrementPC(c), c, "ILLEGAL_INSTR"))
    <2>1. "ILLEGAL_INSTR" \in Exceptions \ {"IRQ_LEV"}
        BY DEF Exceptions
    <2> QED BY <2>1, OnwardConfined, FrameConfined, Zenon
<1>6. /\ Confined(c, SAVE(c, i)) /\ Confined(c, RESTORE(c, i)) /\ Confined(c, CALL(c, i))
      /\ Confined(c, JUMP(c, i)) /\ Confined(c, BRANCH(c, i)) /\ Confined(c, TRAP(c, i))
      /\ Confined(c, RETT(c, i)) /\ Confined(c, READpsr(c, i)) /\ Confined(c, READwim(c, i))
      /\ Confined(c, READtbr(c, i)) /\ Confined(c, READy(c, i)) /\ Confined(c, WRITEpsr(c, i))
      /\ Confined(c, WRITEwim(c, i)) /\ Confined(c, WRITEtbr(c, i)) /\ Confined(c, WRITEy(c, i))
    BY WindowsConfined, TransfersConfined, TrapInstructionsConfined, StateConfined,
       WRITEpsrConfined, Zenon
<1> QED BY <1>1, <1>2, <1>3, <1>4, <1>5, <1>6, Dispatched, SMTT(60)
        DEF behavior, Loads, Stores, Exchanges

LEMMA FetchFrame ==
    ASSUME NEW c \in Core
    PROVE  Frame(c, Fetch(c).core)
<1>1. PICK asi \in Spaces : asi = (IF c.psr.s THEN 9 ELSE 8) /\ asi # 28
    BY DEF Spaces
<1>2. Frame(c, Accessed(c, c.pc, asi, FALSE).core)
    BY <1>1, CoreFields, AccessedFrame, Zenon
<1> QED BY <1>1, <1>2, Zenon DEF Fetch

LEMMA StepConfined == TypeOK /\ [Next]_vars => Confined(leon, leon')
<1> SUFFICES ASSUME TypeOK, [Next]_vars PROVE Confined(leon, leon')
    OBVIOUS
<1>0. leon \in Core /\ irq \in IrqLevels \cup {NoIrq}
    BY DEF TypeOK
<1>a. Frame(leon, leon) /\ Shape(leon)
    BY <1>0, CoreShape, Zenon
<1>1. CASE TakeIrq
    <2>1. irq \in 0..15 /\ irq \in 0..127 /\ "IRQ_LEV" \in Exceptions
        BY <1>0, <1>1, IntUnitAssumption DEF TakeIrq, IrqEnabled, Exceptions
    <2> QED BY <1>0, <1>1, <2>1, CoreFields, RaiseConfined, Zenon DEF TakeIrq
<1>2. CASE RaiseDeferred
    <2>1. PICK c : /\ c = Fetch(leon).core /\ c.raised # NoException
                   /\ leon' = RaiseException([c EXCEPT !.raised = NoException],
                                             c.raised.pc, c.raised.npc, c.raised.id, 0)
        BY <1>2, Zenon DEF RaiseDeferred
    <2>2. c \in Core /\ Frame(leon, c)
        BY <1>0, <2>1, FetchTyped, FetchFrame, Zenon
    <2>3. c.raised \in Faults
        BY <2>1, <2>2, CoreFields, Zenon DEF Raised
    <2>4. /\ c.raised.pc \in Word /\ c.raised.npc \in Word /\ c.raised.id \in Exceptions
          /\ c.raised.id # "IRQ_LEV" /\ 0 \in 0..127
        BY <2>3 DEF Faults, Exceptions
    <2>5. PICK d \in Core : d = [c EXCEPT !.raised = NoException]
        BY <2>2, CoreUpdates, Zenon DEF Raised
    <2>6. Frame(leon, d)
        <3>1. Shape(c)
            BY <2>2, CoreShape, Zenon
        <3>2. Frame(c, d)
            BY <2>5, <3>1, Frames, Zenon
        <3> QED BY <2>2, <3>2, FrameTrans, Zenon
    <2>7. Confined(d, leon')
        BY <2>1, <2>4, <2>5, RaiseConfined, Zenon
    <2> QED BY <2>6, <2>7, ConfinedTrans, Zenon
<1>3. CASE Execute
    <2>1. PICK f, r : /\ f = Fetch(leon) /\ r = DataRead(f.core, f.instr)
                      /\ leon' = behavior(f.core, f.instr, r)
        BY <1>3, Zenon DEF Execute
    <2>2. f.core \in Core /\ f.instr \in Instructions /\ Frame(leon, f.core)
        BY <1>0, <2>1, FetchTyped, FetchFrame, Zenon
    <2>3. r.core \in Core /\ Frame(f.core, r.core)
        BY <2>1, <2>2, DataReadTyped, DataReadFrame, Zenon DEF Fetched
    <2>4. Confined(f.core, leon')
        BY <2>1, <2>2, <2>3, BehaviorConfined, Zenon
    <2> QED BY <2>2, <2>4, ConfinedTrans, Zenon
<1>4. CASE Request
    BY <1>4, <1>a, FrameConfined, Zenon DEF Request
<1>5. CASE Lower
    BY <1>5, <1>a, Frames, FrameConfined, Zenon DEF Lower
<1>6. CASE UNCHANGED vars
    BY <1>6, <1>a, FrameConfined, Zenon DEF vars
<1> QED BY <1>1, <1>2, <1>3, <1>4, <1>5, <1>6 DEF Next

\* UserConfined: whatever software runs in user mode, it leaves the mode, the interrupt
\* level, the window mask and the trap table alone but for a trap, and the processor
\* stops only where traps are disabled.
THEOREM Protects == Spec => UserConfined
<1>1. TypeOK /\ [Next]_vars =>
        [/\ ~leon.psr.s => Kept(leon, leon') \/ Entered(leon, leon')
         /\ leon'.error => leon.error \/ ~leon.psr.et]_vars
    BY StepConfined, Zenon DEF Confined
<1> QED BY <1>1, TypeCorrect, PTL DEF Spec, UserConfined
=============================================================================
