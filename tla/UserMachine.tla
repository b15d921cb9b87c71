---------------------------- MODULE UserMachine ----------------------------
(***************************************************************************)
(* What the programmer of a user program sees of a LEON3: no window is     *)
(* ever lost, no page is ever absent, no interrupt ever comes, and a       *)
(* system call is one instruction.  It has as many windows as there are    *)
(* calls; a register or a word of memory exists once it has been written,  *)
(* and the locals and outs of a window that SAVE enters do not exist yet.  *)
(*                                                                         *)
(* A state is a record [pc, npc, icc, y, depth, regs, mem].                *)
(***************************************************************************)
EXTENDS Alu, TLC

CONSTANTS
    UserProgram,    \* virtual address -> instruction
    UserData,       \* virtual address -> the word that is there when it begins
    USER_ENTRY      \* where it begins

Start == [pc |-> USER_ENTRY, npc |-> USER_ENTRY + 4, icc |-> NoFlags, y |-> 0,
          depth |-> 0, regs |-> (0 :> 0), mem |-> UserData]

\* The outs of a window are the ins of the next one: 16 new registers a window.
Slot(depth, r) ==
    IF r < 8 THEN r
    ELSE IF r < 16 THEN 8 + (16 * (depth + 1)) + (r - 8)
    ELSE IF r < 24 THEN 16 + (16 * depth) + (r - 16)
    ELSE 8 + (16 * depth) + (r - 24)

Exists(u, r) == Slot(u.depth, r) \in DOMAIN u.regs
Get(u, r) == u.regs[Slot(u.depth, r)]
Set(u, r, v) == IF r = 0 THEN u ELSE [u EXCEPT !.regs = (Slot(u.depth, r) :> v) @@ u.regs]

\* Into a window: what was there before is gone.
Enter(u, depth) ==
    LET fresh == IF depth > u.depth THEN {Slot(depth, r) : r \in 8..23} ELSE {}
    IN  [u EXCEPT !.depth = depth,
                  !.regs = [k \in DOMAIN u.regs \ fresh |-> u.regs[k]]]

Second(u, i) == (Get(u, i.rs2) + i.imm) % Mod
Sum2(u, i) == (Get(u, i.rs1) + Second(u, i)) % Mod
To(u, target) == [u EXCEPT !.pc = u.npc, !.npc = target % Mod]
Onward(u) == To(u, u.npc + 4)

Computed(u, i) ==
    LET s == Compute(i.op, Get(u, i.rs1), Second(u, i), u.icc, u.y)
    IN  Set([Onward(u) EXCEPT !.icc = s.icc, !.y = s.y], i.rd, s.result)

\* A branch that is not taken annuls its delay slot when `a` is set; so does one that
\* is always taken.
Branched(u, i) ==
    IF i.cond = 8 /\ i.a THEN [u EXCEPT !.pc = (u.pc + i.disp) % Mod,
                                        !.npc = (u.pc + i.disp + 4) % Mod]
    ELSE IF Taken(i.cond, u.icc) THEN To(u, u.pc + i.disp)
    ELSE IF i.a THEN Onward(Onward(u))
    ELSE Onward(u)

\* The one system call of the kernel: it adds one to %o0.
Called(u) == Set(Onward(u), 8, (Get(u, 8) + 1) % Mod)

\* Parts of a word: n bytes of it from an address that is a multiple of n.
Below(a, n) == 2^((WIDTH \div 4) * (4 - n - (a % 4)))
Part(u, a, n) == (u.mem[a - (a % 4)] \div Below(a, n)) % 2^((WIDTH \div 4) * n)
Put(u, a, n, v) ==
    LET new == v % 2^((WIDTH \div 4) * n)
    IN  [u EXCEPT !.mem = (a - (a % 4) :> u.mem[a - (a % 4)]
                                             + ((new - Part(u, a, n)) * Below(a, n))) @@ u.mem]

\* What the processor refuses: the kernel skips it.
Illegal(u, i) ==
    \/ i.op \in {"READpsr", "WRITEpsr", "UNIMP"} \/ i.asi # 0
    \/ i.op \in Division /\ Second(u, i) = 0
    \/ i.op \in TaggedTrap /\ Compute(i.op, Get(u, i.rs1), Second(u, i), u.icc, u.y).trap
    \/ i.op \in {"LD", "ST"} /\ Sum2(u, i) % 4 # 0
    \/ i.op \in {"LDD", "STD"} /\ Sum2(u, i) % 8 # 0

Step(u) ==
    LET i == UserProgram[u.pc]
    IN  CASE Illegal(u, i) -> Onward(u)
          [] i.op \in Arithmetic -> Computed(u, i)
          [] i.op = "SAVE" -> Set(Enter(Onward(u), u.depth + 1), i.rd, Sum2(u, i))
          [] i.op = "RESTORE" -> Set(Enter(Onward(u), u.depth - 1), i.rd, Sum2(u, i))
          [] i.op = "CALL" -> Set(To(u, u.pc + i.disp), 15, u.pc)
          [] i.op = "JUMP" -> Set(To(u, Sum2(u, i)), i.rd, u.pc)
          [] i.op = "BRANCH" -> Branched(u, i)
          [] i.op = "TRAP" -> Called(u)
          [] i.op = "READy" -> Set(Onward(u), i.rd, u.y)
          [] i.op = "WRITEy" -> [Onward(u) EXCEPT !.y = Xor(Get(u, i.rs1), Second(u, i))]
          [] i.op = "LD" -> Set(Onward(u), i.rd, u.mem[Sum2(u, i)])
          [] i.op = "LDD" -> Set(Set(Onward(u), i.rd, u.mem[Sum2(u, i)]),
                                 i.rd + 1, u.mem[Sum2(u, i) + 4])
          [] i.op = "LDSH" -> Set(Onward(u), i.rd, SignExtend(Part(u, Sum2(u, i), 2), WIDTH \div 2))
          [] i.op = "STB" -> Put(Onward(u), Sum2(u, i), 1, Get(u, i.rd))
          [] i.op = "SWAP" -> Set(Put(Onward(u), Sum2(u, i), 4, Get(u, i.rd)),
                                  i.rd, u.mem[Sum2(u, i)])
          [] i.op = "LDSTUB" -> Set(Put(Onward(u), Sum2(u, i), 1, -1),
                                    i.rd, Part(u, Sum2(u, i), 1))
          [] i.op = "ST" -> [Onward(u) EXCEPT
                               !.mem = (Sum2(u, i) :> Get(u, i.rd)) @@ u.mem]
=============================================================================
