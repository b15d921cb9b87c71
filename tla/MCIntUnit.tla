----------------------------- MODULE MCIntUnit -----------------------------
(***************************************************************************)
(* A kernel and a user program for four register windows.  The kernel is   *)
(* the usual one of a SPARC: handlers that spill and fill a window, that   *)
(* bring in the page of a fault, that serve an interrupt and a system      *)
(* call.  The program calls itself four deep, makes a system call and      *)
(* calls a function whose page is absent and whose data pages are.         *)
(*                                                                         *)
(* Pages 0 to 2 are the kernel's and physical, 3 is the program, 5 its     *)
(* stack; page p of 4, 6 and 7 comes as page p + 4 when it is touched.     *)
(***************************************************************************)
EXTENDS IntUnitRun, Sequences, TLC

\* The assembler.
Base == [op |-> "UNIMP", rd |-> 0, rs1 |-> 0, rs2 |-> 0, imm |-> 0, disp |-> 0, cond |-> 0,
         a |-> FALSE, asi |-> 0]
Imm(op, rs1, imm, rd) == [Base EXCEPT !.op = op, !.rs1 = rs1, !.imm = imm % Mod, !.rd = rd]
Rrr(op, rs1, rs2, rd) == [Base EXCEPT !.op = op, !.rs1 = rs1, !.rs2 = rs2, !.rd = rd]
Alt(op, rs1, asi, rd) == [Base EXCEPT !.op = op, !.rs1 = rs1, !.asi = asi, !.rd = rd]
Call(disp) == [Base EXCEPT !.op = "CALL", !.disp = disp]
Branch(cond, a, disp) == [Base EXCEPT !.op = "BRANCH", !.cond = cond, !.a = a, !.disp = disp]
Ta == [Base EXCEPT !.op = "TRAP", !.cond = 8]
Nop == Imm("SETHI", 0, 0, 0)
Set(value, rd) == Imm("SETHI", 0, value, rd)
Rd(op, rd) == Imm(op, 0, 0, rd)
Wr(op, rs1) == Imm(op, rs1, 0, 0)

G1 == 1     O0 == 8     O1 == 9     O2 == 10    O3 == 11    SP == 14    O7 == 15
L0 == 16    L1 == 17    L2 == 18    L3 == 19    L4 == 20    L5 == 21    L6 == 22    L7 == 23
I0 == 24    FP == 30    I7 == 31
Always == 8
Equal == 1

At(base, code) ==
    [a \in {base + (4 * (k - 1)) : k \in 1..Len(code)} |-> code[((a - base) \div 4) + 1]]

\* jmpl %l1; rett %l2: the trapped instruction once more.
Again == << Imm("JUMP", L1, 0, 0), Imm("RETT", L2, 0, 0) >>

Boot == <<
    Imm("OR", 0, 2, L0), Wr("WRITEwim", L0), Set(4096, L0), Wr("WRITEtbr", L0),
    Imm("OR", 0, 576, L0), Imm("OR", 0, 256, L1), Alt("ST", L1, 25, L0),
    Imm("OR", 0, 1, L0), Alt("ST", 0, 25, L0),
    Imm("OR", 0, 131, L0), Wr("WRITEpsr", L0),
    Set(12288, L1), Imm("ADD", L1, 4, L2) >> \o Again

Overflow == <<
    Rd("READwim", L3), Imm("OR", G1, 0, L7),
    Imm("SRL", L3, 1, L4), Imm("SLL", L3, 3, L5), Rrr("OR", L4, L5, G1),
    Imm("SAVE", 0, 0, 0), Wr("WRITEwim", G1) >>
    \o << Imm("STD", SP, 0, L0), Imm("ST", SP, 8, I0), Imm("STD", SP, 16, FP) >>
    \o << Imm("RESTORE", 0, 0, 0), Imm("OR", L7, 0, G1) >> \o Again
Underflow == <<
    Rd("READwim", L3), Imm("SLL", L3, 1, L4), Imm("SRL", L3, 3, L5), Rrr("OR", L4, L5, L4),
    Wr("WRITEwim", L4), Imm("RESTORE", 0, 0, 0), Imm("RESTORE", 0, 0, 0) >>
    \o << Imm("LDD", SP, 0, L0), Imm("LD", SP, 8, I0), Imm("LDD", SP, 16, FP) >>
    \o << Imm("SAVE", 0, 0, 0), Imm("SAVE", 0, 0, 0) >> \o Again

\* Page p is absent: its entry becomes that of page p + 4, for everyone; the fault
\* status is read to clear it.
PageFault == <<
    Imm("OR", 0, 1024, L4), Alt("LD", L4, 25, L4), Imm("SRL", L4, 12, L4),
    Imm("SLL", L4, 8, L5), Imm("ADD", L5, 1038, L5),
    Imm("SLL", L4, 2, L4), Set(8192, L6), Imm("ADD", L6, 256, L6), Rrr("ADD", L6, L4, L6),
    Imm("ST", L6, 0, L5), Imm("OR", 0, 768, L6), Alt("LD", L6, 25, L4) >> \o Again

\* The handler of an interrupt: it spoils condition codes and Y and puts them back.
Interrupt == <<
    Rd("READpsr", L0), Rd("READy", L3), Imm("MULScc", L1, 1, L4), Wr("WRITEy", L3),
    Wr("WRITEpsr", L0) >> \o Again

\* What the processor refuses is skipped.
Skip == << Imm("JUMP", L2, 0, 0), Imm("RETT", L2, 4, 0) >>
SystemCall == << Imm("ADD", I0, 1, I0) >> \o Skip

Entry(tt, handler) ==
    At(4096 + (16 * tt), << Branch(Always, TRUE, handler - (4096 + (16 * tt))) >>)

Kernel ==
    At(0, Boot) @@ At(256, Overflow) @@ At(512, Underflow) @@ At(768, PageFault)
    @@ At(1024, Interrupt) @@ At(1280, SystemCall) @@ At(1344, Skip)
    @@ Entry(1, 768) @@ Entry(9, 768) @@ Entry(5, 256) @@ Entry(6, 512)
    @@ Entry(17, 1024) @@ Entry(31, 1024) @@ Entry(128, 1280)
    @@ Entry(2, 1344) @@ Entry(3, 1344) @@ Entry(7, 1344) @@ Entry(10, 1344) @@ Entry(42, 1344)

Main == <<
    Set(23552, SP), Call(60), Imm("OR", 0, 4, O0),
    Imm("UDIV", O0, 0, O0), Imm("TADDccTV", O0, 1, O0), Imm("LD", SP, 2, O0),
    Alt("LDD", SP, 10, O0), Rd("READpsr", O0), Wr("WRITEpsr", SP), Base,
    Ta, Call(16384 - (12288 + 44)), Wr("WRITEy", O0), Branch(Always, FALSE, 0), Nop >>
Sum == <<
    Imm("SAVE", SP, -64, SP), Imm("SUBcc", I0, 1, O0),
    Branch(Equal, TRUE, 20), Imm("OR", 0, 1, I0),
    Call(-16), Nop, Rrr("ADD", O0, I0, I0),
    Imm("JUMP", I7, 8, 0), Imm("RESTORE", I0, 0, O0) >>
Away == <<
    Imm("UDIV", O0, 16, O0), Imm("MULScc", O0, 3, O0),
    Set(24576, O1), Imm("LDD", O1, 0, O2), Rrr("SUBcc", O2, O3, O2), Set(28672, O1),
    Imm("STB", O1, 1, O2), Imm("LDSTUB", O1, 0, O0), Imm("SWAP", O1, 0, O2),
    Imm("JUMP", O7, 8, 0), Imm("LDSH", O1, 0, O0) >>

MCProgram == Kernel @@ At(12288, Main) @@ At(12352, Sum) @@ At(32768, Away)
MCUserProgram == At(12288, Main) @@ At(12352, Sum) @@ At(16384, Away)
MCUserData == (24576 :> 5) @@ (24580 :> 7) @@ (28672 :> 3)

\* Page tables at 0x2100, 0x2200, 0x2300 and the context table at 0x2400.
Table == << 28 + 2, 256 + 28 + 2, 512 + 28 + 2, 768 + 12 + 2, 0, 1280 + 12 + 2, 0, 0 >>
MCRam ==
    [a \in {8448 + (4 * k) : k \in 0..7} |-> Table[((a - 8448) \div 4) + 1]]
    @@ (8704 :> 529) @@ (8960 :> 545) @@ (9216 :> 561)
    @@ (40960 :> 5) @@ (40964 :> 7) @@ (45056 :> 3)
    @@ [a \in {23552 - (64 * d) + (4 * k) : d \in 0..4, k \in 0..5} |-> 0]
=============================================================================
