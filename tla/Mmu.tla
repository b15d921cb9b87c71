-------------------------------- MODULE Mmu --------------------------------
(***************************************************************************)
(* The memory management unit (leon3/mmucache/mmu.cpp, tlb_adaptor.h): the *)
(* walk through the page tables, the access check, the fault registers.    *)
(* The search of the TLB is commented out in tlb_lookup, so every access   *)
(* walks and the entries it still makes are never used: no TLB here.       *)
(*                                                                         *)
(* mem is physical memory, a function of word addresses; mmu the registers *)
(*   [e, nf, ctxptr, ctx, fsr, far].                                       *)
(***************************************************************************)
EXTENDS Alu

MmuRegisters == [e : BOOLEAN, nf : BOOLEAN, ctxptr : Word, ctx : Word, fsr : Word, far : Word]
ResetMmu == [e |-> FALSE, nf |-> FALSE, ctxptr |-> 0, ctx |-> 0, fsr |-> 0, far |-> 0]

\* Entry types of a page table entry.
Type(pde) == pde % 4
IsInvalid(pde) == Type(pde) = 0
IsPTD(pde) == Type(pde) = 1
IsPTE(pde) == Type(pde) = 2
Permissions(pde) == (pde \div 4) % 8

\* Index into the table of a level; pages have 2^12, 2^18 and 2^24 bytes.
Index(vaddr, level) ==
    CASE level = 1 -> (vaddr \div 2^24) % 2^8
      [] level = 2 -> (vaddr \div 2^18) % 2^6
      [] level = 3 -> (vaddr \div 2^12) % 2^6
PageSize(level) == CASE level = 1 -> 2^24 [] level = 2 -> 2^18 [] OTHER -> 2^12

\* The rows are load and store, user and supervisor, data and instruction.
access_table ==
    << <<0, 0, 0, 0, 2, 0, 3, 3>>, <<0, 0, 0, 0, 2, 0, 0, 0>>,
       <<2, 2, 0, 0, 0, 2, 3, 3>>, <<2, 2, 0, 0, 0, 2, 0, 0>>,
       <<2, 0, 2, 0, 2, 2, 3, 3>>, <<2, 0, 2, 0, 2, 0, 2, 0>>,
       <<2, 2, 2, 0, 2, 2, 3, 3>>, <<2, 2, 2, 0, 2, 2, 2, 0>> >>

IsInstruction(asi) == asi \in {8, 9}
access_index(asi, write) ==
    (IF write THEN 4 ELSE 0) + (IF IsInstruction(asi) THEN 2 ELSE 0) + (asi % 2)

\* Where there is no memory a read is answered with an error that nobody looks at: it
\* leaves the 0 of its buffer.
Content(mem, a) == IF a \in DOMAIN mem THEN mem[a] ELSE 0

\* From the context table down to the entry that is no table descriptor; pointers into
\* the tables have the width of a word.
WalkTables(mem, mmu, vaddr) ==
    LET pde_ptr == (mmu.ctxptr * 2^4) + (mmu.ctx * 4)
        root == [pde |-> Content(mem, pde_ptr % Mod), level |-> 0]
        table(w) == ((w.pde \div 4) * 2^6) + (Index(vaddr, w.level + 1) * 4)
        down[w \in [pde : Word, level : 0..3]] ==
            IF IsPTD(w.pde) /\ w.level < 3
            THEN [pde |-> Content(mem, table(w) % Mod), level |-> w.level + 1]
            ELSE w
    IN  down[down[down[root]]]

\* L and FT of the fault status, for the entry w where the walk has ended.  The level of a
\* denied access is not reported.
Checked(w, vaddr, asi, write) ==
    [error |-> IF IsInvalid(w.pde) THEN (w.level * 2^8) + (1 * 4)
               ELSE IF ~IsPTE(w.pde) \/ w.level = 0 THEN (w.level * 2^8) + (4 * 4)
               ELSE access_table[access_index(asi, write) + 1][Permissions(w.pde) + 1] * 4,
     pde |-> w.pde,
     paddr |-> (((w.pde \div 2^8) * 2^12) + (vaddr % PageSize(w.level))) % Mod]

get_physical_address(mem, mmu, vaddr, asi, write) ==
    Checked(WalkTables(mem, mmu, vaddr), vaddr, asi, write)

\* The fault registers.  OW is set by the first fault; those after it are or-ed in.
SetFault(mmu, vaddr, asi, write, error) ==
    LET first == IF mmu.fsr = 0 THEN 1 ELSE mmu.fsr
        fault == (access_index(asi, write) * 2^5) + error
                     + (IF IsInstruction(asi) THEN 0 ELSE 2)
    IN  [mmu EXCEPT !.fsr = Or(first, fault), !.far = vaddr]

\* ok: the access goes on to paddr.  exception: trigger_exception was called.
Outcome(ok, paddr, mmu, exception) ==
    [ok |-> ok, paddr |-> paddr, mmu |-> mmu, exception |-> exception]

Answer(g, mmu, vaddr, asi, write) ==
    LET faulty == SetFault(mmu, vaddr, asi, write, g.error)
    IN  IF g.error = 0 THEN Outcome(TRUE, g.paddr, mmu, "none")
        ELSE IF ~mmu.nf \/ asi = 9
             THEN Outcome(FALSE, 0, faulty,
                          IF IsInstruction(asi) THEN "INSTR_ACCESS_EXC" ELSE "DATA_ACCESS_EXC")
        ELSE Outcome(IsPTE(g.pde), g.paddr, faulty, "none")

tlb_lookup(mem, mmu, vaddr, asi, write) ==
    Answer(get_physical_address(mem, mmu, vaddr, asi, write), mmu, vaddr, asi, write)

\* The adaptor of a cache: the MMU may be off.
Translate(mem, mmu, vaddr, asi, write) ==
    IF mmu.e THEN tlb_lookup(mem, mmu, vaddr, asi, write)
    ELSE Outcome(TRUE, vaddr, mmu, "none")

\* The registers, as ASI 0x19 reads and writes them.
ReadMmu(mmu, addr) ==
    CASE addr = 0 -> (IF mmu.e THEN 1 ELSE 0) + (IF mmu.nf THEN 2 ELSE 0)
      [] addr = 256 -> mmu.ctxptr
      [] addr = 512 -> mmu.ctx
      [] addr = 768 -> mmu.fsr
      [] addr = 1024 -> mmu.far
      [] OTHER -> 0
read_mfsr(mmu) == [mmu EXCEPT !.fsr = 0]
WriteMmu(mmu, addr, v) ==
    CASE addr = 0 -> [mmu EXCEPT !.e = (v % 2 = 1), !.nf = ((v \div 2) % 2 = 1)]
      [] addr = 256 -> [mmu EXCEPT !.ctxptr = v - (v % 4)]
      [] addr = 512 -> [mmu EXCEPT !.ctx = v]
      [] OTHER -> mmu
=============================================================================
