----------------------------- MODULE IntUnitRun -----------------------------
(***************************************************************************)
(* The instruction set simulator runs a kernel and a user program: beside  *)
(* it `user`, the machine that the program believes to run on, which makes *)
(* one step for every instruction the simulator completes in user mode.    *)
(***************************************************************************)
EXTENDS IntUnit

CONSTANTS UserProgram, UserData, USER_ENTRY, USER_END

VARIABLE user

User == INSTANCE UserMachine

uvars == <<leon, irq, requests, user>>

RunInit == Init /\ user = User!Start

InUserMode(c) == c.psr.et /\ ~c.psr.s

\* An instruction completes when neither a trap nor an access exception comes of it, or
\* with the trap after which it is not executed again.
Skipped == {TrapType(id, 0) : id \in {"ILLEGAL_INSTR", "PRIVILEDGE_INSTR", "TRAP_INSTRUCTION",
                                      "MEM_ADDR_NOT_ALIGNED", "TAG_OVERFLOW", "DIV_ZERO"}}
Completes ==
    \/ InUserMode(leon') /\ leon'.raised = NoException
    \/ leon'.psr.s /\ TrapNumber(leon'.tbr) \in Skipped

Instruction ==
    /\ Execute
    /\ user' = IF InUserMode(leon) /\ Completes THEN User!Step(user) ELSE user

Processor == Instruction \/ ((TakeIrq \/ RaiseDeferred) /\ UNCHANGED user)
RunNext == Processor \/ ((Request \/ Lower) /\ UNCHANGED user)

\* The main loop goes on while the simulation runs, and the interrupt controller takes
\* an acknowledged request back.
RunSpec ==
    /\ RunInit /\ [][RunNext]_uvars
    /\ WF_uvars(Processor) /\ WF_uvars(Lower /\ UNCHANGED user)

----------------------------------------------------------------------------
(* Windows that overflow and underflow, pages that come when they are      *)
(* touched, interrupts between any two instructions (between a branch and  *)
(* its delay slot too) and system calls leave no trace in the program:     *)
(* whenever it runs, its PC and NPC, its condition codes, Y and every      *)
(* register and word it has written are those of the machine with none of  *)
(* this (RaiseException, SAVE, RESTORE, RETT, the main loop and the MMU).  *)
Transparent ==
    InUserMode(leon) /\ leon.raised = NoException /\ ~leon.error =>
        /\ leon.pc = user.pc /\ leon.npc = user.npc
        /\ leon.psr.icc = user.icc /\ leon.y = user.y
        /\ \A r \in 0..31 : User!Exists(user, r) => Reg(leon, r) = User!Get(user, r)
        /\ \A a \in DOMAIN user.mem :
              \A t \in {Translate(leon.mem, leon.mmu, a, 10, FALSE)} :
                 t.ok => leon.mem[t.paddr] = user.mem[a]

\* The program reaches its end, however often it is interrupted, or the processor stops in
\* the one case in which it does: no trap is taken over and over, no request is served for
\* ever (RaiseException with its acknowledge).
Terminates == <>(Overtaken \/ (InUserMode(leon) /\ leon.pc = USER_END))
=============================================================================
