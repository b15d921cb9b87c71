------------------------------- MODULE Irqmp -------------------------------
(***************************************************************************)
(* The multiprocessor interrupt controller (gaisler/irqmp) together with   *)
(* the interrupt side of the LEON3 processors it serves: the IRQ line of a *)
(* processor (leon3/intunit/irqPorts.cpp), its run pin (externalPins.cpp)  *)
(* and the point of its main loop at which it takes an interrupt           *)
(* (processor.cpp, instructions.cpp).                                      *)
(*                                                                         *)
(* A register is the set of the interrupt lines whose bit is one.  Every   *)
(* handler ends by notifying one sc_event; launch_irq, the only thread,    *)
(* runs some time later, so requests and registers disagree in between and *)
(* anything can happen there.  An earlier notification replaces a later    *)
(* one and a later one is dropped, so at most one is pending: `e_signal`.  *)
(***************************************************************************)
EXTENDS Integers, FiniteSetsExt

CONSTANTS
    NCPU,           \* generic ncpu
    EIRQ,           \* generic eirq: the line the extended ones cascade to, 0: none
    Sources,        \* lines the devices of the platform raise
    LevelVals,      \* the values software writes to each register
    PendingVals,
    ForceVals,
    ClearVals,
    BroadcastVals,
    MaskVals,
    ForceSets,      \* lower half of a processor's force register (PROC_IR_FORCE_IF)
    ForceClears,    \* upper half (PROC_IR_FORCE_IFC)
    EirIds          \* EXTIR_ID registers: the code accepts writes

Regular == 1..15            \* IR_PENDING_IP, IR_FORCE_IF, IR_LEVEL_IL
Extended == 16..31          \* IR_PENDING_EIP
Lines == Regular \cup Extended
CPUS == 0..(NCPU - 1)
NoIrq == -1                 \* the processor's IRQ variable when nothing is requested

ASSUME IrqmpAssumption ==
    /\ NCPU \in 1..16
    /\ EIRQ \in 0..15
    /\ Sources \subseteq Lines
    /\ LevelVals \subseteq SUBSET Regular
    /\ PendingVals \subseteq SUBSET Lines
    /\ ForceVals \subseteq SUBSET Regular
    /\ ClearVals \subseteq SUBSET Lines
    /\ BroadcastVals \subseteq SUBSET Regular
    /\ MaskVals \subseteq SUBSET Lines
    /\ ForceSets \subseteq SUBSET Regular
    /\ ForceClears \subseteq SUBSET Regular
    /\ EirIds \subseteq {0} \cup Extended

VARIABLES
    level, pending, gforce, broadcast,  \* IR_LEVEL, IR_PENDING, IR_FORCE, BROADCAST
    mask, force, eirId,                 \* PROC_IR_MASK, PROC_IR_FORCE, PROC_EXTIR_ID
    forcereg,                           \* the private copy of PROC_IR_FORCE
    req,                                \* irq_req: last pair sent to each processor
    e_signal,                           \* a launch is scheduled
    irq,                                \* each processor's IRQ variable
    cpu,                                \* halted, released (run pin set) or running
    rewritten                           \* history: since the last launch a register the
                                        \* requests depend on was rewritten or reset

regs == <<level, pending, gforce, broadcast, mask, force, eirId, forcereg>>
vars == <<regs, req, e_signal, irq, cpu, rewritten>>

Request == [line : 0..15, up : BOOLEAN]

TypeOK ==
    /\ level \subseteq Regular
    /\ pending \subseteq Lines
    /\ gforce \subseteq Regular
    /\ broadcast \subseteq Regular
    /\ mask \in [CPUS -> SUBSET Lines]
    /\ force \in [CPUS -> SUBSET Regular]
    /\ eirId \in [CPUS -> {0} \cup Extended]
    /\ forcereg \in [CPUS -> SUBSET Regular]
    /\ req \in [CPUS -> Request]
    /\ e_signal \in BOOLEAN
    /\ irq \in [CPUS -> Regular \cup {NoIrq}]
    /\ cpu \in [CPUS -> {"halted", "released", "running"}]
    /\ rewritten \in BOOLEAN

----------------------------------------------------------------------------
(* The reset input is pulsed once at the start of simulation: dorst writes *)
(* the registers and releases processor 0.                                 *)

Init ==
    /\ level = {} /\ pending = {} /\ gforce = {} /\ broadcast = {}
    /\ mask = [c \in CPUS |-> Lines]
    /\ force = [c \in CPUS |-> {}]
    /\ forcereg = [c \in CPUS |-> {}]
    /\ eirId = [c \in CPUS |-> 0]
    /\ req = [c \in CPUS |-> [line |-> 0, up |-> FALSE]]
    /\ e_signal = FALSE
    /\ irq = [c \in CPUS |-> NoIrq]
    /\ cpu = [c \in CPUS |-> IF c = 0 THEN "released" ELSE "halted"]
    /\ rewritten = FALSE

\* cpu_rst.write(mask, true): a halted processor leaves its stop loop.
Release(S) ==
    cpu' = [c \in CPUS |-> IF c \in S /\ cpu[c] = "halted" THEN "released" ELSE cpu[c]]

\* The reset input pulsed again: dorst neither notifies e_signal nor lowers a request, and IR_FORCE
\* is only cleared when g_ncpu is 0.
Dorst ==
    /\ level' = {} /\ pending' = {} /\ broadcast' = {}
    /\ mask' = [c \in CPUS |-> Lines]
    /\ force' = [c \in CPUS |-> {}]
    /\ forcereg' = [c \in CPUS |-> {}]
    /\ eirId' = [c \in CPUS |-> 0]
    /\ Release({0})
    /\ rewritten' = TRUE
    /\ UNCHANGED <<gforce, req, e_signal, irq>>

----------------------------------------------------------------------------
(* launch_irq *)

\* irq_req.write(mask, (n, false)): the IRQ lines of the processors S are lowered.
Lower(S, n) ==
    /\ req' = [c \in CPUS |-> IF c \in S THEN [line |-> n, up |-> FALSE] ELSE req[c]]
    /\ irq' = [c \in CPUS |-> IF c \in S THEN NoIrq ELSE irq[c]]

\* Mutant: the mask is 1 instead of ~0.
LowerFirst(n) == Lower({0}, n)

\* Mutant: the value is recorded for every processor but sent to the first only.
LowerRecorded(n) ==
    /\ req' = [c \in CPUS |-> [line |-> n, up |-> FALSE]]
    /\ irq' = [irq EXCEPT ![0] = NoIrq]

LowerAll(n) == Lower(CPUS, n)

\* An extended interrupt is pending and unmasked for c.
ExtEnabled(c) == EIRQ # 0 /\ pending \cap mask[c] \cap Extended # {}

\* IR_PENDING when the loop, which runs from the last processor down to 0 and
\* rewrites the cascade bit for each of them, gets to c.
SeenPending(c) ==
    IF EIRQ = 0 \/ c = NCPU - 1 THEN pending
    ELSE IF ExtEnabled(c + 1) THEN pending \cup {EIRQ} ELSE pending \ {EIRQ}

\* `all`: the forced lines are added after masking, the cascade is not masked.
All(c) ==
    ((SeenPending(c) \cup gforce) \cap mask[c]) \cup force[c]
        \cup (IF ExtEnabled(c) THEN {EIRQ} ELSE {})

\* Mutant: the candidates are not cut down to IR_PENDING_IP.
HighOfAll(c) ==
    IF All(c) \cap level # {} THEN Max(All(c) \cap level)
    ELSE IF All(c) # {} THEN Max(All(c))
    ELSE 0

\* Level 1 before level 0, then the highest regular line; 0 when there is none.
High(c) ==
    LET onLevel1 == All(c) \cap level \cap Regular
        onLevel0 == (All(c) \ level) \cap Regular
    IN  IF onLevel1 # {} THEN Max(onLevel1)
        ELSE IF onLevel0 # {} THEN Max(onLevel0)
        ELSE 0

\* Mutant: only the line numbers are compared, not whether the request is up.
LaunchedByLine(c) ==
    IF High(c) # req[c].line THEN [line |-> High(c), up |-> High(c) # 0] ELSE req[c]

\* What launch_irq leaves on irq_req(c).
Launched(c) ==
    IF High(c) # 0 THEN [line |-> High(c), up |-> TRUE] ELSE [line |-> 0, up |-> FALSE]

\* Mutant: a line that has been forwarded is taken out of the pending register.
LeftPendingConsumed == pending \ {High(c) : c \in CPUS}

\* The cascade's pending bit is left as processor 0, the last one, sees it.
LeftPending ==
    IF EIRQ = 0 THEN pending
    ELSE IF ExtEnabled(0) THEN pending \cup {EIRQ} ELSE pending \ {EIRQ}

\* One pass of the thread over the processors.  A request equal to the last one
\* sent is not sent again: the processor's IRQ variable keeps the value it has.
LaunchIrq ==
    /\ e_signal
    /\ e_signal' = FALSE
    /\ rewritten' = FALSE
    /\ pending' = LeftPending
    /\ req' = [c \in CPUS |-> Launched(c)]
    /\ irq' = [c \in CPUS |-> IF Launched(c) = req[c] THEN irq[c]
                              ELSE IF Launched(c).up THEN Launched(c).line ELSE NoIrq]
    /\ UNCHANGED <<level, gforce, broadcast, mask, force, eirId, forcereg, cpu>>

----------------------------------------------------------------------------
(* Interrupts from the devices *)

\* incomming_irq: the test is on the broadcast bit of the NEXT line (bit(line+1)).
\* A broadcast extended line is lost: it is neither pending nor forced.
IncommingIrq(n) ==
    /\ IF n + 1 \in broadcast
       THEN /\ force' = [c \in CPUS |-> force[c] \cup ({n} \cap Regular)]
            /\ forcereg' = [c \in CPUS |-> forcereg[c] \cup ({n} \cap Regular)]
            /\ UNCHANGED pending
       ELSE /\ pending' = pending \cup {n}
            /\ UNCHANGED <<force, forcereg>>
    /\ e_signal' = TRUE
    /\ UNCHANGED <<level, gforce, broadcast, mask, eirId, req, irq, cpu, rewritten>>

----------------------------------------------------------------------------
(* Register writes by software, over the APB *)

LevelWrite(v) ==
    /\ level' = v
    /\ UNCHANGED <<pending, gforce, broadcast, mask, force, eirId, forcereg,
                   req, e_signal, irq, cpu, rewritten>>

BroadcastWrite(v) ==
    /\ broadcast' = v
    /\ UNCHANGED <<level, pending, gforce, mask, force, eirId, forcereg,
                   req, e_signal, irq, cpu, rewritten>>

\* Mutant: the callback is not registered.
NoCallback ==
    /\ rewritten' = TRUE
    /\ UNCHANGED e_signal

\* pending_write: the callback of the pending, force and mask registers.
PendingWriteCallback ==
    /\ e_signal' = TRUE
    /\ rewritten' = TRUE

PendingWrite(v) ==
    /\ pending' = v
    /\ PendingWriteCallback
    /\ UNCHANGED <<level, gforce, broadcast, mask, force, eirId, forcereg, req, irq, cpu>>

GlobalForceWrite(v) ==
    /\ gforce' = v
    /\ PendingWriteCallback
    /\ UNCHANGED <<level, pending, broadcast, mask, force, eirId, forcereg, req, irq, cpu>>

MaskWrite(c, v) ==
    /\ mask' = [mask EXCEPT ![c] = v]
    /\ PendingWriteCallback
    /\ UNCHANGED <<level, pending, gforce, broadcast, force, eirId, forcereg, req, irq, cpu>>

\* The extended lines named by the identification registers of the processors S.
Identified(S) == IF EIRQ = 0 THEN {} ELSE {eirId[c] : c \in S} \ {0}

\* clear_write.  The last pair written to the request lines is the one of the
\* lowest line cleared.
ClearWrite(v) ==
    /\ IF v \cap Regular # {} THEN LowerAll(Min(v \cap Regular))
       ELSE IF v \cap Extended # {} \/ Identified(CPUS) # {} THEN LowerAll(EIRQ)
       ELSE UNCHANGED <<req, irq>>
    /\ pending' = (pending \ Identified(CPUS)) \ v
    /\ eirId' = IF EIRQ = 0 THEN eirId ELSE [c \in CPUS |-> 0]
    /\ gforce' = gforce \ v
    /\ e_signal' = TRUE
    /\ UNCHANGED <<level, broadcast, mask, force, forcereg, cpu, rewritten>>

\* force_write, after software wrote the pair (set, clr) to PROC_IR_FORCE(k).  The
\* write replaced the register, so what was forced before comes from forcereg.
ForceWrite(k, set, clr) ==
    /\ IF clr # {} THEN LowerAll(Min(clr)) ELSE UNCHANGED <<req, irq>>
    /\ forcereg' = [forcereg EXCEPT ![k] = (@ \cup set) \ clr]
    /\ force' = [c \in CPUS |-> IF c = k THEN (forcereg[k] \cup set) \ clr
                                ELSE forcereg[c] \cup force[c]]
    /\ pending' = pending \ Identified(CPUS)
    /\ e_signal' = TRUE
    /\ UNCHANGED <<level, gforce, broadcast, mask, eirId, cpu, rewritten>>

\* EXTIR_ID has a write mask of five bits and no callback.
EirIdWrite(c, v) ==
    /\ eirId' = [eirId EXCEPT ![c] = v]
    /\ UNCHANGED <<level, pending, gforce, broadcast, mask, force, forcereg,
                   req, e_signal, irq, cpu, rewritten>>

\* mpstat_write: releases the processors whose status bit is set and that are halted.
MpstatWrite(S) ==
    /\ Release(S)
    /\ UNCHANGED <<regs, req, e_signal, irq, rewritten>>

----------------------------------------------------------------------------
(* The processors *)

\* resetOp, when the main loop notices that it was released: forgets the request
\* on its line, of which irq_req keeps the record.
ResetOp(c) ==
    /\ cpu[c] = "released"
    /\ cpu' = [cpu EXCEPT ![c] = "running"]
    /\ irq' = [irq EXCEPT ![c] = NoIrq]
    /\ UNCHANGED <<regs, req, e_signal, rewritten>>

\* Mutant: the private copy of the force register is not updated.
ClearForcedNoCopy(n, c) ==
    /\ force' = [force EXCEPT ![c] = @ \ {n}]
    /\ UNCHANGED forcereg

\* Mutant: the acknowledgement of one processor counts for all of them.
ClearForcedForAll(n, c) ==
    /\ force' = [d \in CPUS |-> force[d] \ {n}]
    /\ forcereg' = [d \in CPUS |-> forcereg[d] \ {n}]

ClearForced(n, c) ==
    /\ force' = [force EXCEPT ![c] = @ \ {n}]
    /\ forcereg' = [forcereg EXCEPT ![c] = @ \ {n}]

\* acknowledged_irq: the identification register is cleared, never written.
AcknowledgedIrq(n, c) ==
    /\ ClearForced(n, c)
    /\ LowerAll(n)
    /\ pending' = (pending \ Identified({c})) \ {n}
    /\ gforce' = gforce \ {n}
    /\ eirId' = [eirId EXCEPT ![c] = 0]
    /\ e_signal' = TRUE

\* The main loop finds its line up (and traps enabled, PIL low enough: software's
\* business); RaiseException acknowledges the line within the same step.
TakeIrq(c) ==
    /\ cpu[c] = "running"
    /\ irq[c] # NoIrq
    /\ AcknowledgedIrq(irq[c], c)
    /\ UNCHANGED <<level, broadcast, mask, cpu, rewritten>>

----------------------------------------------------------------------------
Software ==
    \/ \E v \in LevelVals : LevelWrite(v)
    \/ \E v \in BroadcastVals : BroadcastWrite(v)
    \/ \E v \in PendingVals : PendingWrite(v)
    \/ \E v \in ForceVals : GlobalForceWrite(v)
    \/ \E v \in ClearVals : ClearWrite(v)
    \/ \E c \in CPUS, v \in MaskVals : MaskWrite(c, v)
    \/ \E c \in CPUS, set \in ForceSets, clr \in ForceClears : ForceWrite(c, set, clr)
    \/ \E c \in CPUS, v \in EirIds : EirIdWrite(c, v)
    \/ \E S \in SUBSET CPUS : MpstatWrite(S)

Next ==
    \/ Software
    \/ \E n \in Sources : IncommingIrq(n)
    \/ LaunchIrq
    \/ \E c \in CPUS : ResetOp(c) \/ TakeIrq(c)
    \/ Dorst

Spec == Init /\ [][Next]_vars

\* The thread is woken by its event, a released processor leaves its stop loop, and
\* a processor whose line is raised again and again takes the interrupt: it looks
\* at the line before every instruction.
Fairness ==
    /\ WF_vars(LaunchIrq)
    /\ \A c \in CPUS : WF_vars(ResetOp(c)) /\ SF_vars(TakeIrq(c))

LiveSpec == Spec /\ Fairness

----------------------------------------------------------------------------
(* What the controller promises *)

\* The interrupts processor c is still to be sent; the cascade bit of the pending
\* register is launch_irq's scratch bit and is not one of them.
Owed(c) == ((pending \ {EIRQ}) \cap mask[c]) \cup force[c]

\* The force register of a processor, which software reads, and the private copy
\* that force_write restores it from never differ, whichever handlers ran between.
ForceCopiesAgree == force = forcereg

\* A processor whose line is up was sent exactly the request irq_req records.
LineWasSent ==
    \A c \in CPUS : irq[c] # NoIrq => req[c].up /\ req[c].line = irq[c]

\* At most once: a line is up at a processor only while its interrupt is still to be
\* served, so what one processor has acknowledged (or software cleared) no other can
\* take too.  A direct write to the pending, force or mask registers and a reset
\* withdraw an interrupt without lowering the line, until the next launch.
ServedOnce ==
    \A c \in CPUS :
        irq[c] \notin {NoIrq, EIRQ} /\ ~rewritten => irq[c] \in Owed(c) \cup gforce

\* At least once, 1: when no launch is scheduled, every processor that is owed an
\* interrupt or has an extended one enabled has a request up: no handler that can
\* enable an interrupt forgets to notify the thread.
NothingForgotten ==
    ~e_signal =>
        \A c \in CPUS : (Owed(c) \cap Regular # {} \/ ExtEnabled(c)) => req[c].up

\* At least once, 2: a pending line, unless it is the cascade, goes away only when a
\* processor takes it or software removes it; forwarding it is not enough.
PendingKeptUntilServed ==
    [][\A n \in pending \ (pending' \cup {EIRQ}) :
        \/ \E c \in CPUS : TakeIrq(c) /\ n \in {irq[c], eirId[c]}
        \/ \E v \in PendingVals : PendingWrite(v)
        \/ \E v \in ClearVals : ClearWrite(v)
        \/ n \in Identified(CPUS)
        \/ Dorst]_vars

\* A broadcast or forced interrupt has to be acknowledged by each processor: it
\* leaves a force register only when that processor takes it, or software clears it
\* in that register, whatever the other processors acknowledge.
ForcedUntilOwnAck ==
    [][\A c \in CPUS : \A n \in force[c] \ force'[c] :
        \/ TakeIrq(c) /\ irq[c] = n
        \/ \E set \in ForceSets, clr \in ForceClears : n \in clr /\ ForceWrite(c, set, clr)
        \/ Dorst]_vars

\* The IRQ variable of a started processor shows what irq_req last sent to it.
InSync(c) ==
    cpu[c] = "running" /\ irq[c] = IF req[c].up THEN req[c].line ELSE NoIrq

\* When every line has level 0, the highest line that is owed to a processor in sync
\* is eventually served, however often the other processors take lower or the same
\* lines and their acknowledgements lower its request.
TopServed ==
    LET top == Max(Sources \cap Regular)
    IN  \A c \in CPUS : (InSync(c) /\ top \in Owed(c)) ~> (top \notin Owed(c))

=============================================================================
