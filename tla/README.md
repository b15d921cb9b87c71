# LogSoCR in TLA+

LogSoCR is a SystemC model of a LEON3 system on chip (the SoCRocket library):
processors with caches and an MMU, an AHB and an APB bus, memories, a memory
controller, timers, an interrupt controller and a serial port, loosely timed (LT,
one blocking call per transfer) or approximately timed (AT, the phases of a transfer
are messages with delays). This directory states what the control of that platform
promises and checks it: TLA+ modules translated from the C++, TLC runs on small
instances, and TLAPS proofs for all values of the constants.

The program is concurrent the way SystemC is: threads that wait for events and
timed queues, one running at a time, in an order the kernel picks within an instant,
and calls straight through from one module to the next. So one action is what
happens between two waits, with every call it makes, and interleaving is what the
kernel may choose.

## Inventory

| component (source) | state | operations | interacts with |
|---|---|---|---|
| **irqmp** interrupt controller (`gaisler/irqmp`) | level, pending, force, broadcast registers; mask, force, extended id of each CPU; a private copy of the force registers; the last request sent to each CPU; an event | 8 register writes with callbacks, interrupt lines, `launch_irq`, acknowledgement, reset, start of a CPU | signals to and from the CPUs, lines from the devices, APB |
| **interrupt side of the CPU** (`leon3/intunit`) | `IRQ`, run pin | line raised or lowered, reset when started, interrupt taken | irqmp |
| **ahbctrl** bus controller (`gaisler/ahbctrl`) | request and response map, owner of the address bus, state of the data bus, lock, round-robin pointer, four queues; decode map with a cache of one entry; LT: `busy` | AT: accept, arbitrate, request, response and end-response threads; LT: `b_transport`; decode; plug and play; snoop broadcast | masters and slaves |
| **AHBMaster**, **AHBSlave** (`core/common`) | a queue each way, payload pool, reference counts | `ahbaccess`, `nb_transport_*`, response and request threads | ahbctrl, devices |
| **mmu_cache_base** (`leon3/mmucache`) | control register, FIFO to the bus, write buffer, two events | `exec_instr`, `exec_data` (ASI decoding), `mem_read`, `mem_write`, `mem_access`, snooping | CPU, caches, MMU, AHB |
| **vectorcache**, **localram** | lines with tag, valid bits, LRU/LRR, lock; control mode | read, write, diagnostic access, flush, snoop invalidation, replacement | mmu_cache_base, TLB adaptor |
| **mmu** | TLBs, control, context, fault registers | translation, table walk, flush, probe, diagnostic access | caches, bus |
| **gptimer** | scaler, counters with value, reload, control, chain and interrupt flags, one expiry event each | control and value writes and reads, ticking thread, chaining, reset | irqmp, APB, watchdog |
| **mctrl** memory controller | configuration registers, refresh and power-down state | `exec_func` with the delays of PROM, IO, SRAM, SDRAM | AHB, memories |
| **apbctrl**, APB devices | decode map | bridge of an AHB access to words on the APB, plug and play | ahbctrl, devices |
| **apbuart** | data, status, control | register access, back end | APB, socket or report |
| **memories** (ahbmem, memory, storages) | bytes | read, write | buses |
| AHBIn, AHBOut, AHBProf | none to speak of | test traffic, printing | AHB |
| leon3, sr_signal, sr_register, sr_registry, sr_param, sr_report, sr_analyse, pysc, platforms | configuration | plumbing | everything |
| **intunit** instruction set simulator | PSR, WIM, TBR, Y, PC, NPC, registers, a deferred exception, the level on `irqAck` | main loop, one behaviour for each instruction, traps (generated by TRAP, edited since) | leon3, mmu_cache, irqmp |

What is hard in it, and what has to hold for each part to be right:

* **irqmp**. Every handler ends by notifying one event; the thread that computes the
  requests runs later, from registers that may have changed, and the
  acknowledgement of one CPU lowers the requests of all. The interrupt must
  reach somebody (at least once) and nobody twice (at most once); a forced one must
  be acknowledged by each CPU.
* **ahbctrl and the protocol halves**. The next request goes out while the data phase
  of the one before is running; two maps with one entry per master serve masters with
  three transfers in flight; payloads are reference counted over four modules. The
  phases must not collide, no request or payload may be lost or reused early, the bus
  must not stop, locked sequences must not be interrupted, writes must be snooped in time.
* **caches, MMU and their bus side**. Refill and snooping are interleaved; posted
  writes share a circular buffer; one event wakes every reader. A read must return
  what was last written, on every CPU, and no line may be both locked for ever and
  needed; a translation must be the one of the current tables.
* **gptimer**. A counter is a lazily evaluated function of time with one pending event
  that stop, load, enable, chaining and reset move about; expiry must come once per
  period and not after a stop.
* **intunit**. Access exceptions come from the memory side while an instruction executes and are
  raised an iteration later; traps enter a window without looking; the second jump of a handler's
  return is a delay slot. A user program must not notice any of it, and the processor
  must not stop (it does in one case, see Divergences). Condition codes are computed in one place and taken apart in another.
* **mctrl, apbctrl, uart, memories**. Mostly functions of one access: word splitting,
  delays, decode. The delays matter to the bus (see Divergences).

## Plan

Done, in this order: `Irqmp` and `IrqmpProofs`; `AhbCtrl` and `AhbCtrlProofs`; the loosely timed bus
`AhbLT` with the abstract `LockedBus` that both buses implement, and `AhbLTProofs`; `Coherence` on top of
`AhbLT`, with the abstract memory `Tso`, and `CoherenceProofs`; `GPTimer` and `GPTimerProofs`; `Alu` with `AluProofs`, `AluRun` and `AluRunProofs`;
`Mmu` and `IntUnit`, composed with a kernel and the abstract `UserMachine`, and `IntUnitProofs`.

```
IrqmpProofs -> Irqmp                    LockedBus (abstract) <- AhbCtrl <- AhbCtrlProofs
                                                             <- AhbLT   <- AhbLTProofs
Tso (abstract) <- Coherence -> AhbLT    CoherenceProofs -> Coherence, AhbLTProofs
UserMachine (abstract) <- IntUnitRun -> IntUnit -> Mmu -> Alu <- AluRun, AluProofs
IntUnitProofs -> IntUnit, AluProofs     AluRunProofs -> AluRun, AluProofs
GPTimerProofs -> GPTimer
```

Left, in this order:

1. The choice of the replaced way (LRU, LRR, pseudo-random) with line locks and diagnostic tag writes.
2. A composition of `IntUnit` with `Irqmp` in place of `Request` and `Lower`.
3. `mctrl` and `apbctrl` as functions of one access.

## Modules

### Irqmp

One variable per register and per private member of `Irqmp`; a register is the set of the
lines whose bit is one. `force`/`forcereg` are `PROC_IR_FORCE` and the array of copies, `req` is
the last value written to `irq_req` for each CPU, `e_signal` whether a launch is
pending (an sc_event holds one notification), `irq` the processors' `IRQ` variable.

| action | code |
|---|---|
| `IncommingIrq` | `incomming_irq` (rising edge; the falling edge changes nothing) |
| `LaunchIrq` | `launch_irq`, one pass over the CPUs; `High` is the choice of the line, `SeenPending`/`LeftPending` the cascade bit that the loop rewrites for one CPU after the other |
| `LevelWrite` ... `MpstatWrite` | a bus write to the register followed by its callback |
| `TakeIrq` | a CPU whose line is up takes the trap; `acknowledged_irq` runs inside the same step (the signal is synchronous) |
| `ResetOp` | a released CPU leaves its stop loop and `resetOp` clears `IRQ` |
| `Dorst` | the reset input |

`rewritten` is a history variable: software wrote a register directly, or the controller was
reset, since the last launch. In that window a line may be up that no register accounts
for, by design; `ServedOnce` says there is no other.

Left out: counters, power model, the falling edge of the lines, and when the CPU's
PIL and ET let it take the line. The identification registers are only written with
extended lines (or zero).

### AhbCtrl

Time is counted in clock edges. A queue (`peq_with_get`) gives each payload the number of edges
until it comes out; `Arbitrate` runs one picosecond after the edge, when nothing is left to
do on it, and takes the time to the next one. That is exact for devices whose delays are
whole cycles: END_REQ is due at `delay` and BEGIN_RESP at `delay - (words - 1)` cycles, each
less the picosecond by which the arbiter was late.

| action | code |
|---|---|
| `Issue` | `ahbaccess` up to its wait for END_REQ, and `nb_transport_fw` of the bus |
| `AcceptThread` | `AcceptThread` for one payload |
| `Arbitrate` | `arbitrate`, with BEGIN_REQ at the slave (`Forward`), `Winner` is the policy |
| `RequestThread` | END_REQ: `requestThread` of the slave, `RequestThread` of the bus (snoop), return of `ahbaccess` |
| `ResponseThread` | BEGIN_RESP: slave, bus, `nb_transport_bw` of the master, which starts the data phase |
| `MasterResponseThread` | end of the data phase, `response_callback`, END_RESP to the bus |
| `EndResponseThread` | END_RESP: state of the data bus, END_RESP to the slave, releases |

Hops that add no delay are one action with the hop before them. `master` is the control point
of each master thread: `idle`, `request` (inside `ahbaccess`) or `response` (`mem_access` of
the caches waiting for its event). Masters in `Pipelined` go on at END_REQ, as AHBIn does.
`refs` counts references per payload; a payload is back in the pool at zero.

`data_bus_state` has no initial value in the constructor, so `InitialDBus` is what the memory
held. The runs take the values from which the bus starts. An access that decodes to no
slave (`Unmapped`) is reported and never answered; it is in the model and in
no run's accesses, since its master then waits for ever. Left out: devices that return a
zero delay (the slave substitutes one cycle per word and a picosecond), statistics, the
debug transport.

With fixed priorities the code prefers the highest id; `ahbctrl.md` says the lowest. The model
follows the code.

### LockedBus, AhbLT

`LockedBus` is what either bus promises: one owner at a time, and after a locked access only
the master that made it, until it makes one that is not. In `AhbCtrl` the owner is the master of the payload
in its address phase (`BusSpec`), in `AhbLT` the thread between its poll and the end of its wait.

| action of `AhbLT` | code |
|---|---|
| `Request` | `ahbaccess` calls `b_transport` |
| `Start` | `b_transport` from the loop on `busy` and the lock to `wait(delay)`: the slave is decoded and does its work |
| `Forbid` | the early return of a write to the configuration area |
| `Finish` | `b_transport` after the wait |
| `GetIndex`, `Found`, `SlaveMapCache` | `get_index`: cached entry, `--upper_bound`, mask |

Addresses are segments of one megabyte; an area is a base and a size. The mask comparison is written as
equal quotients by the size, which is the same for sizes that are powers of two.

### Tso, Coherence

`Coherence` extends `AhbLT`, whose threads are the `mem_access` threads. Each processor has another
thread that stops inside `exec_data`: to put into a full FIFO (`put`), for `bus_read_completed` (`wait`, `done`),
and between the two accesses of an atomic instruction (`store`).

| action | code |
|---|---|
| `Load`, `Fill` | `vectorcache::mem_read` and `mmu_cache_base::mem_read`, before and after the wait |
| `Store`, `StoreBack` | `vectorcache::mem_write`, `mmu_cache_base::mem_write`: word into the cache on a hit, into the write buffer always |
| `Put` | `bus_in_fifo.put` when there is room |
| `MemAccess`, `BusStart`, `BusFinish` | `mem_access`, `ahbaccess`, the memory, the snoop broadcast, the completion |
| `Flush`, `WriteCcr` | ASI 0x16, `write_ccr` |

`Tso` is the abstract memory: a processor sees its own posted stores at once, all the others
see them in order, each at one moment. The refinement maps the buffer of a processor to its
posted writes with the data the write buffer has for them, so a slot that is used again too
early is a store that changes its value. `committed`, a history variable, is the memory without the write whose
transfer is running: a store counts when it is snooped.

Two rules are software's: a cache that is enabled is flushed (`EnableRule`), and an address is not written
with ASI 0x1c while the own cache holds it (`BypassRule`); without either the code does not promise a
current cache. What an atomic instruction promises is not part of `Tso` (see `coherence_sem`).
One set is modelled, lines of it are `Lines`; a way is chosen freely when all are valid.

### GPTimer

Nothing is counted in the code: a register is a function of the time, and each counter has one
announced underflow. `Value`, `Scaler`, `CycleTime`, `NextZero` are these functions, with
the unsigned difference of `sc_time` (`WRAP`) and the signed remainder of C.

| action | code |
|---|---|
| `WriteCtrl`, `WriteValue`, `WriteReload`, `WriteScaler`, `WriteScReload`, `Reset` | register writes with their callbacks; `dorst` |
| `Underflow` | `ticking` from `e_wait` to the wait for one cycle: interrupt, pending bit, watchdog |
| `PulseEnd` | the rest of the loop: the line falls, the next of the chain starts, EN becomes RS, the next underflow is announced |
| `Tick` | a clock cycle |

The value of a counter exists twice, in its VALUE register (`value`) and as `lastvalue`, the value at `lasttime`. While the
counter is stopped, `value_read` leaves the register alone, and `calculate` announces the first underflow from it;
while it runs, the register is computed from `lastvalue` before every use, and so not kept. The two are
equal after a write of the register, LD, a stop or a reset, but not at first: the register is 0 and `lastvalue` any of `Junk`.

`armed` is a history variable: the time and value the next underflow is measured from, as long as
software does not write what it depends on. A counter that is started during the pulse of its last underflow is not
measured, since the end of the pulse announces it anew; nor is one whose two values differ when it is started (`Rearmed`; see Divergences). `UnderflowPeriod` leaves out the
counters started before the prescaler was steady (`Steady`; see Divergences).

### Alu, AluRun

The behaviours of the arithmetic instructions as operators on operands, condition codes and Y, with the
expressions of the `ICC_write*` operations; forms `_reg` and `_imm` do not differ in what is done with the
operands. `Compute` has all of them but SMAC and UMAC, and is what `IntUnit` executes. Words have `WIDTH` bits. `AluRun` runs a multiplication by steps of
MULScc from any operands, and checks in its states what instructions and branch conditions compute
together.

### Mmu, IntUnit, IntUnitRun, UserMachine, MCIntUnit

`IntUnit` is the main loop on one record, `leon`, that holds the registers, the MMU and the memory.

| action | code |
|---|---|
| `Execute` | an iteration of `mainLoop`: fetch, then the `behavior` of the instruction with all its accesses |
| `RaiseDeferred` | an iteration that fetches and then raises the exception an access has left |
| `TakeIrq` | an iteration that takes the interrupt |
| `Request`, `Lower` | the interrupt controller sets the line, and takes it back after the acknowledgement |

`Mmu` has the table walk, `access_table`, the fault registers with their or-ing, and ASI 0x19. The search of
the TLBs is commented out in `tlb_lookup`, so they are written and never read, and left out; the
referenced and modified bits are set in a local copy of the entry and never reach the table.

An instruction is a record of an operation and its operands. Loads and stores are one operation each with a
width (`Size`); the forms A are the same operations with an ASI of their own. What differs between them is
kept: which of them read or store before they look at the privilege and the alignment (`ReadFirst`,
`StoreFirst`), and what reaches the register after a fault (`Load`, `Exchange`). Memory is a function on the
addresses of words, out of which `Load1` to `Load4` and `Store1` to `Store4` take bytes and half words. Where there
is none a read yields 0 (`Content`), a write is lost, and a fetch yields UNIMP: the bus answers with an error that
nobody looks at, and the buffer of a read was cleared before. The entry of a table walk is not cleared: with page tables
outside the memory the code uses what the local variable held, and the model, which puts 0 there, does not stand for it.

`Instructions` is what software may be made of: every operation with any registers and operands, and the ASIs that
reach the memory, through the MMU or past it, or the MMU registers. The latter only with accesses of a word: the code writes four bytes into the buffer of any access to ASI 0x19.

`MCIntUnit` assembles a kernel (window overflow and underflow, page fault, interrupt, system call, and a handler
that skips what the processor refuses; it stands for an operating system, which is not part of the repository)
and a user program that recurses deeper than there are windows, makes a system call, touches absent pages
with a fetch, a load and a store, and executes one of each that the processor refuses: a division by zero, a
tagged overflow, an unaligned load, an alternate load, READpsr and WRITEpsr in user mode, UNIMP. The interrupt handler spoils the condition
codes and Y, and restores them.
`UserMachine` is the machine the program believes to run on: no windows end, no page is absent, nothing
interrupts, a system call is one instruction, and what is refused is skipped (`Illegal`). `IntUnitRun` steps it once for each instruction that
completes in user mode; `Transparent` compares all the program can see.

`UserConfined` asks what such a program, any program, can do to its supervisor: in user mode a step keeps the mode,
the interrupt level, ET, PS, the window mask and the trap table, or it enters a trap, whole (`Entered`). It says
nothing of the memory and the MMU registers, and cannot: the alternate loads and stores access them before they look
at the privilege (Divergences). It also says that nothing but an exception with traps disabled stops the processor.

Caches are off here; `Coherence` has them. Loads that fault write zero to their register before
the trap, and WRITEtbr ors: the model follows the code, and kernel and program live with it (Divergences).

## Runs

| run | instance | shows |
|---|---|---|
| `irqmp` | 2 CPUs, lines 4 and 17, cascade on 3, every register write and reset | `ForceCopiesAgree`: the two copies never differ; `LineWasSent`: a line that is up is the one recorded as sent; `ServedOnce`: at most once; `NothingForgotten`, `PendingKeptUntilServed`: at least once; `ForcedUntilOwnAck` |
| `irqmp_live` | 2 CPUs, lines 2 and 4, forces, broadcast, masks | `TopServed`: the highest line owed to a CPU is served, whatever the other acknowledges |
| `ahb` | 2 masters, one pipelined, fixed priorities; a word, a burst with a wait state, a locked read | `AddressPhaseExclusive`, `DataPhaseExclusive`, `SnoopedBeforeEnd`, `RequestKept`, `StallHasEnd`, `NoUseAfterRelease`, `LockedAtomic`; `BusSpec`: it implements `LockedBus` |
| `ahb_live` | 2 masters, round robin, locked and plain words | `EveryoneServed` |
| `ahb_endresp` | a slave and the configuration area | violation: END_RESP is sent to the slave of the next transfer |
| `ahblt` | 3 masters, areas of 4, 2 and 1 segments with holes, configuration area | `OneTransfer`, `DecodedByMap`, `BusSpec` |
| `coherence` | 2 processors, one with a cache of one way, two lines of two words; the other swaps | `CTypeOK` (no slot beyond the buffer), `ValidIsCurrent`, `LockHasEnd`, `TsoSpec` |
| `coherence_lock` | the same with an MMU in between | violation: a plain store locks the bus and nothing unlocks it |
| `coherence_sem` | two processors execute the LDSTUBA of `mptest.c` | violation: both read 0 |
| `gptimer` | 2 counters, every kind of write, chain, watchdog, reset | `TypeOK` (no register negative), `Scheduled`: no wakeup is lost, `UnderflowPeriod`, of counters whose value is known when they start |
| `alu` | all pairs of 6-bit words, both carries | `BranchesCompare`, `CarryChains`, `StepsMultiply`, `DivisionSaturates` |
| `intunit` | 4 windows, recursion 4 deep, 3 absent pages, accesses of every width, 7 refused instructions, an interrupt of level 1 or 15 at any moment, between an access that faults and its trap too | `TypeOK`: nothing computed leaves its register, no trap is without a type; `Transparent`; `UserConfined`: user mode is left by a trap and no other way; `StopsOnlyOvertaken`: the processor stops if an interrupt has overtaken an access exception, and in no other case; `Terminates`: the program ends, but for that case |

### Bounds, and why they are enough

* Two CPUs in `irqmp`: the effects between them (requests lowered by another's acknowledgement, cascade
  bit seen by the neighbour, broadcast) are between two; the proof is for any number.
* One regular and one extended line, and the cascade line, which is regular too, so that
  lines of both levels and three priorities occur. Line 4 is broadcast by bit 5.
* Two masters in `ahb`: one of each kind. Contention, locking and overlap are between two transfers.
  `SLOTS = 3` payloads per master: a master that goes on at END_REQ can have one transfer in
  its last data cycle, one waiting for END_RESP to be forwarded and one request out.
* Delays 1 to 3 and bursts of two words: BEGIN_RESP before, at and after END_REQ of the same
  transfer; END_RESP at the edge where the next END_REQ arrives.
* Three masters in `ahblt`: an owner and two that compete; the addresses are both ends of each area and
  the first segment behind it.
* `coherence`: `WAYS = 1`, so that the second line evicts the first at once; `FIFO = 1` is the code's;
  with it at most three words are posted and not yet on the bus (FIFO, `mem_access`, the one being put), so
  `WBSLOTS = 3` is the smallest buffer that can work and the one in which the pointer wraps most
  often: the 64 words of the code wrap less. Two values tell stale from current.
  `MMU = FALSE` in the passing run: with TRUE the stray locks (run `coherence_lock`) keep the
  other processor out, and hide the interleavings the other properties are about.
* `gptimer`: `HORIZON = 24` cycles leave room for a start, an underflow and the next one, or an underflow of a
  chained counter, with `MAXWRITES = 3` writes at any cycle (load and start, then two that interfere); reload values 1 to 3
  cover value 0, wrap and restart; prescaler reload values of 1, 3 and 6 give ticks shorter and longer than
  the pulse and announcement of a counter; `WRAP` is beyond the horizon, as 2^64 time units are.
* `alu`: the expressions look at signs, carries and low bits; six bits have all their combinations, and all
  of the properties are proved for any width.
* `intunit`: `WIDTH = 24` so that addresses fit TLC's integers; 4 windows, the program needs 6. `MaxIrq = 1`:
  an interrupt at any point of any handler with traps enabled or of the program; handlers run
  with traps disabled, so a second one only comes after the first is served. Deadlock is not checked in this run, since the processor
  may stop (`StopsOnlyOvertaken`); every other end is what `Terminates` is about.
* No run needs a state constraint or symmetry.

### Fairness

`irqmp_live`: the thread is woken by its event and a released CPU leaves its loop (weak).
A CPU looks at its line before every instruction, so one whose line is raised again and
again takes it although it is lowered in between (strong): this is an
assumption on software, that it does not keep traps disabled or PIL high. `TopServed`
starts from states in which record and line agree; a CPU that is started after its request was
sent has forgotten it (hazard at `processor.cpp:242`).

`ahb_live`: simulated time goes on (weak fairness of the bus threads), and a master that
holds the bus locked eventually asks for an unlocked access (strong, since it may be busy in
between): without that the bus is rightly kept. The masters need not be fair otherwise.

`intunit`: the main loop goes on (`WF(Processor)`) and the interrupt controller takes an
acknowledged request back (`WF(Lower)`, `acknowledged_irq` of irqmp does).

There is no liveness for `AhbLT`: masters poll once a cycle, in an order the kernel picks, and one of
them may find the bus taken for ever. Nor for `Coherence`, which inherits it.

## Divergences

Found while modelling. Those with a run are findings in `PROJECT.json`.

* `ahb_endresp`, `coherence_lock`, `coherence_sem`: see Runs. The second is in the default platform, whose
  `mmu_en` is true (`leon3mp/sc_main.cpp:518`): `tlb_adaptor.h:99` and `nocache.cpp:29` and `:46` hand
  `is_lock` and `cacheable` on in the wrong order.
* irqmp: the force register is added after masking, so a masked line is received, against
  `irqmp.md:111`; the broadcast of line n depends on bit n+1 (`irqmp.cpp:274`), against `irqmp.md:98`;
  the extended identification register is cleared and never set (`irqmp.cpp:449`), against `irqmp.md:130`.
* ahbctrl: fixed priorities prefer the highest id, `ahbctrl.md` says the lowest. A read that was answered before a write is
  snooped may be delivered, and cached, after it, against the comment at `ahbctrl.cpp:602`. An SDRAM write is
  charged one cycle and none for the words (`mctrl.cpp:655`); the response delay of the slave
  (`ahbslave.tpp:124`), delay less words, then wraps, and the bus stays in WAITSTATES.
* gptimer: a chained counter is started at the first underflow of the one before it and then announces its
  own underflow a whole chain period later (`gpcounter.cpp:112`, `:189`), where `gptimer.md:32` lets it
  begin to decrement. IP is written as any other bit. Counter 0 in chain mode indexes out of range.
  A counter that is started within a cycle of a write to the prescaler, or while the prescaler is above its reload
  value, has the tick it starts with counted twice (`numberofticksbetween`, `gptimer.cpp:284`, with the
  correction at `:289`): its second underflow comes a whole tick early, although by `gptimer.md:42` the value is
  decremented once per trigger. The run `gptimer` violates `UnderflowPeriod` that way if `Steady` is taken out of it.
  A counter that is enabled without LD before its VALUE was ever written, loaded, stopped or reset announces its first underflow from VALUE,
  which is 0 (`gptimer.cpp:155`), and counts on from `lastvalue`, which the constructor does not initialise (`gpcounter.cpp:21`): when
  the prescaler is written or its pulse ends, it goes on from an arbitrary value. `UnderflowPeriod` is violated that way if
  `Rearmed` does not ask that the two values agree.
* intunit: an interrupt that comes between a faulting access and its trap is taken first; the deferred
  exception then meets disabled traps and is thrown to the simulation kernel, although the comment at
  `instructions.cpp:117` says a deferred exception is ignored then. The run `intunit` contains the case: `Overtaken` describes it,
  `StopsOnlyOvertaken` says that the processor stops in no other, and `Terminates` excepts it. A fetch
  that faults overwrites a data fault that has not been raised yet (`processor.cpp:115`); the faulting load or store is
  then never repeated. No run has both faults in a row.
  A load that faults writes 0 to its register before the trap (`instructions.cpp:9639`), so one whose register is also
  its address cannot be repeated after a page fault, nor can a SWAP, which would store the 0 (`:3569`); the
  program of the run avoids both.
  STA stores before it checks the privilege (`instructions.cpp:1368`), LDA reads before it (and a read of the
  fault status clears it). LD, LDUH and the alternate loads read before they check the alignment (`:1298`): an unaligned
  one to an absent page traps at once, and its deferred exception then meets disabled traps.
  STDA joins its registers with `||` where STD has `|` (`:8395`, `:8398`) and stores 0 or 1; it asks for alignment to
  a word only (`:8402`). WRITEasr also writes Y (`:2269`).

## Proofs

`IrqmpProofs` proves, for any number of CPUs, cascade line, sources and written values
(assumption `IrqmpAssumption`, which says that they are of the right kind), that
`TypeOK`, `ForceCopiesAgree`, `LineWasSent`, `ServedOnce` and `NothingForgotten` are invariants
and that `PendingKeptUntilServed` and `ForcedUntilOwnAck` hold of every step.

None of the middle three is inductive alone, and their conjunction `IInv` is:

* `LaunchIrq` does not write a request that equals the recorded one, so the line keeps what
  it shows; that it shows the right thing is `LineWasSent`.
* `ServedOnce` survives an acknowledgement or clear because that lowers all lines; it survives
  `LaunchIrq` because a line that is raised, or left, is one of `All(c)`; it needs
  `ForceCopiesAgree` at `force_write`, which rebuilds every CPU's register from the copies.
* `NothingForgotten` needs, at `LaunchIrq`, that `High` is not zero when something regular is
  owed or an extended line enabled, whatever the CPUs before it did to the cascade bit.

One lemma per group of actions, then `NextIInv`, then `SpecIInv` by PTL. The action properties
need per action which lines leave `pending` and `force` (`PendingLost`, `ForcedLost`).

`AhbCtrlProofs` proves the eight safety properties of run `ahb` for any number of masters, pipelined
or not, any number of payloads, and both policies. `TypeOK` is proved for any accesses, those without an answer and those
whose response is lost included: what it says beyond types is that time does not pass over a payload that is due. The other seven
are proved for accesses that are `Punctual`: they
decode to a slave other than the configuration area, and the slave's delay covers the data.
Each exclusion is a defect shown by a run or a hazard: `ahb_endresp` (the configuration area
breaks the reference counts), delays that wrap (Divergences), and the decode error that is
never answered. `StallsEnd` also assumes that the uninitialised state of the data bus is not
WAITSTATES. `MCAhbCtrl` is an instance of these assumptions, so they are not empty.

None of the properties is inductive: that the data phases are disjoint depends on when END_REQ
frees the address bus, that payloads are not reused depends on the reference counts, and that
the counts are right depends on where each payload can be. `IInv` (its parts were model-checked on
the instance of run `ahb`) joins

* `Timing`: END_REQ of a payload comes exactly `words - 1` edges after its BEGIN_RESP, so when
  the address bus is free its data phase has at most one more edge to go; that, and
  not `data_bus_state`, is what keeps data phases apart;
* `Stages`, `Requests`, `Blocking`: a payload waits in one place at a time, a master has one request,
  and one outstanding transfer if it is not pipelined, so no live entry of the maps is overwritten;
* `Phases`: the address bus is owned by the one payload in its address phase;
* `Counted`: the reference count is the number of stages that hold a reference; it makes the
  payload taken by `Issue` one that is in no queue;
* `Loaded`, `Entries`, `Kept` and `TypeOK`.

There is one lemma per action: it first computes how the stages of every payload change, then takes
the conjuncts one by one. `Arbitrate` is split into the edge at which nobody is granted the bus
(`IdleEdgeIInv`) and the one at which somebody is (`GrantIInv`), which rests on `NoneActive`.

`AhbCtrlProofs!ImplementsBus` adds that each step of the arbiter and of the request thread is one of
`LockedBus`, or none: `Arbitrate` acquires, `RequestThread` releases. It rests on `Phases` (the address bus has
one owner) and on the lock being looked at in `Candidates`.

`AhbLTProofs` needs no assumption but that of the module, a memory map of disjoint aligned areas with one at
segment 0. `IInv` is `TypeOK /\ OneTransfer /\ DecodedByMap`. The work is in the decoder: areas that match the same
address are the same (`Disjoint`), the base that `--upper_bound` finds is the base of the area that holds the
address if there is one (`NoBaseWithin`, `Decoder`), and so is the cached one; the last base exists by the
least number principle (`Least`, `LastBaseExists`). `ImplementsBus` maps `Start` to `Acquire`, `Forbid`
to `Refuse` and `Finish` to `Release`.

`AluProofs` is about the operators of `Alu`, for words of any width: `ComputeTyped` says that every arithmetic
instruction yields a word, condition codes and a new Y, or one of the three traps it can raise. The backends know nothing
of powers or bits. Powers of two come from the library's theorem on the number of subsets (`FS_SUBSET`) and `Subsets`, which
counts them again with one element more; that gives `TwoPower` and `PowersAdd`. (The library proves `FS_SUBSET` with a recurrence
for powers that it states without a proof.) The bitwise operations are a recursive function of `Alu`; that
conjunction is between 0 and either operand is `AndBounds`, by the least number for which it would not be.

`AluRunProofs` proves that SUBcc followed by any of seven branches compares
(`Compares`), that additions and subtractions with carry are exact and their overflow is that
of the integers (`Chains`), and that MULScc stays within words (`TypeCorrect`). A sum of words leaves them by at
most one turn (`Wraps`); the rest is a case split on the signs.

`Saturates` is about division: a quotient is a signed word exactly if the bits from its sign upwards are all 0 or
all 1 (`TooLargeForWord`), and the unsigned quotient is a word exactly if the high word is less than the
divisor (`UnsignedQuotient`). The proof does not need the exception the property makes for the one quotient the
host does not compute: the model divides integers.

`Multiplies` is about multiplication by steps. Its invariant `Multiplying` names what the registers stand for after k steps:
acc is the partial product t, an integer that may need one bit more than a word and whose sign is N xor V
(`SumOf`), Y holds the bits m already shifted out above the bits r of b still to come, s is the rest of b, and
`2*a*s = t*2^k + m`. Neither acc nor Y alone says anything of the product, and N and V are the only
trace of the lost bit: that is why `StepAdds` needs the exact carry and overflow of `AddCarries`. The powers of two
are a table `pow` in the invariant, and `PowersOfTwo` that there is such a table for every width.

`CoherenceProofs` proves what run `coherence` checks, for any number of processors with any programs, any
lines and words, one to four ways, and a write buffer of at least three words (the code has 64): `CTypeOK`,
`ValidIsCurrent` and `TsoSpec` with and without an MMU, `LockHasEnd` without one, as `coherence_lock` shows it must be.
`CInv` is the invariant of `AhbLTProofs` (the threads are those of the bus) and

* `ThreadOf`, `LockOfTransfer`: the bus carries for each processor the payload `mem_access` has taken;
* `ReadsLast`: a read is behind all the posted writes of its processor, which waits for it, so what a
  processor reads from the memory is not overtaken by its own stores;
* `SlotsInOrder`: the slots of the posted writes, from the one on the bus to the one that waits to be put, follow each
  other up to the pointer. With at most three posted, the next slot of a buffer of three
  is free when a store takes it: no posted word changes, and `Posted` changes at its ends only;
* `Ahead`: the memory differs from what all processors have seen by the write on the bus, if any, and
  by nothing else; so a read, which had the bus to itself, found what is committed (`ReadIsCurrent`);
* `OneWay`, `FillsOneWay`: a line is never in two ways, and the way a miss has chosen is still the only one
  that may hold it when the fill comes, although the cache was snooped and flushed meanwhile. A store updates one way only, so a
  line in two would leave one of them stale;
* `CacheIsCurrent`: `ValidIsCurrent` for one processor, with `Latest` for what it sees: its
  last posted store to the address, or the committed memory.

Each action has a lemma that says how it changes `Posted` and then takes the parts one by one. The cache stays current
because `Latest` changes in step: at a store (`LatestAppend`) with the word of the cache, at
the end of the transfer of the own oldest store (`LatestCommit`) not at all, and at that of another's store (`LatestElsewhere`) only for
the line that the snoop has removed. `ImplementsTso` uses the same facts: `Store`, `StoreBack` append to the abstract
buffer, `BusFinish` of a write commits its oldest store, `Load` with a hit and `Fill` read, all else stutters.
`LInv` adds that the transfers of a processor that lock are followed by one that unlocks, and that the holder of
the lock still has it to come.

`GPTimerProofs` proves that no register computed from times is ever negative (`TypeCorrect`) and
that no running counter loses its wakeup (`NoLostWakeup`), for one to seven counters, any prescaler, watchdog and
length of a run, and any writes that registers can take (`RegisterWrite`, but for
counter 0 in chain mode, which the code leaves undefined). The functions of `GPCounter` work on counters that need not be
those of the state; each has a lemma from well-typed counters. `CycleDefined` shows that the recursion
over a chain is well-founded, by the least counter for which it would not be. `Scheduled` alone
is not inductive: a counter that is not stopped but disabled would, once enabled, run without an
announcement, since `start()` only starts what is stopped. `GInv` excludes it (`OffIsStopped`): every function that clears
EN is followed by `stop()`. `Settled` and `Controlled` say what the functions and the register writes have
in common: what runs afterwards is announced, or ran before and keeps its announcement.

`Periods`, in the same module and under the same assumptions, is `UnderflowPeriod`: counters that nothing decrements
underflow when decremented ones would, from a start with VALUE and `lastvalue` in agreement on. With the ticks of the prescaler numbered from the one in which it first
reaches zero (`Origin`), `PInv` says that counter n is announced n + 1 cycles after a tick and one or two more (`InPhase`),
and that the number of this tick is that of the tick at which the counter was to reach zero first, plus whole
periods, plus at most the ticks that pass during a pulse (`Skipped`). `TicksCounted` and `ScalerCycles` evaluate the code's
two clocks, `value_read` and `scaler_read`, at such a cycle; `ValueAfterUnderflow` gives the value found at the end of
the pulse and `PeriodNumbers` the next announcement, in phase again because a pulse that skips k ticks is
announced k ticks less (`SkippedGrows`). The delay of a pulse is so never added up over the periods. That is why the
property needs the phase: the time since the last underflow alone is not inductive. The products and quotients of unknowns
are split into facts of `DivUnique`, `Monotone` and `DivShift`, and the rest is linear.

`IntUnitProofs` proves, for every number of windows and word width, every program made of `Instructions`, every memory and
every moment of an interrupt, that `TypeOK` is an invariant (`TypeCorrect`) and that `UserConfined` holds of every step
(`Protects`). Its assumptions are those of the module: the PSR and a page number fit into a word, a word has
four bytes, and WIM, which has a bit for each window, is a word.

* `TypeOK` is inductive, as it says more than that registers are words: a pending exception is one of the two
  an access can raise, with the PC and NPC it came from, for otherwise `RaiseDeferred` would meet a
  trap without a type. The proof has one lemma for each operator, from the fields of an address and the bytes of a word up to
  `behavior`: what it takes from the registers and puts back stays in range. What needs an argument is what
  the code packs into a word: PSR and TBR out of their fields, bytes and half words into the memory (`PowersAdd`
  splits a word where they begin), the table walk, the window registers modulo the windows.
* For `Protects` every operator is shown to leave alone the registers that are the supervisor's and the error flag
  (`Frame`, `Quiet`), or to end in `RaiseException` with an exception of its own (`RaiseConfined`). The accesses of
  an instruction may leave a pending exception, which changes none of these; so instructions compose. WRITEpsr, WRITEwim,
  WRITEtbr and RETT are where it could fail: their privilege is looked at before they write. The vector stays in the trap table as
  the type of a trap fits into the 12 low bits that are replaced (`VectorBase`).

Only model-checked: liveness, which with `ENABLED` is out of the prover's reach (`TopServed`,
`EveryoneServed`, `Terminates`); the violations; and `Transparent` and `StopsOnlyOvertaken`, which are not
properties of the processor alone: they hold of a kernel that saves what its handlers use and a program that avoids
the instructions that cannot be repeated. The run has one such kernel and program, as constants, and a
proof would be about their text. An induction over data is not available
as a rule; where one was needed for a given predicate (`CycleTime`, conjunction, powers, the bases of the memory map) the proofs
take the least counterexample (`Least`). Which bits `And` yields and which entry `WalkTables` finds is not
proved, only that they are words.

## Not modelled

* mctrl, apbctrl, apbuart: functions of one access, without a state that others interleave with; the bus
  serialises their accesses.
* Diagnostic access to cache tags and data, local RAMs, line locks, the choice of the replaced way;
  MMU TLBs (never searched), probe and flush of them.
* In the instruction set simulator: SMAC and UMAC, ASR registers, coprocessor and debugger
  interface, the cycle accurate variant. Counter 0 in chain mode and SDIV of the smallest double word by -1 are
  undefined or stop the host, and are excluded by assumptions.
* Python binding, configuration, logging, power and statistics, debug transport, quantum.

Much of the repository is no subject of a model: of the sixteen thousand lines of `instructions.cpp` and
`registers.cpp` three quarters are generated constructors, `replicate` and printing, and the two forms of each
instruction are the same text twice, of which the map names one; `core/software` holds benchmark programs
and tests that run on the platform, not in it. The lines the map names are those that definitions translate.
`PROJECT.json` lists each component with its reason, and the hazards that no property covers.
