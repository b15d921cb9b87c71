----------------------------- MODULE Coherence -----------------------------
(***************************************************************************)
(* Processors with write-through, snooping data caches on the loosely      *)
(* timed bus: the data path of a load and a store from exec_data through   *)
(* the cache (vectorcache.cpp, line fetch), the write buffer and the FIFO  *)
(* of mmu_cache_base.cpp to the memory, and back.                          *)
(*                                                                         *)
(* Two threads serve a processor: its own, which stops for a read and for  *)
(* a full FIFO, and mem_access, which takes one payload after the other    *)
(* to the bus.  The threads of AhbLT are the mem_access threads.           *)
(***************************************************************************)
EXTENDS AhbLT, Sequences, FiniteSetsExt

CONSTANTS
    Lines,          \* memory lines that share one cache set
    Words,          \* words of a line
    Values,
    Cacheable,      \* lines of a cacheable slave
    WAYS,           \* ways of the set
    WBSLOTS,        \* words that fit in the write buffer
    FIFO,           \* capacity of bus_in_fifo
    MMU,            \* mmu_en: a TLB adaptor sits between cache and bus
    Instructions,   \* what each processor executes: see Instruction
    Modes           \* what it writes into DCS

CPUS == Masters
Addresses == Lines \X Words
LineOf(a) == a[1]
WordOf(a) == a[2]
Ways == 0..(WAYS - 1)
Slots == 0..(WBSLOTS - 1)

\* ASIs 0 to 3 force a miss, 0x1c bypasses the MMU and the cache.  The halves of an
\* atomic instruction with ASI 0x1c are a load and a store.
Instruction ==
    [op : {"load"}, addr : Addresses, asi : {"normal", "miss", "bypass"}]
    \cup [op : {"store"}, addr : Addresses, asi : {"normal", "bypass"}, value : Values]
    \cup [op : {"swap"}, addr : Addresses, asi : {"normal", "miss"}, value : Values]
    \cup [op : {"ldstub"}, addr : Addresses, asi : {"normal", "miss"}]

ASSUME CoherenceAssumption ==
    /\ Lines # {} /\ 0 \in Lines /\ Words # {} /\ {0, 1} \subseteq Values /\ Values \subseteq Nat
    /\ Cacheable \subseteq Lines
    /\ WAYS \in 1..4 /\ WBSLOTS \in Nat \ 0..2 /\ FIFO = 1 /\ MMU \in BOOLEAN
    /\ Accesses = [addr : {0}, write : BOOLEAN, lock : BOOLEAN]
    /\ Instructions \in [CPUS -> SUBSET Instruction]
    /\ Modes \in [CPUS -> SUBSET {"disabled", "frozen", "enabled"}]

VARIABLES
    memory,
    cache,          \* the ways of the set in each data cache: tag, VALID bit, data
    mode,           \* DCS of the cache control register
    cpu,            \* where the thread of the processor is in exec_data
    fifo,           \* bus_in_fifo
    trans,          \* the payload mem_access has taken out of it
    write_buf, wb_pointer,
    result,         \* what the last load returned
    committed       \* history: the memory without the write that is on the bus

cpuvars == <<cpu, fifo, write_buf, wb_pointer, result>>
vars == <<ltvars, memory, cache, mode, cpuvars, trans, committed>>

None == [kind |-> "none"]
\* A load: of the line for the way it was found in (-1: nowhere), or past the cache; the
\* store of an atomic instruction follows it.
Read == [kind : {"read"}, addr : Addresses, lock : BOOLEAN, way : Ways \cup {-1},
         cached : BOOLEAN, next : Values \cup {-1}]
Write == [kind : {"write"}, addr : Addresses, lock : BOOLEAN, slot : Slots]
LineData == [Words -> Values]

Run == [pc |-> "run"]

CTypeOK ==
    /\ TypeOK
    /\ memory \in [Addresses -> Values] /\ committed \in [Addresses -> Values]
    /\ cache \in [CPUS -> [Ways -> [tag : Lines, valid : BOOLEAN, data : LineData]]]
    /\ mode \in [CPUS -> {"disabled", "frozen", "enabled"}]
    /\ cpu \in [CPUS -> {Run} \cup [pc : {"put"}, trans : Read \cup Write]
                              \cup [pc : {"wait"}, trans : Read]
                              \cup [pc : {"done"}, trans : Read, data : LineData]
                              \cup [pc : {"store"}, addr : Addresses, value : Values]]
    /\ fifo \in [CPUS -> Seq(Read \cup Write)] /\ \A c \in CPUS : Len(fifo[c]) =< FIFO
    /\ trans \in [CPUS -> Read \cup Write \cup {None}]
    /\ write_buf \in [CPUS -> [Slots -> Values]] /\ wb_pointer \in [CPUS -> Slots]
    /\ result \in [CPUS -> Values]

CInit ==
    /\ Init
    /\ memory = [a \in Addresses |-> 0]
    /\ cache = [c \in CPUS |-> [w \in Ways |->
                    [tag |-> 0, valid |-> FALSE, data |-> [i \in Words |-> 0]]]]
    /\ mode = [c \in CPUS |-> "disabled"]
    /\ cpu = [c \in CPUS |-> Run]
    /\ fifo = [c \in CPUS |-> <<>>]
    /\ trans = [c \in CPUS |-> None]
    /\ write_buf = [c \in CPUS |-> [s \in Slots |-> 0]]
    /\ wb_pointer = [c \in CPUS |-> 0]
    /\ result = [c \in CPUS |-> 0]
    /\ committed = memory

----------------------------------------------------------------------------
(* The cache: vectorcache.cpp with m_new_linefetch_en *)

Hits(c, a) == {w \in Ways : cache[c][w].tag = LineOf(a) /\ cache[c][w].valid}

\* locate_line: the first way that hits, or -1.
LocateLine(c, a) == IF Hits(c, a) = {} THEN -1 ELSE Min(Hits(c, a))

\* mem_read and mem_write of the cache look at it at all.
Bypass(c, asi) == asi = "bypass" \/ mode[c] = "disabled"

\* update_line with a whole line.
UpdateLine(c, w, line, data) ==
    cache' = [cache EXCEPT ![c][w] = [tag |-> line, valid |-> TRUE, data |-> data]]

\* allocate_line: the first way without a valid line, or the one the replacement
\* strategy selects.
AllocateLine(c, line, data) ==
    LET invalid == {w \in Ways : ~cache[c][w].valid}
    IN  IF invalid # {} THEN UpdateLine(c, Min(invalid), line, data)
        ELSE \E w \in Ways : UpdateLine(c, w, line, data)

\* snoop_invalidate: the cache after another master wrote the line.
SnoopInvalidate(c, line) ==
    [w \in Ways |-> IF cache[c][w].tag = line THEN [cache[c][w] EXCEPT !.valid = FALSE]
                    ELSE cache[c][w]]

\* snoopingCallBack of every cache.
Snoop(m, line) ==
    cache' = [c \in CPUS |-> IF c # m /\ mode[c] # "disabled" THEN SnoopInvalidate(c, line)
                             ELSE cache[c]]

----------------------------------------------------------------------------
(* The thread of a processor *)

\* bus_in_fifo.put: mem_read then waits for bus_read_completed, mem_write returns.
Schedule(c, t) ==
    IF Len(fifo[c]) < FIFO
    THEN /\ fifo' = [fifo EXCEPT ![c] = Append(@, t)]
         /\ cpu' = [cpu EXCEPT ![c] = IF t.kind = "read" THEN [pc |-> "wait", trans |-> t] ELSE Run]
    ELSE /\ cpu' = [cpu EXCEPT ![c] = [pc |-> "put", trans |-> t]]
         /\ UNCHANGED fifo

Put(c) ==
    /\ cpu[c].pc = "put" /\ Len(fifo[c]) < FIFO
    /\ Schedule(c, cpu[c].trans)
    /\ UNCHANGED <<ltvars, memory, cache, mode, trans, write_buf, wb_pointer, result, committed>>

\* The instruction is over, or goes on to its store.
Loaded(c, a, value, next) ==
    /\ result' = [result EXCEPT ![c] = value]
    /\ cpu' = [cpu EXCEPT ![c] = IF next = -1 THEN Run
                                 ELSE [pc |-> "store", addr |-> a, value |-> next]]

\* mem_read of the cache.  The asi of a forced miss is "miss", that of the MMU bypass
\* "bypass"; a hit does not get as far as the bus, a locked one neither.
Load(c, a, asi, lock, next) ==
    /\ cpu[c].pc = "run"
    /\ LET way == IF Bypass(c, asi) THEN -1 ELSE LocateLine(c, a)
       IN  IF way # -1 /\ asi # "miss"
           THEN /\ Loaded(c, a, cache[c][way].data[WordOf(a)], next)
                /\ UNCHANGED fifo
           ELSE /\ Schedule(c, [kind |-> "read", addr |-> a, lock |-> lock, way |-> way,
                                cached |-> ~Bypass(c, asi), next |-> next])
                /\ UNCHANGED result
    /\ UNCHANGED <<ltvars, memory, cache, mode, trans, write_buf, wb_pointer, committed>>

\* bus_read_completed: the line goes into the way it was found in, or into a new one.
Fill(c) ==
    /\ cpu[c].pc = "done"
    /\ LET t == cpu[c].trans
           line == LineOf(t.addr)
       IN  /\ IF t.cached /\ t.way # -1 THEN UpdateLine(c, t.way, line, cpu[c].data)
              ELSE IF t.cached /\ mode[c] = "enabled" /\ line \in Cacheable
                   THEN AllocateLine(c, line, cpu[c].data)
                   ELSE UNCHANGED cache
           /\ Loaded(c, t.addr, cpu[c].data[WordOf(t.addr)], t.next)
    /\ UNCHANGED <<ltvars, memory, mode, fifo, trans, write_buf, wb_pointer, committed>>

\* Mutant: one slot for all writes.
SameSlot(p) == p

\* Mutant: the pointer runs past the end of the buffer.
NoWrap(p) == p + 1

NextSlot(p) == (p + 1) % WBSLOTS

\* Mutant: the word of a line that is present stays as it is.
WriteAround(c, a, v, asi) == UNCHANGED cache

\* mem_write of the cache: the word of a line that is present is replaced.
WriteHit(c, a, v, asi) ==
    IF Bypass(c, asi) \/ LocateLine(c, a) = -1 THEN UNCHANGED cache
    ELSE cache' = [cache EXCEPT ![c][LocateLine(c, a)].data[WordOf(a)] = v]

\* Mutant: the second half of a SWAP is locked like the first.
StillLocked(c, asi) == is_lock /\ lock_master = c

\* The instructions lock no store, the second halves of SWAP and LDSTUB neither.  The
\* mem_write of the TLB adaptor hands its last two arguments on in the wrong order: with
\* an MMU the lock is the flag for cacheable, which is set unless a page says otherwise.
StoreLock(c, asi) == MMU /\ asi # "bypass"

\* mem_write of the cache and of mmu_cache_base.
StoreWord(c, a, v, asi) ==
    /\ WriteHit(c, a, v, asi)
    /\ write_buf' = [write_buf EXCEPT ![c][wb_pointer[c]] = v]
    /\ wb_pointer' = [wb_pointer EXCEPT ![c] = NextSlot(@)]
    /\ Schedule(c, [kind |-> "write", addr |-> a, lock |-> StoreLock(c, asi), slot |-> wb_pointer[c]])
    /\ UNCHANGED <<ltvars, memory, mode, trans, result, committed>>

\* Software does not write past a cache that holds the word: neither the cache nor the
\* snooping of its own write would notice.
BypassRule(c, a, asi) == asi = "bypass" => Hits(c, a) = {}

Store(c, a, v, asi) ==
    /\ cpu[c].pc = "run"
    /\ BypassRule(c, a, asi)
    /\ StoreWord(c, a, v, asi)

\* The second half of LDSTUB and SWAP.
StoreBack(c) ==
    /\ cpu[c].pc = "store"
    /\ StoreWord(c, cpu[c].addr, cpu[c].value, "normal")

Flushed(c) == [w \in Ways |-> [cache[c][w] EXCEPT !.valid = FALSE]]

\* A write with ASI 0x16.
Flush(c) ==
    /\ cpu[c].pc = "run"
    /\ cache' = [cache EXCEPT ![c] = Flushed(c)]
    /\ UNCHANGED <<ltvars, memory, mode, cpuvars, trans, committed>>

\* Software flushes a cache that it enables: a disabled cache does not follow the memory.
EnableRule(c, new, fd) == mode[c] = "disabled" /\ new # "disabled" => fd

\* write_ccr with a new DCS and FD.
WriteCcr(c, new, fd) ==
    /\ cpu[c].pc = "run"
    /\ EnableRule(c, new, fd)
    /\ mode[c] # new
    /\ mode' = [mode EXCEPT ![c] = new]
    /\ cache' = IF fd THEN [cache EXCEPT ![c] = Flushed(c)] ELSE cache
    /\ UNCHANGED <<ltvars, memory, cpuvars, trans, committed>>

----------------------------------------------------------------------------
(* The mem_access thread and the bus *)

\* nb_get and the call of ahbaccess.
MemAccess(c) ==
    /\ trans[c] = None /\ fifo[c] # <<>>
    /\ LET t == Head(fifo[c])
       IN  /\ trans' = [trans EXCEPT ![c] = t]
           /\ Request(c, [addr |-> 0, write |-> t.kind = "write", lock |-> t.lock])
    /\ fifo' = [fifo EXCEPT ![c] = Tail(@)]
    /\ UNCHANGED <<memory, cache, mode, cpu, write_buf, wb_pointer, result, committed>>

\* The memory does its work when the access starts.
BusStart(c) ==
    /\ Start(c)
    /\ memory' = IF trans[c].kind = "write"
                 THEN [memory EXCEPT ![trans[c].addr] = write_buf[c][trans[c].slot]] ELSE memory
    /\ UNCHANGED <<cache, mode, cpuvars, trans, committed>>

\* A transfer takes a cycle; the reader of the one before runs on as soon as it is over.
TimePassed == \A c \in CPUS : cpu[c].pc # "done"

\* The access is over: a write is snooped, a read wakes up the processor.  What a read
\* found is what was in the memory when it started, for nobody else had the bus.  (A slot
\* of the write buffer that no payload points to is never read; here it is cleared.)
BusFinish(c) ==
    /\ TimePassed
    /\ Finish(c)
    /\ trans' = [trans EXCEPT ![c] = None]
    /\ committed' = memory
    /\ IF trans[c].kind = "write"
       THEN Snoop(c, LineOf(trans[c].addr)) /\ UNCHANGED cpu
       ELSE /\ cpu' = [cpu EXCEPT ![c] = [pc |-> "done", trans |-> trans[c],
                        data |-> [i \in Words |-> memory[<<LineOf(trans[c].addr), i>>]]]]
            /\ UNCHANGED cache
    /\ write_buf' = IF trans[c].kind = "write"
                    THEN [write_buf EXCEPT ![c][trans[c].slot] = 0] ELSE write_buf
    /\ UNCHANGED <<memory, mode, fifo, wb_pointer, result>>

----------------------------------------------------------------------------
\* LDSTUB and LDSTUBA read unlocked, SWAP and SWAPA locked.
Execute(c, i) ==
    CASE i.op = "load" -> Load(c, i.addr, i.asi, FALSE, -1)
      [] i.op = "store" -> Store(c, i.addr, i.value, i.asi)
      [] i.op = "swap" -> Load(c, i.addr, i.asi, TRUE, i.value)
      [] i.op = "ldstub" -> Load(c, i.addr, i.asi, FALSE, 1)

Program(c) ==
    \/ \E i \in Instructions[c] : Execute(c, i)
    \/ Flush(c)
    \/ \E new \in Modes[c], fd \in BOOLEAN : WriteCcr(c, new, fd)

CNext ==
    \E c \in CPUS :
        \/ Program(c)
        \/ Put(c) \/ Fill(c) \/ StoreBack(c)
        \/ MemAccess(c) \/ BusStart(c) \/ BusFinish(c)

CSpec == CInit /\ [][CNext]_vars

----------------------------------------------------------------------------
(* What the memory system promises *)

\* The payloads of a processor that are not on the memory yet are in three places: the
\* transfer, the FIFO, which has room for one, and the thread that waits to put its own.
InFifo(c) == IF fifo[c] = <<>> THEN None ELSE Head(fifo[c])
ToPut(c) == IF cpu[c].pc = "put" THEN cpu[c].trans ELSE None

\* The write buffer: the word each posted write will put on the bus, the oldest first.
Word(c, t) ==
    IF t.kind = "write" THEN <<[addr |-> t.addr, value |-> write_buf[c][t.slot]]>> ELSE <<>>
Posted(c) == Word(c, trans[c]) \o Word(c, InFifo(c)) \o Word(c, ToPut(c))

buffer == [c \in CPUS |-> Posted(c)]

\* The processors, their caches, posted writes and the bus together are a memory with total
\* store order: a load returns the last own store that is still posted, or what every
\* processor sees, although caches are only told of a write after the memory has changed.
Order == INSTANCE Tso WITH
            mem <- committed, InitialMemory <- [a \in Addresses |-> 0]
TsoSpec == Order!Spec

\* A valid word of a cache in use is what its processor must see: the memory, but for own
\* posted writes, and for a write of another that is on the bus and not yet snooped.
ValidIsCurrent ==
    \A c \in CPUS, w \in Ways, i \in Words :
        cache[c][w].valid /\ mode[c] # "disabled" =>
            cache[c][w].data[i] = Order!Seen(c, <<cache[c][w].tag, i>>)

\* A processor that has the bus locked is in a SWAP whose store will unlock it, posted or
\* still to come: the lock is never left behind.
LockHasEnd ==
    is_lock =>
        \/ cpu[lock_master].pc \in {"wait", "done"} /\ cpu[lock_master].trans.lock
        \/ cpu[lock_master].pc = "store"
        \/ Posted(lock_master) # <<>>

----------------------------------------------------------------------------
(* What a test says, which the code does not do *)

\* Two processors that test and set the same word: one at most finds it clear.
TestAndSet ==
    \A c, d \in CPUS :
        /\ c # d /\ cpu[c].pc = "store" /\ cpu[d].pc = "store"
        /\ cpu[c].addr = cpu[d].addr
        => ~(result[c] = 0 /\ result[d] = 0)
=============================================================================
