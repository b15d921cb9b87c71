------------------------------ MODULE GPTimer ------------------------------
(***************************************************************************)
(* The general purpose timer: a free running prescaler and counters that   *)
(* are not counted at all.  A register is computed when it is read, from   *)
(* the value and the time it was last known; a thread per counter sleeps   *)
(* until the cycle for which calculate() has announced the underflow.      *)
(*                                                                         *)
(* Time is counted in clock cycles.  The processor makes at most one write *)
(* a cycle, before or after the threads that wake up in it.                *)
(***************************************************************************)
EXTENDS Integers

CONSTANTS
    NTimers,        \* ntimers
    SMAX,           \* 2^sbits - 1
    IRQ, SI,        \* the first interrupt line; a line for each counter
    WDOG,           \* the initial watchdog period, 0 for none
    WRAP,           \* 2^64 units of time in cycles: a negative difference wraps
    Junk,           \* values of a counter that nothing has initialised
    Writes,         \* the register writes of the software, see Write
    HORIZON, MAXWRITES      \* bounds of a run, not of the code

Counters == 0..(NTimers - 1)
Last == NTimers - 1
None == -1

\* What the software writes: the bits of a control register, or a number.
Control == [en : BOOLEAN, rs : BOOLEAN, ld : BOOLEAN, ie : BOOLEAN, ch : BOOLEAN, ip : BOOLEAN]
RegisterWrite ==
    [reg : {"ctrl"}, nr : Counters, ctrl : Control]
    \cup [reg : {"value", "reload"}, nr : Counters, value : Nat]
    \cup [reg : {"scaler", "screload"}, value : Nat] \cup [reg : {"rst"}]

\* gpcounter.cpp takes counter[-1] when counter 0 is chained, which is undefined: the
\* software does not.  screload + 1 is not 0.
ASSUME GPTimerAssumption ==
    /\ NTimers \in 1..7 /\ SMAX \in Nat \ {0} /\ IRQ \in 0..31 /\ SI \in BOOLEAN
    /\ HORIZON \in Nat /\ MAXWRITES \in Nat
    /\ WDOG \in Nat /\ WRAP \in Nat /\ WRAP > HORIZON /\ Junk \subseteq Nat
    /\ Writes \subseteq RegisterWrite
    /\ \A w \in Writes : w.reg = "ctrl" /\ w.ctrl.ch => w.nr # 0

VARIABLES
    now, writes, written,   \* the time; writes so far, whether one was made this cycle
    scaler,         \* [reload, lasttime, lastvalue]
    counter,        \* the registers and the members of each GPCounter; value is the register
                    \* of a counter while it is stopped: it is computed before every use else
    thread,         \* ticking() of each counter: its wait, the line it has raised
    irq, wdog,      \* the raised interrupt lines, the watchdog output
    armed           \* history: what the next underflow is measured from, per counter

gpvars == <<now, writes, written, scaler, counter, thread, irq, wdog, armed>>

----------------------------------------------------------------------------
(* Computed registers *)

CRem(a, b) == IF a >= 0 THEN a % b ELSE -((-a) % b)        \* % and / of C
CDiv(a, b) == IF a >= 0 THEN a \div b ELSE -((-a) \div b)

\* valueof: sc_time is unsigned.
ValueOf(s, t, offset, cycle) ==
    LET d == t - s.lasttime - ((1 + offset) * cycle)
    IN  s.lastvalue - ((IF d >= 0 THEN d ELSE WRAP + d) \div cycle) + 1

NumberOfTicksBetween(s, a, b, offset, cycle) ==
    LET reload == s.reload + 1
        va == ValueOf(s, a, 0, cycle)
        vb == ValueOf(s, b, offset, cycle)
        n == CDiv(va, reload) + (IF va > 0 /\ vb < 0 THEN 1 ELSE 0) - CDiv(vb, reload)
    IN  IF n >= 0 THEN n ELSE -n

\* scaler_read
Scaler(s) ==
    LET reload == s.reload + 1
        v == CRem(ValueOf(s, now, 0, 1) - reload, reload)
    IN  IF v < 0 THEN reload + v - 1 ELSE reload - v

\* Mutant: as many cycles as the reload value.
CycleTimeShort(s, c) ==
    LET cycle[n \in Counters] == IF c[n].ch THEN cycle[n - 1] * c[n - 1].reload ELSE s.reload
    IN  cycle

\* cycletime: of the prescaler, times the reload values of the chain.
CycleTime(s, c) ==
    LET cycle[n \in Counters] ==
            IF c[n].ch THEN cycle[n - 1] * (c[n - 1].reload + 1) ELSE s.reload + 1
    IN  cycle

\* Mutant: a value below zero is left as it is.
ValueUnwrapped(s, c, n) ==
    LET k == c[n]
    IN  IF k.stopped THEN k.value
        ELSE CRem(k.lastvalue - NumberOfTicksBetween(s, k.lasttime, now, n + 2, 1), k.reload + 1)

\* value_read and the register it leaves: that of a stopped counter is left alone.
Value(s, c, n) ==
    LET k == c[n]
        ticks == IF k.ch
                 THEN NumberOfTicksBetween(s, k.lasttime, now, 0, CycleTime(s, c)[n - 1])
                 ELSE NumberOfTicksBetween(s, k.lasttime, now, n + 2, 1)
        v == CRem(k.lastvalue - ticks, k.reload + 1)
    IN  CASE k.stopped -> k.value
          [] ~k.stopped /\ v >= 0 -> v
          [] OTHER -> IF k.rs THEN k.reload + 1 + v ELSE SMAX

\* nextzero: the next tick of the prescaler or of the counter before.
NextZero(s, c, n) ==
    IF c[n].ch THEN CycleTime(s, c)[n - 1] * (Value(s, c, n - 1) + 2) ELSE Scaler(s) + 2

----------------------------------------------------------------------------
(* The functions of GPCounter, on the counters c *)

Calculate(s, c, n) ==
    [c EXCEPT ![n].e_wait =
        IF c[n].en THEN now + NextZero(s, c, n) + (CycleTime(s, c)[n] * Value(s, c, n)) + n + 1
                   ELSE None]

\* start: the time is announced before the counter counts as running.
Start(s, c, n) ==
    IF c[n].stopped /\ c[n].en /\ (c[n].ch => c[n].chain_run)
    THEN [Calculate(s, [c EXCEPT ![n].lasttime = now], n) EXCEPT ![n].stopped = FALSE]
    ELSE c

Stop(s, c, n) ==
    LET v == Value(s, c, n)
    IN  IF c[n].stopped THEN c
        ELSE [c EXCEPT ![n] = [c[n] EXCEPT !.e_wait = None, !.value = v, !.lastvalue = v,
                                           !.lasttime = now, !.stopped = TRUE]]

\* value_write, with the register written.
SetValue(s, c, n, v) ==
    LET d == [c EXCEPT ![n].value = v, ![n].lastvalue = v, ![n].lasttime = now]
    IN  IF c[n].stopped THEN d ELSE Calculate(s, d, n)

\* ctrl_write, with the register written: unchain, load, start or stop.
SetCtrl(s, c, n, w) ==
    LET c1 == [c EXCEPT ![n].en = w.en, ![n].rs = w.rs, ![n].ie = w.ie, ![n].ch = w.ch,
                        ![n].m_pirq = w.ip]
        c2 == IF w.ch THEN Stop(s, [c1 EXCEPT ![n].chain_run = FALSE], n) ELSE c1
        c3 == IF w.ld THEN SetValue(s, c2, n, c2[n].reload) ELSE c2
    IN  IF w.en THEN Start(s, c3, n) ELSE Stop(s, c3, n)

Chaining(s, c, n) == Start(s, [c EXCEPT ![n].chain_run = TRUE], n)

\* scaler_write: calculate() for every counter, running or not; none reads what another
\* has announced.
Recalculated(s, c) == [n \in Counters |-> Calculate(s, c, n)[n]]

Running(c, n) == c[n].en /\ ~c[n].stopped

----------------------------------------------------------------------------
(* Writes of the software *)

Unarmed == [at |-> None, value |-> 0]

\* History: a write that starts a counter from its own prescaler arms it, if the counter
\* goes on from its register and unless the pulse of its last underflow is not over; every
\* other write that can change its time disarms it.
Rearmed(c, n) ==
    IF /\ counter[n].stopped /\ Running(c, n) /\ ~c[n].ch /\ thread[n].until = None
       /\ c[n].lastvalue = c[n].value
    THEN [at |-> now, value |-> c[n].lastvalue] ELSE Unarmed

Written ==
    /\ ~written /\ written' = TRUE
    /\ writes < MAXWRITES /\ writes' = writes + 1
    /\ UNCHANGED <<now, thread, irq>>

WriteCounter(n, c) ==
    /\ Written
    /\ counter' = c
    /\ armed' = [armed EXCEPT ![n] = Rearmed(c, n)]
    /\ UNCHANGED <<scaler, wdog>>

WriteCtrl(n, w) == WriteCounter(n, SetCtrl(scaler, counter, n, w))
WriteValue(n, v) == WriteCounter(n, SetValue(scaler, counter, n, v))
\* The register has no callback.
WriteReload(n, v) == WriteCounter(n, [counter EXCEPT ![n].reload = v])

SetScaler(s) ==
    /\ Written
    /\ scaler' = s
    /\ counter' = Recalculated(s, counter)
    /\ armed' = [n \in Counters |-> Unarmed]
    /\ UNCHANGED wdog

WriteScaler(v) == SetScaler([scaler EXCEPT !.lasttime = now, !.lastvalue = v])
WriteScReload(v) == SetScaler([reload |-> v, lasttime |-> now, lastvalue |-> v])

\* dorst: what do_reset leaves alone is e_wait, recalculated just before, and m_pirq.
Watchdog == [en |-> TRUE, rs |-> FALSE, ld |-> TRUE, ie |-> TRUE, ch |-> FALSE, ip |-> FALSE]
Reset ==
    /\ Written
    /\ scaler' = [reload |-> SMAX, lasttime |-> now, lastvalue |-> SMAX]
    /\ LET c1 == Recalculated(scaler', counter)
           c2 == [n \in Counters |->
                    [c1[n] EXCEPT !.en = FALSE, !.rs = FALSE, !.ie = FALSE, !.ch = FALSE,
                        !.reload = 0, !.value = 0, !.lastvalue = 0, !.lasttime = now,
                        !.stopped = TRUE, !.chain_run = FALSE]]
       IN  /\ counter' = IF WDOG = 0 THEN c2
                         ELSE SetCtrl(scaler', [c2 EXCEPT ![Last].reload = WDOG], Last, Watchdog)
    /\ wdog' = FALSE
    /\ armed' = [n \in Counters |-> Unarmed]

Write ==
    \/ \E w \in Writes :
        \/ w.reg = "ctrl" /\ WriteCtrl(w.nr, w.ctrl)
        \/ w.reg = "value" /\ WriteValue(w.nr, w.value)
        \/ w.reg = "reload" /\ WriteReload(w.nr, w.value)
        \/ w.reg = "scaler" /\ WriteScaler(w.value)
        \/ w.reg = "screload" /\ WriteScReload(w.value)
        \/ w.reg = "rst" /\ Reset

----------------------------------------------------------------------------
(* ticking() *)

Line(n) == IF SI THEN IRQ + n ELSE IRQ
Waiting(n) == thread[n].until = None

\* e_wait: the underflow.  A restarted counter is measured from here.
Underflow(n) ==
    /\ Waiting(n) /\ counter[n].e_wait = now
    /\ thread' = [thread EXCEPT ![n].until = now + 1,
                                ![n].irqnr = IF counter[n].ie THEN Line(n) ELSE @]
    /\ irq' = IF counter[n].ie THEN irq \cup {Line(n)} ELSE irq
    /\ counter' = [counter EXCEPT ![n].e_wait = None, ![n].m_pirq = @ \/ counter[n].ie]
    /\ wdog' = (wdog \/ (n = Last /\ WDOG # 0))
    /\ armed' = [armed EXCEPT ![n] = IF @.at # None /\ counter[n].rs
                                     THEN [at |-> now, value |-> counter[n].reload] ELSE Unarmed]
    /\ UNCHANGED <<now, writes, written, scaler>>

\* EN takes the value of RS.
Restart(c, n) ==
    LET d == [c EXCEPT ![n].en = c[n].rs]
    IN  IF c[n].rs THEN d ELSE Stop(scaler, d, n)

\* Mutant: the next underflow is not announced.
NotAgain(c, n) == [c EXCEPT ![n].e_wait = None]

\* The head of the loop.
Again(c, n) == Calculate(scaler, c, n)

\* A cycle later: the line falls unless its bit has been cleared, the next counter of
\* the chain is started, and the loop begins again.
PulseEnd(n) ==
    /\ thread[n].until = now
    /\ thread' = [thread EXCEPT ![n].until = None]
    /\ irq' = IF counter[n].m_pirq /\ thread[n].irqnr # 0 THEN irq \ {thread[n].irqnr} ELSE irq
    /\ wdog' = (wdog /\ ~(n = Last /\ WDOG # 0))
    /\ LET nrn == (n + 1) % NTimers
           c == IF counter[nrn].ch THEN Chaining(scaler, counter, nrn) ELSE counter
       IN  counter' = Again(Restart(c, n), n)
    /\ UNCHANGED <<now, writes, written, scaler, armed>>

\* Time passes when no thread has anything left to do in this cycle.
Tick ==
    /\ now < HORIZON /\ now' = now + 1 /\ written' = FALSE
    /\ \A n \in Counters : counter[n].e_wait # now /\ thread[n].until # now
    /\ UNCHANGED <<writes, scaler, counter, thread, irq, wdog, armed>>

\* Where a run is cut off.
End == now = HORIZON /\ UNCHANGED gpvars

\* After the constructors: the prescaler has counted from 0, VALUE is 0 and lastvalue is
\* not initialised.
Init ==
    /\ now = 0 /\ writes = 0 /\ written = FALSE
    /\ scaler = [reload |-> SMAX, lasttime |-> 0, lastvalue |-> 0]
    /\ \E junk \in Junk, pirq \in BOOLEAN :
        counter = [n \in Counters |->
            [en |-> FALSE, rs |-> FALSE, ie |-> FALSE, ch |-> FALSE, reload |-> 1,
             value |-> 0, lastvalue |-> junk, lasttime |-> 0, stopped |-> TRUE, chain_run |-> FALSE,
             m_pirq |-> pirq, e_wait |-> None]]
    /\ thread = [n \in Counters |-> [until |-> None, irqnr |-> 0]]
    /\ irq = {} /\ wdog = FALSE
    /\ armed = [n \in Counters |-> Unarmed]

Next ==
    \/ Write \/ Tick \/ End
    \/ \E n \in Counters : Underflow(n) \/ PulseEnd(n)

Spec == Init /\ [][Next]_gpvars

----------------------------------------------------------------------------
(* Properties *)

\* Every variable has its type; in particular no computed register is negative, whatever
\* differences of times wrap.
TypeOK ==
    /\ now \in 0..HORIZON /\ writes \in 0..MAXWRITES /\ written \in BOOLEAN /\ wdog \in BOOLEAN
    /\ scaler \in [reload : Nat, lasttime : 0..now, lastvalue : Nat]
    /\ counter \in [Counters ->
        [en : BOOLEAN, rs : BOOLEAN, ie : BOOLEAN, ch : BOOLEAN, m_pirq : BOOLEAN,
         stopped : BOOLEAN, chain_run : BOOLEAN, reload : Nat, value : Nat, lastvalue : Nat,
         lasttime : 0..now, e_wait : Nat \cup {None}]]
    /\ thread \in [Counters -> [until : {None, now, now + 1}, irqnr : 0..(31 + NTimers)]]
    /\ irq \subseteq 0..(31 + NTimers)
    /\ armed \in [Counters -> [at : 0..now \cup {None}, value : Nat]]

\* A counter that runs never loses its wakeup: its next underflow is announced for a
\* cycle to come, or its thread is about to announce it.
Scheduled ==
    \A n \in Counters : Running(counter, n) =>
        \/ counter[n].e_wait >= now
        \/ thread[n].until \in {now, now + 1}

\* The prescaler had counted down, from no more than its reload value, for more than a
\* cycle when the counter was started.
Steady(n) ==
    /\ scaler.lastvalue =< scaler.reload
    /\ counter[n].lasttime > scaler.lasttime + 1

\* The distance of two underflows, or of a start and the first, is that of a counter
\* that is decremented.  From the start to the first underflow it is more than the ticks
\* the value stands for, and at most one tick and the n + 4 cycles of pulse and
\* announcement more.  From then on it is the tick times the reload value plus one, or a
\* cycle less the first time, if a tick is longer than those n + 4 cycles; they may be added
\* if it is not.  This holds if the reload value of the prescaler is at least the number of
\* counters, as gptimer.md requires, if the software leaves the prescaler and this counter
\* alone meanwhile, if the prescaler was steady (if not, numberofticksbetween counts the tick
\* it starts with twice), and if the counter was started from its VALUE register: one that
\* was never loaded, written, stopped or reset announces its underflow from the register,
\* which is 0, and counts from lastvalue, which nothing has initialised.
UnderflowPeriod ==
    [][\A n \in Counters :
        Underflow(n) /\ armed[n].at # None /\ scaler.reload >= NTimers /\ Steady(n) =>
            LET tick == scaler.reload + 1
                period == (armed[n].value + 1) * tick
                elapsed == now - armed[n].at
                restarted == armed[n].at > counter[n].lasttime
            IN  /\ elapsed > armed[n].value * tick
                /\ elapsed =< period + n + 4
                /\ restarted => elapsed >= period - 1
                /\ restarted /\ tick > n + 4 => elapsed =< period]_gpvars
=============================================================================
