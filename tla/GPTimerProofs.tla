--------------------------- MODULE GPTimerProofs ---------------------------
(***************************************************************************)
(* Proofs about GPTimer: for any number of counters, any prescaler, any    *)
(* writes of the software and any run of the clock, no computed register   *)
(* leaves its type and no running counter loses its wakeup.                *)
(*                                                                         *)
(* The operators of GPTimer work on a prescaler s and counters c that need *)
(* not be those of the state: each has a lemma that says what it yields    *)
(* from values of the right type, and the lemmas of the actions follow.    *)
(***************************************************************************)
EXTENDS GPTimer, NaturalsInduction, WellFoundedInduction, TLAPS

\* The registers of a counter, and the prescaler, at time t.
CounterAt(t) ==
    [en : BOOLEAN, rs : BOOLEAN, ie : BOOLEAN, ch : BOOLEAN, m_pirq : BOOLEAN,
     stopped : BOOLEAN, chain_run : BOOLEAN, reload : Nat, value : Nat, lastvalue : Nat,
     lasttime : 0..t, e_wait : Nat \cup {None}]
PrescalerAt(t) == [reload : Nat, lasttime : 0..t, lastvalue : Nat]

\* Counters of that type of which the first is not chained.
CountersAt(t) == {c \in [Counters -> CounterAt(t)] : ~c[0].ch}

\* What the invariant of the counters needs beyond its own statement: a counter that is
\* not stopped is enabled.  Otherwise enabling it would let it run without an
\* announcement, since start() does nothing for a counter that is not stopped.
OffIsStopped(c) == \A n \in Counters : ~c[n].stopped => c[n].en

\* Whatever runs in d is announced, or ran in c and waits for what it waited for.
Continues(c, d) ==
    \A n \in Counters : Running(d, n) =>
        d[n].e_wait >= now \/ (Running(c, n) /\ d[n].e_wait = c[n].e_wait)

\* The inductive invariant.
GInv == TypeOK /\ Scheduled /\ ~counter[0].ch /\ OffIsStopped(counter)

----------------------------------------------------------------------------
(* Numbers *)

LEMMA Least ==
    ASSUME NEW S \in SUBSET Nat, S # {}
    PROVE  \E k \in S : \A m \in S : k =< m
<1>1. IsWellFoundedOn(OpToRel(<, Nat), Nat)
  BY NatLessThanWellFounded
<1>2. \E k \in S : \A m \in S : ~(<<m, k>> \in OpToRel(<, Nat))
  BY <1>1, WFMin, Zenon
<1>3. \E k \in S : \A m \in S : ~(m < k)
  BY <1>2, Zenon DEF OpToRel
<1> QED BY <1>3

LEMMA Remainder ==
    ASSUME NEW a \in Int, NEW b \in Nat \ {0}
    PROVE  CRem(a, b) \in Int /\ CRem(a, b) < b /\ -b < CRem(a, b)
<1>1. \A x \in Int : x % b \in 0..(b - 1)
  OBVIOUS
<1> QED BY <1>1 DEF CRem

LEMMA Quotient ==
    ASSUME NEW a \in Int, NEW b \in Nat \ {0}
    PROVE  CDiv(a, b) \in Int
<1>1. \A x \in Int : x \div b \in Int
  OBVIOUS
<1> QED BY <1>1 DEF CDiv

LEMMA Product ==
    ASSUME NEW a \in Nat, NEW b \in Nat
    PROVE  a * b \in Nat /\ (a # 0 /\ b # 0 => a * b # 0)
OBVIOUS

LEMMA CountersNumbers == 0 \in Counters /\ Last \in Counters /\ Counters = 0..Last /\ Counters \subseteq Nat
BY GPTimerAssumption DEF Counters, Last

----------------------------------------------------------------------------
(* Computed registers *)

\* The cycle times of a chain are defined, by the least counter for which they would
\* not be, and that of a counter that is not chained is a tick of the prescaler.
LEMMA CycleDefined ==
    ASSUME now \in Nat, NEW s \in PrescalerAt(now), NEW c \in CountersAt(now)
    PROVE  /\ CycleTime(s, c) \in [Counters -> Nat \ {0}]
           /\ \A n \in Counters : ~c[n].ch => CycleTime(s, c)[n] = s.reload + 1
<1> DEFINE Step(f, n) == IF c[n].ch THEN f[n - 1] * (c[n - 1].reload + 1) ELSE s.reload + 1
           Upto(f, k) == f \in [0..k -> Nat \ {0}] /\ \A n \in 0..k : f[n] = Step(f, n)
           IsCycle(f) == f = [n \in Counters |-> Step(f, n)]
           Bad == {k \in Counters : ~ \E f : Upto(f, k)}
<1>0. /\ \A n \in Counters : c[n] \in CounterAt(now)
      /\ ~c[0].ch /\ s.reload + 1 \in Nat \ {0}
  BY DEF CountersAt, PrescalerAt
<1>1. \A n \in Counters : c[n].reload + 1 \in Nat \ {0} /\ c[n].ch \in BOOLEAN
  BY <1>0 DEF CounterAt
<1>2. \A n \in Counters : c[n].ch => n - 1 \in Counters
  BY <1>0, CountersNumbers
<1>3. ASSUME NEW k \in Counters, k \in Bad, \A m \in Bad : k =< m
      PROVE  FALSE
  <2>0. k \in Nat /\ 0..k \subseteq Counters
    BY CountersNumbers
  <2>1. CASE k = 0
    <3> DEFINE f == [n \in 0..k |-> s.reload + 1]
    <3>1. f \in [0..k -> Nat \ {0}]
      BY <1>0
    <3>2. \A n \in 0..k : f[n] = Step(f, n)
      BY <1>0, <2>1
    <3> HIDE DEF f
    <3>3. Upto(f, k)
      BY <3>1, <3>2
    <3> HIDE DEF Upto
    <3> QED BY <3>3, <1>3
  <2>2. CASE k # 0
    <3>1. k - 1 \in Counters /\ ~(k - 1 \in Bad)
      <4> HIDE DEF Bad
      <4>1. k \in Nat /\ k \in 0..Last
        BY CountersNumbers
      <4>2. k - 1 \in Nat /\ k - 1 < k /\ k - 1 \in 0..Last
        BY <4>1, <2>2, CountersNumbers
      <4>3. ~(k =< k - 1)
        BY <4>1
      <4> QED BY <4>2, <4>3, <1>3, CountersNumbers
    <3>2. PICK g : Upto(g, k - 1)
      BY <3>1
    <3> DEFINE f == [n \in 0..k |-> IF n < k THEN g[n] ELSE Step(g, k)]
    <3>3. \A n \in 0..(k - 1) : g[n] \in Nat \ {0}
      BY <3>2
    <3>4. Step(g, k) \in Nat \ {0}
      <4>1. CASE c[k].ch
        BY <4>1, <3>3, <2>2, <2>0, <3>1, <1>1, Product
      <4>2. CASE ~c[k].ch
        BY <4>2, <1>0
      <4> QED BY <4>1, <4>2
    <3>5. f \in [0..k -> Nat \ {0}]
      <4> HIDE DEF Step
      <4>1. \A n \in 0..k : n < k => n \in 0..(k - 1)
        BY <2>0
      <4> QED BY <3>3, <3>4, <4>1
    <3>6. \A n \in 0..k : f[n] = Step(f, n)
      <4>1. TAKE n \in 0..k
      <4>2. c[n].ch => n - 1 \in 0..k /\ n - 1 < k /\ n # 0
        BY <2>0, <1>0
      <4>3. CASE n = k
        <5>1. f[n] = Step(g, k)
          BY <4>3, <2>0 DEF Step
        <5>2. c[k].ch => f[k - 1] = g[k - 1]
          BY <4>2, <4>3
        <5> QED BY <5>1, <5>2, <4>3
      <4>4. CASE n # k
        <5>1. n < k /\ n \in 0..(k - 1)
          BY <4>4, <2>0
        <5>2. f[n] = g[n] /\ g[n] = Step(g, n)
          BY <5>1, <3>2
        <5>3. c[n].ch => f[n - 1] = g[n - 1]
          BY <4>2
        <5> QED BY <5>2, <5>3
      <4> QED BY <4>3, <4>4
    <3> HIDE DEF f
    <3>7. Upto(f, k)
      BY <3>5, <3>6
    <3> HIDE DEF Upto
    <3> QED BY <3>7, <1>3
  <2> QED BY <2>1, <2>2
<1>4. Bad = {}
  <2>1. Bad \in SUBSET Nat
    BY CountersNumbers
  <2> HIDE DEF Bad
  <2>2. Bad \subseteq Counters
    BY DEF Bad
  <2> QED BY <2>1, <2>2, <1>3, Least
<1>5. PICK f : Upto(f, Last)
  BY <1>4, CountersNumbers
<1>6. IsCycle(f)
  <2>1. Counters = 0..Last
    BY CountersNumbers
  <2> HIDE DEF Step
  <2> QED BY <1>5, <2>1
<1>7. CycleTime(s, c) = CHOOSE g : IsCycle(g)
  BY DEF CycleTime
<1>8. IsCycle(CycleTime(s, c))
  BY <1>6, <1>7
<1> DEFINE cycle == CycleTime(s, c)
           Wrong == {n \in Counters : ~(cycle[n] \in Nat \ {0})}
<1>9. \A n \in Counters : cycle[n] = Step(cycle, n)
  BY <1>8
<1>10. ASSUME NEW k \in Counters, k \in Wrong, \A m \in Wrong : k =< m
       PROVE  FALSE
  <2> HIDE DEF cycle
  <2>1. CASE c[k].ch
    <3>1. k - 1 \in Counters /\ ~(k - 1 \in Wrong)
      BY <2>1, <1>2, <1>10, CountersNumbers
    <3>2. cycle[k - 1] \in Nat \ {0} /\ c[k - 1].reload + 1 \in Nat \ {0}
      BY <3>1, <1>1
    <3>3. cycle[k - 1] * (c[k - 1].reload + 1) \in Nat \ {0}
      BY <3>2, Product
    <3>4. cycle[k] = cycle[k - 1] * (c[k - 1].reload + 1)
      BY <1>9, <2>1
    <3> QED BY <3>3, <3>4, <1>10
  <2>2. CASE ~c[k].ch
    BY <2>2, <1>9, <1>0, <1>10
  <2> QED BY <2>1, <2>2
<1>11. Wrong = {}
  <2> HIDE DEF cycle
  <2>1. Wrong \in SUBSET Nat
    BY CountersNumbers
  <2> HIDE DEF Wrong
  <2>2. Wrong \subseteq Counters
    BY DEF Wrong
  <2> QED BY <2>1, <2>2, <1>10, Least
<1>12. cycle = [n \in Counters |-> cycle[n]]
  <2> HIDE DEF Step
  <2> QED BY <1>8
<1>12a. \A n \in Counters : ~c[n].ch => cycle[n] = s.reload + 1
  BY <1>9
<1> HIDE DEF cycle
<1>13. \A n \in Counters : cycle[n] \in Nat \ {0}
  BY <1>11
<1>14. cycle \in [Counters -> Nat \ {0}]
  BY <1>12, <1>13
<1> QED BY <1>12a, <1>14 DEF cycle

\* The value of the prescaler, or of the counter before, so many cycles ago.
LEMMA ValueOfTyped ==
    ASSUME NEW t \in Nat, NEW s \in PrescalerAt(t), NEW a \in Int, NEW offset \in Nat,
           NEW cycle \in Nat \ {0}
    PROVE  ValueOf(s, a, offset, cycle) \in Int
<1> DEFINE d == a - s.lasttime - ((1 + offset) * cycle)
           e == IF d >= 0 THEN d ELSE WRAP + d
<1>1. s.lasttime \in Int /\ s.lastvalue \in Int
  BY DEF PrescalerAt
<1>2. (1 + offset) * cycle \in Int
  OBVIOUS
<1>3. d \in Int
  BY <1>1, <1>2
<1> HIDE DEF d
<1>4. e \in Int
  BY <1>3, GPTimerAssumption
<1> HIDE DEF e
<1>5. e \div cycle \in Int
  BY <1>4
<1>6. s.lastvalue - (e \div cycle) + 1 \in Int
  BY <1>1, <1>5
<1> QED BY <1>6 DEF ValueOf, d, e

LEMMA TicksTyped ==
    ASSUME NEW t \in Nat, NEW s \in PrescalerAt(t), NEW a \in Int, NEW b \in Int,
           NEW offset \in Nat, NEW cycle \in Nat \ {0}
    PROVE  NumberOfTicksBetween(s, a, b, offset, cycle) \in Nat
<1> DEFINE reload == s.reload + 1
           va == ValueOf(s, a, 0, cycle)
           vb == ValueOf(s, b, offset, cycle)
           one == IF va > 0 /\ vb < 0 THEN 1 ELSE 0
           n == CDiv(va, reload) + one - CDiv(vb, reload)
<1>1. reload \in Nat \ {0}
  BY DEF PrescalerAt
<1>2. va \in Int /\ vb \in Int
  BY ValueOfTyped
<1> HIDE DEF va, vb, reload
<1>3. CDiv(va, reload) \in Int /\ CDiv(vb, reload) \in Int
  BY <1>1, <1>2, Quotient
<1>4. one \in Int
  OBVIOUS
<1> HIDE DEF one
<1>5. n \in Int
  BY <1>3, <1>4
<1> HIDE DEF n
<1>6. (IF n >= 0 THEN n ELSE -n) \in Nat
  BY <1>5
<1> QED BY <1>6 DEF NumberOfTicksBetween, n, one, va, vb, reload

\* scaler_read() yields a number, however long ago the prescaler was written.
LEMMA ScalerTyped ==
    ASSUME now \in Nat, NEW s \in PrescalerAt(now)
    PROVE  Scaler(s) \in Nat
<1> DEFINE reload == s.reload + 1
           v == CRem(ValueOf(s, now, 0, 1) - reload, reload)
<1>1. reload \in Nat \ {0}
  BY DEF PrescalerAt
<1>2. ValueOf(s, now, 0, 1) \in Int
  BY ValueOfTyped
<1> HIDE DEF reload
<1>3. v \in Int /\ v < reload /\ -reload < v
  <2>1. ValueOf(s, now, 0, 1) - reload \in Int
    BY <1>1, <1>2
  <2> QED BY <2>1, <1>1, Remainder
<1> HIDE DEF v
<1>4. (IF v < 0 THEN reload + v - 1 ELSE reload - v) \in Nat
  BY <1>1, <1>3
<1> QED BY <1>4 DEF Scaler, v, reload

LEMMA CounterFacts ==
    ASSUME NEW t \in Nat, NEW c \in CountersAt(t), NEW n \in Counters
    PROVE  /\ c[n] \in CounterAt(t)
           /\ c[n].reload \in Nat /\ c[n].lasttime \in Nat
           /\ c[n].value \in Nat /\ c[n].lastvalue \in Nat
           /\ c[n].ch \in BOOLEAN /\ c[n].stopped \in BOOLEAN /\ c[n].rs \in BOOLEAN
           /\ c[n].ch => n - 1 \in Counters
<1>1. c[n] \in CounterAt(t) /\ ~c[0].ch
  BY DEF CountersAt
<1>2. c[n].ch => n - 1 \in Counters
  BY <1>1, CountersNumbers
<1> QED BY <1>1, <1>2 DEF CounterAt

\* value_read() yields a number: a remainder below zero is brought back by the reload
\* value, or by the largest value of the prescaler.
LEMMA ValueTyped ==
    ASSUME now \in Nat, NEW s \in PrescalerAt(now), NEW c \in CountersAt(now), NEW n \in Counters
    PROVE  Value(s, c, n) \in Nat
<1> DEFINE k == c[n]
           ticks == IF k.ch
                    THEN NumberOfTicksBetween(s, k.lasttime, now, 0, CycleTime(s, c)[n - 1])
                    ELSE NumberOfTicksBetween(s, k.lasttime, now, n + 2, 1)
           v == CRem(k.lastvalue - ticks, k.reload + 1)
<1>1. /\ k.reload \in Nat /\ k.value \in Nat /\ k.lastvalue \in Nat /\ k.lasttime \in Nat
      /\ k.ch \in BOOLEAN /\ k.stopped \in BOOLEAN /\ k.rs \in BOOLEAN
      /\ k.ch => n - 1 \in Counters
  BY CounterFacts
<1>2. k.ch => CycleTime(s, c)[n - 1] \in Nat \ {0}
  BY <1>1, CycleDefined
<1>3. n \in Nat /\ n + 2 \in Nat
  BY CountersNumbers
<1> HIDE DEF k
<1>4. ticks \in Nat
  <2>1. CASE k.ch
    <3> DEFINE cycle == CycleTime(s, c)[n - 1]
    <3>1. cycle \in Nat \ {0} /\ k.lasttime \in Int /\ now \in Int /\ 0 \in Nat
      BY <2>1, <1>1, <1>2
    <3> HIDE DEF cycle
    <3>2. NumberOfTicksBetween(s, k.lasttime, now, 0, cycle) \in Nat
      BY <3>1, TicksTyped
    <3> QED BY <3>2, <2>1 DEF cycle
  <2>2. CASE ~k.ch
    BY <2>2, <1>1, <1>3, TicksTyped
  <2> QED BY <2>1, <2>2
<1> HIDE DEF ticks
<1>5. k.lastvalue - ticks \in Int /\ k.reload + 1 \in Nat \ {0}
  BY <1>1, <1>4
<1>6. v \in Int /\ -(k.reload + 1) < v
  BY <1>5, Remainder
<1> HIDE DEF v
<1>7. CASE k.stopped
  BY <1>7, <1>1 DEF Value, k
<1>8. CASE ~k.stopped
  <2>1. Value(s, c, n) = IF v >= 0 THEN v ELSE IF k.rs THEN k.reload + 1 + v ELSE SMAX
    BY <1>8, <1>6 DEF Value, k, v, ticks
  <2> QED BY <2>1, <1>6, <1>1, GPTimerAssumption
<1> QED BY <1>7, <1>8

LEMMA NextZeroTyped ==
    ASSUME now \in Nat, NEW s \in PrescalerAt(now), NEW c \in CountersAt(now), NEW n \in Counters
    PROVE  NextZero(s, c, n) \in Nat
<1>1. CASE c[n].ch
  <2>1. n - 1 \in Counters
    BY <1>1, CounterFacts
  <2>2. CycleTime(s, c)[n - 1] \in Nat /\ Value(s, c, n - 1) \in Nat
    BY <2>1, CycleDefined, ValueTyped
  <2>3. Value(s, c, n - 1) + 2 \in Nat
    BY <2>2
  <2>4. CycleTime(s, c)[n - 1] * (Value(s, c, n - 1) + 2) \in Nat
    BY <2>2, <2>3, Product
  <2> QED BY <2>4, <1>1 DEF NextZero
<1>2. CASE ~c[n].ch
  BY <1>2, ScalerTyped DEF NextZero
<1> QED BY <1>1, <1>2

----------------------------------------------------------------------------
(* The functions of GPCounter *)

\* d comes from c by a function of counter n that leaves the other counters alone.
Only(c, d, n) ==
    /\ d \in CountersAt(now)
    /\ \A m \in Counters : m # n => d[m] = c[m]

\* Assigning counter n.
LEMMA AssignCounter ==
    ASSUME NEW c, NEW n, NEW k, c \in CountersAt(now), n \in Counters,
           k \in CounterAt(now), k.ch = FALSE \/ n # 0
    PROVE  Only(c, [c EXCEPT ![n] = k], n) /\ [c EXCEPT ![n] = k][n] = k
<1> DEFINE d == [c EXCEPT ![n] = k]
<1>1. c \in [Counters -> CounterAt(now)] /\ ~c[0].ch /\ 0 \in Counters
  BY CountersNumbers DEF CountersAt
<1>2. d \in [Counters -> CounterAt(now)] /\ d[n] = k /\ \A m \in Counters : m # n => d[m] = c[m]
  BY <1>1
<1> HIDE DEF d
<1>3. ~d[0].ch
  BY <1>1, <1>2
<1>4. Only(c, d, n) /\ d[n] = k
  BY <1>2, <1>3 DEF CountersAt, Only
<1> QED BY <1>4 DEF d

LEMMA OnlyTransitive ==
    ASSUME NEW n \in Counters, NEW c, NEW d, NEW e, Only(c, d, n), Only(d, e, n)
    PROVE  Only(c, e, n)
BY DEF Only

\* calculate() announces a cycle that has not passed for an enabled counter, and none
\* for another.
LEMMA CalculateAnnounces ==
    ASSUME now \in Nat, NEW s \in PrescalerAt(now), NEW c \in CountersAt(now), NEW n \in Counters
    PROVE  LET d == Calculate(s, c, n)
           IN  /\ Only(c, d, n)
               /\ d[n].e_wait = None \/ d[n].e_wait >= now
               /\ c[n].en => d[n].e_wait >= now
               /\ d[n] = [c[n] EXCEPT !.e_wait = d[n].e_wait]
               /\ d[n].en = c[n].en /\ d[n].stopped = c[n].stopped
<1> DEFINE w == IF c[n].en
                THEN now + NextZero(s, c, n) + (CycleTime(s, c)[n] * Value(s, c, n)) + n + 1
                ELSE None
           k == [c[n] EXCEPT !.e_wait = w]
<1>1. c[n] \in CounterAt(now) /\ c \in [Counters -> CounterAt(now)] /\ ~c[0].ch
  BY CounterFacts DEF CountersAt
<1>2. n \in Nat /\ NextZero(s, c, n) \in Nat /\ CycleTime(s, c)[n] \in Nat /\ Value(s, c, n) \in Nat
  BY NextZeroTyped, CycleDefined, ValueTyped, CountersNumbers
<1>3. CycleTime(s, c)[n] * Value(s, c, n) \in Nat
  BY <1>2, Product
<1>4. w \in Nat \cup {None} /\ (c[n].en => w >= now) /\ (w # None => w >= now)
  BY <1>2, <1>3
<1>5. Calculate(s, c, n) = [c EXCEPT ![n] = k]
  BY <1>1 DEF Calculate
<1> HIDE DEF w
<1>6. k \in CounterAt(now)
  BY <1>1, <1>4 DEF CounterAt
<1>7. k.e_wait = w /\ k.en = c[n].en /\ k.stopped = c[n].stopped /\ k.ch = c[n].ch
  BY <1>1 DEF CounterAt
<1> DEFINE d == Calculate(s, c, n)
<1>8. k = [c[n] EXCEPT !.e_wait = k.e_wait]
  BY <1>7
<1> HIDE DEF k
<1>9. Only(c, d, n) /\ d[n] = k
  <2>1. k.ch = FALSE \/ n # 0
    BY <1>7, <1>1
  <2>2. Only(c, [c EXCEPT ![n] = k], n) /\ [c EXCEPT ![n] = k][n] = k
    BY <2>1, <1>6, AssignCounter, Zenon
  <2> QED BY <2>2, <1>5, Zenon
<1> HIDE DEF d
<1>10. /\ Only(c, d, n)
       /\ d[n].e_wait = None \/ d[n].e_wait >= now
       /\ c[n].en => d[n].e_wait >= now
       /\ d[n] = [c[n] EXCEPT !.e_wait = d[n].e_wait]
       /\ d[n].en = c[n].en /\ d[n].stopped = c[n].stopped
  BY <1>9, <1>4, <1>7, <1>8
<1> QED BY <1>10 DEF d

\* d comes from c by functions of counter n that neither enable nor disable it: if it
\* runs afterwards it is announced or keeps its announcement, and if it is not stopped
\* it was not stopped before or is enabled.
Settled(c, d, n) ==
    /\ Only(c, d, n)
    /\ d[n].en = c[n].en
    /\ Running(d, n) => d[n].e_wait >= now \/ (Running(c, n) /\ d[n].e_wait = c[n].e_wait)
    /\ ~d[n].stopped => ~c[n].stopped \/ d[n].en

LEMMA SettledTransitive ==
    ASSUME NEW n \in Counters, NEW c, NEW d, NEW e, Settled(c, d, n), Settled(d, e, n)
    PROVE  Settled(c, e, n)
<1>1. Only(c, e, n)
  BY OnlyTransitive DEF Settled
<1>2. d[n].en = c[n].en /\ e[n].en = d[n].en
  BY DEF Settled
<1>3. ~e[n].stopped => ~c[n].stopped \/ e[n].en
  BY <1>2, Zenon DEF Settled
<1>4. ASSUME Running(e, n)
      PROVE  e[n].e_wait >= now \/ (Running(c, n) /\ e[n].e_wait = c[n].e_wait)
  BY <1>4, Zenon DEF Settled
<1> QED BY <1>1, <1>2, <1>3, <1>4, Zenon DEF Settled

LEMMA SettledReflexive ==
    ASSUME NEW n \in Counters, NEW c \in CountersAt(now)
    PROVE  Settled(c, c, n)
BY DEF Settled, Only

LEMMA CalculateSettles ==
    ASSUME now \in Nat, NEW s \in PrescalerAt(now), NEW c \in CountersAt(now), NEW n \in Counters
    PROVE  Settled(c, Calculate(s, c, n), n)
<1> DEFINE d == Calculate(s, c, n)
<1>1. /\ Only(c, d, n)
      /\ c[n].en => d[n].e_wait >= now
      /\ d[n].en = c[n].en /\ d[n].stopped = c[n].stopped
  BY CalculateAnnounces, Zenon
<1> HIDE DEF d
<1>2. Settled(c, d, n)
  BY <1>1, Zenon DEF Settled, Running
<1> QED BY <1>2 DEF d

\* Assigning members of counter n other than en, and stopped only to TRUE.
LEMMA AssignSettles ==
    ASSUME NEW c, NEW n, NEW k, c \in CountersAt(now), n \in Counters,
           k \in CounterAt(now), k.ch = c[n].ch, k.en = c[n].en,
           k.stopped \/ (k.stopped = c[n].stopped /\ k.e_wait = c[n].e_wait)
    PROVE  Settled(c, [c EXCEPT ![n] = k], n) /\ [c EXCEPT ![n] = k][n] = k
<1> DEFINE d == [c EXCEPT ![n] = k]
<1>1. k.ch = FALSE \/ n # 0
  <2>1. c[n] \in CounterAt(now) /\ ~c[0].ch
    BY DEF CountersAt
  <2> QED BY <2>1 DEF CounterAt
<1>2. Only(c, d, n) /\ d[n] = k
  BY <1>1, AssignCounter, Zenon
<1> HIDE DEF d
<1>3. Settled(c, d, n)
  BY <1>2, Zenon DEF Settled, Running
<1> QED BY <1>2, <1>3, Zenon DEF d

\* value_write() of a counter.
LEMMA SetValueSettles ==
    ASSUME now \in Nat, NEW s \in PrescalerAt(now), NEW c \in CountersAt(now), NEW n \in Counters,
           NEW v \in Nat
    PROVE  Settled(c, SetValue(s, c, n, v), n)
<1> DEFINE k == [c[n] EXCEPT !.value = v, !.lastvalue = v, !.lasttime = now]
           d == [c EXCEPT ![n] = k]
<1>1. c[n] \in CounterAt(now) /\ c \in [Counters -> CounterAt(now)]
  BY CounterFacts DEF CountersAt
<1>2. now \in 0..now
  OBVIOUS
<1>3. k \in CounterAt(now)
  BY <1>1, <1>2 DEF CounterAt
<1>4. /\ k.ch = c[n].ch /\ k.en = c[n].en /\ k.stopped = c[n].stopped /\ k.e_wait = c[n].e_wait
  BY <1>1 DEF CounterAt
<1>5. [c EXCEPT ![n].value = v, ![n].lastvalue = v, ![n].lasttime = now] = d
  BY <1>1
<1> HIDE DEF k
<1>6. Settled(c, d, n)
  BY <1>3, <1>4, AssignSettles, Zenon
<1> HIDE DEF d
<1>7. SetValue(s, c, n, v) = IF c[n].stopped THEN d ELSE Calculate(s, d, n)
  <2> DEFINE e == [c EXCEPT ![n].value = v, ![n].lastvalue = v, ![n].lasttime = now]
  <2>1. SetValue(s, c, n, v) = IF c[n].stopped THEN e ELSE Calculate(s, e, n)
    BY DEF SetValue
  <2> HIDE DEF e
  <2>2. e = d
    BY <1>5 DEF e
  <2> QED BY <2>1, <2>2
<1>8. Settled(d, Calculate(s, d, n), n)
  BY <1>6, CalculateSettles DEF Settled, Only
<1>9. Settled(c, Calculate(s, d, n), n)
  BY <1>6, <1>8, SettledTransitive, Zenon
<1> QED BY <1>6, <1>7, <1>9, Zenon

\* stop() of a counter that is stopped changes nothing.
LEMMA StopIdempotent ==
    ASSUME NEW s, NEW c, NEW n, c[n].stopped
    PROVE  Stop(s, c, n) = c
BY Zenon DEF Stop

\* stop(): afterwards the counter is stopped.
LEMMA StopSettles ==
    ASSUME now \in Nat, NEW s \in PrescalerAt(now), NEW c \in CountersAt(now), NEW n \in Counters
    PROVE  Settled(c, Stop(s, c, n), n) /\ Stop(s, c, n)[n].stopped
<1>1. CASE c[n].stopped
  BY <1>1, SettledReflexive, StopIdempotent, Zenon
<1>2. CASE ~c[n].stopped
  <2> DEFINE v == Value(s, c, n)
             k == [c[n] EXCEPT !.e_wait = None, !.value = v, !.lastvalue = v, !.lasttime = now,
                               !.stopped = TRUE]
             d == [c EXCEPT ![n] = k]
  <2>1. c[n] \in CounterAt(now) /\ c \in [Counters -> CounterAt(now)] /\ now \in 0..now
    BY CounterFacts DEF CountersAt
  <2>2. v \in Nat
    BY ValueTyped
  <2>3. Stop(s, c, n) = d
    BY <1>2, Zenon DEF Stop
  <2> HIDE DEF v
  <2>4. k \in CounterAt(now)
    BY <2>1, <2>2 DEF CounterAt
  <2>5. k.ch = c[n].ch /\ k.en = c[n].en /\ k.stopped
    BY <2>1 DEF CounterAt
  <2> HIDE DEF k
  <2>6. Settled(c, d, n) /\ d[n] = k
    BY <2>4, <2>5, AssignSettles, Zenon
  <2> HIDE DEF d
  <2> QED BY <2>3, <2>5, <2>6, Zenon
<1> QED BY <1>1, <1>2

\* start(): the counter is announced before it counts as running.
LEMMA StartSettles ==
    ASSUME now \in Nat, NEW s \in PrescalerAt(now), NEW c \in CountersAt(now), NEW n \in Counters
    PROVE  Settled(c, Start(s, c, n), n)
<1> DEFINE Starts == c[n].stopped /\ c[n].en /\ (c[n].ch => c[n].chain_run)
           k == [c[n] EXCEPT !.lasttime = now]
           d == [c EXCEPT ![n] = k]
           f == Calculate(s, d, n)
           l == [f[n] EXCEPT !.stopped = FALSE]
           e == [f EXCEPT ![n] = l]
<1>0. CASE ~Starts
  BY <1>0, SettledReflexive DEF Start
<1>1. CASE Starts
  <2>1. c[n] \in CounterAt(now) /\ c \in [Counters -> CounterAt(now)] /\ now \in 0..now
    BY CounterFacts DEF CountersAt
  <2>2. k \in CounterAt(now)
    BY <2>1 DEF CounterAt
  <2>3. /\ k.ch = c[n].ch /\ k.en = c[n].en /\ k.stopped = c[n].stopped /\ k.e_wait = c[n].e_wait
    BY <2>1 DEF CounterAt
  <2>4. [c EXCEPT ![n].lasttime = now] = d
    BY <2>1
  <2>5. Start(s, c, n) = [f EXCEPT ![n].stopped = FALSE]
    BY <1>1, <2>4, Zenon DEF Start
  <2> HIDE DEF k
  <2>6. Settled(c, d, n) /\ d[n] = k
    BY <2>2, <2>3, AssignSettles, Zenon
  <2> HIDE DEF d
  <2>7. d \in CountersAt(now)
    BY <2>6 DEF Settled, Only
  <2>8. /\ Only(d, f, n) /\ f[n].en = d[n].en
        /\ d[n].en => f[n].e_wait >= now
    BY <2>7, CalculateAnnounces, Zenon
  <2> HIDE DEF f
  <2>9. d[n].en /\ c[n].en
    BY <1>1, <2>6, <2>3
  <2>10. f[n] \in CounterAt(now) /\ f \in [Counters -> CounterAt(now)] /\ ~f[0].ch
    BY <2>8 DEF Only, CountersAt
  <2>11. l \in CounterAt(now) /\ l.ch = f[n].ch /\ l.en = f[n].en /\ l.e_wait = f[n].e_wait /\ ~l.stopped
    BY <2>10 DEF CounterAt
  <2>12. [f EXCEPT ![n].stopped = FALSE] = e
    BY <2>10
  <2>13. l.ch = FALSE \/ n # 0
    BY <2>10, <2>11 DEF CounterAt
  <2> HIDE DEF l
  <2>14. Only(f, e, n) /\ e[n] = l
    <3>1. f \in CountersAt(now)
      BY <2>8 DEF Only
    <3> QED BY <3>1, <2>11, <2>13, AssignCounter, Zenon
  <2> HIDE DEF e
  <2>15. Only(c, e, n)
    <3>1. Only(c, d, n)
      BY <2>6 DEF Settled
    <3>2. Only(c, f, n)
      BY <3>1, <2>8, OnlyTransitive, Zenon
    <3> QED BY <3>2, <2>14, OnlyTransitive, Zenon
  <2>16. e[n].en /\ e[n].en = c[n].en
    <3>1. d[n].en = c[n].en
      BY <2>6 DEF Settled
    <3> QED BY <3>1, <2>14, <2>11, <2>8, <2>9, Zenon
  <2>17. e[n].e_wait >= now
    BY <2>14, <2>11, <2>8, <2>9, Zenon
  <2>18. Settled(c, e, n)
    BY <2>15, <2>16, <2>17, Zenon DEF Settled
  <2> QED BY <2>18, <2>12, <2>5, Zenon
<1> QED BY <1>0, <1>1, Zenon

\* chaining(): start() of the next counter of a chain.
LEMMA ChainingSettles ==
    ASSUME now \in Nat, NEW s \in PrescalerAt(now), NEW c \in CountersAt(now), NEW n \in Counters
    PROVE  Settled(c, Chaining(s, c, n), n)
<1> DEFINE k == [c[n] EXCEPT !.chain_run = TRUE]
           d == [c EXCEPT ![n] = k]
<1>1. c[n] \in CounterAt(now) /\ c \in [Counters -> CounterAt(now)]
  BY CounterFacts DEF CountersAt
<1>2. k \in CounterAt(now)
  BY <1>1 DEF CounterAt
<1>3. /\ k.ch = c[n].ch /\ k.en = c[n].en /\ k.stopped = c[n].stopped /\ k.e_wait = c[n].e_wait
  BY <1>1 DEF CounterAt
<1>4. [c EXCEPT ![n].chain_run = TRUE] = d
  BY <1>1
<1> HIDE DEF k
<1>5. Settled(c, d, n)
  BY <1>2, <1>3, AssignSettles, Zenon
<1>6. Chaining(s, c, n) = Start(s, d, n)
  BY <1>4, Zenon DEF Chaining
<1> HIDE DEF d
<1>7. Settled(d, Start(s, d, n), n)
  BY <1>5, StartSettles DEF Settled, Only
<1> QED BY <1>5, <1>6, <1>7, SettledTransitive, Zenon

\* d comes from c by a write to counter n: afterwards the counter is stopped if it is
\* not enabled, and announced if it runs and did not run before.
Controlled(c, d, n) ==
    /\ Only(c, d, n)
    /\ ~d[n].stopped => d[n].en
    /\ Running(d, n) => d[n].e_wait >= now \/ (Running(c, n) /\ d[n].e_wait = c[n].e_wait)

LEMMA SettledControlled ==
    ASSUME NEW n \in Counters, NEW c, NEW d, Settled(c, d, n), ~c[n].stopped => c[n].en
    PROVE  Controlled(c, d, n)
BY Zenon DEF Settled, Controlled

\* ctrl_write(): the counter may be enabled or disabled, but stop() and start() follow.
LEMMA SetCtrlControls ==
    ASSUME now \in Nat, NEW s \in PrescalerAt(now), NEW c \in CountersAt(now), NEW n \in Counters,
           NEW w \in Control, w.ch => n # 0, ~c[n].stopped => c[n].en
    PROVE  Controlled(c, SetCtrl(s, c, n, w), n)
<1> DEFINE k1 == [c[n] EXCEPT !.en = w.en, !.rs = w.rs, !.ie = w.ie, !.ch = w.ch, !.m_pirq = w.ip]
           c1 == [c EXCEPT ![n] = k1]
           l1 == [c1[n] EXCEPT !.chain_run = FALSE]
           d1 == [c1 EXCEPT ![n] = l1]
           c2 == IF w.ch THEN Stop(s, d1, n) ELSE c1
           c3 == IF w.ld THEN SetValue(s, c2, n, c2[n].reload) ELSE c2
           d == IF w.en THEN Start(s, c3, n) ELSE Stop(s, c3, n)
<1>1. c[n] \in CounterAt(now) /\ c \in [Counters -> CounterAt(now)]
  BY CounterFacts DEF CountersAt
<1>2. /\ w.en \in BOOLEAN /\ w.rs \in BOOLEAN /\ w.ie \in BOOLEAN /\ w.ch \in BOOLEAN
      /\ w.ip \in BOOLEAN /\ w.ld \in BOOLEAN
  BY DEF Control
<1>3. k1 \in CounterAt(now)
  BY <1>1, <1>2 DEF CounterAt
<1>4. k1.en = w.en /\ k1.ch = w.ch /\ k1.stopped = c[n].stopped /\ k1.e_wait = c[n].e_wait
  BY <1>1 DEF CounterAt
<1>5. [c EXCEPT ![n].en = w.en, ![n].rs = w.rs, ![n].ie = w.ie, ![n].ch = w.ch,
                ![n].m_pirq = w.ip] = c1
  BY <1>1
<1> HIDE DEF k1
<1>6. Only(c, c1, n) /\ c1[n] = k1
  <2>1. k1.ch = FALSE \/ n # 0
    BY <1>4, <1>2
  <2> QED BY <2>1, <1>3, AssignCounter, Zenon
<1> HIDE DEF c1
<1>7. c1 \in CountersAt(now)
  BY <1>6 DEF Only
<1>8. c1[n] \in CounterAt(now) /\ c1 \in [Counters -> CounterAt(now)]
  BY <1>7, CounterFacts DEF CountersAt
<1>9. Settled(c1, d1, n) /\ d1 \in CountersAt(now)
  <2>1. l1 \in CounterAt(now)
    BY <1>8 DEF CounterAt
  <2>2. l1.ch = c1[n].ch /\ l1.en = c1[n].en /\ l1.stopped = c1[n].stopped /\ l1.e_wait = c1[n].e_wait
    BY <1>8 DEF CounterAt
  <2> HIDE DEF l1
  <2>3. Settled(c1, d1, n)
    BY <2>1, <2>2, <1>7, AssignSettles, Zenon
  <2> HIDE DEF d1
  <2> QED BY <2>3 DEF Settled, Only
<1>10. [c1 EXCEPT ![n].chain_run = FALSE] = d1
  BY <1>8
<1> HIDE DEF d1, l1
<1>11. Settled(c1, c2, n) /\ c2 \in CountersAt(now)
  <2>1. CASE w.ch
    <3>1. Settled(d1, Stop(s, d1, n), n)
      BY <1>9, StopSettles, Zenon
    <3>2. Settled(c1, Stop(s, d1, n), n)
      BY <3>1, <1>9, SettledTransitive, Zenon
    <3> QED BY <3>2, <2>1 DEF Settled, Only
  <2>2. CASE ~w.ch
    BY <2>2, <1>7, SettledReflexive
  <2> QED BY <2>1, <2>2
<1>12. c2 = IF w.ch THEN Stop(s, [c1 EXCEPT ![n].chain_run = FALSE], n) ELSE c1
  BY <1>10, Zenon
<1> HIDE DEF c2
<1>13. Settled(c1, c3, n) /\ c3 \in CountersAt(now)
  <2>1. CASE w.ld
    <3>1. c2[n].reload \in Nat
      BY <1>11, CounterFacts
    <3>2. Settled(c2, SetValue(s, c2, n, c2[n].reload), n)
      BY <3>1, <1>11, SetValueSettles, Zenon
    <3>3. Settled(c1, SetValue(s, c2, n, c2[n].reload), n)
      BY <3>2, <1>11, SettledTransitive, Zenon
    <3> QED BY <3>3, <2>1 DEF Settled, Only
  <2>2. CASE ~w.ld
    BY <2>2, <1>11
  <2> QED BY <2>1, <2>2
<1> HIDE DEF c3
<1>14. SetCtrl(s, c, n, w) = d
  <2> DEFINE e1 == [c EXCEPT ![n].en = w.en, ![n].rs = w.rs, ![n].ie = w.ie, ![n].ch = w.ch,
                             ![n].m_pirq = w.ip]
             f(x) == [x EXCEPT ![n].chain_run = FALSE]
             e2(x) == IF w.ch THEN Stop(s, f(x), n) ELSE x
             e3(x) == IF w.ld THEN SetValue(s, x, n, x[n].reload) ELSE x
             e4(x) == IF w.en THEN Start(s, x, n) ELSE Stop(s, x, n)
  <2>1. SetCtrl(s, c, n, w) = e4(e3(e2(e1)))
    BY Zenon DEF SetCtrl
  <2>2. c2 = e2(c1)
    BY <1>12, Zenon
  <2>3. c3 = e3(c2)
    BY Zenon DEF c3
  <2>4. e1 = c1
    BY <1>5, Zenon
  <2>5. d = e4(c3)
    BY Zenon
  <2> HIDE DEF e1, e2, e3, e4, d
  <2> QED BY <2>1, <2>2, <2>3, <2>4, <2>5, Zenon
<1>15. Settled(c1, d, n) /\ (w.en \/ d[n].stopped)
  <2>1. CASE w.en
    BY <2>1, <1>13, StartSettles, SettledTransitive, Zenon
  <2>2. CASE ~w.en
    BY <2>2, <1>13, StopSettles, SettledTransitive, Zenon
  <2> QED BY <2>1, <2>2
<1> HIDE DEF d
<1>16. d[n].en = w.en
  BY <1>15, <1>6, <1>4, Zenon DEF Settled
<1>17. Only(c, d, n)
  BY <1>6, <1>15, OnlyTransitive, Zenon DEF Settled
<1>18. ASSUME Running(d, n)
       PROVE  d[n].e_wait >= now \/ (Running(c, n) /\ d[n].e_wait = c[n].e_wait)
  <2>1. CASE Running(c1, n) /\ d[n].e_wait = c1[n].e_wait
    BY <2>1, <1>6, <1>4 DEF Running
  <2> QED BY <2>1, <1>18, <1>15, Zenon DEF Settled
<1>19. Controlled(c, d, n)
  BY <1>15, <1>16, <1>17, <1>18, Zenon DEF Controlled
<1> QED BY <1>19, <1>14, Zenon

\* scaler_write(): every counter is announced anew.
LEMMA RecalculatedAnnounces ==
    ASSUME now \in Nat, NEW s \in PrescalerAt(now), NEW c \in CountersAt(now)
    PROVE  /\ Recalculated(s, c) \in CountersAt(now)
           /\ \A n \in Counters :
                LET d == Recalculated(s, c)
                IN  /\ d[n].en = c[n].en /\ d[n].stopped = c[n].stopped
                    /\ c[n].en => d[n].e_wait >= now
<1> DEFINE d == Recalculated(s, c)
           f(n) == Calculate(s, c, n)
<1>1. d = [n \in Counters |-> f(n)[n]]
  BY DEF Recalculated
<1>2. \A n \in Counters : f(n) \in CountersAt(now) /\ f(n)[n] \in CounterAt(now)
  <2> TAKE n \in Counters
  <2>1. f(n) \in CountersAt(now)
    BY CalculateAnnounces, Zenon DEF Only
  <2> HIDE DEF f
  <2> QED BY <2>1, CounterFacts
<1>3. \A n \in Counters : /\ f(n)[n].en = c[n].en /\ f(n)[n].stopped = c[n].stopped
                          /\ c[n].en => f(n)[n].e_wait >= now
  BY CalculateAnnounces, Zenon
<1>4. \A n \in Counters : f(n)[n].ch = c[n].ch
  <2> TAKE n \in Counters
  <2> DEFINE g == f(n)
  <2>1. g[n] = [c[n] EXCEPT !.e_wait = g[n].e_wait]
    BY CalculateAnnounces, Zenon
  <2>2. c[n] \in CounterAt(now)
    BY CounterFacts
  <2> HIDE DEF g
  <2>3. [c[n] EXCEPT !.e_wait = g[n].e_wait].ch = c[n].ch
    BY <2>2 DEF CounterAt
  <2>4. g[n].ch = c[n].ch
    BY <2>1, <2>3, Zenon
  <2> QED BY <2>4 DEF g
<1> HIDE DEF d, f
<1>5. d \in CountersAt(now)
  <2>1. d \in [Counters -> CounterAt(now)]
    BY <1>1, <1>2
  <2>2. ~d[0].ch
    BY <1>1, <1>4, CountersNumbers DEF CountersAt
  <2> QED BY <2>1, <2>2 DEF CountersAt
<1>6. \A n \in Counters : /\ d[n].en = c[n].en /\ d[n].stopped = c[n].stopped
                          /\ c[n].en => d[n].e_wait >= now
  BY <1>1, <1>3
<1> QED BY <1>5, <1>6, Zenon DEF d

----------------------------------------------------------------------------
(* The steps *)

LEMMA StateFacts ==
    ASSUME GInv
    PROVE  /\ now \in Nat /\ now \in 0..now
           /\ scaler \in PrescalerAt(now) /\ scaler.reload \in Nat
           /\ counter \in CountersAt(now)
           /\ OffIsStopped(counter)
           /\ armed \in [Counters -> [at : 0..now \cup {None}, value : Nat]]
<1>1. now \in Nat
  BY GPTimerAssumption DEF GInv, TypeOK
<1>2. scaler \in PrescalerAt(now) /\ counter \in CountersAt(now)
  BY DEF GInv, TypeOK, PrescalerAt, CountersAt, CounterAt
<1> QED BY <1>1, <1>2 DEF GInv, TypeOK, PrescalerAt

LEMMA InitInv == Init => GInv
<1> SUFFICES ASSUME Init
             PROVE  GInv
  OBVIOUS
<1>1. now = 0 /\ writes = 0 /\ written = FALSE /\ irq = {} /\ wdog = FALSE
  BY DEF Init
<1>2. scaler \in [reload : Nat, lasttime : 0..now, lastvalue : Nat]
  BY GPTimerAssumption DEF Init
<1>3. PICK junk \in Junk, pirq \in BOOLEAN : counter = [n \in Counters |->
            [en |-> FALSE, rs |-> FALSE, ie |-> FALSE, ch |-> FALSE, reload |-> 1,
             value |-> 0, lastvalue |-> junk, lasttime |-> 0, stopped |-> TRUE, chain_run |-> FALSE,
             m_pirq |-> pirq, e_wait |-> None]]
  BY DEF Init
<1>4. junk \in Nat
  BY GPTimerAssumption
<1>5. counter \in [Counters -> CounterAt(now)]
  BY <1>1, <1>3, <1>4 DEF CounterAt
<1>6. \A n \in Counters : counter[n].stopped /\ ~counter[n].ch
  BY <1>3
<1>7. thread \in [Counters -> [until : {None, now, now + 1}, irqnr : 0..(31 + NTimers)]]
  BY GPTimerAssumption DEF Init
<1>8. armed \in [Counters -> [at : 0..now \cup {None}, value : Nat]]
  BY DEF Init, Unarmed
<1>9. TypeOK
  <2>1. now \in 0..HORIZON /\ writes \in 0..MAXWRITES
    BY <1>1, GPTimerAssumption
  <2>3. written \in BOOLEAN /\ wdog \in BOOLEAN
    BY Zenon DEF Init
  <2>2. irq \subseteq 0..(31 + NTimers)
    BY <1>1
  <2> QED BY <2>1, <2>2, <2>3, <1>2, <1>5, <1>7, <1>8 DEF TypeOK, CounterAt
<1> QED BY <1>6, <1>9, CountersNumbers DEF GInv, Scheduled, Running, OffIsStopped

\* A write keeps the invariant if it leaves the counters typed and announced.
LEMMA WriteKeeps ==
    ASSUME GInv, Written, UNCHANGED <<now, thread, irq>>,
           scaler' \in PrescalerAt(now), wdog' \in BOOLEAN,
           armed' \in [Counters -> [at : 0..now \cup {None}, value : Nat]],
           counter' \in CountersAt(now), OffIsStopped(counter'), Continues(counter, counter')
    PROVE  GInv'
<1>1. TypeOK'
  <2>1. writes' \in 0..MAXWRITES /\ written' \in BOOLEAN
    BY GPTimerAssumption DEF GInv, TypeOK, Written
  <2>2. counter' \in [Counters -> CounterAt(now)]
    BY DEF CountersAt
  <2>3. now' = now /\ thread' = thread /\ irq' = irq
    OBVIOUS
  <2> QED BY <2>1, <2>2, <2>3 DEF GInv, TypeOK, PrescalerAt, CounterAt
<1>2. Scheduled'
  <2> SUFFICES ASSUME NEW n \in Counters, Running(counter', n)
               PROVE  counter'[n].e_wait >= now \/ thread[n].until \in {now, now + 1}
    BY DEF Scheduled, Running
  <2>1. CASE Running(counter, n) /\ counter'[n].e_wait = counter[n].e_wait
    BY <2>1 DEF GInv, Scheduled
  <2> QED BY <2>1 DEF Continues
<1>3. ~counter'[0].ch
  BY DEF CountersAt
<1>4. OffIsStopped(counter)'
  BY DEF OffIsStopped
<1> QED BY <1>1, <1>2, <1>3, <1>4 DEF GInv

LEMMA ControlledKeeps ==
    ASSUME GInv, NEW n \in Counters, NEW c, Controlled(counter, c, n)
    PROVE  c \in CountersAt(now) /\ OffIsStopped(c) /\ Continues(counter, c)
<1>1. c \in CountersAt(now) /\ \A m \in Counters : m # n => c[m] = counter[m]
  BY DEF Controlled, Only
<1>2. OffIsStopped(c)
  BY <1>1, StateFacts, Zenon DEF Controlled, OffIsStopped
<1>3. Continues(counter, c)
  <2> SUFFICES ASSUME NEW m \in Counters, Running(c, m)
               PROVE  c[m].e_wait >= now \/ (Running(counter, m) /\ c[m].e_wait = counter[m].e_wait)
    BY Zenon DEF Continues
  <2>1. CASE m = n
    BY <2>1, Zenon DEF Controlled
  <2>2. CASE m # n
    BY <2>2, <1>1 DEF Running
  <2> QED BY <2>1, <2>2
<1> QED BY <1>1, <1>2, <1>3

LEMMA WriteCounterStep ==
    ASSUME GInv, NEW n \in Counters, NEW c, Controlled(counter, c, n), WriteCounter(n, c)
    PROVE  GInv'
<1>1. c \in CountersAt(now) /\ OffIsStopped(c) /\ Continues(counter, c)
  BY ControlledKeeps
<1>2. /\ Written /\ UNCHANGED <<now, thread, irq>> /\ scaler' = scaler /\ wdog' = wdog
      /\ counter' = c /\ armed' = [armed EXCEPT ![n] = Rearmed(c, n)]
  BY DEF WriteCounter, Written
<1>3. Rearmed(c, n) \in [at : 0..now \cup {None}, value : Nat]
  <2>1. c[n].lastvalue \in Nat
    BY <1>1, StateFacts, CounterFacts
  <2> QED BY <2>1, StateFacts DEF Rearmed, Unarmed
<1>4. armed' \in [Counters -> [at : 0..now \cup {None}, value : Nat]]
  BY <1>2, <1>3, StateFacts
<1>5. scaler' \in PrescalerAt(now) /\ wdog' \in BOOLEAN
  BY <1>2, StateFacts DEF GInv, TypeOK
<1>6. counter' \in CountersAt(now) /\ OffIsStopped(counter') /\ Continues(counter, counter')
  BY <1>1, <1>2
<1> QED BY <1>2, <1>4, <1>5, <1>6, WriteKeeps

LEMMA WriteCtrlStep ==
    ASSUME GInv, NEW n \in Counters, NEW w \in Control, w.ch => n # 0, WriteCtrl(n, w)
    PROVE  GInv'
<1>1. ~counter[n].stopped => counter[n].en
  BY StateFacts DEF OffIsStopped
<1>2. Controlled(counter, SetCtrl(scaler, counter, n, w), n)
  BY <1>1, StateFacts, SetCtrlControls, Zenon
<1> QED BY <1>2, WriteCounterStep, Zenon DEF WriteCtrl

LEMMA WriteValueStep ==
    ASSUME GInv, NEW n \in Counters, NEW v \in Nat, WriteValue(n, v)
    PROVE  GInv'
<1>1. ~counter[n].stopped => counter[n].en
  BY StateFacts DEF OffIsStopped
<1>2. Settled(counter, SetValue(scaler, counter, n, v), n)
  BY StateFacts, SetValueSettles, Zenon
<1>3. Controlled(counter, SetValue(scaler, counter, n, v), n)
  BY <1>1, <1>2, SettledControlled, Zenon
<1> QED BY <1>3, WriteCounterStep, Zenon DEF WriteValue

LEMMA WriteReloadStep ==
    ASSUME GInv, NEW n \in Counters, NEW v \in Nat, WriteReload(n, v)
    PROVE  GInv'
<1> DEFINE k == [counter[n] EXCEPT !.reload = v]
           d == [counter EXCEPT ![n] = k]
<1>0. ~counter[n].stopped => counter[n].en
  BY StateFacts DEF OffIsStopped
<1>1. counter \in CountersAt(now)
  BY StateFacts
<1>2. counter[n] \in CounterAt(now) /\ counter \in [Counters -> CounterAt(now)]
  BY <1>1 DEF CountersAt
<1>3. k \in CounterAt(now)
  BY <1>2 DEF CounterAt
<1>4. /\ k.ch = counter[n].ch /\ k.en = counter[n].en /\ k.stopped = counter[n].stopped
      /\ k.e_wait = counter[n].e_wait
  BY <1>2 DEF CounterAt
<1>5. [counter EXCEPT ![n].reload = v] = d
  BY <1>2
<1> HIDE DEF k
<1>6. Settled(counter, d, n)
  BY <1>1, <1>3, <1>4, AssignSettles, Zenon
<1> HIDE DEF d
<1>7. Controlled(counter, d, n)
  BY <1>0, <1>6, SettledControlled, Zenon
<1>8. WriteCounter(n, d)
  BY <1>5, Zenon DEF WriteReload
<1> QED BY <1>7, <1>8, WriteCounterStep, Zenon

\* Whatever the prescaler is set to, every enabled counter is announced anew.
LEMMA RecalculatedKeeps ==
    ASSUME GInv, NEW s \in PrescalerAt(now)
    PROVE  LET c == Recalculated(s, counter)
           IN  c \in CountersAt(now) /\ OffIsStopped(c) /\ Continues(counter, c)
<1> DEFINE c == Recalculated(s, counter)
<1>1. c \in CountersAt(now) /\ \A n \in Counters :
        /\ c[n].en = counter[n].en /\ c[n].stopped = counter[n].stopped
        /\ counter[n].en => c[n].e_wait >= now
  BY StateFacts, RecalculatedAnnounces, Zenon
<1> HIDE DEF c
<1>2. OffIsStopped(c)
  BY <1>1, StateFacts, Zenon DEF OffIsStopped
<1>3. Continues(counter, c)
  BY <1>1, Zenon DEF Continues, Running
<1> QED BY <1>1, <1>2, <1>3, Zenon DEF c

LEMMA DisarmedTyped ==
    ASSUME now \in Nat
    PROVE  [n \in Counters |-> Unarmed] \in [Counters -> [at : 0..now \cup {None}, value : Nat]]
BY DEF Unarmed

LEMMA SetScalerStep ==
    ASSUME GInv, NEW s \in PrescalerAt(now), SetScaler(s)
    PROVE  GInv'
<1>1. /\ Written /\ UNCHANGED <<now, thread, irq>> /\ scaler' = s /\ wdog' = wdog
      /\ counter' = Recalculated(s, counter) /\ armed' = [n \in Counters |-> Unarmed]
  BY DEF SetScaler, Written
<1>2. counter' \in CountersAt(now) /\ OffIsStopped(counter') /\ Continues(counter, counter')
  BY <1>1, RecalculatedKeeps, Zenon
<1>3. armed' \in [Counters -> [at : 0..now \cup {None}, value : Nat]]
  BY <1>1, StateFacts, DisarmedTyped, Zenon
<1>4. scaler' \in PrescalerAt(now) /\ wdog' \in BOOLEAN
  BY <1>1 DEF GInv, TypeOK
<1> QED BY <1>1, <1>2, <1>3, <1>4, WriteKeeps

LEMMA WriteScalerStep ==
    ASSUME GInv, NEW v \in Nat, WriteScaler(v)
    PROVE  GInv'
<1>1. [scaler EXCEPT !.lasttime = now, !.lastvalue = v] \in PrescalerAt(now)
  BY StateFacts DEF PrescalerAt
<1> QED BY <1>1, SetScalerStep, Zenon DEF WriteScaler

LEMMA WriteScReloadStep ==
    ASSUME GInv, NEW v \in Nat, WriteScReload(v)
    PROVE  GInv'
<1>1. [reload |-> v, lasttime |-> now, lastvalue |-> v] \in PrescalerAt(now)
  BY StateFacts DEF PrescalerAt
<1> QED BY <1>1, SetScalerStep, Zenon DEF WriteScReload

\* After a reset only the watchdog runs, from its announcement.
LEMMA ResetStep ==
    ASSUME GInv, Reset
    PROVE  GInv'
<1> DEFINE s == [reload |-> SMAX, lasttime |-> now, lastvalue |-> SMAX]
           c1 == Recalculated(s, counter)
           c2 == [n \in Counters |->
                    [c1[n] EXCEPT !.en = FALSE, !.rs = FALSE, !.ie = FALSE, !.ch = FALSE,
                        !.reload = 0, !.value = 0, !.lastvalue = 0, !.lasttime = now,
                        !.stopped = TRUE, !.chain_run = FALSE]]
           k == [c2[Last] EXCEPT !.reload = WDOG]
           c3 == [c2 EXCEPT ![Last] = k]
           d == SetCtrl(s, c3, Last, Watchdog)
<1>1. s \in PrescalerAt(now)
  BY StateFacts, GPTimerAssumption DEF PrescalerAt
<1>2. /\ Written /\ UNCHANGED <<now, thread, irq>> /\ scaler' = s /\ wdog' = FALSE
      /\ armed' = [n \in Counters |-> Unarmed]
  BY DEF Reset, Written
<1>3. counter' = IF WDOG = 0 THEN c2
                 ELSE SetCtrl(s, [c2 EXCEPT ![Last].reload = WDOG], Last, Watchdog)
  <2> DEFINE e1(t) == Recalculated(t, counter)
             e2(t) == [n \in Counters |->
                        [e1(t)[n] EXCEPT !.en = FALSE, !.rs = FALSE, !.ie = FALSE, !.ch = FALSE,
                            !.reload = 0, !.value = 0, !.lastvalue = 0, !.lasttime = now,
                            !.stopped = TRUE, !.chain_run = FALSE]]
             e3(t) == IF WDOG = 0 THEN e2(t)
                      ELSE SetCtrl(t, [e2(t) EXCEPT ![Last].reload = WDOG], Last, Watchdog)
  <2>1. counter' = e3(scaler')
    BY DEF Reset
  <2>2. scaler' = s
    BY <1>2
  <2> HIDE DEF s, e3
  <2>3. counter' = e3(s)
    BY <2>1, <2>2
  <2> QED BY <2>3 DEF e3
<1> HIDE DEF s
<1>4. c1 \in CountersAt(now)
  BY <1>1, RecalculatedKeeps, Zenon
<1> HIDE DEF c1
<1>5. \A n \in Counters : c1[n] \in CounterAt(now)
  BY <1>4 DEF CountersAt
<1>6. /\ c2 \in [Counters -> CounterAt(now)]
      /\ \A n \in Counters : c2[n].stopped /\ ~c2[n].ch /\ ~c2[n].en
  <2> DEFINE r(x) == [x EXCEPT !.en = FALSE, !.rs = FALSE, !.ie = FALSE, !.ch = FALSE,
                               !.reload = 0, !.value = 0, !.lastvalue = 0, !.lasttime = now,
                               !.stopped = TRUE, !.chain_run = FALSE]
  <2>1. ASSUME NEW x \in CounterAt(now)
        PROVE  r(x) \in CounterAt(now) /\ r(x).stopped /\ ~r(x).ch /\ ~r(x).en
    BY StateFacts DEF CounterAt
  <2>2. c2 = [n \in Counters |-> r(c1[n])]
    OBVIOUS
  <2> HIDE DEF r, c2
  <2> QED BY <2>1, <2>2, <1>5
<1> HIDE DEF c2
<1>7. c2 \in CountersAt(now) /\ OffIsStopped(c2) /\ Continues(counter, c2)
  BY <1>6, CountersNumbers DEF CountersAt, OffIsStopped, Continues, Running
<1>8. /\ Last \in Counters /\ k \in CounterAt(now) /\ k.ch = c2[Last].ch /\ k.en = c2[Last].en
      /\ k.stopped = c2[Last].stopped /\ k.stopped
  BY <1>6, CountersNumbers, GPTimerAssumption DEF CounterAt
<1>9. [c2 EXCEPT ![Last].reload = WDOG] = c3
  BY <1>6
<1> HIDE DEF k
<1>10. Settled(c2, c3, Last) /\ c3[Last] = k
  BY <1>7, <1>8, AssignSettles, Zenon
<1> HIDE DEF c3
<1>11. c3 \in CountersAt(now) /\ \A n \in Counters : n # Last => c3[n] = c2[n]
  BY <1>10, Zenon DEF Settled, Only
<1>12. Watchdog \in Control /\ ~Watchdog.ch
  BY DEF Watchdog, Control
<1>13. Controlled(c3, d, Last)
  <2>1. ~c3[Last].stopped => c3[Last].en
    BY <1>8, <1>10
  <2> QED BY <2>1, <1>1, <1>8, <1>11, <1>12, StateFacts, SetCtrlControls, Zenon
<1>14. counter' = IF WDOG = 0 THEN c2 ELSE d
  BY <1>3, <1>9, Zenon
<1> HIDE DEF d
<1>15. d \in CountersAt(now) /\ \A n \in Counters : n # Last => d[n] = c2[n]
  BY <1>11, <1>13, Zenon DEF Controlled, Only
<1>16. OffIsStopped(d)
  BY <1>15, <1>6, <1>13, Zenon DEF OffIsStopped, Controlled
<1>17. Continues(counter, d)
  <2> SUFFICES ASSUME NEW n \in Counters, Running(d, n)
               PROVE  d[n].e_wait >= now
    BY Zenon DEF Continues
  <2>1. n = Last
    BY <1>15, <1>6 DEF Running
  <2>2. ~Running(c3, Last)
    BY <1>8, <1>10 DEF Running
  <2> QED BY <2>1, <2>2, <1>13, Zenon DEF Controlled
<1>18. counter' \in CountersAt(now) /\ OffIsStopped(counter') /\ Continues(counter, counter')
  <2>1. CASE WDOG = 0
    BY <2>1, <1>14, <1>7
  <2>2. CASE WDOG # 0
    BY <2>2, <1>14, <1>15, <1>16, <1>17
  <2> QED BY <2>1, <2>2
<1>19. armed' \in [Counters -> [at : 0..now \cup {None}, value : Nat]]
  BY <1>2, StateFacts, DisarmedTyped, Zenon
<1>20. scaler' \in PrescalerAt(now) /\ wdog' \in BOOLEAN
  BY <1>2, <1>1
<1> QED BY <1>2, <1>18, <1>19, <1>20, WriteKeeps

LEMMA WriteStep ==
    ASSUME GInv, Write
    PROVE  GInv'
<1>1. PICK w \in Writes :
        \/ w.reg = "ctrl" /\ WriteCtrl(w.nr, w.ctrl)
        \/ w.reg = "value" /\ WriteValue(w.nr, w.value)
        \/ w.reg = "reload" /\ WriteReload(w.nr, w.value)
        \/ w.reg = "scaler" /\ WriteScaler(w.value)
        \/ w.reg = "screload" /\ WriteScReload(w.value)
        \/ w.reg = "rst" /\ Reset
  BY DEF Write
<1>2. w \in RegisterWrite
  BY GPTimerAssumption
<1>3. CASE w.reg = "ctrl" /\ WriteCtrl(w.nr, w.ctrl)
  <2>1. w.nr \in Counters /\ w.ctrl \in Control
    BY <1>2, <1>3 DEF RegisterWrite
  <2>2. w.ctrl.ch => w.nr # 0
    BY <1>3, GPTimerAssumption
  <2> QED BY <2>1, <2>2, <1>3, WriteCtrlStep, Zenon
<1>4. CASE w.reg = "value" /\ WriteValue(w.nr, w.value)
  <2>1. w.nr \in Counters /\ w.value \in Nat
    BY <1>2, <1>4 DEF RegisterWrite
  <2> QED BY <2>1, <1>4, WriteValueStep, Zenon
<1>5. CASE w.reg = "reload" /\ WriteReload(w.nr, w.value)
  <2>1. w.nr \in Counters /\ w.value \in Nat
    BY <1>2, <1>5 DEF RegisterWrite
  <2> QED BY <2>1, <1>5, WriteReloadStep, Zenon
<1>6. CASE w.reg = "scaler" /\ WriteScaler(w.value)
  <2>1. w.value \in Nat
    BY <1>2, <1>6 DEF RegisterWrite
  <2> QED BY <2>1, <1>6, WriteScalerStep, Zenon
<1>7. CASE w.reg = "screload" /\ WriteScReload(w.value)
  <2>1. w.value \in Nat
    BY <1>2, <1>7 DEF RegisterWrite
  <2> QED BY <2>1, <1>7, WriteScReloadStep, Zenon
<1>8. CASE w.reg = "rst" /\ Reset
  BY <1>8, ResetStep
<1> QED BY <1>1, <1>3, <1>4, <1>5, <1>6, <1>7, <1>8

LEMMA LineNumber ==
    ASSUME NEW n \in Counters
    PROVE  Line(n) \in 0..(31 + NTimers)
BY GPTimerAssumption DEF Line, Counters

\* The announcement that has come true is withdrawn, but the thread is now in its
\* pulse and will announce the next underflow.
LEMMA UnderflowStep ==
    ASSUME GInv, NEW n \in Counters, Underflow(n)
    PROVE  GInv'
<1> DEFINE k == [counter[n] EXCEPT !.e_wait = None, !.m_pirq = counter[n].m_pirq \/ counter[n].ie]
<1>1. /\ UNCHANGED <<now, writes, written, scaler>>
      /\ thread' = [thread EXCEPT ![n].until = now + 1,
                                  ![n].irqnr = IF counter[n].ie THEN Line(n) ELSE @]
      /\ irq' = IF counter[n].ie THEN irq \cup {Line(n)} ELSE irq
      /\ wdog' = (wdog \/ (n = Last /\ WDOG # 0))
      /\ armed' = [armed EXCEPT ![n] = IF @.at # None /\ counter[n].rs
                        THEN [at |-> now, value |-> counter[n].reload] ELSE Unarmed]
      /\ counter' = [counter EXCEPT ![n].e_wait = None, ![n].m_pirq = @ \/ counter[n].ie]
  BY DEF Underflow
<1>2. counter \in CountersAt(now) /\ counter \in [Counters -> CounterAt(now)] /\ counter[n] \in CounterAt(now)
  BY StateFacts DEF CountersAt
<1>3. k \in CounterAt(now)
  <2>1. (counter[n].m_pirq \/ counter[n].ie) \in BOOLEAN
    BY <1>2 DEF CounterAt
  <2> DEFINE b == counter[n].m_pirq \/ counter[n].ie
  <2> HIDE DEF b
  <2>2. [counter[n] EXCEPT !.e_wait = None, !.m_pirq = b] \in CounterAt(now)
    BY <1>2, <2>1 DEF CounterAt, b
  <2> QED BY <2>2 DEF b
<1>4. k.ch = counter[n].ch /\ k.en = counter[n].en /\ k.stopped = counter[n].stopped
  BY <1>2 DEF CounterAt
<1>5. counter' = [counter EXCEPT ![n] = k]
  BY <1>1, <1>2
<1> HIDE DEF k
<1>6. Only(counter, counter', n) /\ counter'[n] = k
  <2>1. k.ch = FALSE \/ n # 0
    BY <1>4, <1>2 DEF GInv, CounterAt
  <2>2. Only(counter, [counter EXCEPT ![n] = k], n) /\ [counter EXCEPT ![n] = k][n] = k
    BY <2>1, <1>2, <1>3, AssignCounter, Zenon
  <2> QED BY <2>2, <1>5, Zenon
<1>7. counter' \in [Counters -> CounterAt(now)] /\ ~counter'[0].ch
  BY <1>6 DEF Only, CountersAt
<1>8. \A m \in Counters : m # n => counter'[m] = counter[m]
  BY <1>6 DEF Only
<1>9. /\ thread' \in [Counters -> [until : {None, now, now + 1}, irqnr : 0..(31 + NTimers)]]
      /\ thread'[n].until = now + 1
      /\ \A m \in Counters : m # n => thread'[m] = thread[m]
  <2>1. thread \in [Counters -> [until : {None, now, now + 1}, irqnr : 0..(31 + NTimers)]]
    BY DEF GInv, TypeOK
  <2> QED BY <1>1, <2>1, LineNumber
<1>10. TypeOK'
  <2>1. irq' \subseteq 0..(31 + NTimers)
    BY <1>1, LineNumber DEF GInv, TypeOK
  <2>2. wdog' \in BOOLEAN
    BY <1>1, Zenon DEF GInv, TypeOK
  <2>3. armed' \in [Counters -> [at : 0..now \cup {None}, value : Nat]]
    <3>1. counter[n].reload \in Nat
      BY <1>2 DEF CounterAt
    <3> DEFINE a == IF armed[n].at # None /\ counter[n].rs
                    THEN [at |-> now, value |-> counter[n].reload] ELSE Unarmed
    <3>2. a \in [at : 0..now \cup {None}, value : Nat]
      BY <3>1, StateFacts DEF Unarmed
    <3>3. armed' = [armed EXCEPT ![n] = a]
      BY <1>1
    <3> HIDE DEF a
    <3> QED BY <3>2, <3>3, StateFacts
  <2> QED BY <1>1, <1>7, <1>9, <2>1, <2>2, <2>3 DEF GInv, TypeOK, CounterAt
<1>11. Scheduled'
  <2> SUFFICES ASSUME NEW m \in Counters, Running(counter', m)
               PROVE  counter'[m].e_wait >= now \/ thread'[m].until \in {now, now + 1}
    BY <1>1 DEF Scheduled, Running
  <2>1. CASE m = n
    BY <2>1, <1>9
  <2>2. CASE m # n
    BY <2>2, <1>8, <1>9 DEF GInv, Scheduled, Running
  <2> QED BY <2>1, <2>2
<1>12. OffIsStopped(counter)'
  BY <1>4, <1>6, <1>8 DEF GInv, OffIsStopped
<1> QED BY <1>7, <1>10, <1>11, <1>12 DEF GInv

\* The loop announces the next underflow in the step in which the pulse ends, and
\* start() the first one of the next counter of the chain.
LEMMA PulseEndStep ==
    ASSUME GInv, NEW n \in Counters, PulseEnd(n)
    PROVE  GInv'
<1> DEFINE nrn == (n + 1) % NTimers
           c == IF counter[nrn].ch THEN Chaining(scaler, counter, nrn) ELSE counter
           r == c[n].rs
           k == [c[n] EXCEPT !.en = r]
           d == [c EXCEPT ![n] = k]
           e == IF r THEN d ELSE Stop(scaler, d, n)
           f == Calculate(scaler, e, n)
<1>1. /\ UNCHANGED <<now, writes, written, scaler, armed>>
      /\ thread' = [thread EXCEPT ![n].until = None]
      /\ irq' = IF counter[n].m_pirq /\ thread[n].irqnr # 0 THEN irq \ {thread[n].irqnr} ELSE irq
      /\ wdog' = (wdog /\ ~(n = Last /\ WDOG # 0))
  BY DEF PulseEnd
<1>2. /\ now \in Nat /\ scaler \in PrescalerAt(now) /\ counter \in CountersAt(now)
      /\ \A m \in Counters : ~counter[m].stopped => counter[m].en
  BY StateFacts DEF OffIsStopped
<1>3. nrn \in Counters
  BY GPTimerAssumption DEF Counters
<1>4. counter' = f
  <2> DEFINE e0(x) == [x EXCEPT ![n].en = x[n].rs]
             e1(x) == IF x[n].rs THEN e0(x) ELSE Stop(scaler, e0(x), n)
  <2>1. counter' = Calculate(scaler, e1(c), n)
    BY DEF PulseEnd, Again, Restart
  <2> HIDE DEF c
  <2>2. c \in [Counters -> CounterAt(now)]
    BY <1>2, <1>3, ChainingSettles DEF c, Settled, Only, CountersAt
  <2>3. e0(c) = d
    BY <2>2
  <2> HIDE DEF e0, d
  <2>4. e1(c) = e
    BY <2>3, Zenon
  <2> HIDE DEF e1, e
  <2> QED BY <2>1, <2>4, Zenon
<1> HIDE DEF nrn
<1>5. Settled(counter, c, nrn)
  <2>1. Settled(counter, Chaining(scaler, counter, nrn), nrn)
    BY <1>2, <1>3, ChainingSettles, Zenon
  <2>2. Settled(counter, counter, nrn)
    BY <1>2, <1>3, SettledReflexive, Zenon
  <2> QED BY <2>1, <2>2
<1> HIDE DEF c
<1>6. Controlled(counter, c, nrn)
  BY <1>2, <1>3, <1>5, SettledControlled, Zenon
<1>7. c \in CountersAt(now) /\ OffIsStopped(c) /\ Continues(counter, c)
  BY <1>3, <1>6, ControlledKeeps, Zenon
<1>8. c \in [Counters -> CounterAt(now)] /\ c[n] \in CounterAt(now) /\ r \in BOOLEAN
  BY <1>7, CounterFacts DEF CountersAt, CounterAt
<1> HIDE DEF r
<1>9. k \in CounterAt(now)
  BY <1>8 DEF CounterAt
<1>10. k.ch = c[n].ch /\ k.en = r /\ k.stopped = c[n].stopped
  BY <1>8 DEF CounterAt
<1> HIDE DEF k
<1>11. Only(c, d, n) /\ d[n] = k
  <2>1. k.ch = FALSE \/ n # 0
    BY <1>10, <1>7, <1>8 DEF CountersAt, CounterAt
  <2> QED BY <2>1, <1>7, <1>9, AssignCounter, Zenon
<1> HIDE DEF d
<1>12. d \in CountersAt(now)
  BY <1>11 DEF Only
<1>13. Only(d, e, n) /\ (r => e = d) /\ (~r => e[n].stopped)
  <2>1. CASE r
    BY <2>1, <1>12 DEF Only
  <2>2. CASE ~r
    BY <2>2, <1>12, <1>2, StopSettles, Zenon DEF Settled
  <2> QED BY <2>1, <2>2
<1> HIDE DEF e
<1>14. e \in CountersAt(now)
  BY <1>13 DEF Only
<1>15. /\ Only(e, f, n) /\ f[n].en = e[n].en /\ f[n].stopped = e[n].stopped
       /\ e[n].en => f[n].e_wait >= now
  BY <1>2, <1>14, CalculateAnnounces, Zenon
<1> HIDE DEF f
<1>16. Only(c, f, n)
  BY <1>11, <1>13, <1>15, OnlyTransitive, Zenon
<1>17. f \in CountersAt(now) /\ \A m \in Counters : m # n => f[m] = c[m]
  BY <1>16 DEF Only
<1>18. ~f[n].stopped => f[n].en
  <2>1. CASE r
    BY <2>1, <1>13, <1>15, <1>11, <1>10, Zenon
  <2>2. CASE ~r
    BY <2>2, <1>13, <1>15, Zenon
  <2> QED BY <2>1, <2>2
<1>19. Running(f, n) => f[n].e_wait >= now
  BY <1>15, Zenon DEF Running
<1>20. OffIsStopped(f)
  <2> SUFFICES ASSUME NEW m \in Counters
               PROVE  ~f[m].stopped => f[m].en
    BY Zenon DEF OffIsStopped
  <2>1. CASE m = n
    BY <2>1, <1>18, Zenon
  <2>2. CASE m # n
    BY <2>2, <1>17, <1>7 DEF OffIsStopped
  <2> QED BY <2>1, <2>2
<1>21. thread' \in [Counters -> [until : {None, now, now + 1}, irqnr : 0..(31 + NTimers)]]
  BY <1>1 DEF GInv, TypeOK
<1>22. \A m \in Counters : m # n => thread'[m] = thread[m]
  BY <1>1 DEF GInv, TypeOK
<1>23. TypeOK'
  <2>1. irq' \subseteq 0..(31 + NTimers)
    BY <1>1 DEF GInv, TypeOK
  <2>2. wdog' \in BOOLEAN
    BY <1>1, Zenon DEF GInv, TypeOK
  <2>3. counter' \in [Counters -> CounterAt(now)]
    BY <1>4, <1>17 DEF CountersAt
  <2> QED BY <1>1, <1>21, <2>1, <2>2, <2>3 DEF GInv, TypeOK, CounterAt
<1>24. Scheduled'
  <2> SUFFICES ASSUME NEW m \in Counters, Running(f, m)
               PROVE  f[m].e_wait >= now \/ thread'[m].until \in {now, now + 1}
    BY <1>1, <1>4 DEF Scheduled, Running
  <2>1. CASE m = n
    BY <2>1, <1>19
  <2>2. CASE m # n
    <3>1. Running(c, m) /\ f[m].e_wait = c[m].e_wait
      BY <2>2, <1>17 DEF Running
    <3>2. c[m].e_wait >= now \/ (Running(counter, m) /\ c[m].e_wait = counter[m].e_wait)
      BY <3>1, <1>7, Zenon DEF Continues
    <3> QED BY <3>1, <3>2, <2>2, <1>22 DEF GInv, Scheduled
  <2> QED BY <2>1, <2>2
<1>25. ~counter'[0].ch
  BY <1>4, <1>17 DEF CountersAt
<1>26. OffIsStopped(counter)'
  BY <1>4, <1>20 DEF OffIsStopped
<1> QED BY <1>23, <1>24, <1>25, <1>26 DEF GInv

\* Time passes only when no announcement is for this cycle and no pulse ends in it, so
\* what is announced is still to come in the next.
LEMMA TickStep ==
    ASSUME GInv, Tick
    PROVE  GInv'
<1>1. /\ now < HORIZON /\ now' = now + 1 /\ written' = FALSE
      /\ \A n \in Counters : counter[n].e_wait # now /\ thread[n].until # now
      /\ UNCHANGED <<writes, scaler, counter, thread, irq, wdog, armed>>
  BY DEF Tick
<1>2. now \in Nat /\ counter \in [Counters -> CounterAt(now)]
  BY StateFacts DEF CountersAt
<1>3. TypeOK'
  <2>1. now' \in 0..HORIZON /\ 0..now \subseteq 0..now'
    BY <1>1, <1>2, GPTimerAssumption DEF GInv, TypeOK
  <2>2. thread' \in [Counters -> [until : {None, now', now' + 1}, irqnr : 0..(31 + NTimers)]]
    BY <1>1, <1>2 DEF GInv, TypeOK
  <2>3. counter' \in [Counters -> CounterAt(now')]
    <3>1. CounterAt(now) \subseteq CounterAt(now')
      BY <2>1 DEF CounterAt
    <3> QED BY <3>1, <1>1, <1>2
  <2>4. scaler' \in [reload : Nat, lasttime : 0..now', lastvalue : Nat]
    BY <2>1, <1>1 DEF GInv, TypeOK
  <2>5. armed' \in [Counters -> [at : 0..now' \cup {None}, value : Nat]]
    BY <2>1, <1>1 DEF GInv, TypeOK
  <2>6. written' \in BOOLEAN
    BY <1>1, Zenon
  <2> QED BY <1>1, <2>1, <2>2, <2>3, <2>4, <2>5, <2>6 DEF GInv, TypeOK, CounterAt
<1>4. Scheduled'
  <2> SUFFICES ASSUME NEW n \in Counters, Running(counter, n)
               PROVE  counter[n].e_wait >= now + 1 \/ thread[n].until \in {now + 1, now + 2}
    BY <1>1, <1>2 DEF Scheduled, Running
  <2>1. counter[n].e_wait # now /\ thread[n].until # now
    BY <1>1
  <2>2. counter[n].e_wait \in Nat \cup {None}
    BY <1>2 DEF CounterAt
  <2>3. counter[n].e_wait >= now \/ thread[n].until \in {now, now + 1}
    BY DEF GInv, Scheduled
  <2> QED BY <2>1, <2>2, <2>3, <1>2 DEF None
<1>5. ~counter'[0].ch /\ OffIsStopped(counter)'
  BY <1>1 DEF GInv, OffIsStopped
<1> QED BY <1>3, <1>4, <1>5 DEF GInv

LEMMA StepInv == GInv /\ [Next]_gpvars => GInv'
<1> SUFFICES ASSUME GInv, [Next]_gpvars
             PROVE  GInv'
  OBVIOUS
<1>1. CASE Write
  BY <1>1, WriteStep
<1>2. CASE Tick
  BY <1>2, TickStep
<1>3. ASSUME NEW n \in Counters, Underflow(n)
      PROVE  GInv'
  BY <1>3, UnderflowStep
<1>4. ASSUME NEW n \in Counters, PulseEnd(n)
      PROVE  GInv'
  BY <1>4, PulseEndStep
<1>5. CASE UNCHANGED gpvars
  BY <1>5 DEF gpvars, GInv, TypeOK, Scheduled, Running, OffIsStopped
<1> QED BY <1>1, <1>2, <1>3, <1>4, <1>5 DEF Next, End

LEMMA AlwaysInv == Spec => []GInv
BY InitInv, StepInv, PTL DEF Spec

\* Every register and every computed register keeps to its type: value_read(),
\* scaler_read() and the announcements of calculate() are never negative, whatever is
\* written when and however often the prescaler has wrapped.
THEOREM TypeCorrect == Spec => []TypeOK
<1>1. GInv => TypeOK
  BY DEF GInv
<1> QED BY <1>1, AlwaysInv, PTL

\* No lost wakeup: a counter that runs has its underflow announced for this cycle or a
\* later one, or its thread is in the pulse and announces the next when it ends.
THEOREM NoLostWakeup == Spec => []Scheduled
<1>1. GInv => Scheduled
  BY DEF GInv
<1> QED BY <1>1, AlwaysInv, PTL

----------------------------------------------------------------------------
(***************************************************************************)
(* Now the periods: the counters, which nothing decrements, have the       *)
(* periods of counters that are decremented: UnderflowPeriod, for any      *)
(* number of counters, any prescaler and any values.                       *)
(*                                                                         *)
(* Number the ticks of the prescaler from the one in which it first        *)
(* reaches zero.  A counter underflows n + 1 cycles after a tick and one   *)
(* or two more (InPhase): the announcements never drift away from the      *)
(* prescaler, and the number of its tick, less that of the tick at which   *)
(* the counter was to reach zero first, is a multiple of the reload value  *)
(* plus one and at most the ticks that pass while a pulse ends.  What is   *)
(* counted back from such a cycle is then known, and with it the next      *)
(* announcement.                                                           *)
(***************************************************************************)

TickLength(s) == s.reload + 1

\* The cycle of tick 0.
Origin(s) == s.lastvalue + s.lasttime + 2

\* The first tick after the cycle t.
TickAfter(s, t) == ((t - Origin(s)) \div TickLength(s)) + 1

\* Steady, of any prescaler and counter.
CountedDown(s, k) == s.lastvalue =< s.reload /\ k.lasttime > s.lasttime + 1

\* The ticks from the underflow of counter n, which is n + 1 + r cycles after a tick, to
\* the end of its pulse, but for the one value_read has counted.
Skipped(tick, n, r) == ((r + n + 2) \div tick) - (IF r = tick THEN 1 ELSE 0)

\* Counter n, with the registers k, may underflow in cycle u.
InPhase(s, k, n, u) ==
    \E r \in 1..2, x \in 0..2 :
        LET y == u - n - 1 - Origin(s) - r
            past == (y \div TickLength(s)) - TickAfter(s, k.lasttime) - k.lastvalue - x
        IN  /\ x =< Skipped(TickLength(s), n, r)
            /\ y % TickLength(s) = 0
            /\ past >= 0 /\ past % (k.reload + 1) = 0

\* UnderflowPeriod for an underflow of that counter in cycle u, measured from a.
InTime(s, k, n, a, u) ==
    LET tick == s.reload + 1
        period == (a.value + 1) * tick
        elapsed == u - a.at
        restarted == a.at > k.lasttime
    IN  /\ elapsed > a.value * tick
        /\ elapsed =< period + n + 4
        /\ restarted => elapsed >= period - 1
        /\ restarted /\ tick > n + 4 => elapsed =< period

\* The inductive invariant, with GInv: a counter that is armed runs on its own, and its
\* announcement, or the underflow whose pulse has not ended, is in phase.
Measured(n) ==
    LET k == counter[n]
        a == armed[n]
        until == thread[n].until
    IN  a.at # None =>
            /\ k.en /\ ~k.stopped /\ ~k.ch
            /\ until # None => k.rs /\ a.at = until - 1 /\ a.value = k.reload
            /\ scaler.reload >= NTimers /\ CountedDown(scaler, k) =>
                 IF until = None
                 THEN InPhase(scaler, k, n, k.e_wait) /\ InTime(scaler, k, n, a, k.e_wait)
                 ELSE InPhase(scaler, k, n, a.at)

PInv == \A n \in Counters : Measured(n)

----------------------------------------------------------------------------
(* Division *)

LEMMA DivMod ==
    ASSUME NEW a \in Int, NEW K \in Nat \ {0}
    PROVE  /\ a \div K \in Int /\ a % K \in 0..(K - 1)
           /\ a = K * (a \div K) + (a % K)
OBVIOUS

LEMMA Monotone ==
    ASSUME NEW K \in Nat \ {0}, NEW p \in Int, NEW q \in Int, p < q
    PROVE  K * p + K =< K * q
<1> DEFINE e == q - p - 1
<1>1. e \in Nat /\ q = p + 1 + e
  OBVIOUS
<1> HIDE DEF e
<1>2. K * e \in Nat /\ K * q = K * p + K + K * e
  BY <1>1
<1>3. K * p \in Int
  OBVIOUS
<1> QED BY <1>2, <1>3

LEMMA DivUnique ==
    ASSUME NEW K \in Nat \ {0}, NEW q \in Int, NEW r \in 0..(K - 1)
    PROVE  (K * q + r) \div K = q /\ (K * q + r) % K = r
<1> DEFINE a == K * q + r
           d == a \div K
           m == a % K
<1>1. a \in Int
  OBVIOUS
<1>2. d \in Int /\ m \in 0..(K - 1) /\ a = K * d + m
  BY <1>1, DivMod
<1>3. a = K * q + r
  OBVIOUS
<1> HIDE DEF a, d, m
<1>4. d = q
  <2>1. ASSUME d < q
        PROVE  FALSE
    <3>1. K * d + K =< K * q
      BY <2>1, <1>2, Monotone
    <3>2. K * d \in Int /\ K * q \in Int
      BY <1>2
    <3> QED BY <3>1, <3>2, <1>2, <1>3
  <2>2. ASSUME q < d
        PROVE  FALSE
    <3>1. K * q + K =< K * d
      BY <2>2, <1>2, Monotone
    <3>2. K * d \in Int /\ K * q \in Int
      BY <1>2
    <3> QED BY <3>1, <3>2, <1>2, <1>3
  <2> QED BY <2>1, <2>2, <1>2
<1>5. m = r
  BY <1>2, <1>3, <1>4
<1> QED BY <1>4, <1>5 DEF d, m, a

\* A multiple of K more or less.
LEMMA DivShift ==
    ASSUME NEW K \in Nat \ {0}, NEW a \in Int, NEW b \in Int, NEW q \in Int, a = K * q + b
    PROVE  a \div K = q + (b \div K) /\ a % K = b % K
<1> DEFINE d == b \div K
           m == b % K
<1>1. d \in Int /\ m \in 0..(K - 1) /\ b = K * d + m
  BY DivMod
<1> HIDE DEF d, m
<1>2. q + d \in Int /\ a = K * (q + d) + m
  BY <1>1
<1>3. a \div K = q + d /\ a % K = m
  BY <1>1, <1>2, DivUnique
<1> QED BY <1>3 DEF d, m

LEMMA Exact ==
    ASSUME NEW K \in Nat \ {0}, NEW a \in Int, a % K = 0
    PROVE  a \div K \in Int /\ a = K * (a \div K) /\ (a >= 0 => a \div K >= 0)
<1> DEFINE d == a \div K
<1>1. d \in Int /\ a = K * d
  <2>1. a \div K \in Int /\ a = K * (a \div K) + (a % K)
    BY DivMod
  <2>2. K * (a \div K) \in Int
    BY <2>1
  <2> QED BY <2>1, <2>2
<1> HIDE DEF d
<1>2. a >= 0 => d >= 0
  <2>1. ASSUME d < 0
        PROVE  a < 0
    <3>1. K * d + K =< K * 0
      BY <1>1, <2>1, Monotone
    <3> QED BY <3>1, <1>1
  <2> QED BY <2>1, <1>1
<1> QED BY <1>1, <1>2 DEF d

----------------------------------------------------------------------------
(* One period, in numbers *)

\* Ticks are longer than the counters are many.
LEMMA SkippedBounds ==
    ASSUME NEW K \in Nat, NEW n \in Nat, n + 2 =< K, NEW r \in 1..2
    PROVE  Skipped(K, n, r) \in 0..2
<1> DEFINE c == (r + n + 2) \div K
           m == (r + n + 2) % K
<1>1. c \in Int /\ m \in 0..(K - 1) /\ r + n + 2 = K * c + m
  BY DivMod
<1> HIDE DEF c, m
<1>2. c >= 0
  <2>1. ASSUME c < 0
        PROVE  FALSE
    <3>1. K * c + K =< K * 0
      BY <1>1, <2>1, Monotone
    <3> QED BY <3>1, <1>1
  <2> QED BY <2>1, <1>1
<1>3. c =< 2
  <2>1. ASSUME c > 2
        PROVE  FALSE
    <3>1. K * 2 + K =< K * c
      BY <1>1, <2>1, Monotone
    <3> QED BY <3>1, <1>1
  <2> QED BY <2>1, <1>1
<1>4. r = K => c # 0
  BY <1>1
<1> QED BY <1>1, <1>2, <1>3, <1>4 DEF Skipped, c

\* If the next underflow is r2 cycles after its tick, as many ticks are skipped then.
LEMMA SkippedGrows ==
    ASSUME NEW K \in Nat, NEW n \in Nat, n + 2 =< K, NEW r \in 1..2
    PROVE  LET m == (r + n + 2) % K
           IN  Skipped(K, n, r) =< Skipped(K, n, IF m = 0 THEN 2 ELSE 1)
<1> DEFINE c == (r + n + 2) \div K
           m == (r + n + 2) % K
           e == IF m = 0 THEN 2 ELSE 1
<1>1. c \in Int /\ m \in 0..(K - 1) /\ r + n + 2 = K * c + m /\ K \in Nat \ {0}
  <2>1. K \in Nat \ {0} /\ r + n + 2 \in Int
    OBVIOUS
  <2> QED BY <2>1, DivMod
<1>2. CASE r = e
  <2>1. Skipped(K, n, r) \in Int
    BY SkippedBounds
  <2> HIDE DEF m
  <2>2. Skipped(K, n, e) = Skipped(K, n, r)
    BY <1>2
  <2> QED BY <2>1, <2>2 DEF m
<1>3. CASE r = 2 /\ e = 1
  <2>1. m # 0 /\ m - 1 \in 0..(K - 1) /\ 1 + n + 2 = K * c + (m - 1)
    BY <1>1, <1>3
  <2> HIDE DEF c, m
  <2>2. (1 + n + 2) \div K = c
    BY <2>1, <1>1, DivUnique
  <2>3. Skipped(K, n, 1) = c
    BY <2>2, <1>1 DEF Skipped
  <2>4. Skipped(K, n, 2) =< c
    BY <1>1, <1>3 DEF Skipped, c
  <2> QED BY <1>3, <2>3, <2>4 DEF m
<1>4. CASE r = 1 /\ e = 2
  <2>1. m = 0 /\ 1 \in 0..(K - 1) /\ 2 + n + 2 = K * c + 1
    BY <1>1, <1>4
  <2> HIDE DEF c, m
  <2>2. (2 + n + 2) \div K = c
    BY <2>1, <1>1, DivUnique
  <2>3. K # 2
    <3>1. K = 2 => n = 0 /\ 4 = 2 * c + 1
      BY <2>1
    <3> QED BY <3>1, <1>1
  <2>4. Skipped(K, n, 2) = c
    BY <2>2, <2>3, <1>1 DEF Skipped
  <2>5. Skipped(K, n, 1) = c
    BY <1>1, <1>4 DEF Skipped, c
  <2> QED BY <1>1, <1>4, <2>4, <2>5 DEF m
<1>5. e \in 1..2
  OBVIOUS
<1> QED BY <1>2, <1>3, <1>4, <1>5

\* What value_read yields in the cycle after an underflow, t more ticks than the value of
\* the counter after z whole periods: the value v from which the next one is a whole
\* period away.
LEMMA Reloaded ==
    ASSUME NEW M \in Nat \ {0}, NEW i \in Nat, NEW t \in Nat \ {0}
    PROVE  LET rem == CRem(-(M * i + t), M)
               v == IF rem >= 0 THEN rem ELSE M + rem
           IN  /\ rem \in Int
               /\ v \in Nat /\ v =< M - 1 /\ v + t >= M
               /\ \E h \in Nat : v + t = M * h
<1> DEFINE z == (M * i + t) % M
           q == t \div M
           rem == CRem(-(M * i + t), M)
           v == IF rem >= 0 THEN rem ELSE M + rem
<1>0. M * i \in Nat
  OBVIOUS
<1>1. q \in Int /\ t % M \in 0..(M - 1) /\ t = M * q + (t % M)
  BY DivMod
<1>2. z = t % M
  <2>1. M * i + t \in Int /\ t \in Int /\ i \in Int
    BY <1>0
  <2> QED BY <2>1, DivShift
<1>3. q >= 0
  <2>1. ASSUME q < 0
        PROVE  FALSE
    <3>1. M * q + M =< M * 0
      BY <1>1, <2>1, Monotone
    <3> QED BY <3>1, <1>1
  <2> QED BY <2>1, <1>1
<1>4. rem = -z
  <2>1. -(M * i + t) < 0 /\ -(-(M * i + t)) = M * i + t
    BY <1>0
  <2> DEFINE a == -(M * i + t)
  <2>2. CRem(a, M) = -((-a) % M)
    <3>1. a < 0 /\ a \in Int
      BY <2>1, <1>0
    <3> HIDE DEF a
    <3> QED BY <3>1 DEF CRem
  <2>3. -a = M * i + t
    BY <2>1
  <2> HIDE DEF a
  <2>4. CRem(a, M) = -z
    BY <2>2, <2>3
  <2> QED BY <2>4 DEF a
<1>5. z \in 0..(M - 1) /\ t = M * q + z
  BY <1>1, <1>2
<1>6. rem \in Int /\ q \in Nat /\ v = IF z = 0 THEN 0 ELSE M - z
  <2> HIDE DEF z, q, rem
  <2>1. rem \in Int /\ q \in Nat /\ (rem >= 0 <=> z = 0)
    BY <1>1, <1>3, <1>4, <1>5
  <2> QED BY <2>1, <1>4, <1>5
<1> HIDE DEF z, q, rem, v
<1>7. M * q \in Nat /\ M * (q + 1) = M * q + M /\ (q # 0 => M * q >= M)
  <2>1. M * q \in Nat /\ M * (q + 1) = M * q + M
    BY <1>6
  <2>2. q # 0 => M * 0 + M =< M * q
    BY <1>6, Monotone
  <2> QED BY <2>1, <2>2
<1>8. v \in Nat /\ v =< M - 1 /\ v + t >= M /\ \E h \in Nat : v + t = M * h
  <2>1. CASE z = 0
    <3>1. v = 0 /\ t = M * q /\ q # 0
      BY <2>1, <1>5, <1>6
    <3> QED BY <3>1, <1>6, <1>7
  <2>2. CASE z # 0
    <3>1. v = M - z /\ v + t = M * (q + 1) /\ q + 1 \in Nat
      BY <2>2, <1>5, <1>6, <1>7
    <3>2. v \in Nat /\ v =< M - 1 /\ v + t >= M
      BY <3>1, <2>2, <1>5, <1>7
    <3> QED BY <3>1, <3>2
  <2> QED BY <2>1, <2>2
<1> QED BY <1>6, <1>8 DEF v, rem

----------------------------------------------------------------------------
(* Computed registers *)

LEMMA PrescalerFacts ==
    ASSUME NEW t \in Nat, NEW s \in PrescalerAt(t)
    PROVE  /\ s.reload \in Nat /\ s.lastvalue \in Nat /\ s.lasttime \in Nat
           /\ TickLength(s) \in Nat \ {0} /\ Origin(s) \in Int
BY DEF PrescalerAt, TickLength, Origin

LEMMA DivOne == \A a \in Int : a \div 1 = a
<1>1. ASSUME NEW a \in Int
      PROVE  a \div 1 = a
  <2>1. a = 1 * a + 0 /\ 0 \in 0..(1 - 1)
    OBVIOUS
  <2>2. (1 * a + 0) \div 1 = a
    BY <2>1, DivUnique
  <2> QED BY <2>1, <2>2
<1> QED BY <1>1

\* The prescaler, so many cycles ago, if it had been written by then.
LEMMA ValueOfCycles ==
    ASSUME NEW t \in Nat, NEW s \in PrescalerAt(t), NEW a \in Int, NEW offset \in Nat,
           a - offset > s.lasttime
    PROVE  ValueOf(s, a, offset, 1) = Origin(s) - (a - offset)
<1> DEFINE d == a - s.lasttime - ((1 + offset) * 1)
<1>1. s.lasttime \in Int /\ s.lastvalue \in Int
  BY PrescalerFacts
<1>2. d \in Int /\ d >= 0 /\ d = a - s.lasttime - 1 - offset
  BY <1>1
<1>3. ValueOf(s, a, offset, 1) = s.lastvalue - ((IF d >= 0 THEN d ELSE WRAP + d) \div 1) + 1
  BY DEF ValueOf
<1> HIDE DEF d
<1>4. d \div 1 = d
  BY <1>2, DivOne
<1>5. ValueOf(s, a, offset, 1) = s.lastvalue - d + 1
  BY <1>2, <1>3, <1>4
<1> QED BY <1>1, <1>2, <1>5 DEF Origin

\* scaler_read, m cycles after a tick: the cycles to the next, but for a tick itself.
LEMMA ScalerCycles ==
    ASSUME now \in Nat, NEW s \in PrescalerAt(now), s.lastvalue =< s.reload, now > s.lasttime + 1
    PROVE  LET m == (now - Origin(s)) % TickLength(s)
           IN  Scaler(s) = IF m = 0 THEN TickLength(s) ELSE TickLength(s) - m - 1
<1> DEFINE K == TickLength(s)
           a == Origin(s) - now
           v == CRem(a - K, K)
           m == (-a) % K
<1>1. s.lasttime \in Nat /\ s.lastvalue \in Nat /\ s.reload \in Nat /\ K \in Nat \ {0}
  BY PrescalerFacts
<1>2. a \in Int /\ a - K < 0 /\ a - K \in Int /\ -(a - K) = K * 1 + (-a) /\ -a = now - Origin(s)
  BY <1>1 DEF Origin, TickLength
<1>3. ValueOf(s, now, 0, 1) = a
  <2>1. ValueOf(s, now, 0, 1) = Origin(s) - (now - 0)
    BY <1>1, ValueOfCycles
  <2> QED BY <2>1, <1>1, PrescalerFacts
<1>4. Scaler(s) = IF v < 0 THEN K + v - 1 ELSE K - v
  BY <1>3 DEF Scaler, TickLength
<1> HIDE DEF a, K
<1>5. (-(a - K)) % K = m /\ m \in 0..(K - 1)
  <2> DEFINE p == -(a - K)
             q == -a
             e == 1
  <2>1. p \in Int /\ q \in Int /\ e \in Int /\ p = K * e + q
    BY <1>1, <1>2
  <2> HIDE DEF p, q, e
  <2>2. p % K = q % K /\ q % K \in 0..(K - 1)
    BY <2>1, <1>1, DivShift, DivMod
  <2> QED BY <2>2 DEF p, q
<1>6. v = -m
  BY <1>2, <1>5 DEF CRem
<1> HIDE DEF v, m
<1>7. Scaler(s) = IF m = 0 THEN K ELSE K - m - 1
  BY <1>1, <1>4, <1>5, <1>6
<1> QED BY <1>7, <1>2 DEF m, K

LEMMA TickAfterTyped ==
    ASSUME NEW t \in Nat, NEW s \in PrescalerAt(t), NEW k \in CounterAt(t), CountedDown(s, k)
    PROVE  TickAfter(s, k.lasttime) \in Nat
<1> DEFINE K == TickLength(s)
           a == k.lasttime - Origin(s)
           d == a \div K
<1>1. /\ s.lasttime \in Nat /\ s.lastvalue \in Nat /\ s.reload \in Nat /\ K \in Nat \ {0}
      /\ k.lasttime \in Nat
  BY PrescalerFacts DEF CounterAt
<1>2. a \in Int /\ a > -K
  BY <1>1 DEF Origin, TickLength, CountedDown
<1> HIDE DEF a, K
<1>3. d \in Int /\ a % K \in 0..(K - 1) /\ a = K * d + (a % K)
  BY <1>1, <1>2, DivMod
<1> HIDE DEF d
<1>4. d >= -1
  <2>1. ASSUME d < -1
        PROVE  FALSE
    <3>1. K * d + K =< K * (-1)
      BY <1>1, <1>3, <2>1, Monotone
    <3> QED BY <3>1, <1>1, <1>2, <1>3
  <2> QED BY <2>1, <1>3
<1> QED BY <1>3, <1>4 DEF TickAfter, d, a, K

\* numberofticksbetween, from the start of a counter to a cycle after tick 0.
LEMMA TicksCounted ==
    ASSUME now \in Nat, NEW s \in PrescalerAt(now), NEW k \in CounterAt(now), CountedDown(s, k),
           NEW offset \in Nat, now - offset > Origin(s)
    PROVE  LET y == now - offset - Origin(s)
               ticks == (y \div TickLength(s)) - TickAfter(s, k.lasttime) + 1
           IN  /\ ticks \in Int
               /\ ticks >= 0 => NumberOfTicksBetween(s, k.lasttime, now, offset, 1) = ticks
<1> DEFINE K == TickLength(s)
           y == now - offset - Origin(s)
           a == k.lasttime - Origin(s)
           va == ValueOf(s, k.lasttime, 0, 1)
           vb == ValueOf(s, now, offset, 1)
           one == IF va > 0 /\ vb < 0 THEN 1 ELSE 0
           diff == CDiv(va, K) + one - CDiv(vb, K)
<1>1. /\ s.lasttime \in Nat /\ s.lastvalue \in Nat /\ s.reload \in Nat /\ K \in Nat \ {0}
      /\ k.lasttime \in Nat /\ k.lasttime > s.lasttime + 1 /\ Origin(s) \in Int
      /\ Origin(s) > s.lasttime
  BY PrescalerFacts DEF CounterAt, CountedDown, Origin
<1>2. va = -a /\ a \in Int /\ -a < K
  <2>1. k.lasttime - 0 > s.lasttime
    BY <1>1
  <2>2. va = Origin(s) - (k.lasttime - 0)
    BY <2>1, <1>1, ValueOfCycles
  <2> QED BY <2>2, <1>1 DEF Origin, TickLength, CountedDown
<1>3. vb = -y /\ y \in Int /\ y > 0
  <2>1. now - offset > s.lasttime
    BY <1>1
  <2>2. vb = Origin(s) - (now - offset)
    BY <2>1, <1>1, ValueOfCycles
  <2> QED BY <2>2, <1>1
<1>4. TickAfter(s, k.lasttime) = (a \div K) + 1
  BY DEF TickAfter
<1>5. NumberOfTicksBetween(s, k.lasttime, now, offset, 1) = IF diff >= 0 THEN diff ELSE -diff
  BY DEF NumberOfTicksBetween, TickLength
<1> HIDE DEF va, vb, a, y, K
<1>6. a \div K \in Int /\ y \div K \in Int
  BY <1>1, <1>2, <1>3, DivMod
<1>7. CDiv(vb, K) = -(y \div K)
  BY <1>3 DEF CDiv
<1>7a. CDiv(va, K) \in Int /\ one \in Int
  <2>1. va \in Int
    BY <1>2
  <2> QED BY <2>1, <1>1, Quotient
<1>8. CDiv(va, K) + one = -(a \div K)
  <2>1. CASE a > 0
    <3>1. CDiv(va, K) = -(a \div K) /\ one = 0
      BY <2>1, <1>2 DEF CDiv
    <3> QED BY <3>1, <1>6
  <2>2. CASE a = 0
    <3>1. 0 = K * 0 + 0 /\ 0 \in 0..(K - 1)
      BY <1>1
    <3>2. 0 \div K = 0
      BY <3>1, <1>1, DivUnique
    <3>3. CDiv(va, K) = 0 /\ one = 0
      BY <2>2, <1>2, <3>2 DEF CDiv
    <3> QED BY <2>2, <3>2, <3>3
  <2>3. CASE a < 0
    <3>1. -a \in 0..(K - 1) /\ -a = K * 0 + (-a)
      BY <2>3, <1>1, <1>2
    <3>2. (-a) \div K = 0
      BY <3>1, <1>1, DivUnique
    <3>3. CDiv(va, K) = 0 /\ one = 1
      BY <2>3, <1>2, <1>3, <3>2 DEF CDiv
    <3>4. a + K \in 0..(K - 1) /\ a = K * (-1) + (a + K)
      BY <2>3, <1>1, <1>2
    <3>5. a \div K = -1
      <4> DEFINE b == a + K
                 q == -1
      <4>1. b \in 0..(K - 1) /\ a = K * q + b /\ q \in Int
        BY <3>4
      <4> HIDE DEF b, q
      <4>2. a \div K = q
        BY <4>1, <1>1, DivUnique
      <4> QED BY <4>2 DEF q
    <3> QED BY <3>3, <3>5
  <2> QED BY <2>1, <2>2, <2>3, <1>2
<1> HIDE DEF one
<1>9. diff = (y \div K) - TickAfter(s, k.lasttime) + 1
  <2> DEFINE da == a \div K
             dy == y \div K
             ca == CDiv(va, K) + one
  <2>1. da \in Int /\ dy \in Int /\ ca = -da /\ CDiv(vb, K) = -dy
    BY <1>6, <1>7, <1>8
  <2>2. TickAfter(s, k.lasttime) = da + 1
    BY <1>4
  <2>3. diff = ca - CDiv(vb, K)
    <3>1. CDiv(vb, K) \in Int
      BY <2>1
    <3> QED BY <3>1, <1>7a
  <2> HIDE DEF da, dy, ca, diff
  <2>4. diff = dy - TickAfter(s, k.lasttime) + 1
    BY <2>1, <2>2, <2>3
  <2> QED BY <2>4 DEF dy
<1>10. diff \in Int
  BY <1>4, <1>6, <1>9
<1> HIDE DEF diff
<1> QED BY <1>5, <1>9, <1>10 DEF y, K

\* The ticks of an underflow have been counted r cycles after it, one more if a tick is
\* that short.
LEMMA TickPassed ==
    ASSUME NEW K \in Nat, K >= 2, NEW Y \in Int, NEW r \in 1..2
    PROVE  (K * Y + r) \div K = Y + (IF r = K THEN 1 ELSE 0)
<1>0. K \in Nat \ {0} /\ K * Y \in Int
  OBVIOUS
<1>1. CASE r = K
  <2> DEFINE z == 0
             Y1 == Y + 1
  <2>1. K * Y + r = K * Y1 + z /\ z \in 0..(K - 1) /\ Y1 \in Int
    BY <1>0, <1>1
  <2> HIDE DEF z, Y1
  <2>2. (K * Y + r) \div K = Y1
    BY <2>1, <1>0, DivUnique
  <2> QED BY <2>2, <1>1 DEF Y1
<1>2. CASE r # K
  <2>1. r \in 0..(K - 1)
    BY <1>2
  <2>2. (K * Y + r) \div K = Y
    BY <2>1, <1>0, DivUnique
  <2> QED BY <2>2, <1>2
<1> QED BY <1>1, <1>2

\* value_read in the cycle after an underflow of a counter that restarts.
LEMMA ValueAfterUnderflow ==
    ASSUME now \in Nat, NEW s \in PrescalerAt(now), NEW c \in CountersAt(now), NEW n \in Counters,
           ~c[n].ch, ~c[n].stopped, c[n].rs, CountedDown(s, c[n]), n + 2 =< TickLength(s),
           NEW r \in 1..2, NEW x \in 0..2, NEW i \in Nat, NEW Y,
           Y = TickAfter(s, c[n].lasttime) + c[n].lastvalue + x + (c[n].reload + 1) * i,
           now = n + 2 + Origin(s) + TickLength(s) * Y + r
    PROVE  LET v == Value(s, c, n)
               M == c[n].reload + 1
               t == x + (IF r = TickLength(s) THEN 1 ELSE 0) + 1
           IN  v \in Nat /\ v =< M - 1 /\ v + t >= M /\ \E h \in Nat : v + t = M * h
<1> DEFINE k == c[n]
           K == TickLength(s)
           M == k.reload + 1
           t == x + (IF r = K THEN 1 ELSE 0) + 1
           F == TickAfter(s, k.lasttime)
           y == now - (n + 2) - Origin(s)
           ticks == NumberOfTicksBetween(s, k.lasttime, now, n + 2, 1)
           rem == CRem(k.lastvalue - ticks, M)
           v == Value(s, c, n)
<1>1. /\ k \in CounterAt(now) /\ k.reload \in Nat /\ k.lastvalue \in Nat /\ k.rs \in BOOLEAN
      /\ n \in Nat /\ K \in Nat \ {0} /\ K >= 2 /\ Origin(s) \in Int /\ M \in Nat \ {0}
  <2>1. /\ k \in CounterAt(now) /\ k.reload \in Nat /\ k.lastvalue \in Nat /\ k.rs \in BOOLEAN
    BY CounterFacts
  <2>2. n \in Nat /\ K \in Nat \ {0} /\ Origin(s) \in Int
    BY PrescalerFacts, CountersNumbers
  <2> HIDE DEF k
  <2>3. M \in Nat \ {0}
    BY <2>1
  <2>4. K >= 2
    BY <2>2
  <2> QED BY <2>1, <2>2, <2>3, <2>4
<1>2. F \in Nat
  BY <1>1, TickAfterTyped
<1>3. v = IF rem >= 0 THEN rem ELSE M + rem
  BY <1>1 DEF Value
<1>4. Y = F + k.lastvalue + x + M * i /\ CountedDown(s, k) /\ now = n + 2 + Origin(s) + K * Y + r
  OBVIOUS
<1> HIDE DEF k, K, M, F, v
<1>5. M * i \in Nat /\ Y \in Nat /\ K * Y \in Nat /\ t \in Nat \ {0}
  <2>1. M * i \in Nat
    BY <1>1
  <2>2. Y \in Nat
    BY <2>1, <1>1, <1>2, <1>4
  <2>3. K * Y \in Nat
    BY <2>2, <1>1
  <2> QED BY <2>1, <2>2, <2>3
<1>6. y = K * Y + r /\ now - (n + 2) > Origin(s) /\ n + 2 \in Nat
  BY <1>1, <1>4, <1>5
<1>7. y \div K = Y + (IF r = K THEN 1 ELSE 0)
  <2>0. K \in Nat /\ K >= 2 /\ Y \in Int /\ r \in 1..2
    BY <1>1, <1>5
  <2>1. (K * Y + r) \div K = Y + (IF r = K THEN 1 ELSE 0)
    BY <2>0, TickPassed, Zenon
  <2> HIDE DEF y
  <2> QED BY <2>1, <1>6
<1>8. ticks = k.lastvalue + M * i + t
  <2> DEFINE z == (y \div K) - F + 1
  <2>1. z \in Int /\ (z >= 0 => ticks = z)
    BY <1>1, <1>4, <1>6, TicksCounted DEF K, F
  <2>2. z = k.lastvalue + M * i + t
    <3> HIDE DEF y
    <3> QED BY <1>1, <1>2, <1>4, <1>5, <1>7
  <2> HIDE DEF z
  <2> QED BY <2>1, <2>2, <1>1, <1>5
<1> HIDE DEF y, ticks, t
<1>9. k.lastvalue - ticks = -(M * i + t)
  BY <1>1, <1>5, <1>8
<1>10. v \in Nat /\ v =< M - 1 /\ v + t >= M /\ \E h \in Nat : v + t = M * h
  <2> DEFINE rem0 == CRem(-(M * i + t), M)
             v0 == IF rem0 >= 0 THEN rem0 ELSE M + rem0
  <2>1. v0 \in Nat /\ v0 =< M - 1 /\ v0 + t >= M /\ \E h \in Nat : v0 + t = M * h
    BY <1>1, <1>5, Reloaded
  <2>2. v = v0
    BY <1>3, <1>9
  <2> HIDE DEF v0
  <2> QED BY <2>1, <2>2
<1> QED BY <1>10 DEF v, M, t, k, K

----------------------------------------------------------------------------
(* Periods *)

LEMMA PhaseFacts ==
    ASSUME NEW t \in Nat, NEW s \in PrescalerAt(t), NEW k \in CounterAt(t), NEW n \in Counters,
           CountedDown(s, k), s.reload >= NTimers
    PROVE  /\ TickLength(s) \in Nat /\ Origin(s) \in Int /\ n \in Nat /\ n + 2 =< TickLength(s)
           /\ TickAfter(s, k.lasttime) \in Nat
           /\ k.reload \in Nat /\ k.reload + 1 \in Nat \ {0} /\ k.lastvalue \in Nat
<1>1. n \in Nat /\ n + 1 =< NTimers /\ NTimers \in Nat
  BY GPTimerAssumption DEF Counters
<1>2. s.reload \in Nat /\ Origin(s) \in Int
  BY PrescalerFacts
<1>3. TickAfter(s, k.lasttime) \in Nat
  BY TickAfterTyped
<1> QED BY <1>1, <1>2, <1>3 DEF TickLength, CounterAt

\* Being in phase, with the tick and the number of periods for the remainders.
LEMMA PhaseIntro ==
    ASSUME NEW t \in Nat, NEW s \in PrescalerAt(t), NEW k \in CounterAt(t), NEW n \in Counters,
           CountedDown(s, k), s.reload >= NTimers,
           NEW r \in 1..2, NEW x \in 0..2, NEW i \in Nat, NEW Y, NEW u,
           x =< Skipped(TickLength(s), n, r),
           Y = TickAfter(s, k.lasttime) + k.lastvalue + x + (k.reload + 1) * i,
           u = n + 1 + Origin(s) + TickLength(s) * Y + r
    PROVE  InPhase(s, k, n, u)
<1> DEFINE K == TickLength(s)
           M == k.reload + 1
           F == TickAfter(s, k.lasttime)
           y == u - n - 1 - Origin(s) - r
           past == (y \div K) - F - k.lastvalue - x
<1>1. /\ K \in Nat \ {0} /\ Origin(s) \in Int /\ n \in Nat /\ F \in Nat
      /\ M \in Nat \ {0} /\ k.lastvalue \in Nat
  BY PhaseFacts, PrescalerFacts
<1>2. Y = F + k.lastvalue + x + M * i /\ u = n + 1 + Origin(s) + K * Y + r /\ x =< Skipped(K, n, r)
  OBVIOUS
<1> HIDE DEF K, M, F
<1>3. M * i \in Nat
  BY <1>1
<1>4. Y \in Nat
  BY <1>1, <1>2, <1>3
<1>5. K * Y \in Nat
  BY <1>1, <1>4
<1>6. y \in Int /\ y = K * Y
  BY <1>1, <1>2, <1>5
<1>7. y \div K = Y /\ y % K = 0
  <2> DEFINE z == 0
  <2>1. z \in 0..(K - 1) /\ y = K * Y + z
    BY <1>1, <1>5, <1>6
  <2> HIDE DEF z, y
  <2>2. Y \in Int
    BY <1>4
  <2>3. (K * Y + z) \div K = Y /\ (K * Y + z) % K = z
    BY <2>1, <2>2, <1>1, DivUnique, Zenon
  <2> QED BY <2>1, <2>3 DEF z
<1>8. past = M * i
  <2> HIDE DEF y
  <2> QED BY <1>1, <1>2, <1>3, <1>4, <1>7
<1>9. past >= 0 /\ past % M = 0
  <2> DEFINE z == 0
  <2>1. z \in 0..(M - 1) /\ M * i + z = M * i /\ i \in Int
    BY <1>1, <1>3
  <2> HIDE DEF z, past
  <2>2. past % M = z
    <3>1. (M * i + z) % M = z
      BY <2>1, <1>1, DivUnique
    <3> QED BY <3>1, <2>1, <1>8
  <2> QED BY <2>2, <1>3, <1>8 DEF z
<1> QED BY <1>2, <1>7, <1>9 DEF InPhase, K, M, F

LEMMA PhaseElim ==
    ASSUME NEW t \in Nat, NEW s \in PrescalerAt(t), NEW k \in CounterAt(t), NEW n \in Counters,
           CountedDown(s, k), s.reload >= NTimers, NEW u \in Int, InPhase(s, k, n, u)
    PROVE  \E r \in 1..2, x \in 0..2, i \in Nat :
             LET Y == TickAfter(s, k.lasttime) + k.lastvalue + x + (k.reload + 1) * i
             IN  /\ x =< Skipped(TickLength(s), n, r)
                 /\ u = n + 1 + Origin(s) + TickLength(s) * Y + r
<1> DEFINE K == TickLength(s)
           M == k.reload + 1
           F == TickAfter(s, k.lasttime)
<1>1. /\ K \in Nat \ {0} /\ Origin(s) \in Int /\ n \in Nat /\ F \in Nat
      /\ M \in Nat \ {0} /\ k.lastvalue \in Nat
  BY PhaseFacts, PrescalerFacts
<1>2. PICK r \in 1..2, x \in 0..2 :
        LET y == u - n - 1 - Origin(s) - r
            past == (y \div K) - F - k.lastvalue - x
        IN  x =< Skipped(K, n, r) /\ y % K = 0 /\ past >= 0 /\ past % M = 0
  BY DEF InPhase
<1> DEFINE y == u - n - 1 - Origin(s) - r
           d == y \div K
           past == d - F - k.lastvalue - x
           i == past \div M
<1> HIDE DEF K, M, F
<1>3. y \in Int /\ d \in Int /\ y = K * d
  <2>1. y \in Int /\ y % K = 0
    BY <1>1, <1>2
  <2> HIDE DEF y
  <2> QED BY <2>1, <1>1, Exact
<1>4. i \in Nat /\ past = M * i
  <2>1. past \in Int /\ past % M = 0 /\ past >= 0
    <3>1. past % M = 0 /\ past >= 0
      BY <1>2
    <3> HIDE DEF d
    <3> QED BY <3>1, <1>1, <1>3
  <2> HIDE DEF past
  <2> QED BY <2>1, <1>1, Exact
<1>5. d = F + k.lastvalue + x + M * i
  <2> HIDE DEF d, i
  <2>1. M * i \in Int
    BY <1>1, <1>4
  <2> QED BY <2>1, <1>1, <1>3, <1>4
<1>6. u = n + 1 + Origin(s) + K * d + r
  <2> HIDE DEF d
  <2>1. K * d \in Int
    BY <1>1, <1>3
  <2> QED BY <2>1, <1>1, <1>3
<1> HIDE DEF d, i
<1>7. x =< Skipped(K, n, r) /\ u = n + 1 + Origin(s) + K * (F + k.lastvalue + x + M * i) + r
  BY <1>2, <1>5, <1>6
<1> QED BY <1>4, <1>7 DEF K, M, F

\* The first underflow is announced at the start.
LEMMA FirstPeriod ==
    ASSUME now \in Nat, NEW s \in PrescalerAt(now), NEW k \in CounterAt(now), NEW n \in Counters,
           CountedDown(s, k), s.reload >= NTimers, k.lasttime = now,
           NEW u, u = now + Scaler(s) + 2 + (TickLength(s) * k.lastvalue) + n + 1,
           NEW a, a.at = now, a.value = k.lastvalue
    PROVE  InPhase(s, k, n, u) /\ InTime(s, k, n, a, u)
<1> DEFINE K == TickLength(s)
           b == now - Origin(s)
           m == b % K
           d == b \div K
           F == TickAfter(s, k.lasttime)
           W == k.lastvalue
           Y == F + W
           e == IF m = 0 THEN 2 ELSE 1
<1>1. /\ K \in Nat /\ Origin(s) \in Int /\ n \in Nat /\ n + 2 =< K /\ F \in Nat
      /\ k.reload + 1 \in Nat \ {0} /\ W \in Nat /\ K \in Nat \ {0}
  BY PhaseFacts, PrescalerFacts
<1>2. Scaler(s) = IF m = 0 THEN K ELSE K - m - 1
  BY ScalerCycles DEF CountedDown
<1>3. F = d + 1
  BY DEF TickAfter
<1>4. b \in Int /\ b = now - Origin(s)
  BY <1>1
<1> HIDE DEF K, F, W, b
<1>5. d \in Int /\ m \in 0..(K - 1) /\ b = K * d + m
  BY <1>1, <1>4, DivMod
<1>6. u = now + Scaler(s) + 2 + (K * W) + n + 1
  BY DEF K, W
<1> HIDE DEF d, m
<1>7. e \in 1..2 /\ Scaler(s) \in Int /\ Scaler(s) + 2 = K - m + e
  BY <1>1, <1>2, <1>5
<1> HIDE DEF e
<1>8. K * Y = K * d + K + K * W /\ K * d \in Int /\ K * W \in Int
  BY <1>1, <1>3, <1>5
<1> HIDE DEF Y
<1>9. u = n + 1 + Origin(s) + K * Y + e
  BY <1>1, <1>4, <1>5, <1>6, <1>7, <1>8
<1>10. u - now = K * W + (K - m) + e + n + 1
  BY <1>1, <1>5, <1>6, <1>7, <1>8
<1>11. InPhase(s, k, n, u)
  <2> DEFINE x == 0
             i == 0
  <2>1. x =< Skipped(K, n, e) /\ x \in 0..2 /\ i \in Nat
    BY <1>1, <1>7, SkippedBounds
  <2>2. Y = F + W + x + (k.reload + 1) * i
    BY <1>1 DEF Y
  <2> HIDE DEF x, i
  <2> QED BY <2>1, <2>2, <1>7, <1>9, PhaseIntro, Zenon DEF K, F, W
<1>12. InTime(s, k, n, a, u)
  <2>1. u - now > K * W /\ u - now =< K * W + K + n + 4
    BY <1>1, <1>5, <1>7, <1>8, <1>10
  <2>2. (W + 1) * K = K * W + K /\ W * K = K * W
    BY <1>1
  <2>3. u - a.at > a.value * K /\ u - a.at =< ((a.value + 1) * K) + n + 4 /\ ~(a.at > k.lasttime)
    BY <2>1, <2>2 DEF W
  <2> QED BY <2>3 DEF InTime, K, TickLength
<1> QED BY <1>11, <1>12

\* One turn of a counter, in numbers: it underflows in the cycle t - 1, n + 1 + r cycles after
\* a tick, has the value v a cycle later and is announced for the cycle u.
Turn(K, n, origin, F, M, r, x, i, h, v, t, u) ==
    /\ K \in Nat /\ n \in Nat /\ n + 2 =< K /\ origin \in Int /\ F \in Nat /\ M \in Nat \ {0}
    /\ r \in 1..2 /\ x \in 0..2 /\ i \in Nat /\ h \in Nat /\ v \in Nat /\ t \in Int
    /\ x =< Skipped(K, n, r)
    /\ v =< M - 1
    /\ v + (x + (IF r = K THEN 1 ELSE 0) + 1) = M * h
    /\ v + (x + (IF r = K THEN 1 ELSE 0) + 1) >= M
    /\ t - 1 = n + 1 + origin + K * (F + x + M * i) + r
    /\ u = t + ((IF (t - origin) % K = 0 THEN K ELSE K - ((t - origin) % K) - 1) + 2) + (K * v) + n + 1

\* Then it is in phase again.
PhaseAgain(K, n, origin, F, M, u) ==
    \E e \in 1..2, z \in 0..2, j \in Nat :
        z =< Skipped(K, n, e) /\ u = n + 1 + origin + K * (F + z + M * j) + e

\* And in time, after d cycles.
Spaced(K, n, M, d) ==
    /\ d > (M - 1) * K
    /\ d >= M * K - 1
    /\ d =< M * K + n + 4
    /\ K > n + 4 => d =< M * K

LEMMA PeriodNumbers ==
    ASSUME NEW K, NEW n, NEW origin, NEW F, NEW M, NEW r, NEW x, NEW i, NEW h, NEW v, NEW t, NEW u,
           Turn(K, n, origin, F, M, r, x, i, h, v, t, u)
    PROVE  PhaseAgain(K, n, origin, F, M, u) /\ Spaced(K, n, M, u - (t - 1))
<1> DEFINE Y == F + x + M * i
           f == IF r = K THEN 1 ELSE 0
           g == (r + n + 2) \div K
           m == (r + n + 2) % K
           e == IF m = 0 THEN 2 ELSE 1
           w == g + 1 + v
           ky == K * Y
           kw == K * w
           kv == K * v
           z == g - f
           j == h + i
           kg == K * g
           zero == (IF (t - origin) % K = 0 THEN K ELSE K - ((t - origin) % K) - 1) + 2
<1>0. /\ K \in Nat \ {0} /\ n \in Nat /\ n + 2 =< K /\ origin \in Int /\ F \in Nat /\ M \in Nat \ {0}
      /\ r \in 1..2 /\ x \in 0..2 /\ i \in Nat /\ h \in Nat /\ v \in Nat /\ t \in Int
      /\ x =< Skipped(K, n, r) /\ v =< M - 1 /\ v + (x + f + 1) = M * h /\ v + (x + f + 1) >= M
      /\ t - 1 = n + 1 + origin + ky + r /\ u = t + zero + kv + n + 1
  BY DEF Turn
<1>1. M * i \in Nat /\ M * h \in Nat /\ M * j = M * h + M * i /\ j \in Nat
  BY <1>0
<1>2. Y \in Nat
  BY <1>0, <1>1
<1>3. r + n + 2 \in Int
  BY <1>0
<1>4. g \in Int /\ m \in 0..(K - 1) /\ r + n + 2 = K * g + m
  BY <1>0, <1>3, DivMod
<1>5. f \in 0..1 /\ e \in 1..2 /\ w \in Int /\ z \in Int
  BY <1>0, <1>4
<1>6. Skipped(K, n, r) = z
  BY DEF Skipped
<1>7. Skipped(K, n, r) =< Skipped(K, n, e) /\ Skipped(K, n, r) \in 0..2
  BY <1>0, SkippedBounds, SkippedGrows
<1>8. z >= 0 /\ z =< 2 /\ x =< z /\ w >= M /\ w =< M + g
  <2>1. z >= 0 /\ z =< 2 /\ x =< z
    BY <1>0, <1>6, <1>7
  <2> HIDE DEF g, f
  <2> QED BY <2>1, <1>0, <1>4, <1>5
<1>9. e = IF m = 0 THEN 2 ELSE 1
  OBVIOUS
<1> HIDE DEF Y, m, g, f, e, zero
<1>10. ky = K * Y /\ ky \in Nat /\ kv = K * v /\ kv \in Int
  BY <1>0, <1>2
<1>11. kw = kg + K + kv /\ kw \in Int /\ kg \in Int /\ r + n + 2 = kg + m
  BY <1>0, <1>4
<1>12. K * (Y + w) = ky + kw
  <2> HIDE DEF w
  <2> QED BY <1>0, <1>2, <1>5
<1>13. (t - origin) % K = m
  <2> DEFINE b == t - origin
             q == Y + g
  <2>1. b = K * q + m /\ q \in Int
    <3>1. K * q = ky + kg /\ q \in Int
      BY <1>0, <1>2, <1>4
    <3> HIDE DEF ky, kg, q
    <3> QED BY <3>1, <1>0, <1>2, <1>4, <1>10, <1>11 DEF q
  <2> HIDE DEF b, q
  <2>2. (K * q + m) % K = m
    BY <2>1, <1>0, <1>4, DivUnique
  <2> QED BY <2>1, <2>2 DEF b
<1>14. zero = K - m + e /\ zero \in Int
  BY <1>0, <1>4, <1>9, <1>13 DEF zero
<1>15. u = n + 1 + origin + K * (Y + w) + e /\ u - (t - 1) = kw + e - r
  <2> DEFINE q == K * (Y + w)
  <2>1. q = ky + kw
    BY <1>12
  <2> HIDE DEF q, ky, kw, kv, kg, w, z, j
  <2>2. u = n + 1 + origin + q + e /\ u - (t - 1) = kw + e - r
    BY <2>1, <1>0, <1>4, <1>5, <1>10, <1>11, <1>14
  <2> QED BY <2>2 DEF q
<1>16. Y + w = F + z + M * j
  <2> DEFINE mi == M * i
             mh == M * h
             mj == M * j
  <2>1. mj = mh + mi /\ mi \in Int /\ mh \in Int
    BY <1>1
  <2>2. v + (x + f + 1) = mh /\ Y = F + x + mi
    BY <1>0 DEF Y
  <2> HIDE DEF mi, mh, mj, j
  <2>3. Y + w = F + z + mj
    BY <2>1, <2>2, <1>0, <1>4, <1>5
  <2> QED BY <2>3 DEF mj
<1>17. PhaseAgain(K, n, origin, F, M, u)
  <2>1. u = n + 1 + origin + K * (F + z + M * j) + e
    BY <1>15, <1>16
  <2>2. z \in 0..2 /\ z =< Skipped(K, n, e)
    BY <1>5, <1>6, <1>7, <1>8
  <2> HIDE DEF z, j
  <2> QED BY <2>1, <2>2, <1>1, <1>5 DEF PhaseAgain
<1> DEFINE p == K * M
<1>18. p = M * K /\ p \in Int /\ p = (M - 1) * K + K /\ (M - 1) * K \in Int
  BY <1>0
<1> HIDE DEF z, j, kw, kg, kv, ky, p
<1>19. kw >= p
  <2>1. M < w => K * M + K =< K * w
    <3> HIDE DEF w
    <3> QED BY <1>0, <1>5, Monotone
  <2> HIDE DEF w
  <2>2. w = M => kw = p
    BY DEF kw, p
  <2>3. M < w => p + K =< kw
    BY <2>1 DEF kw, p
  <2> QED BY <2>2, <2>3, <1>0, <1>5, <1>8, <1>11, <1>18
<1>20. kw =< p + kg
  <2> DEFINE q == M + g
  <2>1. K * q = p + kg /\ q \in Int
    BY <1>0, <1>4 DEF p, kg
  <2> HIDE DEF q, w
  <2>2. w < q => K * w + K =< K * q
    BY <2>1, <1>0, <1>5, Monotone
  <2>3. w = q => kw = p + kg
    BY <2>1 DEF kw
  <2>4. w < q => kw + K =< p + kg
    BY <2>1, <2>2 DEF kw
  <2> QED BY <2>3, <2>4, <2>1, <1>0, <1>5, <1>8, <1>11, <1>18 DEF q
<1>21. K > n + 4 => kg = 0 /\ e = 1
  <2> SUFFICES ASSUME K > n + 4
               PROVE  kg = 0 /\ e = 1
    OBVIOUS
  <2>1. g =< 0
    <3>1. ASSUME g > 0
          PROVE  FALSE
      <4> DEFINE nil == 0
      <4>1. nil \in Int /\ nil < g /\ K * nil = 0
        BY <3>1, <1>0
      <4> HIDE DEF nil
      <4>2. K * nil + K =< K * g
        BY <4>1, <1>0, <1>4, Monotone
      <4> QED BY <4>1, <4>2, <1>0, <1>4, <1>11 DEF kg
    <3> QED BY <3>1, <1>4
  <2>2. g = 0
    BY <2>1, <1>5, <1>8, <1>4 DEF z
  <2>3. kg = 0
    BY <2>2, <1>0 DEF kg
  <2> QED BY <2>3, <1>0, <1>4, <1>9, <1>11
<1>22. Spaced(K, n, M, u - (t - 1))
  <2> DEFINE d == u - (t - 1)
             b == (M - 1) * K
  <2>1. d = kw + e - r /\ p = M * K /\ p = b + K /\ b \in Int /\ K >= 2
    BY <1>15, <1>18, <1>0
  <2> HIDE DEF d, b
  <2>2. d > b /\ d >= p - 1
    BY <2>1, <1>0, <1>5, <1>11, <1>18, <1>19
  <2>3. d =< p + n + 4
    BY <2>1, <1>0, <1>4, <1>5, <1>9, <1>11, <1>18, <1>20
  <2>4. K > n + 4 => d =< p
    BY <2>1, <1>0, <1>5, <1>11, <1>18, <1>20, <1>21
  <2> QED BY <2>1, <2>2, <2>3, <2>4 DEF Spaced, d, b
<1> QED BY <1>17, <1>22

\* And the next one in the cycle after an underflow.
LEMMA NextPeriod ==
    ASSUME now \in Nat, NEW s \in PrescalerAt(now), NEW c \in CountersAt(now), NEW n \in Counters,
           ~c[n].ch, ~c[n].stopped, c[n].rs, CountedDown(s, c[n]), s.reload >= NTimers,
           InPhase(s, c[n], n, now - 1),
           NEW u, u = now + Scaler(s) + 2 + (TickLength(s) * Value(s, c, n)) + n + 1,
           NEW a, a.at = now - 1, a.value = c[n].reload
    PROVE  InPhase(s, c[n], n, u) /\ InTime(s, c[n], n, a, u)
<1> DEFINE k == c[n]
           K == TickLength(s)
           M == k.reload + 1
           F == TickAfter(s, k.lasttime) + k.lastvalue
           v == Value(s, c, n)
           zero == Scaler(s) + 2
<1>0. k \in CounterAt(now) /\ CountedDown(s, k) /\ InPhase(s, k, n, now - 1)
  BY CounterFacts
<1>1. /\ K \in Nat /\ Origin(s) \in Int /\ n \in Nat /\ n + 2 =< K /\ TickAfter(s, k.lasttime) \in Nat
      /\ k.reload \in Nat /\ M \in Nat \ {0} /\ k.lastvalue \in Nat /\ K \in Nat \ {0}
  BY <1>0, PhaseFacts, PrescalerFacts
<1>2. F \in Nat
  BY <1>1
<1>3. PICK r \in 1..2, x \in 0..2, i \in Nat :
        /\ x =< Skipped(K, n, r)
        /\ now - 1 = n + 1 + Origin(s) + K * (F + x + M * i) + r
  <2>1. now - 1 \in Int
    OBVIOUS
  <2> QED BY <2>1, <1>0, PhaseElim
<1> DEFINE Y == F + x + M * i
           t == x + (IF r = K THEN 1 ELSE 0) + 1
<1>4. now = n + 2 + Origin(s) + K * Y + r /\ Y \in Nat
  <2> HIDE DEF K, M, F
  <2>1. M * i \in Nat
    BY <1>1
  <2>2. Y \in Nat
    BY <2>1, <1>2
  <2>3. now - 1 = n + 1 + Origin(s) + K * Y + r
    BY <1>3
  <2> HIDE DEF Y
  <2>4. K * Y \in Nat
    BY <2>2, <1>1
  <2> QED BY <2>2, <2>3, <2>4, <1>1
<1>5. v \in Nat /\ v =< M - 1 /\ v + t >= M /\ \E h \in Nat : v + t = M * h
  <2>1. now = n + 2 + Origin(s) + TickLength(s) * Y + r
    BY <1>4
  <2> HIDE DEF Y
  <2>2. Y = TickAfter(s, c[n].lasttime) + c[n].lastvalue + x + (c[n].reload + 1) * i
    BY DEF Y
  <2>3. n + 2 =< TickLength(s)
    BY <1>1
  <2> QED BY <2>1, <2>2, <2>3, ValueAfterUnderflow
<1>6. PICK h \in Nat : v + t = M * h
  BY <1>5
<1>7. zero = (IF (now - Origin(s)) % K = 0 THEN K ELSE K - ((now - Origin(s)) % K) - 1) + 2
  <2>1. now > s.lasttime + 1 /\ s.lastvalue =< s.reload
    <3>1. k.lasttime =< now /\ k.lasttime \in Nat /\ s.lasttime \in Nat
      BY <1>0, PrescalerFacts DEF CounterAt
    <3> QED BY <3>1, <1>0 DEF CountedDown
  <2> QED BY <2>1, ScalerCycles
<1>8. u = now + zero + (K * v) + n + 1
  <2>1. Scaler(s) \in Int
    BY ScalerTyped
  <2>2. u = now + Scaler(s) + 2 + (K * v) + n + 1
    OBVIOUS
  <2> DEFINE kv == K * v
  <2>3. kv \in Int
    BY <1>1, <1>5
  <2> HIDE DEF kv
  <2>4. u = now + zero + kv + n + 1
    BY <2>1, <2>2, <2>3, <1>1 DEF kv
  <2> QED BY <2>4 DEF kv
<1>9. PhaseAgain(K, n, Origin(s), F, M, u) /\ Spaced(K, n, M, u - (now - 1))
  <2>1. /\ v + (x + (IF r = K THEN 1 ELSE 0) + 1) = M * h
        /\ v + (x + (IF r = K THEN 1 ELSE 0) + 1) >= M
    BY <1>5, <1>6
  <2>2. /\ r \in 1..2 /\ x \in 0..2 /\ i \in Nat /\ h \in Nat /\ now \in Int
        /\ x =< Skipped(K, n, r)
        /\ now - 1 = n + 1 + Origin(s) + K * (F + x + M * i) + r
    BY <1>3, <1>6
  <2> HIDE DEF K, M, F, v, k, t, Y
  <2>3. u = now + ((IF (now - Origin(s)) % K = 0 THEN K ELSE K - ((now - Origin(s)) % K) - 1) + 2)
              + (K * v) + n + 1
    BY <1>7, <1>8
  <2> HIDE DEF zero
  <2>4. Turn(K, n, Origin(s), F, M, r, x, i, h, v, now, u)
    BY <2>1, <2>2, <2>3, <1>1, <1>2, <1>5 DEF Turn
  <2> QED BY <2>4, PeriodNumbers, Zenon
<1>10. InPhase(s, k, n, u)
  <2>1. PICK e \in 1..2, z \in 0..2, j \in Nat :
          z =< Skipped(K, n, e) /\ u = n + 1 + Origin(s) + K * (F + z + M * j) + e
    BY <1>9 DEF PhaseAgain
  <2> DEFINE Y2 == F + z + M * j
  <2>2. Y2 = TickAfter(s, k.lasttime) + k.lastvalue + z + (k.reload + 1) * j
    BY <1>1, <2>1
  <2>3. u = n + 1 + Origin(s) + TickLength(s) * Y2 + e /\ z =< Skipped(TickLength(s), n, e)
    BY <2>1
  <2> HIDE DEF Y2, k
  <2>4. e \in 1..2 /\ z \in 0..2 /\ j \in Nat
    BY <2>1
  <2> QED BY <2>2, <2>3, <2>4, <1>0, PhaseIntro, Zenon
<1>11. InTime(s, k, n, a, u)
  <2> DEFINE d == u - a.at
  <2>1. a.at = now - 1 /\ a.value = k.reload
    OBVIOUS
  <2>2. d > a.value * K /\ d >= ((a.value + 1) * K) - 1 /\ d =< ((a.value + 1) * K) + n + 4
        /\ (K > n + 4 => d =< (a.value + 1) * K)
    <3>1. M - 1 = k.reload
      BY <1>1
    <3> HIDE DEF k
    <3> QED BY <2>1, <3>1, <1>9 DEF Spaced
  <2> HIDE DEF d, k
  <2> QED BY <2>2 DEF InTime, K, TickLength, d
<1> QED BY <1>10, <1>11 DEF k

----------------------------------------------------------------------------
(* Announcements *)

\* calculate() of a counter that runs on its own.
LEMMA CalculateUnchained ==
    ASSUME now \in Nat, NEW s \in PrescalerAt(now), NEW c \in CountersAt(now), NEW n \in Counters,
           ~c[n].ch, c[n].en
    PROVE  /\ Only(c, Calculate(s, c, n), n)
           /\ Calculate(s, c, n)[n] = [c[n] EXCEPT !.e_wait =
                now + Scaler(s) + 2 + (TickLength(s) * Value(s, c, n)) + n + 1]
<1> DEFINE kv == TickLength(s) * Value(s, c, n)
<1>1. c \in [Counters -> CounterAt(now)]
  BY DEF CountersAt
<1>2. CycleTime(s, c)[n] = TickLength(s)
  BY CycleDefined DEF TickLength
<1>3. NextZero(s, c, n) = Scaler(s) + 2
  BY DEF NextZero
<1>4. Calculate(s, c, n)[n] = [c[n] EXCEPT !.e_wait = now + NextZero(s, c, n) + kv + n + 1]
  BY <1>1, <1>2 DEF Calculate
<1>5. Scaler(s) \in Nat /\ n \in Nat /\ kv \in Nat
  <2>1. TickLength(s) \in Nat /\ Value(s, c, n) \in Nat
    BY PrescalerFacts, ValueTyped
  <2> QED BY <2>1, ScalerTyped, CountersNumbers, Product
<1> HIDE DEF kv
<1>6. now + NextZero(s, c, n) + kv + n + 1 = now + Scaler(s) + 2 + kv + n + 1
  BY <1>3, <1>5
<1>7. Calculate(s, c, n)[n] = [c[n] EXCEPT !.e_wait = now + Scaler(s) + 2 + kv + n + 1]
  BY <1>4, <1>6
<1>8. Only(c, Calculate(s, c, n), n)
  BY CalculateAnnounces, Zenon
<1> QED BY <1>7, <1>8 DEF kv

\* A counter with the registers k has been started in this cycle.
Started(s, k, n) ==
    k.lasttime = now /\ k.e_wait = now + Scaler(s) + 2 + (TickLength(s) * k.value) + n + 1

LEMMA StartStarts ==
    ASSUME now \in Nat, NEW s \in PrescalerAt(now), NEW c \in CountersAt(now), NEW n \in Counters,
           c[n].stopped, c[n].en, ~c[n].ch
    PROVE  Started(s, Start(s, c, n)[n], n)
<1> DEFINE k == [c[n] EXCEPT !.lasttime = now]
           d == [c EXCEPT ![n] = k]
           f == Calculate(s, d, n)
<1>1. c[n] \in CounterAt(now) /\ c \in [Counters -> CounterAt(now)] /\ now \in 0..now
  BY CounterFacts DEF CountersAt
<1>2. /\ k \in CounterAt(now) /\ k.ch = FALSE /\ k.en /\ k.stopped /\ k.lasttime = now
  BY <1>1 DEF CounterAt
<1>3. [c EXCEPT ![n].lasttime = now] = d
  BY <1>1
<1>4. Start(s, c, n) = [f EXCEPT ![n].stopped = FALSE]
  BY <1>3, Zenon DEF Start
<1> HIDE DEF k
<1>5. Only(c, d, n) /\ d[n] = k
  BY <1>2, AssignCounter, Zenon
<1> HIDE DEF d
<1>6. d \in CountersAt(now)
  BY <1>5 DEF Only
<1>7. Value(s, d, n) = k.value
  BY <1>2, <1>5 DEF Value
<1> DEFINE w == now + Scaler(s) + 2 + (TickLength(s) * k.value) + n + 1
<1>8. Only(d, f, n) /\ f[n] = [k EXCEPT !.e_wait = w]
  BY <1>2, <1>5, <1>6, <1>7, CalculateUnchained
<1>9. f \in [Counters -> CounterAt(now)]
  BY <1>8 DEF Only, CountersAt
<1> HIDE DEF f, w
<1>10. [f EXCEPT ![n].stopped = FALSE][n] = [f[n] EXCEPT !.stopped = FALSE]
  BY <1>9
<1> DEFINE l == [f[n] EXCEPT !.stopped = FALSE]
<1>11. f[n] \in CounterAt(now)
  BY <1>9
<1>12. f[n].lasttime = now /\ f[n].e_wait = w /\ f[n].value = k.value
  BY <1>2, <1>8 DEF CounterAt
<1>13. l.lasttime = now /\ l.e_wait = w /\ l.value = k.value
  BY <1>11, <1>12 DEF CounterAt
<1>14. Start(s, c, n)[n] = l
  BY <1>4, <1>10
<1> HIDE DEF l
<1>15. Started(s, l, n)
  BY <1>13 DEF Started, w
<1> QED BY <1>14, <1>15

\* ctrl_write() lets a stopped counter run only by start(), and not if it is chained.
LEMMA SetCtrlStarts ==
    ASSUME now \in Nat, NEW s \in PrescalerAt(now), NEW c \in CountersAt(now), NEW n \in Counters,
           NEW w \in Control, w.ch => n # 0, c[n].stopped, Running(SetCtrl(s, c, n, w), n)
    PROVE  Started(s, SetCtrl(s, c, n, w)[n], n)
<1> DEFINE k1 == [c[n] EXCEPT !.en = w.en, !.rs = w.rs, !.ie = w.ie, !.ch = w.ch, !.m_pirq = w.ip]
           c1 == [c EXCEPT ![n] = k1]
           d1 == [c1 EXCEPT ![n].chain_run = FALSE]
           k2 == IF w.ch THEN [k1 EXCEPT !.chain_run = FALSE] ELSE k1
           c2 == IF w.ch THEN Stop(s, d1, n) ELSE c1
           k3 == IF w.ld THEN [k2 EXCEPT !.value = k2.reload, !.lastvalue = k2.reload, !.lasttime = now]
                 ELSE k2
           c3 == IF w.ld THEN SetValue(s, c2, n, c2[n].reload) ELSE c2
           d == IF w.en THEN Start(s, c3, n) ELSE Stop(s, c3, n)
<1>1. c[n] \in CounterAt(now) /\ c \in [Counters -> CounterAt(now)] /\ now \in 0..now
  BY CounterFacts DEF CountersAt
<1>2. /\ w.en \in BOOLEAN /\ w.rs \in BOOLEAN /\ w.ie \in BOOLEAN /\ w.ch \in BOOLEAN
      /\ w.ip \in BOOLEAN /\ w.ld \in BOOLEAN
  BY DEF Control
<1>3. k1 \in CounterAt(now)
  BY <1>1, <1>2 DEF CounterAt
<1>4. k1.en = w.en /\ k1.ch = w.ch /\ k1.stopped
  BY <1>1 DEF CounterAt
<1>5. [c EXCEPT ![n].en = w.en, ![n].rs = w.rs, ![n].ie = w.ie, ![n].ch = w.ch,
                ![n].m_pirq = w.ip] = c1
  BY <1>1
<1>6. SetCtrl(s, c, n, w) = d
  <2> DEFINE e1 == [c EXCEPT ![n].en = w.en, ![n].rs = w.rs, ![n].ie = w.ie, ![n].ch = w.ch,
                             ![n].m_pirq = w.ip]
             f(x) == [x EXCEPT ![n].chain_run = FALSE]
             e2(x) == IF w.ch THEN Stop(s, f(x), n) ELSE x
             e3(x) == IF w.ld THEN SetValue(s, x, n, x[n].reload) ELSE x
             e4(x) == IF w.en THEN Start(s, x, n) ELSE Stop(s, x, n)
  <2> HIDE DEF k1
  <2>1. SetCtrl(s, c, n, w) = e4(e3(e2(e1)))
    BY Zenon DEF SetCtrl
  <2>2. d = e4(e3(e2(c1)))
    BY Zenon
  <2>3. e1 = c1
    BY <1>5, Zenon DEF k1
  <2> HIDE DEF e1, e2, e3, e4, c1, d
  <2> QED BY <2>1, <2>2, <2>3, Zenon
<1> HIDE DEF k1
<1>7. c1 \in [Counters -> CounterAt(now)] /\ c1[n] = k1 /\ \A m \in Counters : m # n => c1[m] = c[m]
  BY <1>1, <1>3
<1> HIDE DEF c1
<1>8. /\ k2 \in CounterAt(now) /\ k2.en = w.en /\ k2.ch = w.ch /\ k2.stopped
      /\ w.ch => ~k2.chain_run
  BY <1>3, <1>4, <1>2 DEF CounterAt
<1>9. c2 \in [Counters -> CounterAt(now)] /\ c2[n] = k2 /\ \A m \in Counters : m # n => c2[m] = c[m]
  <2>1. CASE w.ch
    <3>1. [k1 EXCEPT !.chain_run = FALSE] \in CounterAt(now)
      BY <1>3 DEF CounterAt
    <3>2. d1 = [c1 EXCEPT ![n] = [k1 EXCEPT !.chain_run = FALSE]]
      BY <1>7
    <3>3. /\ d1 \in [Counters -> CounterAt(now)] /\ d1[n] = [k1 EXCEPT !.chain_run = FALSE]
          /\ \A m \in Counters : m # n => d1[m] = c[m]
      BY <3>1, <3>2, <1>7
    <3> HIDE DEF d1
    <3>4. d1[n].stopped
      BY <3>3, <1>3, <1>4 DEF CounterAt
    <3>5. Stop(s, d1, n) = d1
      BY <3>4, StopIdempotent, Zenon
    <3> QED BY <3>3, <3>5, <2>1
  <2>2. CASE ~w.ch
    BY <2>2, <1>7
  <2> QED BY <2>1, <2>2
<1> HIDE DEF c2, k2
<1>10. /\ k3 \in CounterAt(now) /\ k3.en = w.en /\ k3.ch = w.ch /\ k3.stopped
       /\ w.ch => ~k3.chain_run
  <2>1. k2.reload \in Nat
    BY <1>8 DEF CounterAt
  <2> DEFINE v == k2.reload
  <2> HIDE DEF v
  <2>2. [k2 EXCEPT !.value = v, !.lastvalue = v, !.lasttime = now] \in CounterAt(now)
    BY <2>1, <1>1, <1>8 DEF CounterAt, v
  <2> QED BY <2>2, <1>8 DEF v, CounterAt
<1>11. c3 \in [Counters -> CounterAt(now)] /\ c3[n] = k3 /\ \A m \in Counters : m # n => c3[m] = c[m]
  <2>1. CASE w.ld
    <3>1. SetValue(s, c2, n, c2[n].reload)
            = [c2 EXCEPT ![n].value = c2[n].reload, ![n].lastvalue = c2[n].reload,
                         ![n].lasttime = now]
      BY <1>8, <1>9 DEF SetValue
    <3>2. [c2 EXCEPT ![n].value = c2[n].reload, ![n].lastvalue = c2[n].reload,
                     ![n].lasttime = now] = [c2 EXCEPT ![n] = k3]
      BY <1>9, <2>1
    <3> HIDE DEF k3
    <3> QED BY <3>1, <3>2, <1>9, <1>10, <2>1
  <2>2. CASE ~w.ld
    BY <2>2, <1>9, <1>10
  <2> QED BY <2>1, <2>2
<1> HIDE DEF c3, k3
<1>12. c3 \in CountersAt(now)
  <2>1. ~c3[0].ch
    <3>1. ~c[0].ch /\ 0 \in Counters
      BY CountersNumbers DEF CountersAt
    <3>2. n = 0 => ~c3[n].ch
      BY <1>10, <1>11
    <3> QED BY <3>1, <3>2, <1>11
  <2> QED BY <2>1, <1>11 DEF CountersAt
<1>13. Running(d, n)
  BY <1>6, Zenon
<1>14. w.en /\ ~w.ch
  <2>1. ASSUME ~w.en
        PROVE  FALSE
    <3>1. ~c3[n].en /\ c3[n].stopped
      BY <2>1, <1>10, <1>11
    <3>2. d = c3
      BY <2>1, <3>1, StopIdempotent, Zenon
    <3> QED BY <3>2, <1>10, <1>11, <1>13 DEF Running
  <2>2. ASSUME w.en, w.ch
        PROVE  FALSE
    <3>1. d = c3
      BY <2>2, <1>10, <1>11 DEF Start
    <3> QED BY <3>1, <1>10, <1>11, <1>13 DEF Running
  <2> QED BY <2>1, <2>2
<1>15. Started(s, Start(s, c3, n)[n], n)
  BY <1>10, <1>11, <1>12, <1>14, StartStarts
<1>16. d = Start(s, c3, n)
  BY <1>14
<1> HIDE DEF d
<1> QED BY <1>6, <1>15, <1>16, Zenon

----------------------------------------------------------------------------
(* The steps *)

\* What being in phase depends on.
LEMMA SamePhase ==
    ASSUME NEW s, NEW k, NEW l, NEW n,
           l.lasttime = k.lasttime, l.lastvalue = k.lastvalue, l.reload = k.reload
    PROVE  /\ \A u : InPhase(s, k, n, u) => InPhase(s, l, n, u)
           /\ \A a, u : InTime(s, k, n, a, u) => InTime(s, l, n, a, u)
           /\ CountedDown(s, l) => CountedDown(s, k)
BY DEF InPhase, InTime, CountedDown

LEMMA MeasuredSame ==
    ASSUME PInv, NEW m \in Counters,
           armed'[m].at # None =>
             /\ scaler' = scaler /\ armed'[m] = armed[m] /\ counter'[m] = counter[m]
             /\ thread'[m] = thread[m]
    PROVE  Measured(m)'
<1> SUFFICES ASSUME armed'[m].at # None
             PROVE  Measured(m)'
  BY DEF Measured
<1>1. Measured(m)
  BY DEF PInv
<1>2. scaler' = scaler /\ armed'[m] = armed[m] /\ counter'[m] = counter[m] /\ thread'[m] = thread[m]
  OBVIOUS
<1> QED BY <1>1, <1>2 DEF Measured

\* A write measures the counter it starts, from its first announcement.
LEMMA WriteCounterMeasured ==
    ASSUME GInv, PInv, NEW n \in Counters, NEW c, WriteCounter(n, c), Controlled(counter, c, n),
           counter[n].stopped /\ Running(c, n) => Started(scaler, c[n], n)
    PROVE  PInv'
<1>1. /\ counter' = c /\ armed' = [armed EXCEPT ![n] = Rearmed(c, n)]
      /\ scaler' = scaler /\ thread' = thread
  BY DEF WriteCounter, Written
<1>2. c \in CountersAt(now) /\ \A m \in Counters : m # n => c[m] = counter[m]
  BY DEF Controlled, Only
<1>3. armed'[n] = Rearmed(c, n) /\ \A m \in Counters : m # n => armed'[m] = armed[m]
  BY <1>1, StateFacts
<1>4. ASSUME NEW m \in Counters, m # n
      PROVE  Measured(m)'
  BY <1>1, <1>2, <1>3, <1>4, MeasuredSame
<1>5. Measured(n)'
  <2> SUFFICES ASSUME armed'[n].at # None
               PROVE  Measured(n)'
    BY DEF Measured
  <2> DEFINE k == c[n]
             a == armed'[n]
  <2>1. /\ counter[n].stopped /\ Running(c, n) /\ ~k.ch /\ thread[n].until = None
        /\ a = [at |-> now, value |-> k.lastvalue] /\ k.lastvalue = k.value
    BY <1>3 DEF Rearmed, Unarmed
  <2>2. Started(scaler, k, n)
    BY <2>1
  <2>3. k \in CounterAt(now)
    BY <1>2, StateFacts, CounterFacts
  <2>4. a.at = now /\ a.value = k.lastvalue /\ k.lastvalue = k.value
    BY <2>1
  <2>5. k.en /\ ~k.stopped
    BY <2>1 DEF Running
  <2> HIDE DEF k, a
  <2>6. ASSUME scaler.reload >= NTimers, CountedDown(scaler, k)
        PROVE  InPhase(scaler, k, n, k.e_wait) /\ InTime(scaler, k, n, a, k.e_wait)
    <3>1. /\ k.lasttime = now
          /\ k.e_wait = now + Scaler(scaler) + 2 + (TickLength(scaler) * k.lastvalue) + n + 1
      BY <2>2, <2>4 DEF Started
    <3> QED BY <3>1, <2>3, <2>4, <2>6, StateFacts, FirstPeriod
  <2>7. counter'[n] = k /\ thread'[n].until = None /\ scaler' = scaler /\ armed'[n] = a
    BY <1>1, <2>1 DEF k, a
  <2>8. ~k.ch
    BY <2>1 DEF k
  <2> QED BY <2>5, <2>6, <2>7, <2>8 DEF Measured
<1> QED BY <1>4, <1>5 DEF PInv

\* A write to the prescaler, or a reset, ends every measurement.
LEMMA Disarmed ==
    ASSUME armed' = [n \in Counters |-> Unarmed]
    PROVE  PInv'
<1>1. \A n \in Counters : armed'[n].at = None
  BY DEF Unarmed
<1> QED BY <1>1 DEF PInv, Measured

LEMMA WriteMeasured ==
    ASSUME GInv, PInv, Write
    PROVE  PInv'
<1>1. PICK w \in Writes :
        \/ w.reg = "ctrl" /\ WriteCtrl(w.nr, w.ctrl)
        \/ w.reg = "value" /\ WriteValue(w.nr, w.value)
        \/ w.reg = "reload" /\ WriteReload(w.nr, w.value)
        \/ w.reg = "scaler" /\ WriteScaler(w.value)
        \/ w.reg = "screload" /\ WriteScReload(w.value)
        \/ w.reg = "rst" /\ Reset
  BY DEF Write
<1>2. w \in RegisterWrite
  BY GPTimerAssumption
<1>3. CASE w.reg = "ctrl" /\ WriteCtrl(w.nr, w.ctrl)
  <2> DEFINE n == w.nr
             c == SetCtrl(scaler, counter, n, w.ctrl)
  <2>1. n \in Counters /\ w.ctrl \in Control
    BY <1>2, <1>3 DEF RegisterWrite
  <2>2. w.ctrl.ch => n # 0
    BY <1>3, GPTimerAssumption
  <2>3. ~counter[n].stopped => counter[n].en
    BY <2>1, StateFacts DEF OffIsStopped
  <2>4. Controlled(counter, c, n)
    BY <2>1, <2>2, <2>3, StateFacts, SetCtrlControls, Zenon
  <2>5. counter[n].stopped /\ Running(c, n) => Started(scaler, c[n], n)
    BY <2>1, <2>2, StateFacts, SetCtrlStarts, Zenon
  <2>6. WriteCounter(n, c)
    BY <1>3, Zenon DEF WriteCtrl
  <2> HIDE DEF n, c
  <2> QED BY <2>1, <2>4, <2>5, <2>6, WriteCounterMeasured, Zenon
<1>4. CASE w.reg = "value" /\ WriteValue(w.nr, w.value)
  <2> DEFINE n == w.nr
             v == w.value
             c == SetValue(scaler, counter, n, v)
  <2>1. n \in Counters /\ v \in Nat
    BY <1>2, <1>4 DEF RegisterWrite
  <2>3. ~counter[n].stopped => counter[n].en
    BY <2>1, StateFacts DEF OffIsStopped
  <2>6. WriteCounter(n, c)
    BY <1>4, Zenon DEF WriteValue
  <2> HIDE DEF n, v
  <2>4. Controlled(counter, c, n)
    BY <2>1, <2>3, StateFacts, SetValueSettles, SettledControlled, Zenon
  <2>5. ~(counter[n].stopped /\ Running(c, n))
    <3> SUFFICES ASSUME counter[n].stopped
                 PROVE  c[n].stopped
      BY DEF Running
    <3>1. c = [counter EXCEPT ![n].value = v, ![n].lastvalue = v, ![n].lasttime = now]
      BY DEF SetValue
    <3>2. counter \in [Counters -> CounterAt(now)]
      BY StateFacts DEF CountersAt
    <3> HIDE DEF c
    <3> QED BY <3>1, <3>2, <2>1 DEF CounterAt
  <2> HIDE DEF c
  <2> QED BY <2>1, <2>4, <2>5, <2>6, WriteCounterMeasured, Zenon
<1>5. CASE w.reg = "reload" /\ WriteReload(w.nr, w.value)
  <2> DEFINE n == w.nr
             v == w.value
             k == [counter[n] EXCEPT !.reload = v]
             c == [counter EXCEPT ![n] = k]
  <2>1. n \in Counters /\ v \in Nat
    BY <1>2, <1>5 DEF RegisterWrite
  <2>2. ~counter[n].stopped => counter[n].en
    BY <2>1, StateFacts DEF OffIsStopped
  <2>3. counter \in CountersAt(now) /\ counter \in [Counters -> CounterAt(now)] /\ counter[n] \in CounterAt(now)
    BY <2>1, StateFacts DEF CountersAt
  <2>4. WriteCounter(n, [counter EXCEPT ![n].reload = v])
    BY <1>5, Zenon DEF WriteReload
  <2> HIDE DEF n, v
  <2>5. k \in CounterAt(now)
    BY <2>1, <2>3 DEF CounterAt
  <2>6. /\ k.ch = counter[n].ch /\ k.en = counter[n].en /\ k.stopped = counter[n].stopped
        /\ k.e_wait = counter[n].e_wait
    BY <2>3 DEF CounterAt
  <2>7. [counter EXCEPT ![n].reload = v] = c
    BY <2>1, <2>3
  <2> HIDE DEF k
  <2>8. Settled(counter, c, n) /\ c[n] = k
    BY <2>1, <2>3, <2>5, <2>6, AssignSettles, Zenon
  <2> HIDE DEF c
  <2>9. Controlled(counter, c, n)
    BY <2>1, <2>2, <2>8, SettledControlled, Zenon
  <2>10. ~(counter[n].stopped /\ Running(c, n))
    BY <2>6, <2>8 DEF Running
  <2>11. WriteCounter(n, c)
    BY <2>4, <2>7, Zenon
  <2> QED BY <2>1, <2>9, <2>10, <2>11, WriteCounterMeasured, Zenon
<1>6. CASE WriteScaler(w.value) \/ WriteScReload(w.value) \/ Reset
  <2>1. armed' = [n \in Counters |-> Unarmed]
    BY <1>6 DEF WriteScaler, WriteScReload, SetScaler, Reset
  <2> QED BY <2>1, Disarmed
<1> QED BY <1>1, <1>3, <1>4, <1>5, <1>6

\* The next period is measured from an underflow that is in phase.
LEMMA UnderflowMeasured ==
    ASSUME GInv, PInv, NEW n \in Counters, Underflow(n)
    PROVE  PInv'
<1>1. /\ scaler' = scaler /\ thread[n].until = None /\ counter[n].e_wait = now
      /\ thread' = [thread EXCEPT ![n].until = now + 1,
                                  ![n].irqnr = IF counter[n].ie THEN Line(n) ELSE @]
      /\ armed' = [armed EXCEPT ![n] = IF @.at # None /\ counter[n].rs
                        THEN [at |-> now, value |-> counter[n].reload] ELSE Unarmed]
      /\ counter' = [counter EXCEPT ![n].e_wait = None, ![n].m_pirq = @ \/ counter[n].ie]
  BY DEF Underflow, Waiting
<1>2. /\ counter \in [Counters -> CounterAt(now)] /\ now \in Nat
      /\ thread \in [Counters -> [until : {None, now, now + 1}, irqnr : 0..(31 + NTimers)]]
      /\ armed \in [Counters -> [at : 0..now \cup {None}, value : Nat]]
  BY StateFacts DEF CountersAt, GInv, TypeOK
<1>3. \A m \in Counters : m # n =>
        counter'[m] = counter[m] /\ thread'[m] = thread[m] /\ armed'[m] = armed[m]
  BY <1>1, <1>2
<1>4. ASSUME NEW m \in Counters, m # n
      PROVE  Measured(m)'
  BY <1>1, <1>3, <1>4, MeasuredSame
<1>5. Measured(n)'
  <2> SUFFICES ASSUME armed'[n].at # None
               PROVE  Measured(n)'
    BY DEF Measured
  <2> DEFINE k == counter[n]
             l == counter'[n]
             a == armed'[n]
  <2>1. armed[n].at # None /\ k.rs /\ a = [at |-> now, value |-> k.reload]
    BY <1>1, <1>2 DEF Unarmed
  <2>2. /\ l.en = k.en /\ l.stopped = k.stopped /\ l.ch = k.ch /\ l.rs = k.rs
        /\ l.lasttime = k.lasttime /\ l.lastvalue = k.lastvalue /\ l.reload = k.reload
    BY <1>1, <1>2 DEF CounterAt
  <2>3. thread'[n].until = now + 1 /\ now + 1 # None /\ (now + 1) - 1 = now
    BY <1>1, <1>2 DEF None
  <2>4. /\ k.en /\ ~k.stopped /\ ~k.ch
        /\ scaler.reload >= NTimers /\ CountedDown(scaler, k) => InPhase(scaler, k, n, now)
    BY <1>1, <2>1 DEF PInv, Measured
  <2> HIDE DEF k, l
  <2>5. /\ InPhase(scaler, k, n, now) => InPhase(scaler, l, n, now)
        /\ CountedDown(scaler, l) => CountedDown(scaler, k)
    BY <2>2, SamePhase, Zenon
  <2>6. a.at = now /\ a.value = k.reload
    BY <2>1
  <2> HIDE DEF a
  <2>7. scaler' = scaler /\ counter'[n] = l /\ armed'[n] = a
    BY <1>1 DEF l, a
  <2>8. a.at = thread'[n].until - 1
    BY <2>3, <2>6
  <2>9. scaler.reload >= NTimers /\ CountedDown(scaler, l) => InPhase(scaler, l, n, a.at)
    BY <2>4, <2>5, <2>6
  <2>10. l.en /\ ~l.stopped /\ ~l.ch /\ l.rs /\ a.value = l.reload /\ thread'[n].until # None
    BY <2>1, <2>2, <2>3, <2>4, <2>6 DEF k
  <2> QED BY <2>7, <2>8, <2>9, <2>10 DEF Measured
<1> QED BY <1>4, <1>5 DEF PInv

\* The next underflow is announced in the cycle after it.  The counter that the chain
\* starts is not measured.
LEMMA PulseEndMeasured ==
    ASSUME GInv, PInv, NEW n \in Counters, PulseEnd(n)
    PROVE  PInv'
<1> DEFINE nrn == (n + 1) % NTimers
           c == IF counter[nrn].ch THEN Chaining(scaler, counter, nrn) ELSE counter
           e == Restart(c, n)
           f == Calculate(scaler, e, n)
<1>1. /\ scaler' = scaler /\ armed' = armed /\ thread[n].until = now
      /\ thread' = [thread EXCEPT ![n].until = None] /\ counter' = f
  BY DEF PulseEnd, Again
<1>2. /\ now \in Nat /\ scaler \in PrescalerAt(now) /\ counter \in CountersAt(now)
      /\ thread \in [Counters -> [until : {None, now, now + 1}, irqnr : 0..(31 + NTimers)]]
      /\ nrn \in Counters
  <2>1. nrn \in Counters
    BY GPTimerAssumption DEF Counters
  <2> QED BY <2>1, StateFacts DEF GInv, TypeOK
<1> HIDE DEF nrn
<1>3. /\ c \in CountersAt(now) /\ \A m \in Counters : ~counter[m].ch => c[m] = counter[m]
  <2>1. CASE counter[nrn].ch
    <3>1. Only(counter, c, nrn)
      BY <1>2, <2>1, ChainingSettles DEF Settled
    <3> QED BY <3>1, <2>1 DEF Only
  <2>2. CASE ~counter[nrn].ch
    BY <1>2, <2>2
  <2> QED BY <2>1, <2>2
<1> HIDE DEF c
<1>4. c \in [Counters -> CounterAt(now)] /\ c[n] \in CounterAt(now)
  BY <1>3 DEF CountersAt
<1>5. Only(c, e, n)
  <2> DEFINE k == [c[n] EXCEPT !.en = c[n].rs]
             d == [c EXCEPT ![n] = k]
  <2>1. k \in CounterAt(now) /\ k.ch = c[n].ch
    BY <1>4 DEF CounterAt
  <2>2. k.ch = FALSE \/ n # 0
    BY <2>1, <1>3, <1>4 DEF CountersAt, CounterAt
  <2>3. [c EXCEPT ![n].en = c[n].rs] = d
    BY <1>4
  <2> HIDE DEF k
  <2>4. Only(c, d, n)
    BY <2>1, <2>2, <1>3, AssignCounter, Zenon
  <2>5. e = IF c[n].rs THEN d ELSE Stop(scaler, d, n)
    BY <2>3, Zenon DEF Restart
  <2> HIDE DEF d, e
  <2>6. Only(c, Stop(scaler, d, n), n)
    <3>1. d \in CountersAt(now)
      BY <2>4 DEF Only
    <3>2. Only(d, Stop(scaler, d, n), n)
      BY <3>1, <1>2, StopSettles, Zenon DEF Settled
    <3> QED BY <3>2, <2>4, OnlyTransitive, Zenon
  <2> QED BY <2>4, <2>5, <2>6, Zenon
<1>6. Only(c, f, n)
  <2>1. e \in CountersAt(now)
    BY <1>5 DEF Only
  <2> HIDE DEF e
  <2>2. Only(e, f, n)
    BY <2>1, <1>2, CalculateAnnounces, Zenon
  <2> QED BY <2>2, <1>5, OnlyTransitive, Zenon
<1>7. ASSUME NEW m \in Counters, m # n
      PROVE  Measured(m)'
  <2>1. thread'[m] = thread[m] /\ armed'[m] = armed[m]
    BY <1>1, <1>2, <1>7
  <2>2. armed[m].at # None => ~counter[m].ch
    BY DEF PInv, Measured
  <2>3. armed[m].at # None => counter'[m] = counter[m]
    <3> HIDE DEF f
    <3> QED BY <2>2, <1>1, <1>3, <1>6, <1>7 DEF Only
  <2> HIDE DEF f
  <2> QED BY <2>1, <2>3, <1>1, MeasuredSame
<1>8. Measured(n)'
  <2> SUFFICES ASSUME armed'[n].at # None
               PROVE  Measured(n)'
    BY DEF Measured
  <2> DEFINE k == c[n]
             a == armed[n]
             w == now + Scaler(scaler) + 2 + (TickLength(scaler) * Value(scaler, c, n)) + n + 1
  <2>1. armed[n].at # None /\ now # None
    BY <1>1, <1>2 DEF None
  <2>2. /\ counter[n].en /\ ~counter[n].stopped /\ ~counter[n].ch /\ counter[n].rs
        /\ a.at = now - 1 /\ a.value = counter[n].reload
        /\ scaler.reload >= NTimers /\ CountedDown(scaler, counter[n])
             => InPhase(scaler, counter[n], n, now - 1)
    BY <1>1, <2>1 DEF PInv, Measured
  <2>3. c[n] = counter[n]
    BY <1>3, <2>2
  <2>4. /\ k.en /\ ~k.stopped /\ ~k.ch /\ k.rs /\ a.at = now - 1 /\ a.value = k.reload
        /\ scaler.reload >= NTimers /\ CountedDown(scaler, k) => InPhase(scaler, k, n, now - 1)
    BY <2>2, <2>3
  <2>5. e = c
    <3>1. [c EXCEPT ![n].en = c[n].rs] = c
      <4>1. c[n].rs = c[n].en
        BY <1>4, <2>4 DEF CounterAt
      <4>2. [c[n] EXCEPT !.en = c[n].rs] = c[n]
        BY <4>1, <1>4 DEF CounterAt
      <4> QED BY <4>2, <1>4
    <3> QED BY <3>1, <2>4 DEF Restart
  <2>6. f = Calculate(scaler, c, n)
    BY <2>5
  <2> HIDE DEF e, f
  <2>7. f[n] = [k EXCEPT !.e_wait = w]
    <3>1. ~c[n].ch /\ c[n].en
      BY <2>4
    <3>2. now \in Nat /\ scaler \in PrescalerAt(now) /\ c \in CountersAt(now)
      BY <1>2, <1>3
    <3>3. /\ Only(c, Calculate(scaler, c, n), n)
          /\ Calculate(scaler, c, n)[n] = [c[n] EXCEPT !.e_wait =
               now + Scaler(scaler) + 2 + (TickLength(scaler) * Value(scaler, c, n)) + n + 1]
      BY <3>1, <3>2, CalculateUnchained, Zenon
    <3> QED BY <3>3, <2>6
  <2> DEFINE l == f[n]
  <2>8. ASSUME scaler.reload >= NTimers, CountedDown(scaler, k)
        PROVE  InPhase(scaler, k, n, w) /\ InTime(scaler, k, n, a, w)
    <3>1. InPhase(scaler, c[n], n, now - 1)
      BY <2>4, <2>8
    <3> HIDE DEF a
    <3> QED BY <3>1, <2>4, <2>8, <1>2, <1>3, NextPeriod
  <2> HIDE DEF w
  <2>9. /\ l.en = k.en /\ l.stopped = k.stopped /\ l.ch = k.ch
        /\ l.lasttime = k.lasttime /\ l.lastvalue = k.lastvalue /\ l.reload = k.reload
        /\ l.e_wait = w
    BY <2>7, <1>4 DEF CounterAt
  <2>10. counter'[n] = l /\ armed'[n] = a /\ scaler' = scaler /\ thread'[n].until = None
    BY <1>1, <1>2
  <2> HIDE DEF l, k, a
  <2>11. /\ InPhase(scaler, k, n, w) => InPhase(scaler, l, n, w)
         /\ InTime(scaler, k, n, a, w) => InTime(scaler, l, n, a, w)
         /\ CountedDown(scaler, l) => CountedDown(scaler, k)
    BY <2>9, SamePhase, Zenon
  <2>12. l.en /\ ~l.stopped /\ ~l.ch
    BY <2>4, <2>9
  <2>13. scaler.reload >= NTimers /\ CountedDown(scaler, l) =>
           InPhase(scaler, l, n, l.e_wait) /\ InTime(scaler, l, n, a, l.e_wait)
    BY <2>8, <2>9, <2>11
  <2> QED BY <2>10, <2>12, <2>13 DEF Measured
<1> QED BY <1>7, <1>8 DEF PInv

LEMMA InitMeasured == Init => PInv
<1>1. Init => armed = [n \in Counters |-> Unarmed]
  BY DEF Init
<1>2. \A n \in Counters : [m \in Counters |-> Unarmed][n].at = None
  BY DEF Unarmed
<1> QED BY <1>1, <1>2 DEF PInv, Measured

LEMMA StepMeasured == GInv /\ PInv /\ [Next]_gpvars => PInv'
<1> SUFFICES ASSUME GInv, PInv, [Next]_gpvars
             PROVE  PInv'
  OBVIOUS
<1>1. CASE Write
  BY <1>1, WriteMeasured
<1>2. CASE Tick
  <2>1. UNCHANGED <<scaler, counter, thread, armed>>
    BY <1>2 DEF Tick
  <2> QED BY <2>1, MeasuredSame DEF PInv
<1>3. ASSUME NEW n \in Counters, Underflow(n)
      PROVE  PInv'
  BY <1>3, UnderflowMeasured
<1>4. ASSUME NEW n \in Counters, PulseEnd(n)
      PROVE  PInv'
  BY <1>4, PulseEndMeasured
<1>5. CASE UNCHANGED gpvars
  <2>1. UNCHANGED <<scaler, counter, thread, armed>>
    BY <1>5 DEF gpvars
  <2> QED BY <2>1, MeasuredSame DEF PInv
<1> QED BY <1>1, <1>2, <1>3, <1>4, <1>5 DEF Next, End

\* The time of an underflow that is due.
LEMMA UnderflowInTime ==
    ASSUME GInv, PInv, NEW n \in Counters, Underflow(n), armed[n].at # None,
           scaler.reload >= NTimers, Steady(n)
    PROVE  InTime(scaler, counter[n], n, armed[n], now)
<1>1. thread[n].until = None /\ counter[n].e_wait = now
  BY DEF Underflow, Waiting
<1>2. CountedDown(scaler, counter[n])
  BY DEF Steady, CountedDown
<1> QED BY <1>1, <1>2 DEF PInv, Measured

\* A counter has the period of a counter that is decremented at every tick of the
\* prescaler, whatever the registers hold and whatever other counters do: value_read(),
\* which counts the ticks since the counter was started, and nextzero() never lose one.
\* The counter is one whose VALUE register and lastvalue agree when it is started, as they
\* do after a load, a write of the register, a stop or a reset.
THEOREM Periods == Spec => UnderflowPeriod
<1>1. Spec => [](GInv /\ PInv)
  <2>1. Init => GInv /\ PInv
    BY InitInv, InitMeasured
  <2>2. GInv /\ PInv /\ [Next]_gpvars => GInv' /\ PInv'
    BY StepInv, StepMeasured
  <2> QED BY <2>1, <2>2, PTL DEF Spec
<1>2. GInv /\ PInv /\ [Next]_gpvars =>
        [\A n \in Counters :
            Underflow(n) /\ armed[n].at # None /\ scaler.reload >= NTimers /\ Steady(n) =>
                LET tick == scaler.reload + 1
                    period == (armed[n].value + 1) * tick
                    elapsed == now - armed[n].at
                    restarted == armed[n].at > counter[n].lasttime
                IN  /\ elapsed > armed[n].value * tick
                    /\ elapsed =< period + n + 4
                    /\ restarted => elapsed >= period - 1
                    /\ restarted /\ tick > n + 4 => elapsed =< period]_gpvars
  BY UnderflowInTime DEF InTime
<1> QED BY <1>1, <1>2, PTL DEF Spec, UnderflowPeriod
=============================================================================
