---------------------------- MODULE AhbLTProofs ----------------------------
(* Proofs of what AhbLT promises, for every memory map and any set of masters. *)
EXTENDS AhbLT, NaturalsInduction, WellFoundedInduction, TLAPS

----------------------------------------------------------------------------
(* Arithmetic of the address areas *)

\* Division with remainder.
LEMMA DivMod ==
    ASSUME NEW x \in Nat, NEW s \in Nat, s > 0
    PROVE  /\ x \div s \in Nat
           /\ x % s \in Nat /\ x % s < s
           /\ x = s * (x \div s) + (x % s)
  OBVIOUS

LEMMA Product ==
    ASSUME NEW s \in Nat, NEW p \in Nat, NEW q \in Nat, p + 1 =< q
    PROVE  s * p + s =< s * q
<1>1. PICK d \in Nat : q = p + 1 + d
  <2>1. q - p - 1 \in Nat /\ q = p + 1 + (q - p - 1)
    OBVIOUS
  <2> QED
    BY <2>1
<1>2. s * q = s * p + s + s * d /\ s * d \in Nat /\ s * p \in Nat
  BY <1>1
<1> QED
  BY <1>2

\* Division is monotone.
LEMMA DivMonotone ==
    ASSUME NEW x \in Nat, NEW y \in Nat, NEW s \in Nat, s > 0, x =< y
    PROVE  x \div s =< y \div s
<1> DEFINE p == x \div s  q == y \div s
<1>1. /\ p \in Nat /\ q \in Nat
      /\ x = s * p + (x % s) /\ x % s \in Nat
      /\ y = s * q + (y % s) /\ y % s < s /\ y % s \in Nat
  BY DivMod
<1> HIDE DEF p, q
<1>2. ASSUME q < p PROVE FALSE
  <2>1. s * q + s =< s * p
    BY <1>1, <1>2, Product
  <2>2. s * q \in Nat /\ s * p \in Nat
    BY <1>1
  <2> QED
    BY <1>1, <2>1, <2>2
<1>3. p =< q
  BY <1>1, <1>2
<1> QED
  BY <1>3 DEF p, q

\* An area begins at its base.
LEMMA BaseFirst ==
    ASSUME NEW a \in Nat, NEW h \in Bases, Match(a, h)
    PROVE  h =< a
<1> DEFINE s == SlaveMap[h].size
<1>1. h \in Nat /\ s \in Nat /\ s > 0 /\ h % s = 0 /\ a \div s = h \div s
  BY AhbLTAssumption DEF Match
<1> HIDE DEF s
<1>2. h = s * (h \div s) + (h % s) /\ a = s * (a \div s) + (a % s) /\ a % s \in Nat
  BY <1>1, DivMod
<1>3. s * (a \div s) \in Nat
  BY <1>1, DivMod
<1>4. h = s * (a \div s)
  BY <1>1, <1>2
<1> QED
  BY <1>2, <1>3, <1>4

\* An area is an interval: no base of another lies between its base and an address in it.
LEMMA NoBaseWithin ==
    ASSUME NEW a \in Nat, NEW g \in Bases, NEW h \in Bases, Match(a, h), h =< g, g =< a
    PROVE  g = h
<1> DEFINE s == SlaveMap[h].size
<1>1. h \in Nat /\ g \in Nat /\ s \in Nat /\ s > 0 /\ a \div s = h \div s
  BY AhbLTAssumption DEF Match
<1> HIDE DEF s
<1>2. h \div s =< g \div s /\ g \div s =< a \div s
  BY <1>1, DivMonotone
<1>3. g \div s \in Nat /\ h \div s \in Nat
  BY <1>1, DivMod
<1>4. g \div s = h \div s
  BY <1>1, <1>2, <1>3
<1>5. Match(g, h)
  BY <1>4 DEF s, Match
<1> QED
  BY <1>5, AhbLTAssumption

\* The areas are disjoint.
LEMMA Disjoint ==
    ASSUME NEW a \in Nat, NEW g \in Bases, NEW h \in Bases, Match(a, g), Match(a, h)
    PROVE  g = h
<1>1. g =< a /\ h =< a /\ g \in Nat /\ h \in Nat
  BY BaseFirst, AhbLTAssumption
<1>2. CASE h =< g
  BY <1>1, <1>2, NoBaseWithin
<1>3. CASE g =< h
  BY <1>1, <1>3, NoBaseWithin
<1> QED
  BY <1>1, <1>2, <1>3

----------------------------------------------------------------------------
(* The decoder *)

\* Every non-empty set of numbers has a least one.
LEMMA Least ==
    ASSUME NEW S, S \subseteq Nat, S # {}
    PROVE  \E d \in S : \A e \in S : d =< e
<1>1. PICK d \in S : \A e \in S : <<e, d>> \notin OpToRel(<, Nat)
  BY NatLessThanWellFounded, WFMin
<1>2. ASSUME NEW e \in S, e < d PROVE FALSE
  BY <1>1, <1>2 DEF OpToRel
<1> QED
  BY <1>2

\* upper_bound finds an area: the first one begins at segment 0.
LEMMA LastBaseExists ==
    ASSUME NEW a \in Nat
    PROVE  /\ LastBase(a) \in Bases
           /\ LastBase(a) =< a
           /\ \A g \in Bases : g =< a => g =< LastBase(a)
<1> DEFINE below == {h \in Bases : h =< a}
           distances == {a - h : h \in below}
<1>1. Bases \subseteq Nat /\ 0 \in below
  BY AhbLTAssumption
<1>2. distances \subseteq Nat /\ distances # {}
  <2>1. \A h \in below : a - h \in Nat
    BY <1>1
  <2> QED
    BY <1>1, <2>1
<1>3. PICK d \in distances : \A e \in distances : d =< e
  BY <1>2, Least
<1>4. PICK h \in below : d = a - h
  OBVIOUS
<1>5. ASSUME NEW g \in Bases, g =< a PROVE g =< h
  <2>1. d =< a - g
    BY <1>3, <1>5
  <2> QED
    BY <1>1, <1>4, <2>1
<1>6. h \in Bases /\ h =< a
  OBVIOUS
<1> QED
  BY <1>5, <1>6 DEF LastBase

\* Whatever the entry of the last access is, the decoder looks at an area that begins
\* at or below the address and finds the only area that can hold it.
LEMMA Decoder ==
    ASSUME NEW a \in Nat, slave_map_cache \in Bases \cup {NoEntry}
    PROVE  /\ Found(a) \in Bases
           /\ \A h \in Bases : Match(a, h) => Found(a) = h
<1>1. CASE CacheHit(a)
  <2>1. Found(a) = slave_map_cache /\ Found(a) \in Bases /\ Match(a, Found(a))
    BY <1>1 DEF Found, CacheHit
  <2> QED
    BY <2>1, Disjoint
<1>2. CASE ~CacheHit(a)
  <2>1. Found(a) = LastBase(a)
    BY <1>2 DEF Found
  <2>2. Found(a) \in Bases /\ Found(a) =< a /\ \A g \in Bases : g =< a => g =< Found(a)
    BY <2>1, LastBaseExists
  <2>3. ASSUME NEW h \in Bases, Match(a, h) PROVE Found(a) = h
    <3>1. h =< a
      BY <2>3, BaseFirst
    <3> QED
      BY <2>2, <2>3, <3>1, NoBaseWithin
  <2> QED
    BY <2>2, <2>3
<1> QED
  BY <1>1, <1>2

\* What GetIndex returns and keeps.
LEMMA GetIndexResult ==
    ASSUME NEW a \in Nat, slave_map_cache \in Bases \cup {NoEntry}
    PROVE  /\ GetIndex(a) \in (0..15) \cup {Unmapped}
           /\ SlaveMapCache(a) \in Bases \cup {NoEntry}
           /\ LET areas == {h \in Bases : Match(a, h)}
              IN  IF areas = {} THEN GetIndex(a) = Unmapped
                  ELSE \E h \in areas : GetIndex(a) = SlaveMap[h].slave
<1>1. Found(a) \in Bases /\ \A h \in Bases : Match(a, h) => Found(a) = h
  BY Decoder
<1>2. SlaveMap[Found(a)].slave \in 0..15
  BY <1>1, AhbLTAssumption
<1>3. CASE Match(a, Found(a))
  BY <1>1, <1>2, <1>3 DEF GetIndex, SlaveMapCache
<1>4. CASE ~Match(a, Found(a))
  BY <1>1, <1>4 DEF GetIndex, SlaveMapCache
<1> QED
  BY <1>3, <1>4

----------------------------------------------------------------------------
(* The bus *)

\* The three invariants support each other: Start needs the type of the cached entry,
\* Finish that the thread which clears busy is the only one.
IInv == TypeOK /\ OneTransfer /\ DecodedByMap

\* The possible values of the record of a thread.
LEMMA ThreadTypes ==
    ASSUME TypeOK, NEW m \in Masters, thread[m].pc # "idle"
    PROVE  /\ thread[m].access \in Accesses
           /\ thread[m].access.addr \in Nat /\ thread[m].access.lock \in BOOLEAN
           /\ thread[m].pc \in {"poll", "transfer"}
           /\ thread[m].pc = "transfer" => thread[m].index \in (0..16) \cup {Unmapped}
  BY AhbLTAssumption DEF TypeOK, Idle, LTAccess

LEMMA InitIInv == Init => IInv
<1> SUFFICES ASSUME Init PROVE IInv
  OBVIOUS
<1>1. \A m \in Masters : ~Carried(m)
  BY DEF Init, Carried, Idle
<1>2. TypeOK
  BY DEF Init, TypeOK
<1>3. OneTransfer /\ DecodedByMap
  BY <1>1 DEF Init, OneTransfer, DecodedByMap
<1> QED
  BY <1>2, <1>3 DEF IInv

\* A thread that is not on the bus before and after a step, or keeps its access.
LEMMA RequestIInv ==
    ASSUME IInv, NEW m \in Masters, NEW a \in Accesses, Request(m, a)
    PROVE  IInv'
<1>1. \A n \in Masters : Carried(n)' <=> Carried(n)
  BY DEF Request, Carried, IInv, TypeOK
<1>2. \A n \in Masters : Carried(n) => thread'[n] = thread[n]
  BY DEF Request, Carried, IInv, TypeOK
<1>3. TypeOK'
  BY DEF IInv, TypeOK, Request, Idle
<1>4. OneTransfer'
  BY <1>1 DEF IInv, OneTransfer, Request
<1>5. DecodedByMap'
  BY <1>1, <1>2 DEF IInv, DecodedByMap, Match
<1> QED
  BY <1>3, <1>4, <1>5 DEF IInv

LEMMA StartIInv ==
    ASSUME IInv, NEW m \in Masters, Start(m)
    PROVE  IInv'
<1> DEFINE a == thread[m].access
           pnp == a.addr \in PnpArea
           index == IF pnp THEN PNP ELSE GetIndex(a.addr)
<1>1. a \in Accesses /\ a.addr \in Nat /\ a.lock \in BOOLEAN
  BY ThreadTypes DEF IInv, Start
<1>2. thread' = [thread EXCEPT ![m] = [pc |-> "transfer", access |-> a, index |-> index]]
  BY DEF Start
<1>3. /\ GetIndex(a.addr) \in (0..15) \cup {Unmapped}
      /\ SlaveMapCache(a.addr) \in Bases \cup {NoEntry}
  BY <1>1, GetIndexResult DEF IInv, TypeOK
<1>4. index \in (0..16) \cup {Unmapped}
  BY <1>3 DEF PNP
<1> HIDE DEF index
<1>5. TypeOK'
  <2>1. thread' \in [Masters ->
            {Idle} \cup [pc : {"poll"}, access : Accesses]
                   \cup [pc : {"transfer"}, access : Accesses, index : (0..16) \cup {Unmapped}]]
    BY <1>1, <1>2, <1>4 DEF IInv, TypeOK
  <2>2. busy' \in BOOLEAN /\ is_lock' \in BOOLEAN /\ lock_master' \in Masters \cup {0}
    BY <1>1 DEF Start, Lock
  <2>3. slave_map_cache' \in Bases \cup {NoEntry}
    BY <1>3 DEF Start, IInv, TypeOK
  <2> QED
    BY <2>1, <2>2, <2>3 DEF TypeOK
<1>6. \A n \in Masters : ~Carried(n)
  BY DEF IInv, OneTransfer, Start, Free
<1>7. \A n \in Masters : Carried(n)' <=> n = m
  BY <1>2, <1>6 DEF Carried, IInv, TypeOK
<1>8. OneTransfer'
  BY <1>7 DEF OneTransfer, Start
<1>9. thread'[m].access = a /\ thread'[m].index = index
  BY <1>2 DEF IInv, TypeOK
<1>10. DecodedByMap'
  <2> SUFFICES ASSUME index # PNP
               PROVE  LET areas == {h \in Bases : Match(a.addr, h)}
                      IN  IF areas = {} THEN index = Unmapped
                          ELSE \E h \in areas : index = SlaveMap[h].slave
    BY <1>7, <1>9 DEF DecodedByMap, Match
  <2>1. index = GetIndex(a.addr)
    BY DEF index
  <2> QED
    BY <1>1, <2>1, GetIndexResult DEF IInv, TypeOK
<1> QED
  BY <1>5, <1>8, <1>10 DEF IInv

LEMMA ForbidIInv ==
    ASSUME IInv, NEW m \in Masters, Forbid(m)
    PROVE  IInv'
<1>1. thread[m].access.lock \in BOOLEAN
  BY ThreadTypes DEF IInv, Forbid
<1>2. TypeOK'
  BY <1>1 DEF IInv, TypeOK, Forbid, Lock
<1>3. \A n \in Masters : Carried(n)' <=> Carried(n)
  BY DEF Forbid, Carried, IInv, TypeOK, Idle
<1>4. \A n \in Masters : Carried(n) => thread'[n] = thread[n]
  BY DEF Forbid, Carried, IInv, TypeOK
<1>5. OneTransfer'
  BY <1>3 DEF IInv, OneTransfer, Forbid
<1>6. DecodedByMap'
  BY <1>3, <1>4 DEF IInv, DecodedByMap, Match
<1> QED
  BY <1>2, <1>5, <1>6 DEF IInv

LEMMA FinishIInv ==
    ASSUME IInv, NEW m \in Masters, Finish(m)
    PROVE  IInv'
<1>1. TypeOK'
  BY DEF IInv, TypeOK, Finish, LockAtEnd
<1>2. \A n \in Masters : ~Carried(n)'
  BY DEF Finish, Carried, IInv, OneTransfer, TypeOK, Idle
<1>3. OneTransfer' /\ DecodedByMap'
  BY <1>2 DEF OneTransfer, DecodedByMap, Finish
<1> QED
  BY <1>1, <1>3 DEF IInv

LEMMA NextIInv == ASSUME IInv, [Next]_ltvars PROVE IInv'
<1>1. CASE UNCHANGED ltvars
  BY <1>1 DEF IInv, TypeOK, OneTransfer, DecodedByMap, Carried, Match, ltvars
<1>2. CASE Next
  BY <1>2, RequestIInv, StartIInv, ForbidIInv, FinishIInv DEF Next
<1> QED
  BY <1>1, <1>2

LEMMA SpecIInv == Spec => []IInv
  BY InitIInv, NextIInv, PTL DEF Spec

\* The type of every variable of the loosely timed bus.
THEOREM TypeCorrect == Spec => []TypeOK
  BY SpecIInv, PTL DEF IInv

\* busy stands for exactly one access of one master thread.
THEOREM Exclusive == Spec => []OneTransfer
  BY SpecIInv, PTL DEF IInv

\* An access reaches the slave whose area holds its address, whatever the decoder has
\* cached: for every memory map of disjoint, aligned areas.
THEOREM Decoded == Spec => []DecodedByMap
  BY SpecIInv, PTL DEF IInv

----------------------------------------------------------------------------
(* The refinement *)

\* The thread that carries the access is the owner.
LEMMA OwnerIs ==
    ASSUME OneTransfer
    PROVE  /\ \A m \in Masters : Carried(m) => owner = m
           /\ (\A m \in Masters : ~Carried(m)) => owner = -1
  BY DEF OneTransfer, owner

LEMMA BusInit == Init => Bus!Init
  BY DEF Init, Bus!Init, owner, Carried, Bus!Nobody, Idle

\* Every step of a thread is one of the abstract bus, or does not concern it.
LEMMA BusStep ==
    ASSUME IInv, IInv', [Next]_ltvars
    PROVE  [Bus!Next]_<<owner, IF is_lock THEN lock_master ELSE -1>>
<1> DEFINE locker == IF is_lock THEN lock_master ELSE -1
<1>0. IInv /\ IInv' /\ OneTransfer /\ OneTransfer'
  BY DEF IInv
<1>1. CASE UNCHANGED ltvars
  <2>1. owner' = owner
    BY <1>1 DEF owner, Carried, ltvars
  <2> QED
    BY <1>1, <2>1 DEF ltvars
<1>2. ASSUME NEW m \in Masters, NEW a \in Accesses, Request(m, a)
      PROVE  UNCHANGED <<owner, locker>>
  <2>1. \A n \in Masters : Carried(n)' <=> Carried(n)
    BY <1>2 DEF Request, Carried, IInv, TypeOK
  <2>2. owner' = owner
    BY <2>1 DEF owner
  <2> QED
    BY <1>2, <2>2 DEF Request
<1>3. ASSUME NEW m \in Masters, Start(m)
      PROVE  Bus!Acquire(m, thread[m].access.lock)
  <2>1. \A n \in Masters : ~Carried(n)
    BY <1>0, <1>3 DEF OneTransfer, Start, Free
  <2>2. thread'[m].pc = "transfer"
    BY <1>0, <1>3 DEF Start, IInv, TypeOK
  <2>3. owner = -1 /\ owner' = m
    <3>1. owner = -1
      BY <1>0, <2>1, OwnerIs
    <3>2. Carried(m)'
      BY <2>2 DEF Carried
    <3>3. (\A n \in Masters : Carried(n) => owner = n)'
      BY <1>0, <3>2 DEF OneTransfer, owner
    <3> QED
      BY <3>1, <3>2, <3>3
  <2> QED
    BY <1>3, <2>3 DEF Bus!Acquire, Bus!Nobody, Start, Free, Lock
<1>4. ASSUME NEW m \in Masters, Forbid(m)
      PROVE  Bus!Refuse(m, thread[m].access.lock)
  <2>1. \A n \in Masters : Carried(n)' <=> Carried(n)
    BY <1>4 DEF Forbid, Carried, IInv, TypeOK, Idle
  <2>2. owner' = owner
    BY <2>1 DEF owner
  <2>3. owner = -1
    BY <1>0, <1>4, OwnerIs DEF OneTransfer, Forbid, Free
  <2> QED
    BY <1>4, <2>2, <2>3 DEF Bus!Refuse, Bus!Nobody, Forbid, Free, Lock
<1>5. ASSUME NEW m \in Masters, Finish(m)
      PROVE  Bus!Release(m)
  <2>1. owner = m
    BY <1>0, <1>5, OwnerIs DEF Finish, Carried
  <2>2. \A n \in Masters : ~Carried(n)'
    BY <1>0, <1>5 DEF Finish, OneTransfer
  <2>3. owner' = -1
    BY <2>2 DEF owner
  <2> QED
    BY <1>5, <2>1, <2>3 DEF Bus!Release, Bus!Nobody, Finish, LockAtEnd
<1>6. CASE Next
  <2>1. \A m \in Masters : thread[m].pc = "poll" => thread[m].access.lock \in BOOLEAN
    BY ThreadTypes DEF IInv
  <2> QED
    BY <1>2, <1>3, <1>4, <1>5, <1>6, <2>1 DEF Next, Bus!Next, Start, Forbid
<1> QED
  BY <1>1, <1>6

\* The threads of b_transport implement the bus with one owner and a lock.
THEOREM ImplementsBus == Spec => BusSpec
<1>1. Init => Bus!Init
  BY BusInit
<1>2. IInv /\ IInv' /\ [Next]_ltvars
        => [Bus!Next]_<<owner, IF is_lock THEN lock_master ELSE -1>>
  BY BusStep
<1> QED
  BY <1>1, <1>2, SpecIInv, PTL DEF Spec, BusSpec, Bus!Spec
=============================================================================
