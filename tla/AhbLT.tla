------------------------------- MODULE AhbLT -------------------------------
(***************************************************************************)
(* The AHB controller at the loosely timed level: every master thread runs *)
(* b_transport of ahbctrl.cpp itself.  It polls busy and the lock once a   *)
(* cycle; from the moment it finds the bus free until its call of wait is  *)
(* over the access is its own.  The slave is called, and does its work,    *)
(* when the access starts; writes are snooped when it ends.                *)
(*                                                                         *)
(* Addresses are 1 MByte segments, the unit of the decoder.                *)
(***************************************************************************)
EXTENDS Integers

CONSTANTS
    Masters,
    SlaveMap,       \* slave_map: base segment -> [size: in segments, slave: hindex]
    PnpArea,        \* the segments of the configuration area
    Accesses        \* the accesses masters make: see LTAccess

LTAccess == [addr : Nat, write : BOOLEAN, lock : BOOLEAN]
Bases == DOMAIN SlaveMap

\* ((a ^ h) & hmask) = 0
Match(a, h) == a \div SlaveMap[h].size = h \div SlaveMap[h].size

\* What checkMemMap expects of the memory map: no two areas intersect.  A slave is
\* mapped to segment 0, from which the processors boot.
ASSUME AhbLTAssumption ==
    /\ Masters \subseteq Nat
    /\ Accesses \subseteq LTAccess
    /\ Bases \subseteq Nat /\ 0 \in Bases
    /\ \A h \in Bases :
        /\ SlaveMap[h].size \in Nat \ {0} /\ SlaveMap[h].slave \in 0..15
        /\ h % SlaveMap[h].size = 0
    /\ \A g, h \in Bases : Match(g, h) => g = h

VARIABLES
    busy, is_lock, lock_master,
    slave_map_cache,        \* the base of the area that was found last
    thread                  \* what each master thread does in b_transport

ltvars == <<busy, is_lock, lock_master, slave_map_cache, thread>>

NoEntry == -1               \* the constructor's bogus entry
Unmapped == -1
PNP == 16
Idle == [pc |-> "idle"]

TypeOK ==
    /\ busy \in BOOLEAN /\ is_lock \in BOOLEAN
    /\ lock_master \in Masters \cup {0}
    /\ slave_map_cache \in Bases \cup {NoEntry}
    /\ thread \in [Masters ->
            {Idle} \cup [pc : {"poll"}, access : Accesses]
                   \cup [pc : {"transfer"}, access : Accesses, index : (0..16) \cup {Unmapped}]]

Init ==
    /\ busy = FALSE /\ is_lock = FALSE /\ lock_master = 0
    /\ slave_map_cache = NoEntry
    /\ thread = [m \in Masters |-> Idle]

----------------------------------------------------------------------------
(* The address decoder *)

\* Mutant: the entry is kept for addresses above its area.
CacheHitAbove(a) == slave_map_cache # NoEntry /\ a >= slave_map_cache

CacheHit(a) == slave_map_cache # NoEntry /\ Match(a, slave_map_cache)

\* --upper_bound(a)
LastBase(a) == CHOOSE h \in Bases : h =< a /\ \A g \in Bases : g =< a => g =< h

\* get_index: the area and the slave, the entry of the last access tried first.
Found(a) == IF CacheHit(a) THEN slave_map_cache ELSE LastBase(a)
GetIndex(a) == IF Match(a, Found(a)) THEN SlaveMap[Found(a)].slave ELSE Unmapped

\* Mutant: a miss is kept too.
KeepMiss(a) == IF Match(a, Found(a)) THEN Found(a) ELSE a

SlaveMapCache(a) == IF Match(a, Found(a)) THEN Found(a) ELSE slave_map_cache

----------------------------------------------------------------------------
(* b_transport *)

Request(m, a) ==
    /\ thread[m].pc = "idle"
    /\ thread' = [thread EXCEPT ![m] = [pc |-> "poll", access |-> a]]
    /\ UNCHANGED <<busy, is_lock, lock_master, slave_map_cache>>

\* Mutant: only the lock is looked at.
FreeLock(m) == is_lock => m = lock_master

Free(m) == ~busy /\ (is_lock => m = lock_master)

Lock(m) ==
    /\ is_lock' = thread[m].access.lock
    /\ lock_master' = m

\* An access of the memory or of the configuration area, or one that no slave answers.
Start(m) ==
    /\ thread[m].pc = "poll" /\ Free(m)
    /\ Lock(m)
    /\ busy' = TRUE
    /\ LET a == thread[m].access
           pnp == a.addr \in PnpArea
       IN  /\ pnp => ~a.write
           /\ thread' = [thread EXCEPT ![m] = [pc |-> "transfer", access |-> a,
                            index |-> IF pnp THEN PNP ELSE GetIndex(a.addr)]]
           /\ slave_map_cache' = IF pnp THEN slave_map_cache ELSE SlaveMapCache(a.addr)

\* A write to the configuration area: TLM_COMMAND_ERROR_RESPONSE, without a wait.
Forbid(m) ==
    /\ thread[m].pc = "poll" /\ Free(m)
    /\ thread[m].access.addr \in PnpArea /\ thread[m].access.write
    /\ Lock(m)
    /\ thread' = [thread EXCEPT ![m] = Idle]
    /\ UNCHANGED <<busy, slave_map_cache>>

\* Mutant: the lock is given up with the bus.
UnlockAtEnd == is_lock' = FALSE

\* After wait(delay); the master's response_callback follows.
LockAtEnd == is_lock' = is_lock

Finish(m) ==
    /\ thread[m].pc = "transfer"
    /\ busy' = FALSE
    /\ LockAtEnd
    /\ thread' = [thread EXCEPT ![m] = Idle]
    /\ UNCHANGED <<lock_master, slave_map_cache>>

Next ==
    \E m \in Masters :
        \/ \E a \in Accesses : Request(m, a)
        \/ Start(m) \/ Forbid(m) \/ Finish(m)

Spec == Init /\ [][Next]_ltvars

----------------------------------------------------------------------------
(* What the bus promises *)

Carried(m) == thread[m].pc = "transfer"

\* The one flag that all threads poll stands for exactly one access: it is set if and
\* only if one thread is between its poll and the end of its wait.
OneTransfer ==
    /\ busy <=> \E m \in Masters : Carried(m)
    /\ \A m, n \in Masters : Carried(m) /\ Carried(n) => m = n

\* The slave that is called is the one whose area holds the address, whatever was
\* accessed before: neither the entry of the last access nor the search of the map by
\* upper_bound ever finds another.
DecodedByMap ==
    \A m \in Masters : Carried(m) /\ thread[m].index # PNP =>
        LET areas == {h \in Bases : Match(thread[m].access.addr, h)}
        IN  IF areas = {} THEN thread[m].index = Unmapped
            ELSE \E h \in areas : thread[m].index = SlaveMap[h].slave

\* The threads together are a bus with one owner, locked from the start of a locked
\* access until its master starts one that is not.
owner == IF \E m \in Masters : Carried(m) THEN CHOOSE m \in Masters : Carried(m) ELSE -1
Bus == INSTANCE LockedBus WITH locker <- IF is_lock THEN lock_master ELSE -1
BusSpec == Bus!Spec
=============================================================================
