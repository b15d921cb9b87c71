------------------------------ MODULE AhbCtrl ------------------------------
(***************************************************************************)
(* The AHB controller at the approximately timed level (gaisler/ahbctrl),  *)
(* with the halves of the protocol that its masters (core/common/          *)
(* ahbmaster.tpp, the mem_access thread of mmu_cache_base.cpp) and slaves  *)
(* (ahbslave.tpp) run.                                                     *)
(*                                                                         *)
(* Time is counted in clock cycles.  Everything but the arbiter happens on *)
(* a clock edge, in the order the kernel picks; the arbiter runs one       *)
(* picosecond later, so Arbitrate is also the step to the next edge and    *)
(* waits until nothing is left to do on this one.  A payload event queue   *)
(* gives each payload the number of edges until it comes out: 0, now.      *)
(***************************************************************************)
EXTENDS Integers, FiniteSetsExt

CONSTANTS
    NMASTERS,       \* num_of_master_bindings
    RROBIN,         \* generic rrobin
    Accesses,       \* the accesses masters make: see AhbAccess
    Pipelined,      \* masters that go on at END_REQ (AHBIn); the others, mmu_cache,
                    \* wait for the response
    SLOTS,          \* bound: payloads a master has in flight
    InitialDBus     \* data_bus_state is not initialised by the constructor

Masters == 0..(NMASTERS - 1)
Payloads == Masters \X (1..SLOTS)
Master(t) == t[1]           \* the amba_id extension of the payload

PNP == 16                   \* the slave id of the configuration area
Unmapped == -1              \* get_index found no slave
Slaves == 0..15

\* delay is what exec_func of the slave returns, in cycles.
AhbAccess == [slave : Slaves \cup {PNP, Unmapped}, words : Nat \ {0}, delay : Nat \ {0},
              write : BOOLEAN, lock : BOOLEAN]

ASSUME AhbCtrlAssumption ==
    /\ NMASTERS \in 1..16
    /\ RROBIN \in BOOLEAN
    /\ Accesses \subseteq AhbAccess
    /\ Pipelined \subseteq Masters
    /\ SLOTS \in Nat \ {0}
    /\ InitialDBus \subseteq {"IDLE", "RESPONSE", "WAITSTATES"}

VARIABLES
    master,         \* what each master's thread is doing
    payload, refs,  \* the access and the reference count of each payload
    acceptPEQ,      \* m_AcceptPEQ
    requestPEQ,     \* END_REQ on its way: the slave's, then the bus's m_RequestPEQ
    responsePEQ,    \* BEGIN_RESP on its way: the slave's, then the bus's m_ResponsePEQ
    dataPEQ,        \* the data phase: the masters' m_ResponsePEQ
    endRespPEQ,     \* m_EndResponsePEQ
    request_map, response_map,      \* response_map: only the slave id is read
    address_bus_owner, data_bus_state, is_lock, lock_master, robin

bus == <<address_bus_owner, data_bus_state, is_lock, lock_master, robin>>
maps == <<request_map, response_map>>
vars == <<master, payload, refs, acceptPEQ, requestPEQ, responsePEQ, dataPEQ, endRespPEQ,
          maps, bus>>

Never == -1                 \* not in the queue
Lost == -2                  \* due in 2^64 - 1 picoseconds
Nobody == -1
NoAccess == [slave |-> Unmapped, words |-> 1, delay |-> 1, write |-> FALSE, lock |-> FALSE]

TypeOK ==
    /\ master \in [Masters -> {"idle", "request", "response"}]
    /\ payload \in [Payloads -> Accesses \cup {NoAccess}]
    /\ refs \in [Payloads -> Int]
    /\ acceptPEQ \subseteq Payloads
    /\ requestPEQ \in [Payloads -> Nat \cup {Never}]
    /\ responsePEQ \in [Payloads -> Nat \cup {Never, Lost}]
    /\ dataPEQ \in [Payloads -> Nat \cup {Never}]
    /\ endRespPEQ \subseteq Payloads
    /\ request_map \in [Masters -> [state : {"INIT", "PENDING", "SCHEDULED"}, trans : Payloads]]
    /\ response_map \in [Masters -> Slaves \cup {PNP}]
    /\ address_bus_owner \in Masters \cup {Nobody}
    /\ data_bus_state \in {"IDLE", "RESPONSE", "WAITSTATES"}
    /\ is_lock \in BOOLEAN
    /\ lock_master \in Masters
    /\ robin \in Masters

Init ==
    /\ master = [m \in Masters |-> "idle"]
    /\ payload = [t \in Payloads |-> NoAccess]
    /\ refs = [t \in Payloads |-> 0]
    /\ acceptPEQ = {} /\ endRespPEQ = {}
    /\ requestPEQ = [t \in Payloads |-> Never]
    /\ responsePEQ = [t \in Payloads |-> Never]
    /\ dataPEQ = [t \in Payloads |-> Never]
    /\ request_map = [m \in Masters |-> [state |-> "INIT", trans |-> <<m, 1>>]]
    /\ response_map = [m \in Masters |-> 0]
    /\ address_bus_owner = Nobody
    /\ data_bus_state \in InitialDBus
    /\ is_lock = FALSE
    /\ lock_master = 0
    /\ robin = 0

----------------------------------------------------------------------------
(* The master asks for the bus *)

\* ahbaccess: a payload from the pool, referenced by its user, by ahbaccess and, from
\* BEGIN_REQ in nb_transport_fw on, by the bus.
Issue(m, a) ==
    /\ master[m] = "idle"
    /\ \E t \in {m} \X (1..SLOTS) :
        /\ refs[t] = 0
        /\ \A i \in 1..SLOTS : refs[<<m, i>>] = 0 => t[2] =< i
        /\ payload' = [payload EXCEPT ![t] = a]
        /\ refs' = [refs EXCEPT ![t] = 3]
        /\ acceptPEQ' = acceptPEQ \cup {t}
    /\ master' = [master EXCEPT ![m] = "request"]
    /\ UNCHANGED <<requestPEQ, responsePEQ, dataPEQ, endRespPEQ, maps, bus>>

\* Mutant: a new connection is only recorded over an initial one.
DecodedOnce(t) == payload[t].slave # Unmapped /\ request_map[Master(t)].state = "INIT"

\* get_index found a slave, or the address is in the configuration area.
Decoded(t) == payload[t].slave # Unmapped

\* AcceptThread: an access that decodes to no slave is only reported.
AcceptThread(t) ==
    /\ t \in acceptPEQ
    /\ acceptPEQ' = acceptPEQ \ {t}
    /\ IF Decoded(t)
       THEN /\ request_map' = [request_map EXCEPT ![Master(t)] = [state |-> "PENDING", trans |-> t]]
            /\ response_map' = [response_map EXCEPT ![Master(t)] = payload[t].slave]
       ELSE UNCHANGED maps
    /\ UNCHANGED <<master, payload, refs, requestPEQ, responsePEQ, dataPEQ, endRespPEQ, bus>>

----------------------------------------------------------------------------
(* The arbiter *)

Pending == {m \in Masters : request_map[m].state = "PENDING"}

\* Mutant: the lock is ignored.
AnyPending == Pending

\* The requests the arbiter may choose from.
Candidates == IF is_lock THEN Pending \cap {lock_master} ELSE Pending

\* Mutant: the highest master is preferred in round-robin mode too.
HighestFirst == Max(Candidates)

\* Masters a round-robin arbiter passes before it gets to m.
Distance(m) == (m - robin - 1) % NMASTERS

\* Fixed priority: the highest id first.
Winner ==
    IF RROBIN /\ ~is_lock
    THEN CHOOSE m \in Candidates : \A n \in Candidates : Distance(m) =< Distance(n)
    ELSE Max(Candidates)

\* Mutant: only the data bus has to be free.
DataBusFree == data_bus_state \in {"RESPONSE", "IDLE"}

BusFree == address_bus_owner = Nobody /\ data_bus_state \in {"RESPONSE", "IDLE"}

\* Nothing is left to do on this clock edge.
EdgeDone ==
    /\ acceptPEQ = {} /\ endRespPEQ = {}
    /\ \A t \in Payloads : requestPEQ[t] # 0 /\ responsePEQ[t] # 0 /\ dataPEQ[t] # 0

\* Mutant: a payload that is not in the queue is counted down too.
LaterAll(peq) == [t \in Payloads |-> peq[t] - 1]

\* A queue, one edge later.
Later(peq) == [t \in Payloads |-> IF peq[t] > 0 THEN peq[t] - 1 ELSE peq[t]]

\* Mutant: the wait states of the slave do not delay the response.
NoWaitStates(a) == 0

\* nb_transport_fw of the slave: the response is due early enough for the data phase to
\* end one cycle after the request; a delay shorter than the data makes it wrap round.
ResponseDelay(a) == IF a.delay >= a.words THEN a.delay - a.words ELSE Lost

\* BEGIN_REQ to the slave, which references the payload; the arbiter itself answers
\* for the configuration area, one cycle per word.
Forward(t) ==
    LET a == payload[t]
    IN  /\ requestPEQ' = [Later(requestPEQ) EXCEPT ![t] = IF a.slave = PNP THEN a.words - 1
                                                          ELSE a.delay - 1]
        /\ responsePEQ' = [Later(responsePEQ) EXCEPT ![t] = IF a.slave = PNP THEN 0
                                                            ELSE ResponseDelay(a)]
        /\ refs' = IF a.slave = PNP THEN refs ELSE [refs EXCEPT ![t] = @ + 1]

Grant(m) ==
    LET t == request_map[m].trans
    IN  /\ Forward(t)
        /\ address_bus_owner' = m
        /\ request_map' = [request_map EXCEPT ![m].state = "SCHEDULED"]
        /\ is_lock' = payload[t].lock
        /\ lock_master' = m
        /\ robin' = IF RROBIN /\ ~is_lock THEN m ELSE robin
        /\ UNCHANGED data_bus_state

Arbitrate ==
    /\ EdgeDone
    /\ dataPEQ' = Later(dataPEQ)
    /\ IF BusFree /\ Candidates # {}
       THEN Grant(Winner)
       ELSE /\ requestPEQ' = Later(requestPEQ)
            /\ responsePEQ' = Later(responsePEQ)
            /\ UNCHANGED <<refs, request_map, bus>>
    /\ UNCHANGED <<master, payload, acceptPEQ, endRespPEQ, response_map>>

----------------------------------------------------------------------------
(* The answers *)

\* requestThread of the slave, RequestThread, which snoops the writes, and END_REQ at the
\* master: ahbaccess returns.
RequestThread(t) ==
    /\ requestPEQ[t] = 0
    /\ requestPEQ' = [requestPEQ EXCEPT ![t] = Never]
    /\ address_bus_owner' = Nobody
    /\ data_bus_state' = IF data_bus_state # "RESPONSE" THEN "WAITSTATES" ELSE "RESPONSE"
    /\ IF Master(t) \in Pipelined
       THEN /\ master' = [master EXCEPT ![Master(t)] = "idle"]
            /\ refs' = [refs EXCEPT ![t] = @ - 2]
       ELSE /\ master' = [master EXCEPT ![Master(t)] = "response"]
            /\ refs' = [refs EXCEPT ![t] = @ - 1]
    /\ UNCHANGED <<payload, acceptPEQ, responsePEQ, dataPEQ, endRespPEQ, maps,
                   is_lock, lock_master, robin>>

\* responseThread of the slave, ResponseThread, and BEGIN_RESP at the master: the
\* data phase takes one cycle per word.
ResponseThread(t) ==
    /\ responsePEQ[t] = 0
    /\ responsePEQ' = [responsePEQ EXCEPT ![t] = Never]
    /\ data_bus_state' = "RESPONSE"
    /\ dataPEQ' = [dataPEQ EXCEPT ![t] = payload[t].words]
    /\ refs' = [refs EXCEPT ![t] = @ + 1]
    /\ UNCHANGED <<master, payload, acceptPEQ, requestPEQ, endRespPEQ, maps,
                   address_bus_owner, is_lock, lock_master, robin>>

\* ResponseThread of the master: response_callback, which lets mem_access go on, END_RESP
\* to the bus, release.
MasterResponseThread(t) ==
    /\ dataPEQ[t] = 0
    /\ dataPEQ' = [dataPEQ EXCEPT ![t] = Never]
    /\ endRespPEQ' = endRespPEQ \cup {t}
    /\ IF Master(t) \in Pipelined
       THEN /\ refs' = [refs EXCEPT ![t] = @ - 1]
            /\ UNCHANGED master
       ELSE /\ refs' = [refs EXCEPT ![t] = @ - 2]
            /\ master' = [master EXCEPT ![Master(t)] = "idle"]
    /\ UNCHANGED <<payload, acceptPEQ, requestPEQ, responsePEQ, maps, bus>>

\* Mutant: the reference of the bus is not released.
KeepBusReference(t) == IF response_map[Master(t)] = PNP THEN 0 ELSE 1

\* References dropped at END_RESP: the bus's own, and that of the slave it is sent to.
\* The slave is looked up under the master, not under the payload.
Released(t) == IF response_map[Master(t)] = PNP THEN 1 ELSE 2

EndResponseThread(t) ==
    /\ t \in endRespPEQ
    /\ endRespPEQ' = endRespPEQ \ {t}
    /\ data_bus_state' = "IDLE"
    /\ refs' = [refs EXCEPT ![t] = @ - Released(t)]
    /\ UNCHANGED <<master, payload, acceptPEQ, requestPEQ, responsePEQ, dataPEQ, maps,
                   address_bus_owner, is_lock, lock_master, robin>>

----------------------------------------------------------------------------
Threads ==
    \/ \E t \in Payloads :
        \/ AcceptThread(t)
        \/ RequestThread(t)
        \/ ResponseThread(t)
        \/ MasterResponseThread(t)
        \/ EndResponseThread(t)
    \/ Arbitrate

Next ==
    \/ \E m \in Masters, a \in Accesses : Issue(m, a)
    \/ Threads

Spec == Init /\ [][Next]_vars

\* Simulated time goes on, and a master that locked the bus unlocks it.
Fairness ==
    /\ WF_vars(Threads)
    /\ \A m \in Masters :
        SF_vars(is_lock /\ lock_master = m /\ \E a \in Accesses : ~a.lock /\ Issue(m, a))

LiveSpec == Spec /\ Fairness

----------------------------------------------------------------------------
(* What the bus promises *)

\* The address phase: BEGIN_REQ was sent to the slave, END_REQ has not come back.
InAddressPhase(t) == requestPEQ[t] # Never

\* The data phase of the payload lasts beyond this edge.
InDataPhase(t) == dataPEQ[t] > 0

\* The address bus belongs to one payload, of the master the arbiter thinks it is.
AddressPhaseExclusive ==
    \A t \in Payloads : InAddressPhase(t) =>
        /\ address_bus_owner = Master(t)
        /\ request_map[Master(t)] = [state |-> "SCHEDULED", trans |-> t]
        /\ \A u \in Payloads : InAddressPhase(u) => u = t

\* The data phases of two transfers never overlap, although the next request goes out
\* as soon as the response of the one before has begun.
DataPhaseExclusive ==
    \A t, u \in Payloads : InDataPhase(t) /\ InDataPhase(u) => t = u

\* A write is snooped (with END_REQ) before its END_RESP, so the transfer is not over for the
\* slave while caches that hold the address have not been told.
SnoopedBeforeEnd ==
    \A t \in endRespPEQ : ~InAddressPhase(t)

\* Where the request of a master is when its thread waits for END_REQ: every access is
\* in exactly one place, although the two maps hold one entry per master.
RequestKept ==
    \A m \in Masters : master[m] = "request" =>
        \E t \in {m} \X (1..SLOTS) :
            \/ t \in acceptPEQ
            \/ request_map[m] = [state |-> "PENDING", trans |-> t]
            \/ InAddressPhase(t)

\* The arbiter waits in WAITSTATES only for a response that is coming.
StallHasEnd ==
    data_bus_state = "WAITSTATES" =>
        \/ endRespPEQ # {}
        \/ \E t \in Payloads : responsePEQ[t] >= 0 \/ dataPEQ[t] # Never

\* A payload that is in a queue or waits for the arbiter is referenced: it is not back in
\* the pool, to be reused by the next access.
InUse(t) ==
    \/ t \in acceptPEQ \cup endRespPEQ
    \/ requestPEQ[t] # Never \/ responsePEQ[t] # Never \/ dataPEQ[t] # Never
    \/ request_map[Master(t)] = [state |-> "PENDING", trans |-> t]

NoUseAfterRelease == \A t \in Payloads : InUse(t) <=> refs[t] > 0

\* While a master holds the bus locked, no other master's request reaches a slave.
LockedAtomic ==
    [][\A t \in Payloads :
        is_lock /\ ~InAddressPhase(t) /\ InAddressPhase(t)' => Master(t) = lock_master]_vars

\* The arbiter and the request thread are a bus with one owner, from BEGIN_REQ to
\* END_REQ, which a locked access keeps for its master.
Bus == INSTANCE LockedBus WITH
            owner <- address_bus_owner, locker <- IF is_lock THEN lock_master ELSE Nobody
BusSpec == Bus!Spec

\* Round robin: a master that requests the bus gets it.
EveryoneServed ==
    \A m \in Masters : master[m] = "request" ~> master[m] # "request"

----------------------------------------------------------------------------
(* What the documentation and the comments say, which the code does not do *)

\* "Send END_RESP to slave": END_RESP goes to the slave that got the BEGIN_REQ, which
\* takes it for the end of the data phase and releases the payload.
EndRespToItsSlave ==
    [][\A t \in Payloads :
        EndResponseThread(t) => response_map[Master(t)] = payload[t].slave]_vars

=============================================================================
