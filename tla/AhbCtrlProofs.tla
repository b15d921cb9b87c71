--------------------------- MODULE AhbCtrlProofs ---------------------------
(***************************************************************************)
(* Proofs about the AHB controller, for any number of masters, pipelined   *)
(* or not, any number of payloads, both arbitration policies and any       *)
(* accesses.  All but TypeCorrect are about accesses that meet Punctual:   *)
(* they decode to a slave, which is not the configuration area, and whose  *)
(* delay covers the data.                                                  *)
(*                                                                         *)
(* A payload goes through stages: waiting to be accepted, waiting for the  *)
(* arbiter, address phase, response and data phase (which overlap with the *)
(* address phase), END_RESP.  The inductive invariant says at what times   *)
(* the stages of one payload may overlap (Timing), which stages exclude    *)
(* each other for two payloads, of one master or of any two (Requests,     *)
(* Blocking, Phases), and that the reference count of a payload is what    *)
(* its stages account for (Counted).                                       *)
(***************************************************************************)
EXTENDS AhbCtrl, WellFoundedInduction, TLAPS

Punctual == \A a \in Accesses : a.slave \in Slaves /\ a.delay >= a.words

----------------------------------------------------------------------------
(* The stages of a payload *)

AwaitsArbiter(t) == request_map[Master(t)] = [state |-> "PENDING", trans |-> t]

\* Inside ahbaccess of its master.
Requesting(t) == t \in acceptPEQ \/ AwaitsArbiter(t) \/ requestPEQ[t] # Never

Answered(t) == responsePEQ[t] # Never \/ dataPEQ[t] # Never

\* In a stage in which no other payload may be.
Active(t) == requestPEQ[t] # Never \/ responsePEQ[t] # Never \/ dataPEQ[t] > 0

(* The parts of the invariant *)

\* A payload in use carries an access.
Loaded == \A t \in Payloads : InUse(t) => payload[t] \in Accesses

\* END_REQ comes as many edges after BEGIN_RESP as the burst has words, less one.
Timing ==
    \A t \in Payloads :
        /\ responsePEQ[t] # Never =>
            /\ responsePEQ[t] # Lost
            /\ \/ requestPEQ[t] = responsePEQ[t] + payload[t].words - 1
               \/ requestPEQ[t] = Never /\ responsePEQ[t] = 0 /\ payload[t].words = 1
        /\ dataPEQ[t] # Never =>
            /\ responsePEQ[t] = Never
            /\ \/ requestPEQ[t] = dataPEQ[t] - 1
               \/ requestPEQ[t] = Never /\ dataPEQ[t] \in {0, 1}
        /\ requestPEQ[t] # Never => Answered(t)

\* A payload waits in one place at a time.
Stages ==
    \A t \in Payloads :
        /\ t \in acceptPEQ => ~AwaitsArbiter(t)
        /\ t \in acceptPEQ \/ AwaitsArbiter(t) =>
            requestPEQ[t] = Never /\ ~Answered(t) /\ t \notin endRespPEQ
        /\ t \in endRespPEQ => requestPEQ[t] = Never /\ ~Answered(t)

\* The maps have one entry per master, and it is about a payload of that master.
Entries ==
    \A m \in Masters : Master(request_map[m].trans) = m /\ response_map[m] # PNP

\* One request per master, whose thread waits for it.
Requests ==
    /\ \A t \in Payloads : Requesting(t) => master[Master(t)] = "request"
    /\ \A t, u \in Payloads :
        Master(t) = Master(u) /\ Requesting(t) /\ Requesting(u) => t = u

\* A master that is not pipelined waits for the response too.
Blocking ==
    /\ \A t \in Payloads :
        Master(t) \notin Pipelined /\ Answered(t) /\ ~Requesting(t)
            => master[Master(t)] = "response"
    /\ \A t, u \in Payloads :
        /\ Master(t) = Master(u) /\ Master(t) \notin Pipelined
        /\ Requesting(t) \/ Answered(t)
        /\ Requesting(u) \/ Answered(u)
        => t = u

\* The address bus belongs to the payload in its address phase, and one is active.
Phases ==
    /\ \A t \in Payloads : requestPEQ[t] # Never =>
        /\ address_bus_owner = Master(t)
        /\ request_map[Master(t)] = [state |-> "SCHEDULED", trans |-> t]
    /\ \A t, u \in Payloads : Active(t) /\ Active(u) => t = u

\* The references: ahbaccess, the user of the payload, the bus, the slave and the queue of
\* the data phase.
Held(t) ==
    (IF Requesting(t) THEN 1 ELSE 0)
    + (IF Requesting(t) \/ (Master(t) \notin Pipelined /\ Answered(t)) THEN 1 ELSE 0)
    + (IF Requesting(t) \/ Answered(t) \/ t \in endRespPEQ THEN 1 ELSE 0)
    + (IF requestPEQ[t] # Never \/ Answered(t) \/ t \in endRespPEQ THEN 1 ELSE 0)
    + (IF dataPEQ[t] # Never THEN 1 ELSE 0)

Counted == \A t \in Payloads : refs[t] = Held(t)

\* A master whose thread is inside ahbaccess has a request.
Kept ==
    \A m \in Masters : master[m] = "request" =>
        \E t \in Payloads : Master(t) = m /\ Requesting(t)

IInv ==
    /\ TypeOK
    /\ Loaded
    /\ Timing
    /\ Stages
    /\ Entries
    /\ Requests
    /\ Blocking
    /\ Phases
    /\ Counted
    /\ Kept

----------------------------------------------------------------------------
(* Facts about states *)

\* A payload belongs to a master, and the payloads of a master are its own.
LEMMA PayloadMaster ==
    /\ \A t \in Payloads : Master(t) \in Masters
    /\ \A m \in Masters : \A t \in {m} \X (1..SLOTS) : t \in Payloads /\ Master(t) = m
    /\ \A t \in Payloads : t \in {Master(t)} \X (1..SLOTS)
  BY DEF Payloads, Master

\* The values of the queues of a payload.
LEMMA QueueTypes ==
    ASSUME TypeOK, NEW t \in Payloads
    PROVE  /\ requestPEQ[t] \in Nat \cup {-1}
           /\ responsePEQ[t] \in Nat \cup {-1, -2}
           /\ dataPEQ[t] \in Nat \cup {-1}
           /\ refs[t] \in Int
  BY DEF TypeOK, Never, Lost

\* What an access is.
LEMMA AccessTypes ==
    ASSUME Punctual, NEW a \in Accesses
    PROVE  /\ a.words \in Nat \ {0}
           /\ a.delay \in Nat \ {0}
           /\ a.delay >= a.words
           /\ a.slave # PNP
           /\ a.slave # Unmapped
           /\ a.slave \in Slaves
  BY AhbCtrlAssumption DEF Punctual, AhbAccess, Slaves, PNP, Unmapped

\* A payload whose reference count is zero is in no stage.
LEMMA Unused ==
    ASSUME Counted, NEW t \in Payloads, refs[t] = 0
    PROVE  ~Requesting(t) /\ ~Answered(t) /\ t \notin endRespPEQ
  BY DEF Counted, Held

\* A payload in a stage is in use.
LEMMA StagesInUse ==
    ASSUME NEW t \in Payloads
    PROVE  InUse(t) <=> Requesting(t) \/ Answered(t) \/ t \in endRespPEQ
  BY DEF InUse, Requesting, Answered, AwaitsArbiter

\* A non-empty set of natural numbers has a lowest one.
LEMMA Lowest ==
    ASSUME NEW S, S \subseteq Nat, S # {}
    PROVE  \E d \in S : \A e \in S : d =< e
<1>1. PICK d \in S : \A e \in S : <<e, d>> \notin OpToRel(<, Nat)
  BY NatLessThanWellFounded, WFMin
<1>2. ASSUME NEW e \in S, e < d PROVE FALSE
  BY <1>1, <1>2 DEF OpToRel
<1>3. QED
  BY <1>2

\* A finite set of small numbers has a highest one.
LEMMA SmallMax ==
    ASSUME NEW S, S \subseteq 0..15, S # {}
    PROVE  Max(S) \in S
<1> DEFINE mirrored == {15 - x : x \in S}
<1>1. \E m \in S : \A x \in S : m >= x
  <2>1. mirrored \subseteq Nat /\ mirrored # {}
    <3>1. \A x \in S : 15 - x \in Nat
      OBVIOUS
    <3>2. QED
      BY <3>1
  <2>2. PICK d \in mirrored : \A e \in mirrored : d =< e
    BY <2>1, Lowest
  <2>3. PICK m \in S : d = 15 - m
    OBVIOUS
  <2>4. ASSUME NEW x \in S PROVE m >= x
    <3>1. d =< 15 - x
      BY <2>2
    <3>2. QED
      BY <2>3, <3>1
  <2>5. QED
    BY <2>4
<1>2. QED
  BY <1>1 DEF Max

\* The arbiter picks one of the candidates.
LEMMA WinnerIsCandidate ==
    ASSUME TypeOK, Candidates # {}
    PROVE  Winner \in Candidates
<1>1. Candidates \subseteq Masters /\ Masters \subseteq 0..15
  BY AhbCtrlAssumption DEF Candidates, Pending, Masters
<1>2. Max(Candidates) \in Candidates
  BY <1>1, SmallMax
<1>3. ASSUME RROBIN, ~is_lock
      PROVE  \E m \in Candidates : \A n \in Candidates : Distance(m) =< Distance(n)
  <2>1. \A m \in Candidates : Distance(m) \in Nat
    BY <1>1, AhbCtrlAssumption DEF Distance, TypeOK, Masters
  <2> DEFINE distances == {Distance(m) : m \in Candidates}
  <2>2. distances \in SUBSET Nat /\ distances # {}
    BY <2>1
  <2>3. PICK d \in distances : \A e \in distances : d =< e
    BY <2>2, Lowest
  <2>4. QED
    BY <2>3
<1>4. QED
  BY <1>2, <1>3 DEF Winner

\* One edge later every queued payload is one edge nearer, and none has left.
LEMMA LaterEffect ==
    ASSUME TypeOK, Timing, EdgeDone, NEW t \in Payloads
    PROVE  /\ Later(requestPEQ)[t] = IF requestPEQ[t] = Never THEN Never ELSE requestPEQ[t] - 1
           /\ requestPEQ[t] # Never => requestPEQ[t] \in Nat \ {0}
           /\ Later(responsePEQ)[t] = IF responsePEQ[t] = Never THEN Never ELSE responsePEQ[t] - 1
           /\ responsePEQ[t] # Never => responsePEQ[t] \in Nat \ {0}
           /\ Later(dataPEQ)[t] = IF dataPEQ[t] = Never THEN Never ELSE dataPEQ[t] - 1
           /\ dataPEQ[t] # Never => dataPEQ[t] \in Nat \ {0}
<1>1. /\ requestPEQ[t] # 0 /\ responsePEQ[t] # 0 /\ dataPEQ[t] # 0
      /\ responsePEQ[t] # Lost
  BY DEF EdgeDone, Timing, Lost, Never
<1>2. /\ Later(requestPEQ)[t] = IF requestPEQ[t] > 0 THEN requestPEQ[t] - 1 ELSE requestPEQ[t]
      /\ Later(responsePEQ)[t] = IF responsePEQ[t] > 0 THEN responsePEQ[t] - 1 ELSE responsePEQ[t]
      /\ Later(dataPEQ)[t] = IF dataPEQ[t] > 0 THEN dataPEQ[t] - 1 ELSE dataPEQ[t]
  BY DEF Later
<1>3. QED
  BY <1>1, <1>2, QueueTypes DEF Never, Lost

----------------------------------------------------------------------------
(* The type invariant, which is inductive for any accesses *)

\* Nothing is in any queue after the constructors.
LEMMA TypeInit == Init => TypeOK
<1> SUFFICES ASSUME Init PROVE TypeOK
  OBVIOUS
<1>1. \A m \in Masters : <<m, 1>> \in Payloads
  BY AhbCtrlAssumption DEF Payloads
<1>2. 0 \in Masters /\ 0 \in Slaves
  BY AhbCtrlAssumption DEF Masters, Slaves
<1>3. request_map \in [Masters -> [state : {"INIT", "PENDING", "SCHEDULED"}, trans : Payloads]]
  BY <1>1 DEF Init
<1>4. response_map \in [Masters -> Slaves \cup {PNP}]
  BY <1>2 DEF Init
<1>5. data_bus_state \in {"IDLE", "RESPONSE", "WAITSTATES"}
  BY AhbCtrlAssumption DEF Init
<1>6. payload \in [Payloads -> Accesses \cup {NoAccess}]
  BY DEF Init
<1>7. /\ master \in [Masters -> {"idle", "request", "response"}]
      /\ refs \in [Payloads -> Int]
      /\ acceptPEQ \subseteq Payloads /\ endRespPEQ \subseteq Payloads
      /\ requestPEQ \in [Payloads -> Nat \cup {Never}]
      /\ responsePEQ \in [Payloads -> Nat \cup {Never, Lost}]
      /\ dataPEQ \in [Payloads -> Nat \cup {Never}]
  BY DEF Init
<1>8. /\ address_bus_owner \in Masters \cup {Nobody}
      /\ is_lock \in BOOLEAN /\ lock_master \in Masters /\ robin \in Masters
  BY <1>2 DEF Init
<1>9. QED
  BY <1>3, <1>4, <1>5, <1>6, <1>7, <1>8 DEF TypeOK

\* The values of a queue, one edge later: a response that is lost stays lost.
LEMMA LaterTyped ==
    ASSUME TypeOK
    PROVE  /\ Later(requestPEQ) \in [Payloads -> Nat \cup {Never}]
           /\ Later(responsePEQ) \in [Payloads -> Nat \cup {Never, Lost}]
           /\ Later(dataPEQ) \in [Payloads -> Nat \cup {Never}]
<1>1. ASSUME NEW x \in Nat \cup {Never, Lost}, x > 0
      PROVE  x - 1 \in Nat
  BY <1>1 DEF Never, Lost
<1>2. QED
  BY <1>1 DEF TypeOK, Later

\* What a payload holds has the fields of an access, in use or not.
LEMMA PayloadTyped ==
    ASSUME TypeOK, NEW t \in Payloads
    PROVE  /\ payload[t].slave \in Slaves \cup {PNP, Unmapped}
           /\ payload[t].words \in Nat \ {0} /\ payload[t].delay \in Nat \ {0}
           /\ payload[t].lock \in BOOLEAN
<1>1. NoAccess \in AhbAccess
  BY DEF NoAccess, AhbAccess
<1>2. payload[t] \in AhbAccess
  BY <1>1, AhbCtrlAssumption DEF TypeOK
<1>3. QED
  BY <1>2 DEF AhbAccess

\* BEGIN_REQ of the master that is granted the bus.
LEMMA GrantTyped ==
    ASSUME TypeOK, Arbitrate, NEW m \in Masters, Grant(m)
    PROVE  TypeOK'
<1> DEFINE t == request_map[m].trans
<1>1. t \in Payloads
  BY DEF TypeOK
<1>2. /\ payload[t].words \in Nat \ {0} /\ payload[t].delay \in Nat \ {0}
      /\ payload[t].lock \in BOOLEAN
  BY <1>1, PayloadTyped
<1>3. /\ Forward(t) /\ address_bus_owner' = m
      /\ request_map' = [request_map EXCEPT ![m].state = "SCHEDULED"]
      /\ is_lock' = payload[t].lock /\ lock_master' = m
      /\ robin' = IF RROBIN /\ ~is_lock THEN m ELSE robin
      /\ UNCHANGED <<data_bus_state, master, payload, acceptPEQ, endRespPEQ, response_map>>
      /\ dataPEQ' = Later(dataPEQ)
  BY DEF Grant, Arbitrate
<1> HIDE DEF t
<1>4. payload[t].words - 1 \in Nat /\ payload[t].delay - 1 \in Nat
  BY <1>2
<1>5. ResponseDelay(payload[t]) \in Nat \cup {Lost}
  BY <1>2 DEF ResponseDelay
<1>6. requestPEQ' \in [Payloads -> Nat \cup {Never}]
  BY <1>1, <1>3, <1>4, LaterTyped DEF Forward
<1>7. responsePEQ' \in [Payloads -> Nat \cup {Never, Lost}]
  BY <1>1, <1>3, <1>5, LaterTyped DEF Forward
<1>8. refs' \in [Payloads -> Int]
  BY <1>1, <1>3 DEF Forward, TypeOK
<1>9. request_map' \in [Masters -> [state : {"INIT", "PENDING", "SCHEDULED"}, trans : Payloads]]
  <2>1. [request_map[m] EXCEPT !.state = "SCHEDULED"]
          \in [state : {"INIT", "PENDING", "SCHEDULED"}, trans : Payloads]
    BY DEF TypeOK
  <2>2. request_map' = [request_map EXCEPT ![m] = [request_map[m] EXCEPT !.state = "SCHEDULED"]]
    BY <1>3 DEF TypeOK
  <2>3. QED
    BY <2>1, <2>2 DEF TypeOK
<1>10. QED
  BY <1>2, <1>3, <1>6, <1>7, <1>8, <1>9, LaterTyped DEF TypeOK

LEMMA TypeNext == TypeOK /\ [Next]_vars => TypeOK'
<1> SUFFICES ASSUME TypeOK, [Next]_vars PROVE TypeOK'
  OBVIOUS
<1>1. ASSUME NEW m \in Masters, NEW a \in Accesses, Issue(m, a) PROVE TypeOK'
  <2>1. PICK s \in {m} \X (1..SLOTS) :
          /\ payload' = [payload EXCEPT ![s] = a]
          /\ refs' = [refs EXCEPT ![s] = 3]
          /\ acceptPEQ' = acceptPEQ \cup {s}
    BY <1>1 DEF Issue
  <2>2. s \in Payloads
    BY PayloadMaster
  <2>3. QED
    BY <1>1, <2>1, <2>2 DEF Issue, maps, bus, TypeOK
<1>2. ASSUME NEW t \in Payloads, AcceptThread(t) PROVE TypeOK'
  <2>1. payload[t].slave \in Slaves \cup {PNP, Unmapped} /\ Master(t) \in Masters
    BY PayloadTyped, PayloadMaster
  <2>2. response_map' \in [Masters -> Slaves \cup {PNP}]
    BY <1>2, <2>1 DEF AcceptThread, Decoded, maps, TypeOK
  <2>3. request_map' \in [Masters -> [state : {"INIT", "PENDING", "SCHEDULED"}, trans : Payloads]]
    BY <1>2, <2>1 DEF AcceptThread, maps, TypeOK
  <2>4. QED
    BY <1>2, <2>2, <2>3 DEF AcceptThread, bus, TypeOK
<1>3. ASSUME NEW t \in Payloads, RequestThread(t) PROVE TypeOK'
  <2>1. /\ master' \in [Masters -> {"idle", "request", "response"}]
        /\ refs' \in [Payloads -> Int]
    BY <1>3 DEF RequestThread, TypeOK
  <2>2. /\ requestPEQ' \in [Payloads -> Nat \cup {Never}]
        /\ data_bus_state' \in {"IDLE", "RESPONSE", "WAITSTATES"}
        /\ address_bus_owner' \in Masters \cup {Nobody}
    BY <1>3 DEF RequestThread, TypeOK
  <2>3. QED
    BY <1>3, <2>1, <2>2 DEF RequestThread, maps, TypeOK
<1>4. ASSUME NEW t \in Payloads, ResponseThread(t) PROVE TypeOK'
  <2>1. payload[t].words \in Nat
    BY PayloadTyped
  <2>2. QED
    BY <1>4, <2>1 DEF ResponseThread, maps, TypeOK
<1>5. ASSUME NEW t \in Payloads, MasterResponseThread(t) PROVE TypeOK'
  BY <1>5, PayloadMaster DEF MasterResponseThread, maps, bus, TypeOK
<1>6. ASSUME NEW t \in Payloads, EndResponseThread(t) PROVE TypeOK'
  BY <1>6 DEF EndResponseThread, Released, maps, TypeOK
<1>7. CASE Arbitrate
  <2>1. CASE BusFree /\ Candidates # {}
    <3>1. Winner \in Masters /\ Grant(Winner)
      BY <1>7, <2>1, WinnerIsCandidate DEF Arbitrate, Candidates, Pending
    <3>2. QED
      BY <1>7, <3>1, GrantTyped
  <2>2. CASE ~(BusFree /\ Candidates # {})
    BY <1>7, <2>2, LaterTyped DEF Arbitrate, bus, TypeOK
  <2>3. QED
    BY <2>1, <2>2
<1>8. CASE UNCHANGED vars
  BY <1>8 DEF vars, maps, bus, TypeOK
<1>9. QED
  BY <1>1, <1>2, <1>3, <1>4, <1>5, <1>6, <1>7, <1>8 DEF Next, Threads

----------------------------------------------------------------------------
(* The initial state, and one lemma per action *)

\* Nothing is in any queue after the constructors.
LEMMA InitIInv == Init => IInv
<1> SUFFICES ASSUME Init PROVE IInv
  OBVIOUS
<1>1. \A t \in Payloads : /\ refs[t] = 0 /\ requestPEQ[t] = Never
                          /\ responsePEQ[t] = Never /\ dataPEQ[t] = Never
  BY DEF Init
<1>2. \A m \in Masters : <<m, 1>> \in Payloads /\ Master(<<m, 1>>) = m
  BY AhbCtrlAssumption DEF Payloads, Master
<1>3. 0 \in Masters /\ 0 \in Slaves
  BY AhbCtrlAssumption DEF Masters, Slaves
<1>4. \A m \in Masters : request_map[m].state = "INIT" /\ request_map[m].trans = <<m, 1>>
  BY DEF Init
<1>5. TypeOK
  BY TypeInit
<1>6. \A t \in Payloads : ~AwaitsArbiter(t)
  <2>1. SUFFICES ASSUME NEW t \in Payloads, AwaitsArbiter(t) PROVE FALSE
    OBVIOUS
  <2>2. request_map[Master(t)].state = "PENDING"
    BY <2>1 DEF AwaitsArbiter
  <2>3. QED
    BY <1>4, <2>2, PayloadMaster
<1>7. \A t \in Payloads : /\ ~Requesting(t) /\ ~Answered(t) /\ ~Active(t)
                          /\ t \notin acceptPEQ /\ t \notin endRespPEQ
  BY <1>1, <1>6 DEF Init, Requesting, Answered, Active, Never
<1>8. Loaded /\ Timing /\ Stages
  BY <1>1, <1>6, <1>7, StagesInUse DEF Loaded, Timing, Stages
<1>9. Entries /\ Requests /\ Blocking /\ Phases
  <2>1. \A m \in Masters : response_map[m] # PNP
    BY DEF Init, PNP
  <2>2. QED
    BY <1>1, <1>2, <1>4, <1>7, <2>1 DEF Entries, Requests, Blocking, Phases
<1>10. Counted
  BY <1>1, <1>7 DEF Counted, Held, Requesting
<1>11. Kept
  BY DEF Init, Kept
<1>12. QED
  BY <1>5, <1>8, <1>9, <1>10, <1>11 DEF IInv

\* ahbaccess: the payload was in no stage, and its master had no request.
LEMMA IssueIInv ==
    ASSUME IInv, NEW m \in Masters, NEW a \in Accesses, Issue(m, a)
    PROVE  IInv'
<1>1. PICK s \in {m} \X (1..SLOTS) :
        /\ refs[s] = 0
        /\ payload' = [payload EXCEPT ![s] = a]
        /\ refs' = [refs EXCEPT ![s] = 3]
        /\ acceptPEQ' = acceptPEQ \cup {s}
  BY DEF Issue
<1>2. /\ master[m] = "idle"
      /\ master' = [master EXCEPT ![m] = "request"]
      /\ UNCHANGED <<requestPEQ, responsePEQ, dataPEQ, endRespPEQ, request_map, response_map,
                     address_bus_owner, data_bus_state, is_lock, lock_master, robin>>
  BY DEF Issue, maps, bus
<1>3. s \in Payloads /\ Master(s) = m
  BY PayloadMaster
<1>4. ~Requesting(s) /\ ~Answered(s) /\ s \notin endRespPEQ
  BY <1>1, <1>3, Unused DEF IInv
<1>5. \A t \in Payloads : Master(t) = m => ~Requesting(t)
  BY <1>2 DEF IInv, Requests
<1>6. ASSUME NEW t \in Payloads
      PROVE  /\ AwaitsArbiter(t)' <=> AwaitsArbiter(t)
             /\ Requesting(t)' <=> Requesting(t) \/ t = s
             /\ Answered(t)' <=> Answered(t)
             /\ Active(t)' <=> Active(t)
             /\ t # s => payload'[t] = payload[t] /\ refs'[t] = refs[t]
  BY <1>1, <1>2 DEF AwaitsArbiter, Requesting, Answered, Active, IInv, TypeOK
<1>7. TypeOK'
  BY <1>1, <1>2, <1>3 DEF IInv, TypeOK
<1>8. Loaded'
  BY <1>1, <1>2, <1>3, <1>6 DEF IInv, TypeOK, Loaded, InUse
<1>9. Timing'
  BY <1>2, <1>4, <1>6 DEF IInv, Timing, Requesting, Answered
<1>10. Stages'
  BY <1>1, <1>2, <1>4, <1>6 DEF IInv, Stages, Requesting
<1>11. Entries'
  BY <1>2 DEF IInv, Entries
<1>12. Requests'
  BY <1>2, <1>3, <1>5, <1>6, PayloadMaster DEF IInv, Requests, TypeOK
<1>13. Blocking'
  <2>1. \A t \in Payloads : Master(t) = m /\ m \notin Pipelined => ~Answered(t)
    BY <1>2, <1>5 DEF IInv, Blocking
  <2>2. QED
    BY <1>2, <1>3, <1>5, <1>6, <2>1, PayloadMaster DEF IInv, Blocking, TypeOK
<1>14. Phases'
  BY <1>2, <1>6 DEF IInv, Phases
<1>15. Counted'
  <2>1. ASSUME NEW t \in Payloads, t # s PROVE (refs[t] = Held(t))'
    BY <1>2, <1>6, <2>1 DEF IInv, Counted, Held
  <2>2. (refs[s] = Held(s))'
    <3>1. refs'[s] = 3
      BY <1>1, <1>3 DEF IInv, TypeOK
    <3>2. Requesting(s)' /\ ~Answered(s)' /\ requestPEQ'[s] = Never /\ dataPEQ'[s] = Never
      BY <1>2, <1>3, <1>4, <1>6 DEF Requesting, Answered
    <3>3. s \notin endRespPEQ'
      BY <1>2, <1>4
    <3>4. QED
      BY <3>1, <3>2, <3>3 DEF Held
  <2>3. QED
    BY <2>1, <2>2 DEF Counted
<1>16. Kept'
  BY <1>1, <1>2, <1>3, <1>6 DEF IInv, TypeOK, Kept
<1>17. QED
  BY <1>7, <1>8, <1>9, <1>10, <1>11, <1>12, <1>13, <1>14, <1>15, <1>16 DEF IInv

\* AcceptThread: the entry it overwrites in the maps is not in use.
LEMMA AcceptThreadIInv ==
    ASSUME IInv, Punctual, NEW s \in Payloads, AcceptThread(s)
    PROVE  IInv'
<1> DEFINE m == Master(s)
<1>1. m \in Masters
  BY PayloadMaster
<1>2. s \in acceptPEQ /\ acceptPEQ' = acceptPEQ \ {s}
  BY DEF AcceptThread
<1>3. Requesting(s)
  BY <1>2 DEF Requesting
<1>4. payload[s] \in Accesses
  BY <1>2 DEF IInv, Loaded, InUse
<1>5. /\ request_map' = [request_map EXCEPT ![m] = [state |-> "PENDING", trans |-> s]]
      /\ response_map' = [response_map EXCEPT ![m] = payload[s].slave]
  BY <1>4, AccessTypes DEF AcceptThread, Decoded
<1>6. UNCHANGED <<master, payload, refs, requestPEQ, responsePEQ, dataPEQ, endRespPEQ,
                  address_bus_owner, data_bus_state, is_lock, lock_master, robin>>
  BY DEF AcceptThread, bus
<1>7. /\ requestPEQ[s] = Never /\ ~Answered(s) /\ s \notin endRespPEQ
  BY <1>2 DEF IInv, Stages
<1>8. ASSUME NEW t \in Payloads, t # s, Master(t) = m
      PROVE  ~Requesting(t) /\ ~Requesting(t)'
  <2>1. ~Requesting(t)
    BY <1>3, <1>8 DEF IInv, Requests
  <2>2. request_map'[m].trans = s
    BY <1>1, <1>5 DEF IInv, TypeOK
  <2>3. ~AwaitsArbiter(t)'
    BY <1>8, <2>2 DEF AwaitsArbiter
  <2>4. QED
    BY <1>2, <1>6, <2>1, <2>3 DEF Requesting
<1>9. ASSUME NEW t \in Payloads, Master(t) # m
      PROVE  request_map'[Master(t)] = request_map[Master(t)]
  BY <1>5, <1>9, PayloadMaster DEF IInv, TypeOK
<1>10. AwaitsArbiter(s)' /\ Requesting(s)'
  BY <1>1, <1>5 DEF IInv, TypeOK, AwaitsArbiter, Requesting
<1>11. ASSUME NEW t \in Payloads
       PROVE  /\ Requesting(t)' <=> Requesting(t)
              /\ Answered(t)' <=> Answered(t)
              /\ Active(t)' <=> Active(t)
  <2>1. Requesting(t)' <=> Requesting(t)
    <3>1. CASE t = s
      BY <1>3, <1>10, <3>1
    <3>2. CASE t # s /\ Master(t) = m
      BY <1>8, <3>2
    <3>3. CASE Master(t) # m
      BY <1>2, <1>6, <1>9, <3>3 DEF Requesting, AwaitsArbiter
    <3>4. QED
      BY <3>1, <3>2, <3>3
  <2>2. QED
    BY <1>6, <2>1 DEF Answered, Active
<1>12. TypeOK'
  <2>1. payload[s].slave \in Slaves
    BY <1>4, AccessTypes
  <2>2. response_map' \in [Masters -> Slaves \cup {PNP}]
    BY <1>1, <1>5, <2>1 DEF IInv, TypeOK
  <2>3. request_map' \in [Masters -> [state : {"INIT", "PENDING", "SCHEDULED"}, trans : Payloads]]
    BY <1>1, <1>5 DEF IInv, TypeOK
  <2>4. QED
    BY <1>2, <1>6, <2>2, <2>3 DEF IInv, TypeOK
<1>13. Loaded'
  BY <1>6, <1>11, StagesInUse, <1>2, <1>4 DEF IInv, Loaded, InUse, Requesting, AwaitsArbiter, Answered
<1>14. Timing'
  BY <1>6, <1>11 DEF IInv, Timing
<1>15. Stages'
  <2>1. ASSUME NEW t \in Payloads, t # s
        PROVE  AwaitsArbiter(t)' => AwaitsArbiter(t)
    BY <1>8, <1>9, <2>1 DEF AwaitsArbiter, Requesting
  <2>2. QED
    BY <1>2, <1>6, <1>7, <1>11, <2>1 DEF IInv, Stages
<1>16. Entries'
  BY <1>1, <1>4, <1>5, AccessTypes DEF IInv, TypeOK, Entries
<1>17. Requests' /\ Blocking'
  BY <1>6, <1>11 DEF IInv, Requests, Blocking
<1>18. Phases'
  <2>1. \A t \in Payloads : requestPEQ[t] # Never => Master(t) # m
    BY <1>3, <1>7 DEF IInv, Requests, Requesting
  <2>2. QED
    BY <1>6, <1>9, <1>11, <2>1 DEF IInv, Phases
<1>19. Counted'
  BY <1>6, <1>11 DEF IInv, Counted, Held
<1>20. Kept'
  BY <1>6, <1>11 DEF IInv, Kept
<1>21. QED
  BY <1>12, <1>13, <1>14, <1>15, <1>16, <1>17, <1>18, <1>19, <1>20 DEF IInv

\* RequestThread: END_REQ.  The transfer has been or is about to be answered, so only the
\* references of the master's thread are dropped.
LEMMA RequestThreadIInv ==
    ASSUME IInv, NEW s \in Payloads, RequestThread(s)
    PROVE  IInv'
<1> DEFINE m == Master(s)
<1>1. m \in Masters
  BY PayloadMaster
<1>2. /\ requestPEQ[s] = 0
      /\ requestPEQ' = [requestPEQ EXCEPT ![s] = Never]
      /\ address_bus_owner' = Nobody
      /\ data_bus_state' = IF data_bus_state # "RESPONSE" THEN "WAITSTATES" ELSE "RESPONSE"
      /\ m \in Pipelined => /\ master' = [master EXCEPT ![m] = "idle"]
                            /\ refs' = [refs EXCEPT ![s] = @ - 2]
      /\ m \notin Pipelined => /\ master' = [master EXCEPT ![m] = "response"]
                               /\ refs' = [refs EXCEPT ![s] = @ - 1]
  BY DEF RequestThread
<1>3. UNCHANGED <<payload, acceptPEQ, responsePEQ, dataPEQ, endRespPEQ, request_map,
                  response_map, is_lock, lock_master, robin>>
  BY DEF RequestThread, maps
<1>4. requestPEQ[s] # Never /\ Requesting(s)
  BY <1>2 DEF Requesting, Never
<1>5. s \notin acceptPEQ /\ ~AwaitsArbiter(s) /\ Answered(s) /\ s \notin endRespPEQ
  BY <1>4 DEF IInv, Stages, Timing
<1>6. requestPEQ'[s] = Never
  BY <1>2 DEF IInv, TypeOK
<1>7. ASSUME NEW t \in Payloads
      PROVE  /\ t # s => requestPEQ'[t] = requestPEQ[t]
             /\ t # s => refs'[t] = refs[t]
             /\ AwaitsArbiter(t)' <=> AwaitsArbiter(t)
             /\ Requesting(t)' <=> Requesting(t) /\ t # s
             /\ Answered(t)' <=> Answered(t)
             /\ Active(t)' => Active(t)
  <2>1. t # s => requestPEQ'[t] = requestPEQ[t] /\ refs'[t] = refs[t]
    BY <1>2 DEF IInv, TypeOK
  <2>2. AwaitsArbiter(t)' <=> AwaitsArbiter(t)
    BY <1>3 DEF AwaitsArbiter
  <2>3. QED
    BY <1>3, <1>4, <1>5, <1>6, <2>1, <2>2 DEF Requesting, Answered, Active
<1>8. ASSUME NEW t \in Payloads, Requesting(t)'
      PROVE  Master(t) # m /\ master'[Master(t)] = "request"
  <2>1. t # s /\ Requesting(t)
    BY <1>7, <1>8
  <2>2. Master(t) # m /\ master[Master(t)] = "request"
    BY <1>4, <2>1 DEF IInv, Requests
  <2>3. QED
    BY <1>2, <2>2, PayloadMaster DEF IInv, TypeOK
<1>9. TypeOK'
  BY <1>1, <1>2, <1>3 DEF IInv, TypeOK, Never, Nobody
<1>10. Loaded'
  BY <1>3, <1>7, StagesInUse DEF IInv, Loaded, InUse, Requesting, Answered, AwaitsArbiter
<1>11. Timing'
  <2>1. ASSUME NEW t \in Payloads, t # s
        PROVE  /\ requestPEQ'[t] = requestPEQ[t] /\ responsePEQ'[t] = responsePEQ[t]
               /\ dataPEQ'[t] = dataPEQ[t] /\ payload'[t] = payload[t]
    BY <1>3, <1>7, <2>1
  <2>2. responsePEQ[s] # Never =>
            responsePEQ[s] # Lost /\ responsePEQ[s] = 0 /\ payload[s].words = 1
    <3>1. SUFFICES ASSUME responsePEQ[s] # Never
                   PROVE  responsePEQ[s] # Lost /\ responsePEQ[s] = 0 /\ payload[s].words = 1
      OBVIOUS
    <3>2. responsePEQ[s] # Lost /\ 0 = responsePEQ[s] + payload[s].words - 1
      BY <1>2, <3>1 DEF IInv, Timing, Never
    <3>3. payload[s] \in Accesses
      BY <1>4 DEF IInv, Loaded, InUse
    <3>4. payload[s].words \in Nat \ {0}
      BY <3>3, AhbCtrlAssumption DEF AhbAccess
    <3>5. responsePEQ[s] \in Nat
      BY <3>1, <3>2, QueueTypes DEF IInv, Never, Lost
    <3>6. QED
      BY <3>2, <3>4, <3>5
  <2>3. dataPEQ[s] # Never => responsePEQ[s] = Never /\ dataPEQ[s] = 1
    BY <1>2, QueueTypes DEF IInv, Timing, Never
  <2>4. QED
    BY <1>3, <1>6, <1>7, <2>1, <2>2, <2>3 DEF IInv, Timing
<1>12. Stages'
  BY <1>3, <1>6, <1>7 DEF IInv, Stages
<1>13. Entries'
  BY <1>3 DEF IInv, Entries
<1>14. Requests'
  BY <1>7, <1>8 DEF IInv, Requests
<1>15. Blocking'
  <2>1. ASSUME NEW t \in Payloads, Master(t) \notin Pipelined, Answered(t)', ~Requesting(t)'
        PROVE  master'[Master(t)] = "response"
    <3>1. CASE Master(t) = m
      BY <1>1, <1>2, <2>1, <3>1 DEF IInv, TypeOK
    <3>2. CASE Master(t) # m
      <4>1. Answered(t) /\ ~Requesting(t)
        BY <1>7, <2>1, <3>2
      <4>2. master'[Master(t)] = master[Master(t)]
        BY <1>2, <3>2, PayloadMaster DEF IInv, TypeOK
      <4>3. QED
        BY <2>1, <4>1, <4>2 DEF IInv, Blocking
    <3>3. QED
      BY <3>1, <3>2
  <2>2. \A t \in Payloads : (Requesting(t) \/ Answered(t))' => Requesting(t) \/ Answered(t)
    BY <1>7
  <2>3. QED
    BY <2>1, <2>2 DEF IInv, Blocking
<1>16. Phases'
  <2>1. \A t \in Payloads : requestPEQ'[t] = Never
    <3>1. ASSUME NEW t \in Payloads, t # s PROVE requestPEQ[t] = Never
      BY <1>4, <3>1 DEF IInv, Phases, Active
    <3>2. QED
      BY <1>6, <1>7, <3>1
  <2>2. QED
    BY <1>7, <2>1 DEF IInv, Phases
<1>17. Counted'
  <2>1. ASSUME NEW t \in Payloads, t # s PROVE (refs[t] = Held(t))'
    BY <1>3, <1>7, <2>1 DEF IInv, Counted, Held
  <2>2. (refs[s] = Held(s))'
    <3>1. refs[s] = Held(s) /\ refs[s] \in Int
      BY QueueTypes DEF IInv, Counted
    <3>2. refs'[s] = refs[s] - (IF m \in Pipelined THEN 2 ELSE 1)
      BY <1>2 DEF IInv, TypeOK
    <3>3. ~Requesting(s)' /\ Answered(s)' /\ dataPEQ'[s] = dataPEQ[s] /\ s \notin endRespPEQ'
      BY <1>3, <1>5, <1>7
    <3>4. Held(s) = 4 + (IF dataPEQ[s] # Never THEN 1 ELSE 0)
      BY <1>4, <1>5 DEF Held
    <3>5. Held(s)' = (IF m \in Pipelined THEN 2 ELSE 3) + (IF dataPEQ[s] # Never THEN 1 ELSE 0)
      BY <3>3 DEF Held
    <3>6. QED
      BY <3>1, <3>2, <3>4, <3>5
  <2>3. QED
    BY <2>1, <2>2 DEF Counted
<1>18. Kept'
  <2>1. ASSUME NEW n \in Masters, master'[n] = "request"
        PROVE  n # m /\ master[n] = "request"
    BY <1>1, <1>2, <2>1 DEF IInv, TypeOK
  <2>2. QED
    BY <1>7, <2>1 DEF IInv, Kept
<1>19. QED
  BY <1>9, <1>10, <1>11, <1>12, <1>13, <1>14, <1>15, <1>16, <1>17, <1>18 DEF IInv

\* ResponseThread: BEGIN_RESP.  The response becomes the data phase.
LEMMA ResponseThreadIInv ==
    ASSUME IInv, Punctual, NEW s \in Payloads, ResponseThread(s)
    PROVE  IInv'
<1> DEFINE w == payload[s].words
<1>1. /\ responsePEQ[s] = 0
      /\ responsePEQ' = [responsePEQ EXCEPT ![s] = Never]
      /\ data_bus_state' = "RESPONSE"
      /\ dataPEQ' = [dataPEQ EXCEPT ![s] = w]
      /\ refs' = [refs EXCEPT ![s] = @ + 1]
  BY DEF ResponseThread
<1>2. UNCHANGED <<master, payload, acceptPEQ, requestPEQ, endRespPEQ, request_map, response_map,
                  address_bus_owner, is_lock, lock_master, robin>>
  BY DEF ResponseThread, maps
<1>3. responsePEQ[s] # Never /\ Answered(s)
  BY <1>1 DEF Answered, Never
<1>4. w \in Nat \ {0}
  <2>1. payload[s] \in Accesses
    BY <1>3 DEF IInv, Loaded, InUse
  <2>2. QED
    BY <2>1, AccessTypes
<1>5. dataPEQ[s] = Never
  BY <1>3 DEF IInv, Timing
<1>6. responsePEQ'[s] = Never /\ dataPEQ'[s] = w /\ w # Never
  BY <1>1, <1>4 DEF IInv, TypeOK, Never
<1>7. ASSUME NEW t \in Payloads
      PROVE  /\ t # s => /\ responsePEQ'[t] = responsePEQ[t] /\ dataPEQ'[t] = dataPEQ[t]
                         /\ refs'[t] = refs[t]
             /\ AwaitsArbiter(t)' <=> AwaitsArbiter(t)
             /\ Requesting(t)' <=> Requesting(t)
             /\ Answered(t)' <=> Answered(t)
             /\ Active(t)' => Active(t)
  <2>1. t # s => /\ responsePEQ'[t] = responsePEQ[t] /\ dataPEQ'[t] = dataPEQ[t]
                 /\ refs'[t] = refs[t]
    BY <1>1 DEF IInv, TypeOK
  <2>2. AwaitsArbiter(t)' <=> AwaitsArbiter(t)
    BY <1>2 DEF AwaitsArbiter
  <2>3. QED
    BY <1>2, <1>3, <1>6, <2>1, <2>2 DEF Requesting, Answered, Active
<1>8. TypeOK'
  BY <1>1, <1>2, <1>4 DEF IInv, TypeOK
<1>9. Loaded'
  BY <1>2, <1>7, StagesInUse DEF IInv, Loaded, InUse, Requesting, Answered, AwaitsArbiter
<1>10. Timing'
  <2>1. \/ requestPEQ[s] = w - 1
        \/ requestPEQ[s] = Never /\ w = 1
    BY <1>1, <1>3, <1>4 DEF IInv, Timing
  <2>2. QED
    BY <1>2, <1>6, <1>7, <2>1 DEF IInv, Timing
<1>11. Stages' /\ Entries' /\ Requests' /\ Blocking' /\ Phases'
  BY <1>2, <1>7 DEF IInv, Stages, Entries, Requests, Blocking, Phases
<1>12. Counted'
  <2>1. ASSUME NEW t \in Payloads, t # s PROVE (refs[t] = Held(t))'
    BY <1>2, <1>7, <2>1 DEF IInv, Counted, Held
  <2>2. (refs[s] = Held(s))'
    <3>1. refs[s] = Held(s) /\ refs[s] \in Int /\ refs'[s] = refs[s] + 1
      BY <1>1, QueueTypes DEF IInv, Counted, TypeOK
    <3>2. Held(s)' = Held(s) + 1
      BY <1>2, <1>5, <1>6, <1>7 DEF Held
    <3>3. QED
      BY <3>1, <3>2
  <2>3. QED
    BY <2>1, <2>2 DEF Counted
<1>13. Kept'
  BY <1>2, <1>7 DEF IInv, Kept
<1>14. QED
  BY <1>8, <1>9, <1>10, <1>11, <1>12, <1>13 DEF IInv

\* ResponseThread of the master: the data phase is over, and so is the address phase.
LEMMA MasterResponseThreadIInv ==
    ASSUME IInv, NEW s \in Payloads, MasterResponseThread(s)
    PROVE  IInv'
<1> DEFINE m == Master(s)
<1>1. m \in Masters
  BY PayloadMaster
<1>2. /\ dataPEQ[s] = 0
      /\ dataPEQ' = [dataPEQ EXCEPT ![s] = Never]
      /\ endRespPEQ' = endRespPEQ \cup {s}
      /\ m \in Pipelined => refs' = [refs EXCEPT ![s] = @ - 1] /\ UNCHANGED master
      /\ m \notin Pipelined => /\ refs' = [refs EXCEPT ![s] = @ - 2]
                               /\ master' = [master EXCEPT ![m] = "idle"]
  BY DEF MasterResponseThread
<1>3. UNCHANGED <<payload, acceptPEQ, requestPEQ, responsePEQ, request_map, response_map,
                  address_bus_owner, data_bus_state, is_lock, lock_master, robin>>
  BY DEF MasterResponseThread, maps, bus
<1>4. dataPEQ[s] # Never /\ Answered(s)
  BY <1>2 DEF Answered, Never
<1>5. requestPEQ[s] = Never /\ responsePEQ[s] = Never
  BY <1>2, <1>4, QueueTypes DEF IInv, Timing, Never
<1>6. s \notin acceptPEQ /\ ~AwaitsArbiter(s) /\ ~Requesting(s) /\ s \notin endRespPEQ
  BY <1>4, <1>5 DEF IInv, Stages, Requesting
<1>7. dataPEQ'[s] = Never /\ ~Answered(s)'
  BY <1>2, <1>3, <1>5 DEF IInv, TypeOK, Answered
<1>8. ASSUME NEW t \in Payloads
      PROVE  /\ t # s => dataPEQ'[t] = dataPEQ[t] /\ refs'[t] = refs[t]
             /\ AwaitsArbiter(t)' <=> AwaitsArbiter(t)
             /\ Requesting(t)' <=> Requesting(t)
             /\ Answered(t)' <=> Answered(t) /\ t # s
             /\ Active(t)' => Active(t)
             /\ t \in endRespPEQ' <=> t \in endRespPEQ \/ t = s
  <2>1. t # s => dataPEQ'[t] = dataPEQ[t] /\ refs'[t] = refs[t]
    BY <1>2 DEF IInv, TypeOK
  <2>2. AwaitsArbiter(t)' <=> AwaitsArbiter(t)
    BY <1>3 DEF AwaitsArbiter
  <2>3. QED
    BY <1>2, <1>3, <1>7, <2>1, <2>2 DEF Requesting, Answered, Active, Never
<1>9. ASSUME m \notin Pipelined, NEW t \in Payloads, Master(t) = m, t # s
      PROVE  ~Requesting(t) /\ ~Answered(t)
  BY <1>4, <1>9 DEF IInv, Blocking
<1>10. ASSUME NEW t \in Payloads, Requesting(t) \/ (Master(t) \notin Pipelined /\ Answered(t)),
              t # s
       PROVE  master'[Master(t)] = master[Master(t)]
  BY <1>2, <1>9, <1>10, PayloadMaster DEF IInv, TypeOK
<1>11. TypeOK'
  BY <1>1, <1>2, <1>3 DEF IInv, TypeOK, Never
<1>12. Loaded'
  BY <1>3, <1>4, <1>8, StagesInUse DEF IInv, Loaded, InUse, Requesting, Answered, AwaitsArbiter
<1>13. Timing'
  BY <1>3, <1>5, <1>7, <1>8 DEF IInv, Timing
<1>14. Stages'
  BY <1>3, <1>5, <1>6, <1>8 DEF IInv, Stages
<1>15. Entries'
  BY <1>3 DEF IInv, Entries
<1>16. Requests'
  BY <1>6, <1>8, <1>10 DEF IInv, Requests
<1>17. Blocking'
  BY <1>8, <1>10 DEF IInv, Blocking
<1>18. Phases'
  BY <1>3, <1>8 DEF IInv, Phases
<1>19. Counted'
  <2>1. ASSUME NEW t \in Payloads, t # s PROVE (refs[t] = Held(t))'
    BY <1>3, <1>8, <2>1 DEF IInv, Counted, Held
  <2>2. (refs[s] = Held(s))'
    <3>1. refs[s] = Held(s) /\ refs[s] \in Int
      BY QueueTypes DEF IInv, Counted
    <3>2. refs'[s] = refs[s] - (IF m \in Pipelined THEN 1 ELSE 2)
      BY <1>2 DEF IInv, TypeOK
    <3>3. Held(s) = IF m \in Pipelined THEN 3 ELSE 4
      BY <1>4, <1>6 DEF Held
    <3>4. Held(s)' = 2
      BY <1>3, <1>5, <1>6, <1>7, <1>8 DEF Held
    <3>5. QED
      BY <3>1, <3>2, <3>3, <3>4
  <2>3. QED
    BY <2>1, <2>2 DEF Counted
<1>20. Kept'
  <2>1. ASSUME NEW n \in Masters, master'[n] = "request"
        PROVE  master[n] = "request"
    BY <1>1, <1>2, <2>1 DEF IInv, TypeOK
  <2>2. QED
    BY <1>8, <2>1 DEF IInv, Kept
<1>21. QED
  BY <1>11, <1>12, <1>13, <1>14, <1>15, <1>16, <1>17, <1>18, <1>19, <1>20 DEF IInv

\* EndResponseThread: the last two references, the bus's and the slave's.
LEMMA EndResponseThreadIInv ==
    ASSUME IInv, NEW s \in Payloads, EndResponseThread(s)
    PROVE  IInv'
<1>1. /\ s \in endRespPEQ
      /\ endRespPEQ' = endRespPEQ \ {s}
      /\ data_bus_state' = "IDLE"
      /\ refs' = [refs EXCEPT ![s] = @ - 2]
  <2>1. response_map[Master(s)] # PNP
    BY PayloadMaster DEF IInv, Entries
  <2>2. QED
    BY <2>1 DEF EndResponseThread, Released
<1>2. UNCHANGED <<master, payload, acceptPEQ, requestPEQ, responsePEQ, dataPEQ, request_map,
                  response_map, address_bus_owner, is_lock, lock_master, robin>>
  BY DEF EndResponseThread, maps
<1>3. s \notin acceptPEQ /\ ~AwaitsArbiter(s) /\ requestPEQ[s] = Never /\ ~Answered(s)
  BY <1>1 DEF IInv, Stages
<1>4. ASSUME NEW t \in Payloads
      PROVE  /\ t # s => refs'[t] = refs[t]
             /\ AwaitsArbiter(t)' <=> AwaitsArbiter(t)
             /\ Requesting(t)' <=> Requesting(t)
             /\ Answered(t)' <=> Answered(t)
             /\ Active(t)' <=> Active(t)
             /\ t \in endRespPEQ' <=> t \in endRespPEQ /\ t # s
  BY <1>1, <1>2 DEF IInv, TypeOK, AwaitsArbiter, Requesting, Answered, Active
<1>5. TypeOK'
  BY <1>1, <1>2 DEF IInv, TypeOK
<1>6. Loaded'
  BY <1>2, <1>4, StagesInUse DEF IInv, Loaded, InUse, Requesting, Answered, AwaitsArbiter
<1>7. Timing' /\ Stages'
  BY <1>2, <1>4 DEF IInv, Timing, Stages
<1>8. Entries' /\ Requests' /\ Blocking' /\ Phases'
  BY <1>2, <1>4 DEF IInv, Entries, Requests, Blocking, Phases
<1>9. Counted'
  <2>1. ASSUME NEW t \in Payloads, t # s PROVE (refs[t] = Held(t))'
    BY <1>2, <1>4, <2>1 DEF IInv, Counted, Held
  <2>2. (refs[s] = Held(s))'
    <3>1. refs[s] = Held(s) /\ refs[s] \in Int /\ refs'[s] = refs[s] - 2
      BY <1>1, QueueTypes DEF IInv, Counted, TypeOK
    <3>2. ~Requesting(s) /\ dataPEQ[s] = Never
      BY <1>3 DEF Requesting, Answered
    <3>3. Held(s) = 2 /\ Held(s)' = 0
      BY <1>1, <1>2, <1>3, <1>4, <3>2 DEF Held
    <3>4. QED
      BY <3>1, <3>3
  <2>3. QED
    BY <2>1, <2>2 DEF Counted
<1>10. Kept'
  BY <1>2, <1>4 DEF IInv, Kept
<1>11. QED
  BY <1>5, <1>6, <1>7, <1>8, <1>9, <1>10 DEF IInv

\* Waiting for the next edge neither moves a payload from one stage to another nor changes
\* what its stages have to do with each other.
LEMMA NextEdge ==
    ASSUME IInv, EdgeDone, NEW t \in Payloads,
           requestPEQ'[t] = Later(requestPEQ)[t],
           responsePEQ'[t] = Later(responsePEQ)[t],
           dataPEQ'[t] = Later(dataPEQ)[t]
    PROVE  /\ requestPEQ'[t] # Never <=> requestPEQ[t] # Never
           /\ responsePEQ'[t] # Never <=> responsePEQ[t] # Never
           /\ dataPEQ'[t] # Never <=> dataPEQ[t] # Never
           /\ responsePEQ'[t] # Never =>
                /\ responsePEQ'[t] # Lost
                /\ requestPEQ'[t] = responsePEQ'[t] + payload[t].words - 1
           /\ dataPEQ'[t] # Never =>
                /\ responsePEQ'[t] = Never
                /\ \/ requestPEQ'[t] = dataPEQ'[t] - 1
                   \/ requestPEQ'[t] = Never /\ dataPEQ'[t] \in {0, 1}
           /\ Active(t)' => Active(t)
<1>1. /\ requestPEQ'[t] = IF requestPEQ[t] = Never THEN Never ELSE requestPEQ[t] - 1
      /\ requestPEQ[t] # Never => requestPEQ[t] \in Nat \ {0}
      /\ responsePEQ'[t] = IF responsePEQ[t] = Never THEN Never ELSE responsePEQ[t] - 1
      /\ responsePEQ[t] # Never => responsePEQ[t] \in Nat \ {0}
      /\ dataPEQ'[t] = IF dataPEQ[t] = Never THEN Never ELSE dataPEQ[t] - 1
      /\ dataPEQ[t] # Never => dataPEQ[t] \in Nat \ {0}
  BY LaterEffect DEF IInv
<1>2. /\ requestPEQ'[t] # Never <=> requestPEQ[t] # Never
      /\ responsePEQ'[t] # Never <=> responsePEQ[t] # Never
      /\ dataPEQ'[t] # Never <=> dataPEQ[t] # Never
  BY <1>1 DEF Never
<1>3. Active(t)' => Active(t)
  BY <1>1, <1>2 DEF Active, Never
<1>4. ASSUME responsePEQ'[t] # Never
      PROVE  /\ responsePEQ'[t] # Lost
             /\ requestPEQ'[t] = responsePEQ'[t] + payload[t].words - 1
  <2>1. responsePEQ[t] # Never
    BY <1>2, <1>4
  <2>2. payload[t].words \in Nat \ {0}
    <3>1. payload[t] \in Accesses
      BY <2>1 DEF IInv, Loaded, InUse
    <3>2. QED
      BY <3>1, AhbCtrlAssumption DEF AhbAccess
  <2>3. requestPEQ[t] = responsePEQ[t] + payload[t].words - 1
    BY <1>1, <2>1 DEF IInv, Timing
  <2>4. responsePEQ[t] \in Nat \ {0} /\ responsePEQ'[t] = responsePEQ[t] - 1
    BY <1>1, <2>1
  <2>5. requestPEQ'[t] = requestPEQ[t] - 1
    BY <1>1, <2>2, <2>3, <2>4 DEF Never
  <2>6. QED
    BY <2>2, <2>3, <2>4, <2>5 DEF Lost
<1>5. ASSUME dataPEQ'[t] # Never
      PROVE  /\ responsePEQ'[t] = Never
             /\ \/ requestPEQ'[t] = dataPEQ'[t] - 1
                \/ requestPEQ'[t] = Never /\ dataPEQ'[t] \in {0, 1}
  <2>1. dataPEQ[t] # Never
    BY <1>2, <1>5
  <2>2. /\ responsePEQ[t] = Never
        /\ \/ requestPEQ[t] = dataPEQ[t] - 1
           \/ requestPEQ[t] = Never /\ dataPEQ[t] \in {0, 1}
    BY <2>1 DEF IInv, Timing
  <2>3. dataPEQ'[t] = dataPEQ[t] - 1 /\ dataPEQ[t] \in Nat \ {0}
    BY <1>1, <2>1
  <2>4. QED
    BY <1>1, <2>2, <2>3 DEF Never
<1>6. QED
  BY <1>2, <1>3, <1>4, <1>5

\* The queues keep to their values over an edge.
LEMMA LaterTypes ==
    ASSUME IInv, EdgeDone
    PROVE  /\ Later(requestPEQ) \in [Payloads -> Nat \cup {Never}]
           /\ Later(responsePEQ) \in [Payloads -> Nat \cup {Never, Lost}]
           /\ Later(dataPEQ) \in [Payloads -> Nat \cup {Never}]
<1>1. ASSUME NEW t \in Payloads
      PROVE  /\ Later(requestPEQ)[t] \in Nat \cup {Never}
             /\ Later(responsePEQ)[t] \in Nat \cup {Never}
             /\ Later(dataPEQ)[t] \in Nat \cup {Never}
  <2>1. /\ Later(requestPEQ)[t] = IF requestPEQ[t] = Never THEN Never ELSE requestPEQ[t] - 1
        /\ requestPEQ[t] # Never => requestPEQ[t] \in Nat \ {0}
        /\ Later(responsePEQ)[t] = IF responsePEQ[t] = Never THEN Never ELSE responsePEQ[t] - 1
        /\ responsePEQ[t] # Never => responsePEQ[t] \in Nat \ {0}
        /\ Later(dataPEQ)[t] = IF dataPEQ[t] = Never THEN Never ELSE dataPEQ[t] - 1
        /\ dataPEQ[t] # Never => dataPEQ[t] \in Nat \ {0}
    BY LaterEffect DEF IInv
  <2>2. QED
    BY <2>1
<1>2. QED
  BY <1>1 DEF Later

\* An edge at which nobody is granted the bus.
LEMMA IdleEdgeIInv ==
    ASSUME IInv, EdgeDone,
           dataPEQ' = Later(dataPEQ), requestPEQ' = Later(requestPEQ),
           responsePEQ' = Later(responsePEQ),
           UNCHANGED <<master, payload, refs, acceptPEQ, endRespPEQ, maps, bus>>
    PROVE  IInv'
<1>1. UNCHANGED <<master, payload, refs, acceptPEQ, endRespPEQ, request_map, response_map,
                  address_bus_owner, data_bus_state, is_lock, lock_master, robin>>
  BY DEF maps, bus
<1>2. ASSUME NEW t \in Payloads
      PROVE  /\ requestPEQ'[t] # Never <=> requestPEQ[t] # Never
             /\ dataPEQ'[t] # Never <=> dataPEQ[t] # Never
             /\ AwaitsArbiter(t)' <=> AwaitsArbiter(t)
             /\ Requesting(t)' <=> Requesting(t)
             /\ Answered(t)' <=> Answered(t)
             /\ Active(t)' => Active(t)
  <2>1. /\ requestPEQ'[t] # Never <=> requestPEQ[t] # Never
        /\ responsePEQ'[t] # Never <=> responsePEQ[t] # Never
        /\ dataPEQ'[t] # Never <=> dataPEQ[t] # Never
        /\ Active(t)' => Active(t)
    BY NextEdge
  <2>2. QED
    BY <1>1, <2>1 DEF AwaitsArbiter, Requesting, Answered
<1>3. TypeOK'
  BY <1>1, LaterTypes DEF IInv, TypeOK
<1>4. Loaded'
  BY <1>1, <1>2, StagesInUse DEF IInv, Loaded, InUse, Requesting, Answered, AwaitsArbiter
<1>5. Timing'
  <2>1. ASSUME NEW t \in Payloads
        PROVE  /\ responsePEQ'[t] # Never =>
                    /\ responsePEQ'[t] # Lost
                    /\ requestPEQ'[t] = responsePEQ'[t] + payload'[t].words - 1
               /\ dataPEQ'[t] # Never =>
                    /\ responsePEQ'[t] = Never
                    /\ \/ requestPEQ'[t] = dataPEQ'[t] - 1
                       \/ requestPEQ'[t] = Never /\ dataPEQ'[t] \in {0, 1}
               /\ requestPEQ'[t] # Never => Answered(t)'
    BY <1>1, <1>2, NextEdge DEF IInv, Timing
  <2>2. QED
    BY <2>1 DEF Timing
<1>6. Stages' /\ Entries' /\ Requests' /\ Blocking' /\ Phases'
  BY <1>1, <1>2 DEF IInv, Stages, Entries, Requests, Blocking, Phases
<1>7. Counted'
  BY <1>1, <1>2 DEF IInv, Counted, Held
<1>8. Kept'
  BY <1>1, <1>2 DEF IInv, Kept
<1>9. QED
  BY <1>3, <1>4, <1>5, <1>6, <1>7, <1>8 DEF IInv

\* When the address bus is free and the edge is done, no payload is active beyond it: the
\* data phase of the one before, if any, ends with the edge.
LEMMA NoneActive ==
    ASSUME IInv, EdgeDone, BusFree, NEW t \in Payloads
    PROVE  /\ requestPEQ[t] = Never
           /\ responsePEQ[t] = Never
           /\ dataPEQ[t] \in {Never, 1}
<1>1. requestPEQ[t] = Never
  <2>1. address_bus_owner = Nobody /\ Master(t) # Nobody
    BY PayloadMaster, AhbCtrlAssumption DEF BusFree, Nobody, Masters
  <2>2. QED
    BY <2>1 DEF IInv, Phases
<1>2. responsePEQ[t] # 0 /\ dataPEQ[t] # 0
  BY DEF EdgeDone
<1>3. responsePEQ[t] = Never
  <2>1. SUFFICES ASSUME responsePEQ[t] # Never PROVE FALSE
    OBVIOUS
  <2>2. payload[t].words \in Nat \ {0}
    <3>1. payload[t] \in Accesses
      BY <2>1 DEF IInv, Loaded, InUse
    <3>2. QED
      BY <3>1, AhbCtrlAssumption DEF AhbAccess
  <2>3. responsePEQ[t] \in Nat /\ Never = responsePEQ[t] + payload[t].words - 1
    BY <1>1, <1>2, <2>1, QueueTypes DEF IInv, Timing, Never, Lost
  <2>4. QED
    BY <2>2, <2>3 DEF Never
<1>4. dataPEQ[t] \in {Never, 1}
  BY <1>1, <1>2, QueueTypes DEF IInv, Timing, Never
<1>5. QED
  BY <1>1, <1>3, <1>4

\* The arbiter grants the bus to a master: its payload enters the address phase, which no
\* other is in, and the slave references it.
LEMMA GrantIInv ==
    ASSUME IInv, Punctual, EdgeDone, BusFree, NEW m \in Candidates, Grant(m),
           dataPEQ' = Later(dataPEQ),
           UNCHANGED <<master, payload, acceptPEQ, endRespPEQ, response_map>>
    PROVE  IInv'
<1>1. m \in Masters /\ request_map[m].state = "PENDING"
  BY DEF Candidates, Pending
<1>2. PICK s \in Payloads : Master(s) = m /\ request_map[m].trans = s
  BY <1>1 DEF IInv, TypeOK, Entries
<1> DEFINE a == payload[s]
<1>3. request_map[m] = [state |-> "PENDING", trans |-> s]
  BY <1>1, <1>2 DEF IInv, TypeOK
<1>4. AwaitsArbiter(s) /\ Requesting(s)
  BY <1>2, <1>3 DEF AwaitsArbiter, Requesting
<1>5. s \notin acceptPEQ /\ ~Answered(s) /\ s \notin endRespPEQ
  BY <1>2, <1>4 DEF IInv, Stages
<1>6. a \in Accesses
  BY <1>2, <1>4 DEF IInv, Loaded, InUse, AwaitsArbiter
<1>7. /\ a.words \in Nat \ {0} /\ a.delay \in Nat \ {0} /\ a.delay >= a.words /\ a.slave # PNP
  BY <1>6, AccessTypes
<1>8. /\ requestPEQ' = [Later(requestPEQ) EXCEPT ![s] = a.delay - 1]
      /\ responsePEQ' = [Later(responsePEQ) EXCEPT ![s] = a.delay - a.words]
      /\ refs' = [refs EXCEPT ![s] = @ + 1]
  BY <1>2, <1>7 DEF Grant, Forward, ResponseDelay
<1>9. /\ address_bus_owner' = m
      /\ request_map' = [request_map EXCEPT ![m].state = "SCHEDULED"]
      /\ is_lock' = a.lock
      /\ lock_master' = m
      /\ robin' \in {m, robin}
      /\ data_bus_state' = data_bus_state
  BY <1>2 DEF Grant
<1>10. UNCHANGED <<master, payload, acceptPEQ, endRespPEQ, response_map>>
  OBVIOUS
<1>11. /\ requestPEQ'[s] = a.delay - 1 /\ requestPEQ'[s] # Never
       /\ responsePEQ'[s] = a.delay - a.words /\ responsePEQ'[s] # Never
       /\ responsePEQ'[s] # Lost
       /\ dataPEQ'[s] = Never
  <2>1. /\ requestPEQ'[s] = a.delay - 1 /\ responsePEQ'[s] = a.delay - a.words
    BY <1>2, <1>8, LaterTypes
  <2>2. dataPEQ'[s] = Never
    BY <1>2, <1>5, LaterEffect DEF IInv, Answered
  <2>3. QED
    BY <1>7, <2>1, <2>2 DEF Never, Lost
<1>12. ASSUME NEW t \in Payloads, t # s
       PROVE  /\ requestPEQ'[t] = Never /\ responsePEQ'[t] = Never
              /\ dataPEQ'[t] = IF dataPEQ[t] = Never THEN Never ELSE 0
              /\ refs'[t] = refs[t]
  <2>1. requestPEQ'[t] = Later(requestPEQ)[t] /\ responsePEQ'[t] = Later(responsePEQ)[t]
    BY <1>2, <1>8, <1>12, LaterTypes
  <2>2. requestPEQ'[t] = Never /\ responsePEQ'[t] = Never
    BY <2>1, LaterEffect, NoneActive DEF IInv
  <2>3. dataPEQ'[t] = IF dataPEQ[t] = Never THEN Never ELSE 0
    BY LaterEffect, NoneActive DEF IInv, Never
  <2>4. refs'[t] = refs[t]
    BY <1>2, <1>8, <1>12 DEF IInv, TypeOK
  <2>5. QED
    BY <2>2, <2>3, <2>4
<1>13. request_map'[m] = [state |-> "SCHEDULED", trans |-> s]
  BY <1>1, <1>3, <1>9 DEF IInv, TypeOK
<1>14. \A n \in Masters : n # m => request_map'[n] = request_map[n]
  BY <1>9 DEF IInv, TypeOK
<1>15. ~AwaitsArbiter(s)'
  <2>1. request_map'[m].state = "SCHEDULED"
    BY <1>13
  <2>2. QED
    BY <1>2, <2>1 DEF AwaitsArbiter
<1>16. ASSUME NEW t \in Payloads, t # s
       PROVE  AwaitsArbiter(t)' <=> AwaitsArbiter(t)
  <2>1. CASE Master(t) = m
    <3>1. request_map[m].trans # t /\ request_map'[m].trans # t
      BY <1>2, <1>13, <1>16
    <3>2. QED
      BY <2>1, <3>1 DEF AwaitsArbiter
  <2>2. CASE Master(t) # m
    BY <1>14, <2>2, PayloadMaster DEF AwaitsArbiter
  <2>3. QED
    BY <2>1, <2>2
<1>17. ASSUME NEW t \in Payloads
       PROVE  /\ Requesting(t)' <=> Requesting(t)
              /\ Answered(t)' <=> Answered(t) \/ t = s
              /\ Active(t)' <=> t = s
  <2>1. CASE t = s
    BY <1>4, <1>11, <2>1 DEF Requesting, Answered, Active
  <2>2. CASE t # s
    <3>1. requestPEQ[t] = Never /\ responsePEQ[t] = Never
      BY NoneActive
    <3>2. QED
      BY <1>10, <1>12, <1>16, <2>2, <3>1 DEF Requesting, Answered, Active, Never
  <2>3. QED
    BY <2>1, <2>2
<1>18. TypeOK'
  <2>1. /\ requestPEQ' \in [Payloads -> Nat \cup {Never}]
        /\ responsePEQ' \in [Payloads -> Nat \cup {Never, Lost}]
        /\ dataPEQ' \in [Payloads -> Nat \cup {Never}]
    <3>1. a.delay - 1 \in Nat /\ a.delay - a.words \in Nat
      BY <1>7
    <3>2. QED
      BY <1>2, <1>8, <3>1, LaterTypes
  <2>2. request_map' \in [Masters -> [state : {"INIT", "PENDING", "SCHEDULED"}, trans : Payloads]]
    <3>1. \A n \in Masters :
            request_map'[n] \in [state : {"INIT", "PENDING", "SCHEDULED"}, trans : Payloads]
      BY <1>2, <1>13, <1>14 DEF IInv, TypeOK
    <3>2. request_map' = [n \in Masters |-> request_map'[n]]
      BY <1>9 DEF IInv, TypeOK
    <3>3. QED
      BY <3>1, <3>2
  <2>3. is_lock' \in BOOLEAN
    BY <1>6, <1>9, AhbCtrlAssumption DEF AhbAccess
  <2>4. /\ address_bus_owner' \in Masters \cup {Nobody} /\ lock_master' \in Masters
        /\ robin' \in Masters
        /\ data_bus_state' \in {"IDLE", "RESPONSE", "WAITSTATES"}
    BY <1>1, <1>9 DEF IInv, TypeOK
  <2>5. refs' \in [Payloads -> Int]
    BY <1>2, <1>8 DEF IInv, TypeOK
  <2>6. QED
    BY <1>10, <2>1, <2>2, <2>3, <2>4, <2>5 DEF IInv, TypeOK
<1>19. Loaded'
  <2>1. ASSUME NEW t \in Payloads, InUse(t)' PROVE payload'[t] \in Accesses
    <3>1. CASE t = s
      BY <1>6, <1>10, <3>1
    <3>2. CASE t # s
      <4>1. Requesting(t) \/ Answered(t) \/ t \in endRespPEQ
        BY <1>10, <1>17, <2>1, <3>2 DEF InUse, Requesting, Answered, AwaitsArbiter
      <4>2. QED
        BY <1>10, <4>1, StagesInUse DEF IInv, Loaded
    <3>3. QED
      BY <3>1, <3>2
  <2>2. QED
    BY <2>1 DEF Loaded
<1>20. Timing'
  <2>1. ASSUME NEW t \in Payloads, t # s
        PROVE  dataPEQ'[t] # Never => dataPEQ'[t] = 0
    BY <1>12, <2>1
  <2>2. requestPEQ'[s] = responsePEQ'[s] + payload'[s].words - 1
    BY <1>7, <1>10, <1>11
  <2>3. QED
    BY <1>11, <1>12, <1>17, <2>1, <2>2 DEF Timing
<1>21. Stages'
  <2>1. ASSUME NEW t \in Payloads, t # s
        PROVE  /\ Answered(t)' <=> Answered(t)
               /\ AwaitsArbiter(t)' <=> AwaitsArbiter(t)
               /\ requestPEQ'[t] = Never
    BY <1>12, <1>16, <1>17, <2>1
  <2>2. QED
    BY <1>5, <1>10, <1>15, <2>1 DEF IInv, Stages
<1>22. Entries'
  BY <1>2, <1>10, <1>13, <1>14 DEF IInv, Entries
<1>23. Requests'
  BY <1>10, <1>17 DEF IInv, Requests
<1>24. Blocking'
  BY <1>4, <1>10, <1>17 DEF IInv, Blocking
<1>25. Phases'
  BY <1>2, <1>9, <1>12, <1>13, <1>17 DEF Phases
<1>26. Counted'
  <2>1. ASSUME NEW t \in Payloads, t # s PROVE (refs[t] = Held(t))'
    <3>1. requestPEQ[t] = Never
      BY NoneActive
    <3>2. dataPEQ'[t] # Never <=> dataPEQ[t] # Never
      BY <1>12, <2>1 DEF Never
    <3>3. QED
      BY <1>10, <1>12, <1>17, <2>1, <3>1, <3>2 DEF IInv, Counted, Held
  <2>2. (refs[s] = Held(s))'
    <3>1. refs[s] = Held(s) /\ refs[s] \in Int /\ refs'[s] = refs[s] + 1
      BY <1>2, <1>8, QueueTypes DEF IInv, Counted, TypeOK
    <3>2. requestPEQ[s] = Never /\ dataPEQ[s] = Never
      BY <1>2, <1>5, NoneActive DEF Answered
    <3>3. Held(s) = 3 /\ Held(s)' = 4
      BY <1>2, <1>4, <1>5, <1>10, <1>11, <1>17, <3>2 DEF Held
    <3>4. QED
      BY <3>1, <3>3
  <2>3. QED
    BY <2>1, <2>2 DEF Counted
<1>27. Kept'
  BY <1>10, <1>17 DEF IInv, Kept
<1>28. QED
  BY <1>18, <1>19, <1>20, <1>21, <1>22, <1>23, <1>24, <1>25, <1>26, <1>27 DEF IInv

\* The arbiter.
LEMMA ArbitrateIInv ==
    ASSUME IInv, Punctual, Arbitrate
    PROVE  IInv'
<1>1. CASE BusFree /\ Candidates # {}
  <2>1. Winner \in Candidates
    BY <1>1, WinnerIsCandidate DEF IInv
  <2>2. Grant(Winner)
    BY <1>1 DEF Arbitrate
  <2>3. QED
    BY <1>1, <2>1, <2>2, GrantIInv DEF Arbitrate
<1>2. CASE ~(BusFree /\ Candidates # {})
  BY <1>2, IdleEdgeIInv DEF Arbitrate, maps
<1>3. QED
  BY <1>1, <1>2

\* Every step preserves the invariant.
LEMMA NextIInv == ASSUME Punctual, IInv, [Next]_vars PROVE IInv'
<1>1. CASE \E m \in Masters, a \in Accesses : Issue(m, a)
  BY <1>1, IssueIInv
<1>2. CASE \E t \in Payloads : AcceptThread(t)
  BY <1>2, AcceptThreadIInv
<1>3. CASE \E t \in Payloads : RequestThread(t)
  BY <1>3, RequestThreadIInv
<1>4. CASE \E t \in Payloads : ResponseThread(t)
  BY <1>4, ResponseThreadIInv
<1>5. CASE \E t \in Payloads : MasterResponseThread(t)
  BY <1>5, MasterResponseThreadIInv
<1>6. CASE \E t \in Payloads : EndResponseThread(t)
  BY <1>6, EndResponseThreadIInv
<1>7. CASE Arbitrate
  BY <1>7, ArbitrateIInv
<1>8. CASE UNCHANGED vars
  BY <1>8 DEF vars, maps, bus, IInv, TypeOK, Loaded, Timing, Stages, Entries, Requests, Blocking,
     Phases, Counted, Kept, Held, InUse, Requesting, Answered, Active, AwaitsArbiter
<1>9. QED
  BY <1>1, <1>2, <1>3, <1>4, <1>5, <1>6, <1>7, <1>8 DEF Next, Threads

----------------------------------------------------------------------------
(* The theorems *)

\* The inductive invariant holds in every behaviour of the bus; the theorems below follow
\* from it.
THEOREM SpecIInv == ASSUME Punctual PROVE Spec => []IInv
<1>1. Init => IInv
  BY InitIInv
<1>2. IInv /\ [Next]_vars => IInv'
  BY NextIInv
<1>3. QED
  BY <1>1, <1>2, PTL DEF Spec

\* Every queue, map and counter keeps to its values, whatever the masters access and the
\* slaves answer: an access that decodes to no slave never gets into response_map, the
\* arbiter grants a master, and what a slave answers is due later or is lost.
THEOREM TypeCorrect == Spec => []TypeOK
<1>1. Init => TypeOK
  BY TypeInit
<1>2. TypeOK /\ [Next]_vars => TypeOK'
  BY TypeNext
<1>3. QED
  BY <1>1, <1>2, PTL DEF Spec

\* Two requests never share the address bus, and its owner is the master of the payload
\* that is in its address phase.
THEOREM AddressPhases == ASSUME Punctual PROVE Spec => []AddressPhaseExclusive
<1>1. IInv => AddressPhaseExclusive
  BY DEF IInv, Phases, Active, AddressPhaseExclusive, InAddressPhase
<1>2. QED
  BY <1>1, SpecIInv, PTL

\* The data phases of two transfers never overlap, although the next request is sent while
\* the data phase of the one before is running.
THEOREM DataPhases == ASSUME Punctual PROVE Spec => []DataPhaseExclusive
<1>1. IInv => DataPhaseExclusive
  BY DEF IInv, Phases, Active, DataPhaseExclusive, InDataPhase
<1>2. QED
  BY <1>1, SpecIInv, PTL

\* The snoop of a write goes out before its END_RESP.
THEOREM Snooped == ASSUME Punctual PROVE Spec => []SnoopedBeforeEnd
<1>1. IInv => SnoopedBeforeEnd
  BY DEF IInv, Stages, TypeOK, SnoopedBeforeEnd, InAddressPhase
<1>2. QED
  BY <1>1, SpecIInv, PTL

\* A payload is back in the pool exactly when no queue, thread or map holds it.
THEOREM References == ASSUME Punctual PROVE Spec => []NoUseAfterRelease
<1>1. ASSUME IInv, NEW t \in Payloads
      PROVE  InUse(t) <=> refs[t] > 0
  <2>1. refs[t] = Held(t)
    BY <1>1 DEF IInv, Counted
  <2>2. InUse(t) <=> Requesting(t) \/ Answered(t) \/ t \in endRespPEQ
    BY StagesInUse
  <2>3. QED
    BY <2>1, <2>2 DEF Held, Requesting, Answered
<1>2. IInv => NoUseAfterRelease
  BY <1>1 DEF NoUseAfterRelease
<1>3. QED
  BY <1>2, SpecIInv, PTL

\* While a master holds the bus locked, only its requests are sent to a slave.
THEOREM Locked == ASSUME Punctual PROVE Spec => LockedAtomic
<1>1. ASSUME IInv, Next, NEW t \in Payloads, is_lock, ~InAddressPhase(t), InAddressPhase(t)'
      PROVE  Master(t) = lock_master
  <2>1. requestPEQ[t] = Never /\ requestPEQ'[t] # Never
    BY <1>1 DEF InAddressPhase
  <2>2. ASSUME requestPEQ' = requestPEQ PROVE FALSE
    BY <2>1, <2>2
  <2>3. ASSUME NEW s \in Payloads, requestPEQ' = [requestPEQ EXCEPT ![s] = Never] PROVE FALSE
    BY <1>1, <2>1, <2>3 DEF IInv, TypeOK
  <2>4. Arbitrate
    BY <1>1, <2>2, <2>3 DEF Next, Threads, Issue, AcceptThread, RequestThread, ResponseThread,
       MasterResponseThread, EndResponseThread
  <2>5. Later(requestPEQ)[t] = Never
    BY <1>1, <2>1, <2>4, LaterEffect DEF IInv, Arbitrate
  <2>6. BusFree /\ Candidates # {} /\ Grant(Winner)
    BY <2>1, <2>4, <2>5 DEF Arbitrate
  <2>7. Winner \in Candidates
    BY <1>1, <2>6, WinnerIsCandidate DEF IInv
  <2>8. Winner \in Masters /\ Winner = lock_master
    BY <1>1, <2>7 DEF Candidates, Pending
  <2>9. request_map[Winner].trans = t
    BY <2>1, <2>5, <2>6, LaterTypes, <1>1, <2>4 DEF Grant, Forward, Arbitrate
  <2>10. QED
    BY <1>1, <2>8, <2>9 DEF IInv, Entries
<1>2. ASSUME IInv, [Next]_vars
      PROVE  [\A t \in Payloads : is_lock /\ ~InAddressPhase(t) /\ InAddressPhase(t)'
                                    => Master(t) = lock_master]_vars
  BY <1>1, <1>2
<1>3. QED
  BY <1>2, SpecIInv, PTL DEF Spec, LockedAtomic

\* A request is never lost between the master and the slave.
THEOREM RequestsKept == ASSUME Punctual PROVE Spec => []RequestKept
<1>1. ASSUME IInv, NEW m \in Masters, master[m] = "request"
      PROVE  \E t \in {m} \X (1..SLOTS) :
                \/ t \in acceptPEQ
                \/ request_map[m] = [state |-> "PENDING", trans |-> t]
                \/ InAddressPhase(t)
  <2>1. PICK t \in Payloads : Master(t) = m /\ Requesting(t)
    BY <1>1 DEF IInv, Kept
  <2>2. t \in {m} \X (1..SLOTS)
    BY <2>1, PayloadMaster
  <2>3. QED
    BY <2>1, <2>2 DEF Requesting, AwaitsArbiter, InAddressPhase
<1>2. IInv => RequestKept
  BY <1>1 DEF RequestKept
<1>3. QED
  BY <1>2, SpecIInv, PTL

\* The arbiter never waits for a response that is not coming, if the uninitialised state
\* of the data bus is not WAITSTATES.
THEOREM StallsEnd ==
    ASSUME Punctual, "WAITSTATES" \notin InitialDBus
    PROVE  Spec => []StallHasEnd
<1>1. Init => StallHasEnd
  BY DEF Init, StallHasEnd
<1>2. ASSUME IInv, StallHasEnd, [Next]_vars PROVE StallHasEnd'
  <2>1. CASE \E m \in Masters, a \in Accesses : Issue(m, a)
    BY <1>2, <2>1 DEF Issue, bus, StallHasEnd
  <2>2. CASE \E t \in Payloads : AcceptThread(t)
    BY <1>2, <2>2 DEF AcceptThread, bus, StallHasEnd
  <2>3. ASSUME NEW s \in Payloads, RequestThread(s) PROVE StallHasEnd'
    <3>1. requestPEQ[s] # Never
      BY <2>3 DEF RequestThread, Never
    <3>2. Answered(s)
      BY <1>2, <3>1 DEF IInv, Timing
    <3>3. responsePEQ[s] >= 0 \/ dataPEQ[s] # Never
      BY <1>2, <3>2, QueueTypes DEF IInv, Timing, Answered, Never, Lost
    <3>4. responsePEQ' = responsePEQ /\ dataPEQ' = dataPEQ
      BY <2>3 DEF RequestThread
    <3>5. QED
      BY <3>3, <3>4 DEF StallHasEnd
  <2>4. CASE \E t \in Payloads : ResponseThread(t)
    BY <2>4 DEF ResponseThread, StallHasEnd
  <2>5. CASE \E t \in Payloads : MasterResponseThread(t)
    BY <2>5 DEF MasterResponseThread, StallHasEnd
  <2>6. CASE \E t \in Payloads : EndResponseThread(t)
    BY <2>6 DEF EndResponseThread, StallHasEnd
  <2>7. CASE Arbitrate
    <3>1. data_bus_state' = data_bus_state /\ endRespPEQ' = endRespPEQ
      BY <2>7 DEF Arbitrate, Grant, bus
    <3>2. CASE data_bus_state # "WAITSTATES"
      BY <3>1, <3>2 DEF StallHasEnd
    <3>3. CASE data_bus_state = "WAITSTATES"
      <4>1. responsePEQ' = Later(responsePEQ) /\ dataPEQ' = Later(dataPEQ)
        BY <2>7, <3>3 DEF Arbitrate, BusFree
      <4>2. endRespPEQ = {}
        BY <2>7 DEF Arbitrate, EdgeDone
      <4>3. PICK t \in Payloads : responsePEQ[t] >= 0 \/ dataPEQ[t] # Never
        BY <1>2, <3>3, <4>2 DEF StallHasEnd
      <4>4. /\ Later(responsePEQ)[t] = IF responsePEQ[t] = Never THEN Never
                                       ELSE responsePEQ[t] - 1
            /\ responsePEQ[t] # Never => responsePEQ[t] \in Nat \ {0}
            /\ Later(dataPEQ)[t] = IF dataPEQ[t] = Never THEN Never ELSE dataPEQ[t] - 1
            /\ dataPEQ[t] # Never => dataPEQ[t] \in Nat \ {0}
        BY <1>2, <2>7, LaterEffect DEF IInv, Arbitrate
      <4>5. responsePEQ'[t] >= 0 \/ dataPEQ'[t] # Never
        BY <4>1, <4>3, <4>4 DEF Never
      <4>6. QED
        BY <4>5 DEF StallHasEnd
    <3>4. QED
      BY <3>2, <3>3
  <2>8. CASE UNCHANGED vars
    BY <1>2, <2>8 DEF vars, bus, StallHasEnd
  <2>9. QED
    BY <1>2, <2>1, <2>2, <2>3, <2>4, <2>5, <2>6, <2>7, <2>8 DEF Next, Threads
<1>3. QED
  BY <1>1, <1>2, SpecIInv, PTL DEF Spec
----------------------------------------------------------------------------
(* The refinement *)

\* Only the arbiter and the request thread change the owner or the lock.
LEMMA BusStep ==
    ASSUME IInv, [Next]_vars
    PROVE  [Bus!Next]_<<address_bus_owner, IF is_lock THEN lock_master ELSE Nobody>>
<1> DEFINE locker == IF is_lock THEN lock_master ELSE Nobody
<1>1. ASSUME UNCHANGED <<address_bus_owner, is_lock, lock_master>>
      PROVE  UNCHANGED <<address_bus_owner, locker>>
  BY <1>1
<1>2. CASE UNCHANGED vars
  BY <1>1, <1>2 DEF vars, bus
<1>3. ASSUME NEW t \in Payloads, RequestThread(t)
      PROVE  Bus!Release(Master(t))
  <2>1. requestPEQ[t] # Never
    BY <1>3 DEF RequestThread, Never
  <2>2. address_bus_owner = Master(t)
    BY <2>1 DEF IInv, Phases
  <2> QED
    BY <1>3, <2>2 DEF RequestThread, Bus!Release, Bus!Nobody, Nobody
<1>4. ASSUME BusFree, Candidates # {}, Grant(Winner)
      PROVE  Bus!Acquire(Winner, payload[request_map[Winner].trans].lock)
  <2>1. Winner \in Candidates
    BY <1>4, WinnerIsCandidate DEF IInv
  <2>2. is_lock => Winner = lock_master
    BY <2>1 DEF Candidates
  <2> QED
    BY <1>4, <2>2 DEF Grant, BusFree, Bus!Acquire, Bus!Nobody, Nobody
<1>5. CASE Arbitrate
  <2>1. CASE BusFree /\ Candidates # {}
    <3>1. Grant(Winner)
      BY <1>5, <2>1 DEF Arbitrate
    <3>2. AwaitsArbiter(request_map[Winner].trans)
      <4>1. Winner \in Masters /\ request_map[Winner].state = "PENDING"
        BY <2>1, WinnerIsCandidate DEF IInv, Candidates, Pending
      <4>2. request_map[Winner] = [state |-> request_map[Winner].state, trans |-> request_map[Winner].trans]
        BY <4>1 DEF IInv, TypeOK
      <4> QED
        BY <4>1, <4>2 DEF IInv, Entries, AwaitsArbiter
    <3>3. Winner \in Masters /\ request_map[Winner].trans \in Payloads
      BY <2>1, WinnerIsCandidate DEF IInv, TypeOK, Candidates, Pending
    <3>4. payload[request_map[Winner].trans].lock \in BOOLEAN
      BY <3>2, <3>3, AhbCtrlAssumption DEF IInv, Loaded, InUse, AwaitsArbiter, AhbAccess
    <3> QED
      BY <1>4, <2>1, <3>1, <3>3, <3>4 DEF Bus!Next
  <2>2. CASE ~(BusFree /\ Candidates # {})
    BY <1>1, <1>5, <2>2 DEF Arbitrate, bus
  <2> QED
    BY <2>1, <2>2
<1>6. CASE Next
  <2>1. CASE \E m \in Masters, a \in Accesses : Issue(m, a)
    BY <1>1, <2>1 DEF Issue, bus
  <2>2. ASSUME NEW t \in Payloads, RequestThread(t)
        PROVE  [Bus!Next]_<<address_bus_owner, locker>>
    BY <1>3, <2>2, PayloadMaster DEF Bus!Next
  <2>3. ASSUME NEW t \in Payloads, \/ AcceptThread(t) \/ ResponseThread(t)
                                   \/ MasterResponseThread(t) \/ EndResponseThread(t)
        PROVE  UNCHANGED <<address_bus_owner, locker>>
    BY <1>1, <2>3 DEF AcceptThread, ResponseThread, MasterResponseThread, EndResponseThread, bus
  <2> QED
    BY <1>5, <1>6, <2>1, <2>2, <2>3 DEF Next, Threads
<1> QED
  BY <1>2, <1>6

\* The approximately timed bus implements the bus with one owner and a lock.
THEOREM ImplementsBus == ASSUME Punctual PROVE Spec => BusSpec
<1>1. Init => Bus!Init
  BY DEF Init, Bus!Init, Bus!Nobody, Nobody
<1>2. IInv /\ [Next]_vars
        => [Bus!Next]_<<address_bus_owner, IF is_lock THEN lock_master ELSE Nobody>>
  BY BusStep
<1> QED
  BY <1>1, <1>2, SpecIInv, PTL DEF Spec, BusSpec, Bus!Spec
=============================================================================
