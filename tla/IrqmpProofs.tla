---------------------------- MODULE IrqmpProofs ----------------------------
(***************************************************************************)
(* Proofs about the interrupt controller, for any number of processors,    *)
(* any cascade line and any values written to the registers.               *)
(*                                                                         *)
(* IInv is inductive: ServedOnce needs LineWasSent (a request that is not  *)
(* sent again is the one the line still shows) and ForceCopiesAgree (a     *)
(* write to one force register rewrites all of them from the copies).      *)
(***************************************************************************)
EXTENDS Irqmp, TLAPS

IInv ==
    /\ TypeOK
    /\ ForceCopiesAgree
    /\ LineWasSent
    /\ ServedOnce
    /\ NothingForgotten

\* A non-empty set of regular lines has a highest and a lowest one.
LEMMA RegularExtrema ==
    ASSUME NEW S, S \subseteq Regular, S # {}
    PROVE  Max(S) \in S /\ Min(S) \in S
<1>1. \E m \in S : \A x \in S : m >= x
  <2>1. SUFFICES ASSUME \A m \in S : \E x \in S : ~(m >= x)
                 PROVE  FALSE
    OBVIOUS
  <2>2. \A m \in S : m \in 1..15
    BY DEF Regular
  <2>3. QED
    BY <2>1, <2>2, SMTT(60)
<1>2. \E m \in S : \A x \in S : m =< x
  <2>1. SUFFICES ASSUME \A m \in S : \E x \in S : ~(m =< x)
                 PROVE  FALSE
    OBVIOUS
  <2>2. \A m \in S : m \in 1..15
    BY DEF Regular
  <2>3. QED
    BY <2>1, <2>2, SMTT(60)
<1>3. QED
  BY <1>1, <1>2 DEF Max, Min

\* What launch_irq selects for a processor: an enabled regular line, or 0 only when
\* there is none.
LEMMA HighSelects ==
    ASSUME TypeOK, NEW c \in CPUS
    PROVE  /\ High(c) \in 0..15
           /\ High(c) # 0 => High(c) \in All(c) \cap Regular
           /\ High(c) = 0 => All(c) \cap Regular = {}
<1> DEFINE onLevel1 == All(c) \cap level \cap Regular
           onLevel0 == (All(c) \ level) \cap Regular
<1>1. CASE onLevel1 # {}
  <2>1. Max(onLevel1) \in onLevel1
    BY <1>1, RegularExtrema
  <2>2. High(c) = Max(onLevel1)
    BY <1>1 DEF High
  <2>3. QED
    BY <2>1, <2>2 DEF Regular
<1>2. CASE onLevel1 = {} /\ onLevel0 # {}
  <2>1. Max(onLevel0) \in onLevel0
    BY <1>2, RegularExtrema
  <2>2. High(c) = Max(onLevel0)
    BY <1>2 DEF High
  <2>3. QED
    BY <2>1, <2>2 DEF Regular
<1>3. CASE onLevel1 = {} /\ onLevel0 = {}
  BY <1>3 DEF High
<1>4. QED
  BY <1>1, <1>2, <1>3

\* The lines named by identification registers are extended ones.
LEMMA IdentifiedExtended ==
    ASSUME TypeOK, NEW S \in SUBSET CPUS
    PROVE  Identified(S) \subseteq Extended
  BY DEF Identified, TypeOK

\* The reset state satisfies the invariant: nothing is requested or pending.
LEMMA InitIInv == Init => IInv
<1> SUFFICES ASSUME Init PROVE IInv
  OBVIOUS
<1>1. TypeOK
  <2>1. level \subseteq Regular /\ pending \subseteq Lines /\ gforce \subseteq Regular
        /\ broadcast \subseteq Regular /\ e_signal \in BOOLEAN /\ rewritten \in BOOLEAN
    BY DEF Init
  <2>2. mask \in [CPUS -> SUBSET Lines] /\ force \in [CPUS -> SUBSET Regular]
        /\ forcereg \in [CPUS -> SUBSET Regular]
    BY DEF Init
  <2>3. eirId \in [CPUS -> {0} \cup Extended] /\ irq \in [CPUS -> Regular \cup {NoIrq}]
    BY DEF Init
  <2>4. req \in [CPUS -> Request]
    BY DEF Init, Request
  <2>5. cpu \in [CPUS -> {"halted", "released", "running"}]
    BY DEF Init
  <2>6. QED
    BY <2>1, <2>2, <2>3, <2>4, <2>5 DEF TypeOK
<1>2. ForceCopiesAgree
  BY DEF Init, ForceCopiesAgree
<1>3. LineWasSent /\ ServedOnce
  BY DEF Init, LineWasSent, ServedOnce, NoIrq
<1>4. NothingForgotten
  BY DEF Init, NothingForgotten, Owed, ExtEnabled
<1>5. QED
  BY <1>1, <1>2, <1>3, <1>4 DEF IInv

\* What a pass of launch_irq requests for a processor: a regular line, or nothing.
LEMMA LaunchedRequest ==
    ASSUME TypeOK, NEW c \in CPUS
    PROVE  /\ Launched(c) \in Request
           /\ Launched(c).line = High(c)
           /\ Launched(c).up <=> High(c) # 0
<1>1. High(c) \in 0..15
  BY HighSelects
<1>2. CASE High(c) # 0
  BY <1>1, <1>2 DEF Launched, Request
<1>3. CASE High(c) = 0
  BY <1>3 DEF Launched, Request
<1>4. QED
  BY <1>2, <1>3

\* launch_irq: every line it raises is owed, and every processor that is owed one gets a
\* request.
LEMMA LaunchIrqIInv ==
    ASSUME IInv, LaunchIrq
    PROVE  IInv'
<1>1. TypeOK /\ ForceCopiesAgree /\ LineWasSent
  BY DEF IInv
<1>2. \A c \in CPUS : /\ High(c) \in 0..15
                      /\ High(c) # 0 => High(c) \in All(c) \cap Regular
                      /\ High(c) = 0 => All(c) \cap Regular = {}
  BY <1>1, HighSelects
<1>3. \A c \in CPUS : /\ Launched(c) \in Request
                      /\ Launched(c).line = High(c)
                      /\ Launched(c).up <=> High(c) # 0
  BY <1>1, LaunchedRequest
<1>4. pending' \subseteq Lines /\ pending' \ {EIRQ} = pending \ {EIRQ}
  BY <1>1, IrqmpAssumption DEF LaunchIrq, LeftPending, TypeOK, Lines, Regular
<1>5. pending' \cap Extended = pending \cap Extended
  BY <1>4, IrqmpAssumption DEF Extended
<1>6. req' = [c \in CPUS |-> Launched(c)]
      /\ irq' = [c \in CPUS |-> IF Launched(c) = req[c] THEN irq[c]
                                ELSE IF Launched(c).up THEN Launched(c).line ELSE NoIrq]
  BY DEF LaunchIrq
<1>7. \A c \in CPUS : irq'[c] # NoIrq => High(c) # 0 /\ irq'[c] = High(c)
  <2> SUFFICES ASSUME NEW c \in CPUS, irq'[c] # NoIrq
               PROVE  High(c) # 0 /\ irq'[c] = High(c)
    OBVIOUS
  <2>1. CASE Launched(c) = req[c]
    <3>1. irq'[c] = irq[c]
      BY <2>1, <1>6
    <3>2. QED
      BY <2>1, <3>1, <1>1, <1>3 DEF LineWasSent
  <2>2. CASE Launched(c) # req[c]
    <3>1. irq'[c] = IF Launched(c).up THEN Launched(c).line ELSE NoIrq
      BY <2>2, <1>6
    <3>2. QED
      BY <3>1, <1>3
  <2>3. QED
    BY <2>1, <2>2
<1>8. TypeOK'
  <2>1. req' \in [CPUS -> Request]
    BY <1>3, <1>6
  <2>2. irq' \in [CPUS -> Regular \cup {NoIrq}]
    <3>1. \A c \in CPUS : irq'[c] \in Regular \cup {NoIrq}
      BY <1>2, <1>7
    <3>2. QED
      BY <3>1, <1>6
  <2>3. QED
    BY <1>1, <1>4, <2>1, <2>2 DEF TypeOK, LaunchIrq
<1>9. ForceCopiesAgree'
  BY <1>1 DEF ForceCopiesAgree, LaunchIrq
<1>10. LineWasSent'
  BY <1>3, <1>6, <1>7 DEF LineWasSent
<1>11. \A c \in CPUS : SeenPending(c) \ {EIRQ} = pending \ {EIRQ}
  BY DEF SeenPending
<1>12. \A c \in CPUS : Owed(c)' = Owed(c) /\ gforce' = gforce
  BY <1>4 DEF Owed, LaunchIrq
<1>13. \A c \in CPUS : /\ Owed(c) \subseteq All(c)
                       /\ All(c) \subseteq Owed(c) \cup gforce \cup {EIRQ}
  BY <1>11 DEF Owed, All
<1>14. ServedOnce'
  <2> SUFFICES ASSUME NEW c \in CPUS, irq'[c] \notin {NoIrq, EIRQ}
               PROVE  irq'[c] \in Owed(c)' \cup gforce'
    BY DEF ServedOnce
  <2>1. irq'[c] \in All(c)
    BY <1>2, <1>7
  <2>2. QED
    BY <2>1, <1>12, <1>13
<1>15. NothingForgotten'
  <2> SUFFICES ASSUME NEW c \in CPUS,
                      (Owed(c) \cap Regular # {} \/ ExtEnabled(c))'
               PROVE  req'[c].up
    BY DEF NothingForgotten
  <2>1. All(c) \cap Regular # {}
    <3>1. CASE Owed(c)' \cap Regular # {}
      BY <3>1, <1>12, <1>13
    <3>2. CASE ExtEnabled(c)'
      <4>1. ExtEnabled(c) /\ EIRQ \in Regular
        BY <3>2, <1>5, IrqmpAssumption DEF ExtEnabled, Regular, LaunchIrq
      <4>2. QED
        BY <4>1 DEF All
    <3>3. QED
      BY <3>1, <3>2
  <2>2. QED
    BY <2>1, <1>2, <1>3, <1>6
<1>16. QED
  BY <1>8, <1>9, <1>10, <1>14, <1>15 DEF IInv

\* Lowering every line, as all the ways of serving or clearing an interrupt do,
\* leaves well-typed requests and no line up.
LEMMA LowerAllEffect ==
    ASSUME NEW n \in 0..15, LowerAll(n)
    PROVE  /\ req' \in [CPUS -> Request]
           /\ \A c \in CPUS : irq'[c] = NoIrq
           /\ irq' = [c \in CPUS |-> NoIrq]
  BY DEF LowerAll, Lower, Request

\* With no line up, nothing can be claimed about lines.
LEMMA NoLineUp ==
    ASSUME \A c \in CPUS : irq'[c] = NoIrq
    PROVE  LineWasSent' /\ ServedOnce'
  BY DEF LineWasSent, ServedOnce

\* The register writes that change nothing but their register.
LEMMA RegisterWriteIInv ==
    ASSUME IInv,
           \/ \E v \in LevelVals : LevelWrite(v)
           \/ \E v \in BroadcastVals : BroadcastWrite(v)
           \/ \E v \in PendingVals : PendingWrite(v)
           \/ \E v \in ForceVals : GlobalForceWrite(v)
           \/ \E c \in CPUS, v \in MaskVals : MaskWrite(c, v)
           \/ \E c \in CPUS, v \in EirIds : EirIdWrite(c, v)
           \/ \E S \in SUBSET CPUS : MpstatWrite(S)
    PROVE  IInv'
<1>1. CASE \E v \in LevelVals : LevelWrite(v)
  BY <1>1, IrqmpAssumption DEF LevelWrite, IInv, TypeOK, ForceCopiesAgree, LineWasSent,
     ServedOnce, NothingForgotten, Owed, ExtEnabled
<1>2. CASE \E v \in BroadcastVals : BroadcastWrite(v)
  BY <1>2, IrqmpAssumption DEF BroadcastWrite, IInv, TypeOK, ForceCopiesAgree, LineWasSent,
     ServedOnce, NothingForgotten, Owed, ExtEnabled
<1>3. CASE \E v \in PendingVals : PendingWrite(v)
  BY <1>3, IrqmpAssumption DEF PendingWrite, PendingWriteCallback, IInv, TypeOK,
     ForceCopiesAgree, LineWasSent, ServedOnce, NothingForgotten
<1>4. CASE \E v \in ForceVals : GlobalForceWrite(v)
  BY <1>4, IrqmpAssumption DEF GlobalForceWrite, PendingWriteCallback, IInv, TypeOK,
     ForceCopiesAgree, LineWasSent, ServedOnce, NothingForgotten
<1>5. CASE \E c \in CPUS, v \in MaskVals : MaskWrite(c, v)
  BY <1>5, IrqmpAssumption DEF MaskWrite, PendingWriteCallback, IInv, TypeOK,
     ForceCopiesAgree, LineWasSent, ServedOnce, NothingForgotten
<1>6. CASE \E c \in CPUS, v \in EirIds : EirIdWrite(c, v)
  BY <1>6, IrqmpAssumption DEF EirIdWrite, IInv, TypeOK, ForceCopiesAgree, LineWasSent,
     ServedOnce, NothingForgotten, Owed, ExtEnabled
<1>7. CASE \E S \in SUBSET CPUS : MpstatWrite(S)
  BY <1>7 DEF MpstatWrite, Release, regs, IInv, TypeOK, ForceCopiesAgree, LineWasSent,
     ServedOnce, NothingForgotten, Owed, ExtEnabled
<1>8. QED
  BY <1>1, <1>2, <1>3, <1>4, <1>5, <1>6, <1>7

\* clear_write: what is cleared is first lowered everywhere.
LEMMA ClearWriteIInv ==
    ASSUME IInv, NEW v \in ClearVals, ClearWrite(v)
    PROVE  IInv'
<1>1. TypeOK /\ v \subseteq Lines /\ EIRQ \in 0..15
  BY IrqmpAssumption DEF IInv
<1>2. NothingForgotten' /\ ForceCopiesAgree'
  BY DEF ClearWrite, IInv, NothingForgotten, ForceCopiesAgree
<1>3. /\ pending' \subseteq Lines
      /\ gforce' \subseteq Regular
      /\ eirId' \in [CPUS -> {0} \cup Extended]
  BY <1>1 DEF ClearWrite, TypeOK
<1>4. CASE v \cap Regular # {} \/ v \cap Extended # {} \/ Identified(CPUS) # {}
  <2>1. PICK n \in 0..15 : LowerAll(n)
    <3>1. CASE v \cap Regular # {}
      <4>1. Min(v \cap Regular) \in 0..15
        BY <3>1, RegularExtrema DEF Regular
      <4>2. QED
        BY <3>1, <4>1 DEF ClearWrite
    <3>2. CASE v \cap Regular = {}
      BY <3>2, <1>4, <1>1 DEF ClearWrite
    <3>3. QED
      BY <3>1, <3>2
  <2>2. /\ req' \in [CPUS -> Request]
        /\ \A c \in CPUS : irq'[c] = NoIrq
        /\ irq' = [c \in CPUS |-> NoIrq]
    BY <2>1, LowerAllEffect
  <2>3. TypeOK'
    BY <1>1, <1>3, <2>2 DEF TypeOK, ClearWrite
  <2>4. QED
    BY <2>2, <2>3, <1>2, NoLineUp DEF IInv
<1>5. CASE v \cap Regular = {} /\ v \cap Extended = {} /\ Identified(CPUS) = {}
  <2>1. pending' = pending /\ gforce' = gforce /\ UNCHANGED <<req, irq>>
    BY <1>1, <1>5 DEF ClearWrite, Lines, TypeOK
  <2>2. QED
    BY <2>1, <1>1, <1>2, <1>3 DEF ClearWrite, IInv, TypeOK, LineWasSent, ServedOnce, Owed
<1>6. QED
  BY <1>4, <1>5

\* force_write: the register it rebuilds from the copy is the copy again.
LEMMA ForceWriteIInv ==
    ASSUME IInv, NEW k \in CPUS, NEW set \in ForceSets, NEW clr \in ForceClears,
           ForceWrite(k, set, clr)
    PROVE  IInv'
<1>1. TypeOK /\ force = forcereg /\ set \subseteq Regular /\ clr \subseteq Regular
  BY IrqmpAssumption DEF IInv, ForceCopiesAgree
<1>2. NothingForgotten'
  BY DEF ForceWrite, NothingForgotten
<1>3. /\ forcereg' = [forcereg EXCEPT ![k] = (forcereg[k] \cup set) \ clr]
      /\ force' = forcereg'
      /\ forcereg' \in [CPUS -> SUBSET Regular]
  BY <1>1 DEF ForceWrite, TypeOK
<1>4. ForceCopiesAgree'
  BY <1>3 DEF ForceCopiesAgree
<1>5. CASE clr # {}
  <2>1. Min(clr) \in 0..15
    <3>1. Min(clr) \in clr
      BY <1>1, <1>5, RegularExtrema
    <3>2. Min(clr) \in Regular
      BY <3>1, <1>1
    <3>3. QED
      BY <3>2 DEF Regular
  <2>2. LowerAll(Min(clr))
    BY <1>5 DEF ForceWrite
  <2>3. /\ req' \in [CPUS -> Request]
        /\ \A c \in CPUS : irq'[c] = NoIrq
        /\ irq' = [c \in CPUS |-> NoIrq]
    BY <2>1, <2>2, LowerAllEffect
  <2>4. TypeOK'
    BY <1>1, <1>3, <2>3 DEF TypeOK, ForceWrite
  <2>5. QED
    BY <2>3, <2>4, <1>2, <1>4, NoLineUp DEF IInv
<1>6. CASE clr = {}
  <2>1. UNCHANGED <<req, irq, mask, gforce, rewritten>>
    BY <1>6 DEF ForceWrite
  <2>2. TypeOK'
    BY <1>1, <1>3, <2>1 DEF TypeOK, ForceWrite
  <2>3. LineWasSent'
    BY <2>1 DEF IInv, LineWasSent
  <2>4. Identified(CPUS) \subseteq Extended
    BY <1>1, IdentifiedExtended
  <2>5. \A c \in CPUS : Owed(c) \cap Regular \subseteq Owed(c)'
    BY <1>1, <1>3, <1>6, <2>1, <2>4 DEF Owed, ForceWrite, Regular, Extended, TypeOK
  <2>6. ServedOnce'
    BY <1>1, <2>1, <2>5 DEF IInv, ServedOnce, TypeOK
  <2>7. QED
    BY <2>2, <2>3, <2>6, <1>2, <1>4 DEF IInv
<1>7. QED
  BY <1>5, <1>6

\* incomming_irq: it only adds to what is owed, and notifies the thread.
LEMMA IncommingIrqIInv ==
    ASSUME IInv, NEW n \in Sources, IncommingIrq(n)
    PROVE  IInv'
<1>1. TypeOK /\ force = forcereg /\ n \in Lines
  BY IrqmpAssumption DEF IInv, ForceCopiesAgree
<1>2. NothingForgotten'
  BY DEF IncommingIrq, NothingForgotten
<1>3. UNCHANGED <<req, irq, mask, gforce, rewritten>>
  BY DEF IncommingIrq
<1>4. TypeOK' /\ ForceCopiesAgree'
  <2>1. /\ pending' \subseteq Lines
        /\ force' \in [CPUS -> SUBSET Regular]
        /\ force' = forcereg'
    <3>1. CASE n + 1 \in broadcast
      <4>1. /\ force' = [c \in CPUS |-> force[c] \cup ({n} \cap Regular)]
            /\ forcereg' = [c \in CPUS |-> forcereg[c] \cup ({n} \cap Regular)]
            /\ pending' = pending
        BY <3>1 DEF IncommingIrq
      <4>2. \A c \in CPUS : force[c] \cup ({n} \cap Regular) \in SUBSET Regular
        BY <1>1 DEF TypeOK
      <4>3. force' \in [CPUS -> SUBSET Regular]
        BY <4>1, <4>2
      <4>4. force' = forcereg'
        BY <4>1, <1>1
      <4>5. QED
        BY <4>1, <4>3, <4>4, <1>1 DEF TypeOK
    <3>2. CASE n + 1 \notin broadcast
      BY <3>2, <1>1 DEF IncommingIrq, TypeOK
    <3>3. QED
      BY <3>1, <3>2
  <2>2. QED
    BY <2>1, <1>1 DEF IncommingIrq, TypeOK, ForceCopiesAgree
<1>5. LineWasSent'
  BY <1>3 DEF IInv, LineWasSent
<1>6. \A c \in CPUS : Owed(c) \subseteq Owed(c)'
  BY <1>1 DEF IncommingIrq, Owed, TypeOK
<1>7. ServedOnce'
  BY <1>3, <1>6 DEF IInv, ServedOnce
<1>8. QED
  BY <1>2, <1>4, <1>5, <1>7 DEF IInv

\* acknowledged_irq: no line stays up.
LEMMA TakeIrqIInv ==
    ASSUME IInv, NEW c \in CPUS, TakeIrq(c)
    PROVE  IInv'
<1>1. TypeOK /\ force = forcereg /\ irq[c] \in Regular
  BY DEF IInv, ForceCopiesAgree, TakeIrq, TypeOK
<1>2. irq[c] \in 0..15 /\ LowerAll(irq[c])
  BY <1>1 DEF TakeIrq, AcknowledgedIrq, Regular
<1>3. /\ req' \in [CPUS -> Request]
      /\ \A d \in CPUS : irq'[d] = NoIrq
      /\ irq' = [d \in CPUS |-> NoIrq]
  BY <1>2, LowerAllEffect
<1>4. NothingForgotten'
  BY DEF TakeIrq, AcknowledgedIrq, NothingForgotten
<1>5. TypeOK' /\ ForceCopiesAgree'
  BY <1>1, <1>3 DEF TakeIrq, AcknowledgedIrq, ClearForced, TypeOK, ForceCopiesAgree
<1>6. QED
  BY <1>3, <1>4, <1>5, NoLineUp DEF IInv

\* A started processor forgets its request, of which irq_req keeps the record.
LEMMA ResetOpIInv ==
    ASSUME IInv, NEW c \in CPUS, ResetOp(c)
    PROVE  IInv'
<1>1. TypeOK'
  BY DEF IInv, TypeOK, ResetOp, regs
<1>2. QED
  BY <1>1 DEF IInv, TypeOK, ResetOp, regs, ForceCopiesAgree, LineWasSent, ServedOnce,
     NothingForgotten, Owed, ExtEnabled

\* dorst: nothing is owed any more.
LEMMA DorstIInv ==
    ASSUME IInv, Dorst
    PROVE  IInv'
<1>1. TypeOK'
  BY DEF IInv, TypeOK, Dorst, Release
<1>2. ForceCopiesAgree' /\ LineWasSent' /\ ServedOnce'
  BY DEF IInv, Dorst, ForceCopiesAgree, LineWasSent, ServedOnce
<1>3. \A c \in CPUS : Owed(c)' = {} /\ ~ExtEnabled(c)'
  BY DEF Dorst, Owed, ExtEnabled
<1>4. QED
  BY <1>1, <1>2, <1>3 DEF IInv, NothingForgotten

\* Every step preserves the invariant.
LEMMA NextIInv == IInv /\ [Next]_vars => IInv'
<1> SUFFICES ASSUME IInv, [Next]_vars PROVE IInv'
  OBVIOUS
<1>1. CASE Software
  BY <1>1, RegisterWriteIInv, ClearWriteIInv, ForceWriteIInv DEF Software
<1>2. CASE \E n \in Sources : IncommingIrq(n)
  BY <1>2, IncommingIrqIInv
<1>3. CASE LaunchIrq
  BY <1>3, LaunchIrqIInv
<1>4. CASE \E c \in CPUS : ResetOp(c) \/ TakeIrq(c)
  BY <1>4, ResetOpIInv, TakeIrqIInv
<1>5. CASE Dorst
  BY <1>5, DorstIInv
<1>6. CASE UNCHANGED vars
  BY <1>6 DEF vars, regs, IInv, TypeOK, ForceCopiesAgree, LineWasSent, ServedOnce,
     NothingForgotten, Owed, ExtEnabled
<1>7. QED
  BY <1>1, <1>2, <1>3, <1>4, <1>5, <1>6 DEF Next

\* The inductive invariant holds in every behaviour of the interrupt controller; the
\* safety theorems below follow from it.
THEOREM SpecIInv == Spec => []IInv
<1>1. Init => IInv
  BY InitIInv
<1>2. IInv /\ [Next]_vars => IInv'
  BY NextIInv
<1>3. QED
  BY <1>1, <1>2, PTL DEF Spec

\* Every register, request and IRQ variable keeps to its values.
THEOREM TypeCorrect == Spec => []TypeOK
<1>1. IInv => TypeOK
  BY DEF IInv
<1>2. QED
  BY <1>1, SpecIInv, PTL

\* The force registers of irqmp.cpp and the private copies of them never differ.
THEOREM ForceCopies == Spec => []ForceCopiesAgree
<1>1. IInv => ForceCopiesAgree
  BY DEF IInv
<1>2. QED
  BY <1>1, SpecIInv, PTL

\* A request on the line of a processor is one irqmp sent it last and has not taken back.
THEOREM LineSent == Spec => []LineWasSent
<1>1. IInv => LineWasSent
  BY DEF IInv
<1>2. QED
  BY <1>1, SpecIInv, PTL

\* A line that is up at a processor stands for an interrupt that is still to be
\* served: two processors never serve the same one.
THEOREM ServedAtMostOnce == Spec => []ServedOnce
<1>1. IInv => ServedOnce
  BY DEF IInv
<1>2. QED
  BY <1>1, SpecIInv, PTL

\* With no launch scheduled, no processor is owed an interrupt without a request.
THEOREM NeverForgotten == Spec => []NothingForgotten
<1>1. IInv => NothingForgotten
  BY DEF IInv
<1>2. QED
  BY <1>1, SpecIInv, PTL

\* The lines a step may take out of the pending register.
LEMMA PendingLost ==
    ASSUME IInv, [Next]_vars, NEW n \in pending \ (pending' \cup {EIRQ})
    PROVE  \/ \E c \in CPUS : TakeIrq(c) /\ n \in {irq[c], eirId[c]}
           \/ \E v \in PendingVals : PendingWrite(v)
           \/ \E v \in ClearVals : ClearWrite(v)
           \/ n \in Identified(CPUS)
           \/ Dorst
<1>1. CASE Software
  <2>1. CASE \E c \in CPUS, set \in ForceSets, clr \in ForceClears : ForceWrite(c, set, clr)
    BY <2>1 DEF ForceWrite
  <2>2. QED
    BY <1>1, <2>1 DEF Software, LevelWrite, BroadcastWrite, GlobalForceWrite, MaskWrite,
       EirIdWrite, MpstatWrite, regs
<1>2. CASE \E m \in Sources : IncommingIrq(m)
  BY <1>2 DEF IncommingIrq
<1>3. CASE LaunchIrq
  BY <1>3 DEF LaunchIrq, LeftPending
<1>4. CASE \E c \in CPUS : ResetOp(c) \/ TakeIrq(c)
  <2>1. CASE \E c \in CPUS : ResetOp(c)
    BY <2>1 DEF ResetOp, regs
  <2>2. CASE \E c \in CPUS : TakeIrq(c)
    <3>1. PICK c \in CPUS : TakeIrq(c)
      BY <2>2
    <3>2. n \in Identified({c}) \cup {irq[c]}
      BY <3>1 DEF TakeIrq, AcknowledgedIrq
    <3>3. Identified({c}) \subseteq {eirId[c]}
      BY DEF Identified
    <3>4. QED
      BY <3>1, <3>2, <3>3
  <2>3. QED
    BY <1>4, <2>1, <2>2
<1>5. CASE UNCHANGED vars
  BY <1>5 DEF vars, regs
<1>6. QED
  BY <1>1, <1>2, <1>3, <1>4, <1>5 DEF Next

\* Forwarding an interrupt, or anything else but serving or clearing it, does not
\* take it out of the pending register.
THEOREM PendingKept == Spec => PendingKeptUntilServed
<1>1. IInv /\ [Next]_vars =>
        [\A n \in pending \ (pending' \cup {EIRQ}) :
            \/ \E c \in CPUS : TakeIrq(c) /\ n \in {irq[c], eirId[c]}
            \/ \E v \in PendingVals : PendingWrite(v)
            \/ \E v \in ClearVals : ClearWrite(v)
            \/ n \in Identified(CPUS)
            \/ Dorst]_vars
  BY PendingLost
<1>2. QED
  BY <1>1, SpecIInv, PTL DEF Spec, PendingKeptUntilServed

\* The lines a step may take out of the force register of a processor.
LEMMA ForcedLost ==
    ASSUME IInv, [Next]_vars, NEW c \in CPUS, NEW n \in force[c] \ force'[c]
    PROVE  \/ TakeIrq(c) /\ irq[c] = n
           \/ \E set \in ForceSets, clr \in ForceClears : n \in clr /\ ForceWrite(c, set, clr)
           \/ Dorst
<1>1. TypeOK /\ force = forcereg
  BY DEF IInv, ForceCopiesAgree
<1>2. CASE Software
  <2>1. CASE \E k \in CPUS, set \in ForceSets, clr \in ForceClears : ForceWrite(k, set, clr)
    <3>1. PICK k \in CPUS, set \in ForceSets, clr \in ForceClears : ForceWrite(k, set, clr)
      BY <2>1
    <3>2. force'[c] = IF c = k THEN (forcereg[k] \cup set) \ clr ELSE forcereg[c] \cup force[c]
      BY <3>1 DEF ForceWrite
    <3>3. k = c /\ n \in clr
      BY <3>2, <1>1
    <3>4. QED
      BY <3>1, <3>3
  <2>2. QED
    BY <1>2, <2>1 DEF Software, LevelWrite, BroadcastWrite, PendingWrite, ClearWrite,
       GlobalForceWrite, MaskWrite, EirIdWrite, MpstatWrite, regs
<1>3. CASE \E m \in Sources : IncommingIrq(m)
  BY <1>3, <1>1 DEF IncommingIrq, TypeOK
<1>4. CASE LaunchIrq
  BY <1>4 DEF LaunchIrq
<1>5. CASE \E d \in CPUS : ResetOp(d) \/ TakeIrq(d)
  <2>1. CASE \E d \in CPUS : ResetOp(d)
    BY <2>1 DEF ResetOp, regs
  <2>2. CASE \E d \in CPUS : TakeIrq(d)
    <3>1. PICK d \in CPUS : TakeIrq(d)
      BY <2>2
    <3>2. force' = [force EXCEPT ![d] = force[d] \ {irq[d]}]
      BY <3>1 DEF TakeIrq, AcknowledgedIrq, ClearForced
    <3>3. d = c /\ n = irq[d]
      BY <3>2, <1>1 DEF TypeOK
    <3>4. QED
      BY <3>1, <3>3
  <2>3. QED
    BY <1>5, <2>1, <2>2
<1>6. CASE UNCHANGED vars
  BY <1>6 DEF vars, regs
<1>7. QED
  BY <1>2, <1>3, <1>4, <1>5, <1>6 DEF Next

\* A forced interrupt stays forced on a processor until that processor acknowledges
\* it, whatever the others acknowledge.
THEOREM ForcedKept == Spec => ForcedUntilOwnAck
<1>1. IInv /\ [Next]_vars =>
        [\A c \in CPUS : \A n \in force[c] \ force'[c] :
            \/ TakeIrq(c) /\ irq[c] = n
            \/ \E set \in ForceSets, clr \in ForceClears : n \in clr /\ ForceWrite(c, set, clr)
            \/ Dorst]_vars
  BY ForcedLost
<1>2. QED
  BY <1>1, SpecIInv, PTL DEF Spec, ForcedUntilOwnAck
=============================================================================
