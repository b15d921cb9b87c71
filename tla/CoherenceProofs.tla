-------------------------- MODULE CoherenceProofs --------------------------
(* Proofs about processors, caches, posted writes and the bus, for any number of *)
(* processors, lines, words and ways and any program of theirs.                  *)
EXTENDS Coherence, AhbLTProofs, SequenceTheorems

----------------------------------------------------------------------------
(* Sequences of stores *)

Stores == [addr : Addresses, value : Values]

\* A sequence of one element.
LEMMA OneElement ==
    ASSUME NEW S, NEW s \in Seq(S), s # <<>>, Len(s) =< 1
    PROVE  s = <<Head(s)>> /\ Head(s) \in S
<1>1. Len(s) = 1
  <2>1. Len(s) \in Nat \ {0}
    BY EmptySeq
  <2> QED
    BY <2>1
<1> QED
  BY <1>1, HeadTailProperties

\* What a processor sees of address a: its last store in s, or the memory m.
Latest(s, m, a) ==
    LET own == {i \in DOMAIN s : s[i].addr = a}
    IN  IF own = {} THEN m[a]
        ELSE s[CHOOSE i \in own : \A j \in own : j =< i].value

\* The last of several positions.
LEMMA Greatest ==
    ASSUME NEW n \in Nat, NEW S, S \subseteq 1..n, S # {}
    PROVE  \E i \in S : \A j \in S : j =< i
<1> DEFINE distances == {n - i : i \in S}
<1>1. distances \subseteq Nat /\ distances # {}
  <2>1. \A i \in S : n - i \in Nat
    OBVIOUS
  <2> QED
    BY <2>1
<1>2. PICK d \in distances : \A e \in distances : d =< e
  BY <1>1, Least
<1>3. PICK i \in S : d = n - i
  OBVIOUS
<1>4. ASSUME NEW j \in S PROVE j =< i
  <2>1. d =< n - j
    BY <1>2
  <2> QED
    BY <1>3, <2>1
<1> QED
  BY <1>4

\* The position Latest looks at.
LEMMA LastPosition ==
    ASSUME NEW n \in Nat, NEW S, S \subseteq 1..n, NEW i \in S, \A j \in S : j =< i
    PROVE  (CHOOSE k \in S : \A j \in S : j =< k) = i
<1> DEFINE k == CHOOSE k \in S : \A j \in S : j =< k
<1>1. k \in S /\ \A j \in S : j =< k
  OBVIOUS
<1> HIDE DEF k
<1>2. i =< k /\ k =< i /\ i \in Nat /\ k \in Nat
  BY <1>1
<1>3. k = i
  BY <1>2
<1> QED
  BY <1>3 DEF k

LEMMA LatestEmpty ==
    ASSUME NEW m, NEW a
    PROVE  Latest(<<>>, m, a) = m[a]
<1>1. {i \in DOMAIN <<>> : <<>>[i].addr = a} = {}
  OBVIOUS
<1> QED
  BY <1>1 DEF Latest

\* A store that is posted is what its processor sees from then on.
LEMMA LatestAppend ==
    ASSUME NEW S, NEW s \in Seq(S), NEW e \in S, NEW m, NEW a
    PROVE  Latest(Append(s, e), m, a) = IF e.addr = a THEN e.value ELSE Latest(s, m, a)
<1> DEFINE t == Append(s, e)
           n == Len(s)
           old == {i \in DOMAIN s : s[i].addr = a}
           new == {i \in DOMAIN t : t[i].addr = a}
<1>1. /\ n \in Nat /\ DOMAIN s = 1..n /\ t \in Seq(S) /\ DOMAIN t = 1..(n + 1)
      /\ t[n + 1] = e /\ \A i \in 1..n : t[i] = s[i]
  BY LenProperties, AppendProperties
<1> HIDE DEF t, n
<1>2. CASE e.addr = a
  <2>1. n + 1 \in new /\ new \subseteq 1..(n + 1) /\ \A j \in new : j =< n + 1
    BY <1>1, <1>2
  <2>2. (CHOOSE k \in new : \A j \in new : j =< k) = n + 1
    BY <1>1, <2>1, LastPosition
  <2>3. new # {}
    BY <2>1
  <2> QED
    BY <1>1, <1>2, <2>2, <2>3 DEF Latest, t
<1>3. CASE e.addr # a
  <2>1. new = old
    BY <1>1, <1>3
  <2>2. CASE old = {}
    BY <1>3, <2>1, <2>2 DEF Latest, t
  <2>3. CASE old # {}
    <3>1. old \subseteq 1..n
      BY <1>1
    <3>2. PICK i \in old : \A j \in old : j =< i
      BY <1>1, <2>3, <3>1, Greatest
    <3>3. (CHOOSE k \in old : \A j \in old : j =< k) = i
      BY <1>1, <3>1, <3>2, LastPosition
    <3>4. Latest(s, m, a) = s[i].value
      BY <2>3, <3>3 DEF Latest
    <3>5. Latest(t, m, a) = t[i].value
      BY <2>1, <2>3, <3>3 DEF Latest
    <3>6. t[i] = s[i]
      BY <1>1, <3>1, <3>2
    <3> QED
      BY <1>3, <3>4, <3>5, <3>6 DEF t
  <2> QED
    BY <2>2, <2>3
<1> QED
  BY <1>2, <1>3

\* When the oldest store becomes visible to all, its processor sees no change.
LEMMA LatestCommit ==
    ASSUME NEW s \in Seq(Stores), NEW e \in Stores, NEW m \in [Addresses -> Values],
           NEW a \in Addresses
    PROVE  Latest(s, [m EXCEPT ![e.addr] = e.value], a) = Latest(<<e>> \o s, m, a)
<1> DEFINE t == <<e>> \o s
           n == Len(s)
           old == {i \in DOMAIN s : s[i].addr = a}
           new == {i \in DOMAIN t : t[i].addr = a}
<1>1. /\ n \in Nat /\ DOMAIN s = 1..n
      /\ DOMAIN t = 1..(n + 1) /\ t[1] = e /\ \A i \in 1..n : t[i + 1] = s[i]
  <2>1. n \in Nat /\ DOMAIN s = 1..n
    BY LenProperties
  <2>2. <<e>> \in Seq(Stores) /\ Len(<<e>>) = 1 /\ <<e>>[1] = e
    OBVIOUS
  <2>3. /\ t \in Seq(Stores) /\ Len(t) = n + 1
        /\ \A i \in 1..(n + 1) : t[i] = IF i =< 1 THEN <<e>>[i] ELSE s[i - 1]
    BY <2>1, <2>2, ConcatProperties
  <2>4. DOMAIN t = 1..(n + 1)
    BY <2>3, LenProperties
  <2> HIDE DEF t, n
  <2>5. t[1] = e
    BY <2>1, <2>2, <2>3
  <2>6. ASSUME NEW i \in 1..n PROVE t[i + 1] = s[i]
    <3>1. i + 1 \in 1..(n + 1) /\ ~(i + 1 =< 1) /\ i + 1 - 1 = i
      BY <2>1
    <3> QED
      BY <2>3, <3>1
  <2> QED
    BY <2>1, <2>4, <2>5, <2>6
<1> HIDE DEF t, n
<1>2. /\ \A i \in old : i + 1 \in new
      /\ \A j \in new : j = 1 \/ j - 1 \in old
      /\ 1 \in new <=> e.addr = a
      /\ old \subseteq 1..n /\ new \subseteq 1..(n + 1)
  <2>1. \A i \in old : i + 1 \in new
    BY <1>1
  <2>2. ASSUME NEW j \in new, j # 1 PROVE j - 1 \in old
    <3>1. j - 1 \in 1..n /\ t[(j - 1) + 1] = s[j - 1] /\ (j - 1) + 1 = j
      BY <1>1, <2>2
    <3> QED
      BY <1>1, <3>1
  <2>3. 1 \in new <=> e.addr = a
    BY <1>1
  <2> QED
    BY <1>1, <2>1, <2>2, <2>3
<1>3. CASE old = {}
  <2>1. Latest(s, [m EXCEPT ![e.addr] = e.value], a) = IF e.addr = a THEN e.value ELSE m[a]
    BY <1>3 DEF Latest
  <2>2. CASE e.addr = a
    <3>1. new = {1}
      BY <1>2, <1>3, <2>2
    <3>2. (CHOOSE k \in new : \A j \in new : j =< k) = 1
      BY <3>1
    <3>3. Latest(t, m, a) = e.value
      BY <1>1, <3>1, <3>2 DEF Latest
    <3> QED
      BY <2>1, <2>2, <3>3 DEF t
  <2>3. CASE e.addr # a
    <3>1. new = {}
      BY <1>2, <1>3, <2>3
    <3>2. Latest(t, m, a) = m[a]
      BY <3>1 DEF Latest
    <3> QED
      BY <2>1, <2>3, <3>2 DEF t
  <2> QED
    BY <2>2, <2>3
<1>4. CASE old # {}
  <2>1. PICK i \in old : \A j \in old : j =< i
    BY <1>1, <1>2, <1>4, Greatest
  <2>2. (CHOOSE k \in old : \A j \in old : j =< k) = i
    BY <1>1, <1>2, <2>1, LastPosition
  <2>3. i + 1 \in new /\ \A j \in new : j =< i + 1
    <3>1. ASSUME NEW j \in new PROVE j =< i + 1
      <4>1. j = 1 \/ j - 1 =< i
        BY <1>2, <2>1
      <4> QED
        BY <1>1, <1>2, <4>1
    <3> QED
      BY <1>2, <3>1
  <2>4. (CHOOSE k \in new : \A j \in new : j =< k) = i + 1
    BY <1>1, <1>2, <2>3, LastPosition
  <2>5. Latest(s, [m EXCEPT ![e.addr] = e.value], a) = s[i].value
    BY <1>4, <2>2 DEF Latest
  <2>6. Latest(t, m, a) = t[i + 1].value
    <3>1. new # {}
      BY <2>3
    <3> QED
      BY <2>4, <3>1 DEF Latest
  <2>7. t[i + 1] = s[i]
    BY <1>1, <1>2, <2>1
  <2> QED
    BY <2>5, <2>6, <2>7 DEF t
<1> QED
  BY <1>3, <1>4

\* A change of the memory at another address.
LEMMA LatestElsewhere ==
    ASSUME NEW s, NEW m, NEW k, NEW a, m[a] = k[a]
    PROVE  Latest(s, m, a) = Latest(s, k, a)
  BY DEF Latest

----------------------------------------------------------------------------
(* Payloads, and where a processor keeps them *)

Payload == Read \cup Write \cup {None}

LEMMA PayloadKinds ==
    ASSUME NEW t \in Payload
    PROVE  /\ t.kind \in {"read", "write", "none"}
           /\ t.kind = "none" <=> t = None
           /\ t.kind = "read" <=> t \in Read
           /\ t.kind = "write" <=> t \in Write
           /\ t # None => t.addr \in Addresses /\ t.lock \in BOOLEAN
           /\ t.kind = "write" => t.slot \in Slots
           /\ t.kind = "read" => t.way \in Ways \cup {-1} /\ t.next \in Values \cup {-1}
  BY DEF Payload, Read, Write, None

\* What the thread of a processor can be at.
CpuStates == {Run} \cup [pc : {"put"}, trans : Read \cup Write]
                   \cup [pc : {"wait"}, trans : Read]
                   \cup [pc : {"done"}, trans : Read, data : LineData]
                   \cup [pc : {"store"}, addr : Addresses, value : Values]

LEMMA CpuStateFields ==
    ASSUME NEW s \in CpuStates
    PROVE  /\ s.pc \in {"run", "put", "wait", "done", "store"}
           /\ s.pc = "put" => s.trans \in Read \cup Write
           /\ s.pc \in {"wait", "done"} => s.trans \in Read
           /\ s.pc = "done" => s.data \in LineData
           /\ s.pc = "store" => s.addr \in Addresses /\ s.value \in Values
<1> HIDE DEF Read, Write, LineData, Addresses
<1> QED
  BY DEF CpuStates, Run

LEMMA CpuStatesMade ==
    /\ Run \in CpuStates
    /\ \A t \in Read \cup Write : [pc |-> "put", trans |-> t] \in CpuStates
    /\ \A t \in Read : [pc |-> "wait", trans |-> t] \in CpuStates
    /\ \A t \in Read, d \in LineData : [pc |-> "done", trans |-> t, data |-> d] \in CpuStates
    /\ \A a \in Addresses, v \in Values : [pc |-> "store", addr |-> a, value |-> v] \in CpuStates
  BY DEF CpuStates

\* The places of a processor.
Places(c) ==
    /\ trans[c] \in Payload /\ InFifo(c) \in Payload /\ ToPut(c) \in Payload
    /\ fifo[c] = <<>> => InFifo(c) = None
    /\ fifo[c] # <<>> => fifo[c] = <<InFifo(c)>> /\ InFifo(c) \in Read \cup Write
    /\ cpu[c] \in CpuStates
    /\ cpu[c].pc # "put" => ToPut(c) = None
    /\ cpu[c].pc = "put" => ToPut(c) = cpu[c].trans /\ ToPut(c) \in Read \cup Write
    /\ write_buf[c] \in [Slots -> Values] /\ wb_pointer[c] \in Slots

LEMMA PlacesTyped ==
    ASSUME CTypeOK, NEW c \in CPUS
    PROVE  Places(c)
<1>1. trans[c] \in Payload
  BY DEF CTypeOK, Payload
<1>2. cpu[c] \in CpuStates
  BY DEF CTypeOK, CpuStates
<1>3. cpu[c].pc = "put" => cpu[c].trans \in Read \cup Write
  BY <1>2, CpuStateFields
<1>4. /\ ToPut(c) \in Payload
      /\ cpu[c].pc # "put" => ToPut(c) = None
      /\ cpu[c].pc = "put" => ToPut(c) = cpu[c].trans /\ ToPut(c) \in Read \cup Write
  BY <1>3 DEF ToPut, Payload
<1>5. fifo[c] \in Seq(Read \cup Write) /\ Len(fifo[c]) =< 1
  BY CoherenceAssumption DEF CTypeOK
<1>6. fifo[c] = <<>> => InFifo(c) = None
  BY DEF InFifo
<1>7. fifo[c] # <<>> => fifo[c] = <<InFifo(c)>> /\ InFifo(c) \in Read \cup Write
  BY <1>5, OneElement DEF InFifo
<1>8. InFifo(c) \in Payload
  BY <1>6, <1>7 DEF Payload
<1>9. write_buf[c] \in [Slots -> Values] /\ wb_pointer[c] \in Slots
  BY DEF CTypeOK
<1> QED
  BY <1>1, <1>2, <1>4, <1>6, <1>7, <1>8, <1>9 DEF Places

----------------------------------------------------------------------------
(* The inductive invariant *)

\* A thread of the bus runs for the payload that mem_access has taken.
ThreadOf(c) ==
    /\ thread[c].pc = "idle" <=> trans[c] = None
    /\ trans[c] # None =>
        thread[c].access = [addr |-> 0, write |-> trans[c].kind = "write", lock |-> trans[c].lock]

\* A processor that reads waits for it, behind all its writes.
ReadsLast(c) ==
    /\ trans[c].kind = "read" =>
        cpu[c].pc = "wait" /\ cpu[c].trans = trans[c] /\ fifo[c] = <<>>
    /\ InFifo(c).kind = "read" => cpu[c].pc = "wait" /\ cpu[c].trans = InFifo(c)
    /\ cpu[c].pc = "done" => trans[c] = None /\ fifo[c] = <<>>

\* What a read has found is still what every processor sees.
ReadIsCurrent(c) ==
    cpu[c].pc = "done" =>
        \A i \in Words : cpu[c].data[i] = committed[<<LineOf(cpu[c].trans.addr), i>>]

\* The slots of the posted writes follow one another up to the pointer.
SlotOr(t, p) == IF t.kind = "write" THEN t.slot ELSE p
Follows(t, p) == t.kind = "write" => NextSlot(t.slot) = p
SlotsInOrder(c) ==
    /\ Follows(ToPut(c), wb_pointer[c])
    /\ Follows(InFifo(c), SlotOr(ToPut(c), wb_pointer[c]))
    /\ Follows(trans[c], SlotOr(InFifo(c), SlotOr(ToPut(c), wb_pointer[c])))

\* No line is in two ways.
OneWay(c) ==
    \A v, w \in Ways :
        cache[c][v].valid /\ cache[c][w].valid /\ cache[c][v].tag = cache[c][w].tag => v = w

\* The way a read will fill is the one that has its line, or no way has it.
Missing(c) == cpu[c].pc \in {"put", "wait", "done"} /\ cpu[c].trans.kind = "read"
FillsOneWay(c) ==
    Missing(c) /\ cpu[c].trans.cached =>
        \A w \in Ways :
            cache[c][w].valid /\ cache[c][w].tag = LineOf(cpu[c].trans.addr) => w = cpu[c].trans.way

\* What ValidIsCurrent says of one processor.
CacheIsCurrent(c) ==
    \A w \in Ways, i \in Words :
        cache[c][w].valid /\ mode[c] # "disabled" =>
            cache[c][w].data[i] = Latest(Posted(c), committed, <<cache[c][w].tag, i>>)

Local(c) ==
    /\ ThreadOf(c) /\ ReadsLast(c) /\ ReadIsCurrent(c) /\ SlotsInOrder(c)
    /\ OneWay(c) /\ FillsOneWay(c) /\ CacheIsCurrent(c)

\* The lock is that of the transfer.
LockOfTransfer ==
    \A c \in CPUS : Carried(c) => lock_master = c /\ is_lock = trans[c].lock

\* The memory is ahead of what every processor sees by the write on the bus.
Writing(c) == Carried(c) /\ trans[c].kind = "write"
Ahead ==
    /\ \A c \in CPUS : Writing(c) =>
        memory = [committed EXCEPT ![trans[c].addr] = write_buf[c][trans[c].slot]]
    /\ (\A c \in CPUS : ~Writing(c)) => memory = committed

CInv == CTypeOK /\ IInv /\ LockOfTransfer /\ Ahead /\ \A c \in CPUS : Local(c)

----------------------------------------------------------------------------
(* The operators of the model *)

\* The pointer of the write buffer comes back to a slot after three steps at the earliest.
LEMMA NextSlotCases ==
    ASSUME NEW p \in Slots
    PROVE  NextSlot(p) = IF p + 1 = WBSLOTS THEN 0 ELSE p + 1
<1>1. WBSLOTS \in Nat /\ WBSLOTS > 2 /\ p \in Nat /\ p < WBSLOTS
  BY CoherenceAssumption DEF Slots
<1>2. CASE p + 1 = WBSLOTS
  <2>1. WBSLOTS % WBSLOTS = 0
    BY <1>1
  <2> QED
    BY <1>2, <2>1 DEF NextSlot
<1>3. CASE p + 1 # WBSLOTS
  <2>1. (p + 1) % WBSLOTS = p + 1
    BY <1>1, <1>3
  <2> QED
    BY <1>3, <2>1 DEF NextSlot
<1> QED
  BY <1>2, <1>3

LEMMA NextSlotFacts ==
    ASSUME NEW p \in Slots
    PROVE  /\ NextSlot(p) \in Slots /\ NextSlot(p) # p
           /\ NextSlot(NextSlot(p)) # p /\ NextSlot(NextSlot(p)) # NextSlot(p)
<1>1. WBSLOTS \in Nat /\ WBSLOTS > 2 /\ p \in Nat /\ p < WBSLOTS
  BY CoherenceAssumption DEF Slots
<1>2. NextSlot(p) = IF p + 1 = WBSLOTS THEN 0 ELSE p + 1
  BY NextSlotCases
<1>3. NextSlot(p) \in Slots /\ NextSlot(p) # p
  BY <1>1, <1>2 DEF Slots
<1>4. NextSlot(NextSlot(p)) = IF NextSlot(p) + 1 = WBSLOTS THEN 0 ELSE NextSlot(p) + 1
  BY <1>3, NextSlotCases
<1> QED
  BY <1>1, <1>2, <1>3, <1>4

\* The least of some ways.
LEMMA MinWay ==
    ASSUME NEW S, S \subseteq Ways, S # {}
    PROVE  Min(S) \in S /\ Min(S) \in Ways /\ Min(S) # -1
<1>1. Ways \subseteq Nat
  BY CoherenceAssumption DEF Ways
<1>2. \E x \in S : \A y \in S : x =< y
  BY <1>1, Least
<1>3. Min(S) \in S
  BY <1>2 DEF Min
<1>4. Min(S) \in Nat /\ Min(S) \in Ways
  BY <1>1, <1>3
<1> QED
  BY <1>3, <1>4

\* locate_line finds the way with the line if there is one.
LEMMA Located ==
    ASSUME NEW c \in CPUS, NEW a
    PROVE  \/ LocateLine(c, a) = -1 /\ \A w \in Ways : ~(cache[c][w].valid /\ cache[c][w].tag = LineOf(a))
           \/ /\ LocateLine(c, a) \in Ways /\ LocateLine(c, a) # -1
              /\ cache[c][LocateLine(c, a)].valid /\ cache[c][LocateLine(c, a)].tag = LineOf(a)
<1>1. CASE Hits(c, a) = {}
  BY <1>1 DEF LocateLine, Hits
<1>2. CASE Hits(c, a) # {}
  <2>1. Hits(c, a) \subseteq Ways
    BY DEF Hits
  <2>2. LocateLine(c, a) \in Hits(c, a) /\ LocateLine(c, a) \in Ways /\ LocateLine(c, a) # -1
    BY <1>2, <2>1, MinWay DEF LocateLine
  <2> QED
    BY <2>2 DEF Hits
<1> QED
  BY <1>1, <1>2

\* Addresses are pairs.
LEMMA AddressParts ==
    ASSUME NEW a \in Addresses
    PROVE  a = <<LineOf(a), WordOf(a)>> /\ LineOf(a) \in Lines /\ WordOf(a) \in Words
  BY DEF Addresses, LineOf, WordOf

LEMMA AddressMade ==
    ASSUME NEW l \in Lines, NEW i \in Words
    PROVE  <<l, i>> \in Addresses /\ LineOf(<<l, i>>) = l /\ WordOf(<<l, i>>) = i
  BY DEF Addresses, LineOf, WordOf

\* The posted writes of a processor.
LEMMA WordTyped ==
    ASSUME NEW c \in CPUS, NEW t \in Payload, write_buf[c] \in [Slots -> Values]
    PROVE  /\ Word(c, t) \in Seq(Stores)
           /\ t.kind # "write" => Word(c, t) = <<>>
           /\ t.kind = "write" => [addr |-> t.addr, value |-> write_buf[c][t.slot]] \in Stores
<1>1. t.kind = "write" => [addr |-> t.addr, value |-> write_buf[c][t.slot]] \in Stores
  <2> SUFFICES ASSUME t.kind = "write"
               PROVE  [addr |-> t.addr, value |-> write_buf[c][t.slot]] \in Stores
    OBVIOUS
  <2>1. t.addr \in Addresses /\ t.slot \in Slots
    BY PayloadKinds DEF None
  <2> QED
    BY <2>1 DEF Stores
<1>2. <<>> \in Seq(Stores)
  BY EmptySeq
<1>3. \A e \in Stores : <<e>> \in Seq(Stores)
  OBVIOUS
<1> QED
  BY <1>1, <1>2, <1>3 DEF Word

LEMMA PostedTyped ==
    ASSUME NEW c \in CPUS, Places(c)
    PROVE  /\ Word(c, trans[c]) \in Seq(Stores)
           /\ Word(c, InFifo(c)) \in Seq(Stores)
           /\ Word(c, ToPut(c)) \in Seq(Stores)
           /\ Posted(c) \in Seq(Stores)
           /\ Posted(c) = Word(c, trans[c]) \o (Word(c, InFifo(c)) \o Word(c, ToPut(c)))
<1>1. /\ Word(c, trans[c]) \in Seq(Stores)
      /\ Word(c, InFifo(c)) \in Seq(Stores)
      /\ Word(c, ToPut(c)) \in Seq(Stores)
  BY WordTyped DEF Places
<1>2. Word(c, trans[c]) \o Word(c, InFifo(c)) \in Seq(Stores)
  BY <1>1, ConcatProperties
<1>3. Posted(c) \in Seq(Stores)
  BY <1>1, <1>2, ConcatProperties DEF Posted
<1>4. Posted(c) = Word(c, trans[c]) \o (Word(c, InFifo(c)) \o Word(c, ToPut(c)))
  BY <1>1, ConcatAssociative DEF Posted
<1> QED
  BY <1>1, <1>3, <1>4

----------------------------------------------------------------------------
(* What a step leaves alone *)

Same(d) == UNCHANGED <<thread[d], trans[d], fifo[d], cpu[d], cache[d], mode[d],
                       write_buf[d], wb_pointer[d]>>

LEMMA SamePosted ==
    ASSUME NEW d \in CPUS, UNCHANGED <<trans[d], fifo[d], cpu[d], write_buf[d]>>
    PROVE  Posted(d)' = Posted(d)
  BY DEF Posted, Word, InFifo, ToPut

LEMMA SameLocal ==
    ASSUME NEW d \in CPUS, Local(d), Same(d), committed' = committed
    PROVE  Local(d)'
<1>1. UNCHANGED <<thread[d], trans[d], fifo[d], cpu[d], cache[d], mode[d],
                  write_buf[d], wb_pointer[d]>>
  BY DEF Same
<1>2. Posted(d)' = Posted(d)
  BY <1>1, SamePosted
<1>3. ThreadOf(d)'
  BY <1>1 DEF Local, ThreadOf
<1>4. InFifo(d)' = InFifo(d) /\ ToPut(d)' = ToPut(d)
  BY <1>1 DEF InFifo, ToPut
<1>5. ReadsLast(d)'
  BY <1>1, <1>4 DEF Local, ReadsLast
<1>6. ReadIsCurrent(d)'
  BY <1>1 DEF Local, ReadIsCurrent
<1>7. SlotsInOrder(d)'
  BY <1>1, <1>4 DEF Local, SlotsInOrder
<1>8. OneWay(d)' /\ FillsOneWay(d)'
  BY <1>1 DEF Local, OneWay, FillsOneWay, Missing
<1>9. CacheIsCurrent(d)'
  BY <1>1, <1>2 DEF Local, CacheIsCurrent
<1> QED
  BY <1>3, <1>5, <1>6, <1>7, <1>8, <1>9 DEF Local

LEMMA AheadSame ==
    ASSUME Ahead, UNCHANGED <<thread, memory, committed, trans>>,
           \A d \in CPUS : Writing(d) => write_buf'[d][trans[d].slot] = write_buf[d][trans[d].slot]
    PROVE  Ahead'
<1>1. \A d \in CPUS : Writing(d)' <=> Writing(d)
  BY DEF Writing, Carried
<1> QED
  BY <1>1 DEF Ahead

LEMMA LockSame ==
    ASSUME LockOfTransfer, UNCHANGED <<thread, lock_master, is_lock, trans>>
    PROVE  LockOfTransfer'
  BY DEF LockOfTransfer, Carried

LEMMA BusSame == ASSUME IInv, UNCHANGED ltvars PROVE IInv' /\ TypeOK'
<1>1. IInv'
  BY NextIInv
<1> QED
  BY <1>1 DEF IInv

----------------------------------------------------------------------------
(* Scheduling of a payload *)

LEMMA ScheduleEffect ==
    ASSUME CTypeOK, NEW c \in CPUS, NEW t \in Read \cup Write, Schedule(c, t)
    PROVE  /\ cpu' \in [CPUS -> CpuStates]
           /\ fifo' \in [CPUS -> Seq(Read \cup Write)] /\ \A d \in CPUS : Len(fifo'[d]) =< FIFO
           /\ \A d \in CPUS : d # c => fifo'[d] = fifo[d] /\ cpu'[d] = cpu[d]
           /\ fifo[c] = <<>> => /\ fifo'[c] = <<t>> /\ InFifo(c)' = t /\ ToPut(c)' = None
                                /\ t.kind = "read" => cpu'[c] = [pc |-> "wait", trans |-> t]
                                /\ t.kind # "read" => cpu'[c] = Run
           /\ fifo[c] # <<>> => /\ fifo'[c] = fifo[c] /\ InFifo(c)' = InFifo(c) /\ ToPut(c)' = t
                                /\ cpu'[c] = [pc |-> "put", trans |-> t]
<1>0. /\ cpu \in [CPUS -> CpuStates]
      /\ fifo \in [CPUS -> Seq(Read \cup Write)] /\ \A d \in CPUS : Len(fifo[d]) =< FIFO
      /\ FIFO = 1
  BY CoherenceAssumption DEF CTypeOK, CpuStates
<1>1. t \in Payload /\ (t.kind = "read" => t \in Read)
  <2>1. t \in Payload
    BY DEF Payload
  <2> QED
    BY <2>1, PayloadKinds
<1>2. /\ Run \in CpuStates
      /\ [pc |-> "put", trans |-> t] \in CpuStates
      /\ t.kind = "read" => [pc |-> "wait", trans |-> t] \in CpuStates
  BY <1>1, CpuStatesMade
<1>3. Len(fifo[c]) < FIFO <=> fifo[c] = <<>>
  <2>1. Len(fifo[c]) \in Nat
    BY <1>0, LenProperties
  <2>2. fifo[c] # <<>> => Len(fifo[c]) \in Nat \ {0}
    BY <1>0, EmptySeq
  <2>3. Len(<<>>) = 0
    OBVIOUS
  <2> QED
    BY <1>0, <2>1, <2>2, <2>3
<1>4. CASE fifo[c] = <<>>
  <2> DEFINE s == IF t.kind = "read" THEN [pc |-> "wait", trans |-> t] ELSE Run
  <2>1. fifo' = [fifo EXCEPT ![c] = <<t>>] /\ cpu' = [cpu EXCEPT ![c] = s]
    <3>1. Append(fifo[c], t) = <<t>>
      BY <1>4
    <3> QED
      BY <1>3, <1>4, <3>1 DEF Schedule
  <2>2. s \in CpuStates /\ s.pc # "put"
    BY <1>2 DEF Run
  <2>3. <<t>> \in Seq(Read \cup Write) /\ Len(<<t>>) = 1 /\ <<t>> # <<>> /\ Head(<<t>>) = t
    OBVIOUS
  <2>4. cpu' \in [CPUS -> CpuStates] /\ cpu'[c] = s
    BY <1>0, <2>1, <2>2
  <2>5. fifo' \in [CPUS -> Seq(Read \cup Write)] /\ fifo'[c] = <<t>>
    BY <1>0, <2>1, <2>3
  <2>6. \A d \in CPUS : d # c => fifo'[d] = fifo[d] /\ cpu'[d] = cpu[d]
    BY <1>0, <2>1
  <2>7. \A d \in CPUS : Len(fifo'[d]) =< FIFO
    <3> SUFFICES ASSUME NEW d \in CPUS PROVE Len(fifo'[d]) =< FIFO
      OBVIOUS
    <3>1. CASE d = c
      <4>1. Len(fifo'[d]) = 1
        BY <2>3, <2>5, <3>1
      <4> QED
        BY <1>0, <4>1
    <3>2. CASE d # c
      BY <1>0, <2>6, <3>2
    <3> QED
      BY <3>1, <3>2
  <2>8. InFifo(c)' = t /\ ToPut(c)' = None
    BY <2>2, <2>3, <2>4, <2>5 DEF InFifo, ToPut
  <2> HIDE DEF s
  <2>9. (t.kind = "read" => s = [pc |-> "wait", trans |-> t]) /\ (t.kind # "read" => s = Run)
    BY DEF s
  <2> QED
    BY <1>4, <2>4, <2>5, <2>6, <2>7, <2>8, <2>9
<1>5. CASE fifo[c] # <<>>
  <2>1. fifo' = fifo /\ cpu' = [cpu EXCEPT ![c] = [pc |-> "put", trans |-> t]]
    BY <1>3, <1>5 DEF Schedule
  <2>2. cpu' \in [CPUS -> CpuStates] /\ cpu'[c] = [pc |-> "put", trans |-> t]
    BY <1>0, <1>2, <2>1
  <2>3. InFifo(c)' = InFifo(c) /\ ToPut(c)' = t
    BY <2>1, <2>2 DEF InFifo, ToPut
  <2>4. \A d \in CPUS : d # c => fifo'[d] = fifo[d] /\ cpu'[d] = cpu[d]
    BY <1>0, <2>1
  <2> QED
    BY <1>0, <1>5, <2>1, <2>2, <2>3, <2>4
<1> QED
  BY <1>4, <1>5

----------------------------------------------------------------------------
(* Every step preserves the invariant, and is one of the abstract memory *)

\* The parts of CInv.
LEMMA CInvParts ==
    ASSUME CInv, NEW c \in CPUS
    PROVE  /\ CTypeOK /\ IInv /\ LockOfTransfer /\ Ahead
           /\ Local(c) /\ Places(c)
           /\ ThreadOf(c) /\ ReadsLast(c) /\ ReadIsCurrent(c) /\ SlotsInOrder(c)
           /\ OneWay(c) /\ FillsOneWay(c) /\ CacheIsCurrent(c)
  BY PlacesTyped DEF CInv, Local

\* A cache that does not change is still current.
LEMMA CacheSame ==
    ASSUME NEW c \in CPUS, OneWay(c), CacheIsCurrent(c),
           UNCHANGED <<cache[c], mode[c], committed>>, Posted(c)' = Posted(c)
    PROVE  OneWay(c)' /\ CacheIsCurrent(c)'
  BY DEF OneWay, CacheIsCurrent

\* A payload that waited to be put into the FIFO is put.
LEMMA PutStep ==
    ASSUME CInv, NEW c \in CPUS, Put(c)
    PROVE  CInv' /\ \A d \in CPUS : Posted(d)' = Posted(d)
<1> DEFINE t == cpu[c].trans
<1>1. /\ CTypeOK /\ IInv /\ LockOfTransfer /\ Ahead /\ Local(c) /\ Places(c)
      /\ ThreadOf(c) /\ ReadsLast(c) /\ ReadIsCurrent(c) /\ SlotsInOrder(c)
      /\ OneWay(c) /\ FillsOneWay(c) /\ CacheIsCurrent(c)
  BY CInvParts
<1>2. /\ cpu[c].pc = "put" /\ Schedule(c, t)
      /\ UNCHANGED <<ltvars, memory, cache, mode, trans, write_buf, wb_pointer, result, committed>>
  BY DEF Put
<1>3. t \in Read \cup Write /\ t \in Payload /\ ToPut(c) = t
  BY <1>1, <1>2 DEF Places, Payload
<1>4. fifo[c] = <<>> /\ InFifo(c) = None
  <2>1. Len(fifo[c]) < FIFO /\ Len(<<InFifo(c)>>) = 1 /\ FIFO = 1
    BY CoherenceAssumption DEF Put
  <2> QED
    BY <1>1, <2>1 DEF Places
<1>5. /\ cpu' \in [CPUS -> CpuStates]
      /\ fifo' \in [CPUS -> Seq(Read \cup Write)] /\ \A d \in CPUS : Len(fifo'[d]) =< FIFO
      /\ \A d \in CPUS : d # c => fifo'[d] = fifo[d] /\ cpu'[d] = cpu[d]
      /\ fifo'[c] = <<t>> /\ InFifo(c)' = t /\ ToPut(c)' = None
      /\ t.kind = "read" => cpu'[c] = [pc |-> "wait", trans |-> t]
      /\ t.kind # "read" => cpu'[c] = Run
  BY <1>1, <1>2, <1>3, <1>4, ScheduleEffect
<1>6. CTypeOK'
  BY <1>1, <1>2, <1>5, BusSame DEF CTypeOK, CpuStates
<1>7. ASSUME NEW d \in CPUS, d # c PROVE Local(d)' /\ Posted(d)' = Posted(d)
  <2>1. Same(d) /\ committed' = committed
    BY <1>2, <1>5, <1>7 DEF Same, ltvars
  <2>2. Posted(d)' = Posted(d)
    BY <2>1, SamePosted DEF Same
  <2> QED
    BY <2>1, <2>2, SameLocal, CInvParts
<1>8. Posted(c)' = Posted(c)
  <2>1. \A p \in {trans[c], t, None} : Word(c, p)' = Word(c, p)
    BY <1>2 DEF Word
  <2>2. /\ Word(c, trans[c]) \in Seq(Stores) /\ Word(c, t) \in Seq(Stores)
        /\ Word(c, None) = <<>>
    BY <1>1, <1>3, PostedTyped DEF Word, None
  <2>3. Posted(c) = Word(c, trans[c]) \o Word(c, t)
    BY <1>3, <1>4, <2>2, ConcatEmptySeq DEF Posted
  <2>4. Posted(c)' = (Word(c, trans[c]) \o Word(c, t)) \o <<>>
    BY <1>2, <1>5, <2>1, <2>2 DEF Posted
  <2> QED
    BY <2>2, <2>3, <2>4, ConcatProperties, ConcatEmptySeq
<1>9. Local(c)'
  <2>1. ThreadOf(c)'
    BY <1>1, <1>2 DEF ThreadOf, ltvars
  <2>2. ReadsLast(c)'
    BY <1>1, <1>2, <1>5 DEF ReadsLast, Run
  <2>3. ReadIsCurrent(c)'
    BY <1>5 DEF ReadIsCurrent, Run
  <2>4. SlotsInOrder(c)'
    BY <1>1, <1>2, <1>3, <1>4, <1>5 DEF SlotsInOrder, Follows, SlotOr, None, NextSlot
  <2>5. OneWay(c)' /\ CacheIsCurrent(c)'
    BY <1>1, <1>2, <1>8, CacheSame
  <2>6. FillsOneWay(c)'
    BY <1>1, <1>2, <1>5 DEF FillsOneWay, Missing, Run
  <2> QED
    BY <2>1, <2>2, <2>3, <2>4, <2>5, <2>6 DEF Local
<1>10. IInv' /\ LockOfTransfer' /\ Ahead'
  BY <1>1, <1>2, BusSame, LockSame, AheadSame DEF ltvars
<1> QED
  BY <1>6, <1>7, <1>8, <1>9, <1>10 DEF CInv

\* A thread that neither waits for a read nor holds a payload, before and after.
Quiet(c) == cpu[c].pc \in {"run", "store"}

LEMMA QuietLocal ==
    ASSUME NEW c \in CPUS, Local(c), Quiet(c), Quiet(c)',
           UNCHANGED <<thread[c], trans[c], fifo[c], cache[c], mode[c],
                       write_buf[c], wb_pointer[c], committed>>
    PROVE  Local(c)' /\ Posted(c)' = Posted(c)
<1>1. ToPut(c)' = ToPut(c) /\ InFifo(c)' = InFifo(c) /\ ToPut(c) = None
  BY DEF ToPut, InFifo, Quiet
<1>2. Posted(c)' = Posted(c)
  BY <1>1 DEF Posted, Word
<1>3. ThreadOf(c)'
  BY DEF Local, ThreadOf
<1>4. ReadsLast(c)' /\ ReadIsCurrent(c)' /\ FillsOneWay(c)'
  BY <1>1 DEF Local, Quiet, ReadsLast, ReadIsCurrent, FillsOneWay, Missing
<1>5. SlotsInOrder(c)'
  BY <1>1 DEF Local, SlotsInOrder
<1>6. OneWay(c)' /\ CacheIsCurrent(c)'
  BY <1>2, CacheSame DEF Local
<1> QED
  BY <1>2, <1>3, <1>4, <1>5, <1>6 DEF Local

\* A valid word of a cache in use, found by locate_line, is what the processor sees.
LEMMA HitIsCurrent ==
    ASSUME CInv, NEW c \in CPUS, NEW a \in Addresses, NEW way \in Ways,
           cache[c][way].valid, cache[c][way].tag = LineOf(a), mode[c] # "disabled"
    PROVE  cache[c][way].data[WordOf(a)] = Latest(Posted(c), committed, a)
<1>1. CacheIsCurrent(c)
  BY CInvParts
<1>2. a = <<cache[c][way].tag, WordOf(a)>> /\ WordOf(a) \in Words
  BY AddressParts
<1> QED
  BY <1>1, <1>2 DEF CacheIsCurrent

\* A load: it hits and returns what the processor sees, or it posts a read.
LEMMA LoadStep ==
    ASSUME CInv, NEW c \in CPUS, NEW a \in Addresses, NEW asi \in {"normal", "miss", "bypass"},
           NEW lock \in BOOLEAN, NEW next \in Values \cup {-1}, Load(c, a, asi, lock, next)
    PROVE  /\ CInv' /\ \A d \in CPUS : Posted(d)' = Posted(d)
           /\ \/ result' = result
              \/ result' = [result EXCEPT ![c] = Latest(Posted(c), committed, a)]
<1> DEFINE way == IF Bypass(c, asi) THEN -1 ELSE LocateLine(c, a)
           t == [kind |-> "read", addr |-> a, lock |-> lock, way |-> way,
                 cached |-> ~Bypass(c, asi), next |-> next]
           value == cache[c][way].data[WordOf(a)]
<1>1. /\ CTypeOK /\ IInv /\ LockOfTransfer /\ Ahead /\ Local(c) /\ Places(c)
      /\ ThreadOf(c) /\ ReadsLast(c) /\ ReadIsCurrent(c) /\ SlotsInOrder(c)
      /\ OneWay(c) /\ FillsOneWay(c) /\ CacheIsCurrent(c)
  BY CInvParts
<1>2. /\ cpu[c].pc = "run"
      /\ UNCHANGED <<ltvars, memory, cache, mode, trans, write_buf, wb_pointer, committed>>
      /\ IF way # -1 /\ asi # "miss"
         THEN Loaded(c, a, value, next) /\ UNCHANGED fifo
         ELSE Schedule(c, t) /\ UNCHANGED result
  BY DEF Load
<1>3. way # -1 => /\ way \in Ways /\ cache[c][way].valid /\ cache[c][way].tag = LineOf(a)
                  /\ mode[c] # "disabled"
  BY Located DEF Bypass
<1>4. way \in Ways \cup {-1}
  BY <1>3
<1>5. ~Bypass(c, asi) => \A w \in Ways : cache[c][w].valid /\ cache[c][w].tag = LineOf(a) => w = way
  BY <1>1, Located DEF OneWay
<1> HIDE DEF way
<1>6. IInv' /\ LockOfTransfer' /\ Ahead'
  BY <1>1, <1>2, BusSame, LockSame, AheadSame DEF ltvars
<1>7. CASE way # -1 /\ asi # "miss"
  <2> DEFINE s == IF next = -1 THEN Run ELSE [pc |-> "store", addr |-> a, value |-> next]
  <2>1. /\ result' = [result EXCEPT ![c] = value] /\ cpu' = [cpu EXCEPT ![c] = s]
        /\ UNCHANGED fifo
    BY <1>2, <1>7 DEF Loaded
  <2>2. s \in CpuStates /\ s.pc \in {"run", "store"}
    BY CpuStatesMade DEF Run
  <2> HIDE DEF s
  <2>3. cpu \in [CPUS -> CpuStates]
    BY <1>1 DEF CTypeOK, CpuStates
  <2>4. cpu' \in [CPUS -> CpuStates] /\ Quiet(c)' /\ \A d \in CPUS : d # c => cpu'[d] = cpu[d]
    BY <2>1, <2>2, <2>3 DEF Quiet
  <2>5. value \in Values
    <3>1. cache[c][way].data \in LineData
      BY <1>1, <1>3, <1>7 DEF CTypeOK
    <3> QED
      BY <3>1, AddressParts DEF LineData
  <2>6. value = Latest(Posted(c), committed, a)
    BY <1>3, <1>7, HitIsCurrent
  <2> HIDE DEF value
  <2>7. CTypeOK'
    BY <1>1, <1>2, <2>1, <2>4, <2>5, BusSame DEF CTypeOK, CpuStates
  <2>8. ASSUME NEW d \in CPUS, d # c PROVE Local(d)' /\ Posted(d)' = Posted(d)
    <3>1. Same(d) /\ committed' = committed
      BY <1>2, <2>1, <2>4, <2>8 DEF Same, ltvars
    <3> QED
      BY <3>1, SamePosted, SameLocal, CInvParts DEF Same
  <2>9. Local(c)' /\ Posted(c)' = Posted(c)
    BY <1>1, <1>2, <2>1, <2>4, QuietLocal DEF Quiet, ltvars
  <2> QED
    BY <1>6, <2>1, <2>6, <2>7, <2>8, <2>9 DEF CInv
<1>8. CASE ~(way # -1 /\ asi # "miss")
  <2>1. Schedule(c, t) /\ UNCHANGED result
    BY <1>2, <1>8
  <2>2. t \in Read /\ t.kind = "read" /\ t.addr = a /\ t.cached = ~Bypass(c, asi) /\ t.way = way
    BY <1>4 DEF Read, Bypass
  <2> HIDE DEF t
  <2>3. t \in Read \cup Write /\ t \in Payload
    BY <2>2 DEF Payload
  <2>4. /\ cpu' \in [CPUS -> CpuStates]
        /\ fifo' \in [CPUS -> Seq(Read \cup Write)] /\ \A d \in CPUS : Len(fifo'[d]) =< FIFO
        /\ \A d \in CPUS : d # c => fifo'[d] = fifo[d] /\ cpu'[d] = cpu[d]
        /\ fifo[c] = <<>> => /\ fifo'[c] = <<t>> /\ InFifo(c)' = t /\ ToPut(c)' = None
                             /\ cpu'[c] = [pc |-> "wait", trans |-> t]
        /\ fifo[c] # <<>> => /\ fifo'[c] = fifo[c] /\ InFifo(c)' = InFifo(c) /\ ToPut(c)' = t
                             /\ cpu'[c] = [pc |-> "put", trans |-> t]
    BY <1>1, <2>1, <2>2, <2>3, ScheduleEffect
  <2>5. CTypeOK'
    BY <1>1, <1>2, <2>1, <2>4, BusSame DEF CTypeOK, CpuStates
  <2>6. ASSUME NEW d \in CPUS, d # c PROVE Local(d)' /\ Posted(d)' = Posted(d)
    <3>1. Same(d) /\ committed' = committed
      BY <1>2, <2>4, <2>6 DEF Same, ltvars
    <3> QED
      BY <3>1, SamePosted, SameLocal, CInvParts DEF Same
  <2>7. ToPut(c) = None /\ (fifo[c] = <<>> => InFifo(c) = None)
    BY <1>1, <1>2 DEF Places
  <2>8. Posted(c)' = Posted(c)
    <3>1. Word(c, InFifo(c)') = Word(c, InFifo(c)) /\ Word(c, ToPut(c)') = Word(c, ToPut(c))
      BY <2>2, <2>4, <2>7 DEF Word, None
    <3> QED
      BY <1>2, <3>1 DEF Posted, Word
  <2>9. Local(c)'
    <3>1. ThreadOf(c)'
      BY <1>1, <1>2 DEF ThreadOf, ltvars
    <3>2. ReadsLast(c)'
      BY <1>1, <1>2, <2>4 DEF ReadsLast
    <3>3. ReadIsCurrent(c)'
      BY <2>4 DEF ReadIsCurrent
    <3>4. SlotsInOrder(c)'
      BY <1>1, <1>2, <2>2, <2>4, <2>7 DEF SlotsInOrder, Follows, SlotOr, None, NextSlot
    <3>5. OneWay(c)' /\ CacheIsCurrent(c)'
      BY <1>1, <1>2, <2>8, CacheSame
    <3>6. FillsOneWay(c)'
      <4>1. cpu'[c].trans = t
        BY <2>4
      <4> QED
        BY <1>2, <1>5, <2>2, <4>1 DEF FillsOneWay
    <3> QED
      BY <3>1, <3>2, <3>3, <3>4, <3>5, <3>6 DEF Local
  <2> QED
    BY <1>6, <2>1, <2>5, <2>6, <2>8, <2>9 DEF CInv
<1> QED
  BY <1>7, <1>8

\* A store: the cache that holds the word follows it, and it is posted behind the others.
LEMMA StoreStep ==
    ASSUME CInv, NEW c \in CPUS, Quiet(c), NEW a \in Addresses, NEW v \in Values,
           NEW asi \in {"normal", "bypass"}, BypassRule(c, a, asi), StoreWord(c, a, v, asi)
    PROVE  /\ CInv' /\ \A d \in CPUS : d # c => Posted(d)' = Posted(d)
           /\ Posted(c)' = Append(Posted(c), [addr |-> a, value |-> v])
<1> DEFINE p == wb_pointer[c]
           t == [kind |-> "write", addr |-> a, lock |-> StoreLock(c, asi), slot |-> p]
           e == [addr |-> a, value |-> v]
<1>1. /\ CTypeOK /\ IInv /\ LockOfTransfer /\ Ahead /\ Local(c) /\ Places(c)
      /\ ThreadOf(c) /\ ReadsLast(c) /\ ReadIsCurrent(c) /\ SlotsInOrder(c)
      /\ OneWay(c) /\ FillsOneWay(c) /\ CacheIsCurrent(c)
  BY CInvParts
<1>2. /\ WriteHit(c, a, v, asi)
      /\ write_buf' = [write_buf EXCEPT ![c][p] = v]
      /\ wb_pointer' = [wb_pointer EXCEPT ![c] = NextSlot(@)]
      /\ Schedule(c, t)
      /\ UNCHANGED <<ltvars, memory, mode, trans, result, committed>>
  BY DEF StoreWord
<1>3. /\ cpu[c].pc \in {"run", "store"} /\ p \in Slots
      /\ ToPut(c) = None /\ (fifo[c] = <<>> => InFifo(c) = None)
      /\ trans[c] \in Payload /\ InFifo(c) \in Payload
  BY <1>1 DEF Quiet, Places
<1>4. t \in Write /\ t.kind = "write" /\ t.addr = a /\ t.slot = p
  <2>1. StoreLock(c, asi) \in BOOLEAN
    BY CoherenceAssumption DEF StoreLock
  <2> QED
    BY <1>3, <2>1 DEF Write
<1> HIDE DEF t
<1>5. t \in Read \cup Write /\ t \in Payload /\ e \in Stores
  BY <1>4 DEF Payload, Stores
<1>6. /\ cpu' \in [CPUS -> CpuStates]
      /\ fifo' \in [CPUS -> Seq(Read \cup Write)] /\ \A d \in CPUS : Len(fifo'[d]) =< FIFO
      /\ \A d \in CPUS : d # c => fifo'[d] = fifo[d] /\ cpu'[d] = cpu[d]
      /\ fifo[c] = <<>> => /\ fifo'[c] = <<t>> /\ InFifo(c)' = t /\ ToPut(c)' = None
                           /\ cpu'[c] = Run
      /\ fifo[c] # <<>> => /\ fifo'[c] = fifo[c] /\ InFifo(c)' = InFifo(c) /\ ToPut(c)' = t
                           /\ cpu'[c] = [pc |-> "put", trans |-> t]
  BY <1>1, <1>2, <1>4, <1>5, ScheduleEffect
<1>7. /\ write_buf \in [CPUS -> [Slots -> Values]] /\ wb_pointer \in [CPUS -> Slots]
      /\ cache \in [CPUS -> [Ways -> [tag : Lines, valid : BOOLEAN, data : LineData]]]
  BY <1>1 DEF CTypeOK
<1>8. /\ write_buf' \in [CPUS -> [Slots -> Values]] /\ write_buf'[c][p] = v
      /\ \A s \in Slots : s # p => write_buf'[c][s] = write_buf[c][s]
      /\ \A d \in CPUS : d # c => write_buf'[d] = write_buf[d]
  BY <1>2, <1>3, <1>7
<1>9. /\ wb_pointer' \in [CPUS -> Slots] /\ wb_pointer'[c] = NextSlot(p)
      /\ \A d \in CPUS : d # c => wb_pointer'[d] = wb_pointer[d]
  BY <1>2, <1>3, <1>7, NextSlotFacts
\* The cache keeps its lines; a word of address a that it holds is v afterwards.
<1>10. /\ cache' \in [CPUS -> [Ways -> [tag : Lines, valid : BOOLEAN, data : LineData]]]
       /\ \A d \in CPUS : d # c => cache'[d] = cache[d]
       /\ \A w \in Ways :
            /\ cache'[c][w].tag = cache[c][w].tag /\ cache'[c][w].valid = cache[c][w].valid
            /\ \A i \in Words : cache[c][w].valid /\ mode[c] # "disabled" =>
                cache'[c][w].data[i] =
                    IF a = <<cache[c][w].tag, i>> THEN v ELSE cache[c][w].data[i]
  <2> DEFINE way == LocateLine(c, a)
             j == WordOf(a)
  <2>1. a = <<LineOf(a), j>> /\ LineOf(a) \in Lines /\ j \in Words
    BY AddressParts
  <2>2. CASE Bypass(c, asi) \/ way = -1
    <3>1. cache' = cache
      BY <1>2, <2>2 DEF WriteHit
    <3>2. ASSUME NEW w \in Ways, cache[c][w].valid, mode[c] # "disabled"
          PROVE  cache[c][w].tag # LineOf(a)
      <4>1. CASE way = -1
        BY <3>2, <4>1, Located
      <4>2. CASE asi = "bypass"
        BY <3>2, <4>2 DEF BypassRule, Hits
      <4> QED
        BY <2>2, <3>2, <4>1, <4>2 DEF Bypass
    <3>3. ASSUME NEW w \in Ways, NEW i \in Words, cache[c][w].valid, mode[c] # "disabled"
          PROVE  a # <<cache[c][w].tag, i>>
      BY <2>1, <3>2, <3>3
    <3> QED
      BY <1>7, <3>1, <3>3
  <2>3. CASE ~(Bypass(c, asi) \/ way = -1)
    <3>1. cache' = [cache EXCEPT ![c][way].data[j] = v]
      BY <1>2, <2>3 DEF WriteHit
    <3>2. way \in Ways /\ cache[c][way].valid /\ cache[c][way].tag = LineOf(a)
      BY <2>3, Located
    <3> HIDE DEF way, j
    <3> DEFINE line == [cache[c][way] EXCEPT !.data[j] = v]
    <3>3. cache' = [cache EXCEPT ![c] = [cache[c] EXCEPT ![way] = line]]
      BY <3>1
    <3>4. cache[c][way] \in [tag : Lines, valid : BOOLEAN, data : LineData]
      BY <1>7, <3>2
    <3>5. /\ line \in [tag : Lines, valid : BOOLEAN, data : LineData]
          /\ line.tag = LineOf(a) /\ line.valid = cache[c][way].valid
          /\ \A i \in Words : line.data[i] = IF i = j THEN v ELSE cache[c][way].data[i]
      BY <2>1, <3>2, <3>4 DEF LineData
    <3> HIDE DEF line
    <3>6. /\ cache' \in [CPUS -> [Ways -> [tag : Lines, valid : BOOLEAN, data : LineData]]]
          /\ \A d \in CPUS : d # c => cache'[d] = cache[d]
          /\ \A w \in Ways : cache'[c][w] = IF w = way THEN line ELSE cache[c][w]
      BY <1>7, <3>2, <3>3, <3>5
    <3>7. ASSUME NEW w \in Ways, NEW i \in Words, cache[c][w].valid
          PROVE  cache'[c][w].data[i] = IF a = <<cache[c][w].tag, i>> THEN v ELSE cache[c][w].data[i]
      <4>1. CASE w = way
        <5>1. a = <<cache[c][w].tag, i>> <=> i = j
          BY <2>1, <3>2, <4>1
        <5> QED
          BY <3>5, <3>6, <4>1, <5>1
      <4>2. CASE w # way
        <5>1. cache[c][w].tag # LineOf(a)
          BY <1>1, <3>2, <3>7, <4>2 DEF OneWay
        <5>2. a # <<cache[c][w].tag, i>>
          BY <2>1, <5>1
        <5> QED
          BY <3>6, <4>2, <5>2
      <4> QED
        BY <4>1, <4>2
    <3>8. \A w \in Ways : cache'[c][w].tag = cache[c][w].tag /\ cache'[c][w].valid = cache[c][w].valid
      BY <3>2, <3>5, <3>6
    <3> QED
      BY <3>6, <3>7, <3>8
  <2> QED
    BY <2>2, <2>3
<1>11. CTypeOK'
  BY <1>1, <1>2, <1>6, <1>8, <1>9, <1>10, BusSame DEF CTypeOK, CpuStates
<1>12. ASSUME NEW d \in CPUS, d # c PROVE Local(d)' /\ Posted(d)' = Posted(d)
  <2>1. Same(d) /\ committed' = committed
    BY <1>2, <1>6, <1>8, <1>9, <1>10, <1>12 DEF Same, ltvars
  <2> QED
    BY <2>1, SamePosted, SameLocal, CInvParts DEF Same
\* No posted write has the slot that is written.
<1>13. /\ trans[c].kind = "write" => trans[c].slot \in Slots /\ trans[c].slot # p
       /\ InFifo(c).kind = "write" => InFifo(c).slot \in Slots /\ InFifo(c).slot # p
  <2>1. /\ trans[c].kind = "write" => trans[c].slot \in Slots
        /\ InFifo(c).kind = "write" => InFifo(c).slot \in Slots
    BY <1>3, PayloadKinds
  <2>2. /\ InFifo(c).kind = "write" => NextSlot(InFifo(c).slot) = p
        /\ trans[c].kind = "write" =>
            NextSlot(trans[c].slot) = IF InFifo(c).kind = "write" THEN InFifo(c).slot ELSE p
    BY <1>1, <1>3 DEF SlotsInOrder, Follows, SlotOr, None
  <2> QED
    BY <2>1, <2>2, NextSlotFacts
<1>14. Posted(c)' = Append(Posted(c), e)
  <2>1. Word(c, trans[c])' = Word(c, trans[c])
    BY <1>2, <1>8, <1>13 DEF Word
  <2>2. /\ Word(c, trans[c]) \in Seq(Stores) /\ Word(c, InFifo(c)) \in Seq(Stores)
        /\ Posted(c) = Word(c, trans[c]) \o Word(c, InFifo(c)) /\ Posted(c) \in Seq(Stores)
        /\ Word(c, None) = <<>>
    <3>1. Word(c, None) = <<>>
      BY DEF Word, None
    <3>2. Word(c, trans[c]) \o Word(c, InFifo(c)) \in Seq(Stores)
      BY <1>1, PostedTyped, ConcatProperties
    <3> QED
      BY <1>1, <1>3, <3>1, <3>2, PostedTyped, ConcatEmptySeq DEF Posted
  <2>3. Append(Posted(c), e) = Posted(c) \o <<e>>
    BY <1>5, <2>2, AppendIsConcat
  <2>4. <<e>> \in Seq(Stores)
    BY <1>5
  <2>5. CASE fifo[c] = <<>>
    <3>1. Word(c, InFifo(c))' = <<e>> /\ Word(c, ToPut(c))' = <<>>
      BY <1>4, <1>6, <1>8, <2>5 DEF Word, None
    <3>2. Posted(c)' = (Word(c, trans[c]) \o <<e>>) \o <<>>
      BY <2>1, <3>1 DEF Posted
    <3>3. Posted(c) = Word(c, trans[c])
      BY <1>3, <2>2, <2>5, ConcatEmptySeq
    <3> QED
      BY <2>2, <2>3, <2>4, <3>2, <3>3, ConcatProperties, ConcatEmptySeq
  <2>6. CASE fifo[c] # <<>>
    <3>1. Word(c, InFifo(c))' = Word(c, InFifo(c)) /\ Word(c, ToPut(c))' = <<e>>
      BY <1>4, <1>6, <1>8, <1>13, <2>6 DEF Word
    <3>2. Posted(c)' = (Word(c, trans[c]) \o Word(c, InFifo(c))) \o <<e>>
      BY <2>1, <3>1 DEF Posted
    <3> QED
      BY <2>2, <2>3, <3>2
  <2> QED
    BY <2>5, <2>6
<1>15. Local(c)'
  <2>1. ThreadOf(c)'
    BY <1>1, <1>2 DEF ThreadOf, ltvars
  <2>2. ReadsLast(c)'
    BY <1>1, <1>2, <1>3, <1>4, <1>6 DEF ReadsLast, Run
  <2>3. ReadIsCurrent(c)' /\ FillsOneWay(c)'
    BY <1>4, <1>6 DEF ReadIsCurrent, FillsOneWay, Missing, Run
  <2>4. SlotsInOrder(c)'
    <3>1. /\ Follows(InFifo(c), p) /\ Follows(trans[c], SlotOr(InFifo(c), p))
      BY <1>1, <1>3 DEF SlotsInOrder, SlotOr, None
    <3>2. Follows(t, NextSlot(p)) /\ \A q : SlotOr(t, q) = p /\ Follows(None, q) /\ SlotOr(None, q) = q
      BY <1>4 DEF Follows, SlotOr, None
    <3>3. CASE fifo[c] = <<>>
      <4>1. Follows(trans[c], p)
        BY <1>3, <3>1, <3>2, <3>3
      <4> QED
        BY <1>2, <1>6, <1>9, <3>2, <3>3, <4>1 DEF SlotsInOrder, Follows, SlotOr
    <3>4. CASE fifo[c] # <<>>
      BY <1>2, <1>6, <1>9, <3>1, <3>2, <3>4 DEF SlotsInOrder, Follows, SlotOr
    <3> QED
      BY <3>3, <3>4
  <2>5. OneWay(c)'
    BY <1>1, <1>10 DEF OneWay
  <2>6. CacheIsCurrent(c)'
    <3> SUFFICES ASSUME NEW w \in Ways, NEW i \in Words, cache'[c][w].valid, mode'[c] # "disabled"
                 PROVE  cache'[c][w].data[i] =
                            Latest(Posted(c)', committed', <<cache'[c][w].tag, i>>)
      BY DEF CacheIsCurrent
    <3> DEFINE b == <<cache[c][w].tag, i>>
    <3>1. cache[c][w].valid /\ mode[c] # "disabled" /\ cache'[c][w].tag = cache[c][w].tag
      BY <1>2, <1>10
    <3>2. cache'[c][w].data[i] = IF a = b THEN v ELSE cache[c][w].data[i]
      BY <1>10, <3>1
    <3>3. cache[c][w].data[i] = Latest(Posted(c), committed, b)
      BY <1>1, <3>1 DEF CacheIsCurrent
    <3>4. Posted(c) \in Seq(Stores)
      BY <1>1, PostedTyped
    <3>5. Latest(Append(Posted(c), e), committed, b) =
            IF e.addr = b THEN e.value ELSE Latest(Posted(c), committed, b)
      BY <1>5, <3>4, LatestAppend
    <3> QED
      BY <1>2, <1>14, <3>1, <3>2, <3>3, <3>5
  <2> QED
    BY <2>1, <2>2, <2>3, <2>4, <2>5, <2>6 DEF Local
<1>16. IInv' /\ LockOfTransfer' /\ Ahead'
  <2>1. \A d \in CPUS : Writing(d) => write_buf'[d][trans[d].slot] = write_buf[d][trans[d].slot]
    BY <1>8, <1>13 DEF Writing
  <2> QED
    BY <1>1, <1>2, <2>1, BusSame, LockSame, AheadSame DEF ltvars
<1> QED
  BY <1>11, <1>12, <1>14, <1>15, <1>16 DEF CInv

\* What update_line leaves in the cache.
LEMMA UpdateLineEffect ==
    ASSUME CTypeOK, NEW c \in CPUS, NEW w \in Ways, NEW line \in Lines, NEW data \in LineData,
           UpdateLine(c, w, line, data)
    PROVE  /\ cache' \in [CPUS -> [Ways -> [tag : Lines, valid : BOOLEAN, data : LineData]]]
           /\ \A d \in CPUS : d # c => cache'[d] = cache[d]
           /\ cache'[c][w] = [tag |-> line, valid |-> TRUE, data |-> data]
           /\ \A v \in Ways : v # w => cache'[c][v] = cache[c][v]
<1> DEFINE new == [tag |-> line, valid |-> TRUE, data |-> data]
<1>1. cache \in [CPUS -> [Ways -> [tag : Lines, valid : BOOLEAN, data : LineData]]]
  BY DEF CTypeOK
<1>2. new \in [tag : Lines, valid : BOOLEAN, data : LineData]
  OBVIOUS
<1>3. cache' = [cache EXCEPT ![c][w] = new]
  BY DEF UpdateLine
<1> HIDE DEF new
<1>4. /\ cache' \in [CPUS -> [Ways -> [tag : Lines, valid : BOOLEAN, data : LineData]]]
      /\ \A d \in CPUS : d # c => cache'[d] = cache[d]
      /\ cache'[c][w] = new
      /\ \A v \in Ways : v # w => cache'[c][v] = cache[c][v]
  BY <1>1, <1>2, <1>3
<1> QED
  BY <1>4 DEF new

\* The read is over: the load returns what every processor sees, and the line goes into
\* the only way that may hold it.
LEMMA FillStep ==
    ASSUME CInv, NEW c \in CPUS, Fill(c)
    PROVE  /\ CInv' /\ \A d \in CPUS : Posted(d)' = Posted(d)
           /\ cpu[c].trans.addr \in Addresses
           /\ result' = [result EXCEPT ![c] = Latest(Posted(c), committed, cpu[c].trans.addr)]
<1> DEFINE t == cpu[c].trans
           data == cpu[c].data
           line == LineOf(t.addr)
           i == WordOf(t.addr)
           s == IF t.next = -1 THEN Run ELSE [pc |-> "store", addr |-> t.addr, value |-> t.next]
<1>1. /\ CTypeOK /\ IInv /\ LockOfTransfer /\ Ahead /\ Local(c) /\ Places(c)
      /\ ThreadOf(c) /\ ReadsLast(c) /\ ReadIsCurrent(c) /\ SlotsInOrder(c)
      /\ OneWay(c) /\ FillsOneWay(c) /\ CacheIsCurrent(c)
  BY CInvParts
<1>2. /\ cpu[c].pc = "done"
      /\ \/ t.cached /\ t.way # -1 /\ UpdateLine(c, t.way, line, data)
         \/ t.cached /\ t.way = -1 /\ AllocateLine(c, line, data)
         \/ UNCHANGED cache
      /\ result' = [result EXCEPT ![c] = data[i]]
      /\ cpu' = [cpu EXCEPT ![c] = s]
      /\ UNCHANGED <<ltvars, memory, mode, fifo, trans, write_buf, wb_pointer, committed>>
  BY DEF Fill, Loaded
<1>3. /\ t \in Read /\ data \in LineData /\ trans[c] = None /\ fifo[c] = <<>>
      /\ InFifo(c) = None /\ ToPut(c) = None
  BY <1>1, <1>2, CpuStateFields DEF Places, ReadsLast
<1>4. /\ t \in Payload /\ t.kind = "read" /\ t.addr \in Addresses
      /\ t.way \in Ways \cup {-1} /\ t.next \in Values \cup {-1}
      /\ line \in Lines /\ i \in Words /\ t.addr = <<line, i>>
  <2>1. t.kind = "read" /\ t.addr \in Addresses /\ t.way \in Ways \cup {-1} /\ t.next \in Values \cup {-1}
    BY <1>3 DEF Read
  <2> QED
    BY <1>3, <2>1, AddressParts DEF Payload
<1>5. s \in CpuStates /\ s.pc \in {"run", "store"}
  BY <1>4, CpuStatesMade DEF Run
<1> HIDE DEF s
<1>6. /\ cpu' \in [CPUS -> CpuStates] /\ cpu'[c] = s
      /\ \A d \in CPUS : d # c => cpu'[d] = cpu[d]
  <2>1. cpu \in [CPUS -> CpuStates]
    BY <1>1 DEF CTypeOK, CpuStates
  <2> QED
    BY <1>2, <1>5, <2>1
<1>7. data[i] \in Values /\ \A j \in Words : data[j] = committed[<<line, j>>]
  BY <1>1, <1>2, <1>3, <1>4 DEF LineData, ReadIsCurrent
<1> HIDE DEF data, i
\* The cache is as it was, or has the line in one way and nowhere else.
<1>8. \/ cache' = cache
      \/ \E w \in Ways : /\ UpdateLine(c, w, line, data)
                         /\ \A v \in Ways : cache[c][v].valid /\ cache[c][v].tag = line => v = w
  <2>1. t.cached => \A v \in Ways : cache[c][v].valid /\ cache[c][v].tag = line => v = t.way
    BY <1>1, <1>2, <1>4 DEF FillsOneWay, Missing
  <2>2. CASE t.cached /\ t.way # -1 /\ UpdateLine(c, t.way, line, data)
    BY <1>4, <2>1, <2>2
  <2>3. CASE t.cached /\ t.way = -1 /\ AllocateLine(c, line, data)
    <3>1. \A v \in Ways : ~(cache[c][v].valid /\ cache[c][v].tag = line)
      <4>1. -1 \notin Ways
        BY CoherenceAssumption DEF Ways
      <4> QED
        BY <2>1, <2>3, <4>1
    <3>2. \E w \in Ways : UpdateLine(c, w, line, data)
      <4> DEFINE invalid == {w \in Ways : ~cache[c][w].valid}
      <4>1. CASE invalid # {}
        <5>1. Min(invalid) \in Ways
          BY <4>1, MinWay
        <5> QED
          BY <2>3, <4>1, <5>1 DEF AllocateLine
      <4>2. CASE invalid = {}
        BY <2>3, <4>2 DEF AllocateLine
      <4> QED
        BY <4>1, <4>2
    <3> QED
      BY <3>1, <3>2
  <2> QED
    BY <1>2, <2>2, <2>3
<1>9. cache \in [CPUS -> [Ways -> [tag : Lines, valid : BOOLEAN, data : LineData]]]
  BY <1>1 DEF CTypeOK
<1>10. \/ cache' = cache
       \/ \E w \in Ways :
            /\ cache' \in [CPUS -> [Ways -> [tag : Lines, valid : BOOLEAN, data : LineData]]]
            /\ \A d \in CPUS : d # c => cache'[d] = cache[d]
            /\ cache'[c][w] = [tag |-> line, valid |-> TRUE, data |-> data]
            /\ \A v \in Ways : v # w => cache'[c][v] = cache[c][v]
            /\ \A v \in Ways : cache[c][v].valid /\ cache[c][v].tag = line => v = w
  BY <1>1, <1>3, <1>4, <1>8, UpdateLineEffect
<1>11. /\ cache' \in [CPUS -> [Ways -> [tag : Lines, valid : BOOLEAN, data : LineData]]]
       /\ \A d \in CPUS : d # c => cache'[d] = cache[d]
  BY <1>9, <1>10
<1>12. CTypeOK'
  BY <1>1, <1>2, <1>6, <1>7, <1>11, BusSame DEF CTypeOK, CpuStates
<1>13. ASSUME NEW d \in CPUS, d # c PROVE Local(d)' /\ Posted(d)' = Posted(d)
  <2>1. Same(d) /\ committed' = committed
    BY <1>2, <1>6, <1>11, <1>13 DEF Same, ltvars
  <2> QED
    BY <2>1, SamePosted, SameLocal, CInvParts DEF Same
<1>14. Posted(c) = <<>> /\ Posted(c)' = <<>>
  <2>1. InFifo(c)' = None /\ ToPut(c)' = None /\ trans'[c] = None
    BY <1>2, <1>3, <1>5, <1>6 DEF InFifo, ToPut
  <2>2. Posted(c) = (<<>> \o <<>>) \o <<>>
    BY <1>3 DEF Posted, Word, None
  <2>3. Posted(c)' = (<<>> \o <<>>) \o <<>>
    BY <2>1 DEF Posted, Word, None
  <2>4. (<<>> \o <<>>) \o <<>> = <<>>
    <3>1. <<>> \in Seq(Stores)
      BY EmptySeq
    <3> QED
      BY <3>1, ConcatEmptySeq
  <2> QED
    BY <2>2, <2>3, <2>4
<1>15. data[i] = Latest(Posted(c), committed, t.addr)
  BY <1>4, <1>7, <1>14, LatestEmpty
<1>16. Local(c)'
  <2>1. ThreadOf(c)'
    BY <1>1, <1>2 DEF ThreadOf, ltvars
  <2>2. ReadsLast(c)' /\ ReadIsCurrent(c)' /\ FillsOneWay(c)'
    BY <1>2, <1>3, <1>5, <1>6 DEF ReadsLast, ReadIsCurrent, FillsOneWay, Missing, InFifo, None
  <2>3. SlotsInOrder(c)'
    BY <1>2, <1>3, <1>5, <1>6 DEF SlotsInOrder, Follows, InFifo, ToPut, None
  <2>4. CASE cache' = cache
    <3>1. OneWay(c)' /\ CacheIsCurrent(c)'
      BY <1>1, <1>2, <1>14, <2>4, CacheSame
    <3> QED
      BY <2>1, <2>2, <2>3, <3>1 DEF Local
  <2>5. ASSUME NEW w \in Ways,
               cache'[c][w] = [tag |-> line, valid |-> TRUE, data |-> data],
               \A v \in Ways : v # w => cache'[c][v] = cache[c][v],
               \A v \in Ways : cache[c][v].valid /\ cache[c][v].tag = line => v = w
        PROVE  Local(c)'
    <3>1. cache'[c][w].tag = line /\ cache'[c][w].data = data
      BY <2>5
    <3>2. OneWay(c)'
      BY <1>1, <2>5, <3>1 DEF OneWay
    <3>3. CacheIsCurrent(c)'
      <4> SUFFICES ASSUME NEW v \in Ways, NEW j \in Words, cache'[c][v].valid, mode'[c] # "disabled"
                   PROVE  cache'[c][v].data[j] =
                              Latest(Posted(c)', committed', <<cache'[c][v].tag, j>>)
        BY DEF CacheIsCurrent
      <4>1. CASE v = w
        <5>1. Latest(<<>>, committed, <<line, j>>) = committed[<<line, j>>]
          BY LatestEmpty
        <5> QED
          BY <1>2, <1>7, <1>14, <3>1, <4>1, <5>1
      <4>2. CASE v # w
        BY <1>1, <1>2, <1>14, <2>5, <4>2 DEF CacheIsCurrent
      <4> QED
        BY <4>1, <4>2
    <3> QED
      BY <2>1, <2>2, <2>3, <3>2, <3>3 DEF Local
  <2> QED
    BY <1>10, <2>4, <2>5
<1>17. IInv' /\ LockOfTransfer' /\ Ahead'
  BY <1>1, <1>2, BusSame, LockSame, AheadSame DEF ltvars
<1>18. result' = [result EXCEPT ![c] = Latest(Posted(c), committed, t.addr)]
  BY <1>2, <1>15
<1> QED
  BY <1>4, <1>12, <1>13, <1>14, <1>16, <1>17, <1>18 DEF CInv

\* A flush, and a change of the cache control register that flushes when it must.
LEMMA FlushStep ==
    ASSUME CInv, NEW c \in CPUS, cpu[c].pc = "run",
           UNCHANGED <<ltvars, memory, cpuvars, trans, committed>>,
           mode' \in [CPUS -> {"disabled", "frozen", "enabled"}],
           \A d \in CPUS : d # c => mode'[d] = mode[d],
           \/ cache' = [cache EXCEPT ![c] = Flushed(c)]
           \/ cache' = cache /\ (mode[c] = "disabled" => mode'[c] = "disabled")
    PROVE  CInv' /\ \A d \in CPUS : Posted(d)' = Posted(d)
<1>1. /\ CTypeOK /\ IInv /\ LockOfTransfer /\ Ahead /\ Local(c) /\ Places(c)
      /\ ThreadOf(c) /\ ReadsLast(c) /\ ReadIsCurrent(c) /\ SlotsInOrder(c)
      /\ OneWay(c) /\ FillsOneWay(c) /\ CacheIsCurrent(c)
  BY CInvParts
<1>2. cache \in [CPUS -> [Ways -> [tag : Lines, valid : BOOLEAN, data : LineData]]]
  BY <1>1 DEF CTypeOK
<1>3. /\ cache' \in [CPUS -> [Ways -> [tag : Lines, valid : BOOLEAN, data : LineData]]]
      /\ \A d \in CPUS : d # c => cache'[d] = cache[d]
      /\ \A w \in Ways : cache'[c][w].valid =>
            cache'[c][w] = cache[c][w] /\ (mode[c] = "disabled" => mode'[c] = "disabled")
  <2>1. CASE cache' = cache /\ (mode[c] = "disabled" => mode'[c] = "disabled")
    BY <1>2, <2>1
  <2>2. CASE cache' = [cache EXCEPT ![c] = Flushed(c)]
    <3>1. /\ Flushed(c) \in [Ways -> [tag : Lines, valid : BOOLEAN, data : LineData]]
          /\ \A w \in Ways : Flushed(c)[w].valid = FALSE
      <4>1. \A w \in Ways : cache[c][w] \in [tag : Lines, valid : BOOLEAN, data : LineData]
        BY <1>2
      <4>2. \A w \in Ways :
                /\ [cache[c][w] EXCEPT !.valid = FALSE] \in [tag : Lines, valid : BOOLEAN, data : LineData]
                /\ [cache[c][w] EXCEPT !.valid = FALSE].valid = FALSE
        BY <4>1
      <4> QED
        BY <4>2 DEF Flushed
    <3> QED
      BY <1>2, <2>2, <3>1
  <2> QED
    BY <2>1, <2>2
<1>4. CTypeOK'
  BY <1>1, <1>3, BusSame DEF CTypeOK, cpuvars
<1>5. ASSUME NEW d \in CPUS, d # c PROVE Local(d)' /\ Posted(d)' = Posted(d)
  <2>1. Same(d) /\ committed' = committed
    BY <1>3, <1>5 DEF Same, ltvars, cpuvars
  <2> QED
    BY <2>1, SamePosted, SameLocal, CInvParts DEF Same
<1>6. Posted(c)' = Posted(c)
  BY SamePosted DEF cpuvars
<1>7. Local(c)'
  <2>1. ThreadOf(c)' /\ ReadsLast(c)' /\ ReadIsCurrent(c)' /\ FillsOneWay(c)'
    BY <1>1 DEF ThreadOf, ReadsLast, ReadIsCurrent, FillsOneWay, Missing, InFifo, ltvars, cpuvars
  <2>2. SlotsInOrder(c)'
    BY <1>1 DEF SlotsInOrder, InFifo, ToPut, cpuvars
  <2>3. OneWay(c)'
    BY <1>1, <1>3 DEF OneWay
  <2>4. CacheIsCurrent(c)'
    BY <1>1, <1>3, <1>6 DEF CacheIsCurrent
  <2> QED
    BY <2>1, <2>2, <2>3, <2>4 DEF Local
<1>8. IInv' /\ LockOfTransfer' /\ Ahead'
  BY <1>1, BusSame, LockSame, AheadSame DEF ltvars, cpuvars
<1> QED
  BY <1>4, <1>5, <1>6, <1>7, <1>8 DEF CInv

\* mem_access takes the payload out of the FIFO and polls for the bus.
LEMMA MemAccessStep ==
    ASSUME CInv, NEW c \in CPUS, MemAccess(c)
    PROVE  CInv' /\ \A d \in CPUS : Posted(d)' = Posted(d)
<1> DEFINE t == Head(fifo[c])
           access == [addr |-> 0, write |-> t.kind = "write", lock |-> t.lock]
<1>1. /\ CTypeOK /\ IInv /\ LockOfTransfer /\ Ahead /\ Local(c) /\ Places(c)
      /\ ThreadOf(c) /\ ReadsLast(c) /\ ReadIsCurrent(c) /\ SlotsInOrder(c)
      /\ OneWay(c) /\ FillsOneWay(c) /\ CacheIsCurrent(c)
  BY CInvParts
<1>2. /\ trans[c] = None /\ fifo[c] # <<>>
      /\ trans' = [trans EXCEPT ![c] = t]
      /\ Request(c, access)
      /\ fifo' = [fifo EXCEPT ![c] = Tail(@)]
      /\ UNCHANGED <<memory, cache, mode, cpu, write_buf, wb_pointer, result, committed>>
  BY DEF MemAccess
<1>3. t = InFifo(c) /\ fifo[c] = <<t>> /\ t \in Read \cup Write /\ t \in Payload
  BY <1>1, <1>2 DEF InFifo, Places
<1>4. t # None /\ t.lock \in BOOLEAN
  <2>1. t # None
    BY <1>3 DEF Read, Write, None
  <2> QED
    BY <1>3, <2>1, PayloadKinds
<1> HIDE DEF t
<1>5. access \in Accesses
  BY <1>4, CoherenceAssumption
<1>6. IInv'
  BY <1>1, <1>2, <1>5, RequestIInv DEF CPUS
<1>7. /\ trans \in [CPUS -> Read \cup Write \cup {None}]
      /\ fifo \in [CPUS -> Seq(Read \cup Write)] /\ \A d \in CPUS : Len(fifo[d]) =< FIFO
      /\ DOMAIN thread = CPUS /\ FIFO = 1
  BY <1>1, CoherenceAssumption DEF CTypeOK, TypeOK, CPUS
<1>8. /\ trans' \in [CPUS -> Read \cup Write \cup {None}] /\ trans'[c] = t
      /\ \A d \in CPUS : d # c => trans'[d] = trans[d]
  BY <1>2, <1>3, <1>7
<1>9. /\ fifo' \in [CPUS -> Seq(Read \cup Write)] /\ fifo'[c] = <<>>
      /\ \A d \in CPUS : d # c => fifo'[d] = fifo[d]
      /\ \A d \in CPUS : Len(fifo'[d]) =< FIFO
  <2>1. Tail(<<t>>) = <<>> /\ <<>> \in Seq(Read \cup Write) /\ Len(<<>>) = 0
    BY EmptySeq
  <2>2. fifo' = [fifo EXCEPT ![c] = <<>>]
    BY <1>2, <1>3, <2>1
  <2>3. /\ fifo' \in [CPUS -> Seq(Read \cup Write)] /\ fifo'[c] = <<>>
        /\ \A d \in CPUS : d # c => fifo'[d] = fifo[d]
    BY <1>7, <2>1, <2>2
  <2>4. ASSUME NEW d \in CPUS PROVE Len(fifo'[d]) =< FIFO
    <3>1. CASE d = c
      BY <1>7, <2>1, <2>3, <3>1
    <3>2. CASE d # c
      BY <1>7, <2>3, <3>2
    <3> QED
      BY <3>1, <3>2
  <2> QED
    BY <2>3, <2>4
<1>10. /\ thread[c].pc = "idle" /\ thread'[c] = [pc |-> "poll", access |-> access]
       /\ \A d \in CPUS : d # c => thread'[d] = thread[d]
       /\ UNCHANGED <<busy, is_lock, lock_master>>
  BY <1>2, <1>7 DEF Request
<1>11. CTypeOK'
  <2>1. TypeOK'
    BY <1>6 DEF IInv
  <2> QED
    BY <1>1, <1>2, <1>8, <1>9, <2>1 DEF CTypeOK
<1>12. ASSUME NEW d \in CPUS, d # c PROVE Local(d)' /\ Posted(d)' = Posted(d)
  <2>1. Same(d) /\ committed' = committed
    BY <1>2, <1>8, <1>9, <1>10, <1>12 DEF Same
  <2> QED
    BY <2>1, SamePosted, SameLocal, CInvParts DEF Same
<1>13. InFifo(c)' = None /\ ToPut(c)' = ToPut(c)
  BY <1>2, <1>9 DEF InFifo, ToPut
<1>14. Posted(c)' = Posted(c)
  <2>1. Word(c, trans[c]) = <<>> /\ Word(c, InFifo(c))' = <<>>
    BY <1>2, <1>13 DEF Word, None
  <2>2. Word(c, trans[c])' = Word(c, t) /\ Word(c, ToPut(c))' = Word(c, ToPut(c))
    BY <1>2, <1>8, <1>13 DEF Word
  <2>3. Word(c, t) \in Seq(Stores)
    BY <1>1, <1>3, PostedTyped
  <2>4. Posted(c) = (<<>> \o Word(c, t)) \o Word(c, ToPut(c))
    BY <1>3, <2>1 DEF Posted
  <2>5. Posted(c)' = (Word(c, t) \o <<>>) \o Word(c, ToPut(c))
    BY <2>1, <2>2 DEF Posted
  <2> QED
    BY <2>3, <2>4, <2>5, ConcatEmptySeq
<1>15. Local(c)'
  <2>1. ThreadOf(c)'
    BY <1>4, <1>8, <1>10 DEF ThreadOf
  <2>2. ReadsLast(c)'
    BY <1>1, <1>2, <1>3, <1>8, <1>9, <1>13 DEF ReadsLast, None
  <2>3. ReadIsCurrent(c)' /\ FillsOneWay(c)'
    BY <1>1, <1>2 DEF ReadIsCurrent, FillsOneWay, Missing
  <2>4. SlotsInOrder(c)'
    BY <1>1, <1>2, <1>3, <1>8, <1>13 DEF SlotsInOrder, Follows, SlotOr, None
  <2>5. OneWay(c)' /\ CacheIsCurrent(c)'
    BY <1>1, <1>2, <1>14, CacheSame
  <2> QED
    BY <2>1, <2>2, <2>3, <2>4, <2>5 DEF Local
<1>16. \A d \in CPUS : (Carried(d)' <=> Carried(d)) /\ (Carried(d) => trans'[d] = trans[d])
  BY <1>8, <1>10 DEF Carried
<1>17. LockOfTransfer'
  BY <1>1, <1>10, <1>16 DEF LockOfTransfer
<1>18. Ahead'
  <2>1. \A d \in CPUS : Writing(d)' <=> Writing(d)
    BY <1>16 DEF Writing
  <2>2. \A d \in CPUS : Writing(d) => trans'[d] = trans[d]
    BY <1>16 DEF Writing
  <2> QED
    BY <1>1, <1>2, <2>1, <2>2 DEF Ahead
<1> QED
  BY <1>6, <1>11, <1>12, <1>14, <1>15, <1>17, <1>18 DEF CInv

\* The access starts: the memory has the word, and nobody but its writer sees it yet.
LEMMA BusStartStep ==
    ASSUME CInv, NEW c \in CPUS, BusStart(c)
    PROVE  CInv' /\ \A d \in CPUS : Posted(d)' = Posted(d)
<1> DEFINE t == trans[c]
           value == write_buf[c][t.slot]
<1>1. /\ CTypeOK /\ IInv /\ LockOfTransfer /\ Ahead /\ Local(c) /\ Places(c)
      /\ ThreadOf(c) /\ ReadsLast(c) /\ ReadIsCurrent(c) /\ SlotsInOrder(c)
      /\ OneWay(c) /\ FillsOneWay(c) /\ CacheIsCurrent(c)
  BY CInvParts
<1>2. /\ Start(c)
      /\ memory' = IF t.kind = "write" THEN [memory EXCEPT ![t.addr] = value] ELSE memory
      /\ UNCHANGED <<cache, mode, cpuvars, trans, committed>>
  BY DEF BusStart
<1>3. /\ thread[c].pc = "poll" /\ ~busy
      /\ is_lock' = thread[c].access.lock /\ lock_master' = c
      /\ thread'[c].pc = "transfer" /\ thread'[c].access = thread[c].access
      /\ \A d \in CPUS : d # c => thread'[d] = thread[d]
  <2>1. c \in DOMAIN thread /\ \A d \in CPUS : d \in DOMAIN thread
    BY <1>1 DEF CTypeOK, TypeOK, CPUS
  <2> QED
    BY <1>2, <2>1 DEF Start, Free, Lock
<1>4. IInv'
  BY <1>1, <1>2, StartIInv DEF CPUS
<1>5. t # None /\ is_lock' = t.lock /\ t \in Payload
  BY <1>1, <1>3 DEF ThreadOf, Places
<1>6. t.kind = "write" => t.addr \in Addresses /\ value \in Values
  <2>1. t.kind = "write" => t.addr \in Addresses /\ t.slot \in Slots
    BY <1>5, PayloadKinds
  <2> QED
    BY <1>1, <2>1 DEF Places
<1>7. CTypeOK'
  <2>1. TypeOK'
    BY <1>4 DEF IInv
  <2>2. memory' \in [Addresses -> Values]
    BY <1>1, <1>2, <1>6 DEF CTypeOK
  <2> QED
    BY <1>1, <1>2, <2>1, <2>2 DEF CTypeOK, cpuvars
<1>8. \A d \in CPUS : Posted(d)' = Posted(d)
  BY <1>2, SamePosted DEF cpuvars
<1>9. ASSUME NEW d \in CPUS, d # c PROVE Local(d)'
  <2>1. Same(d) /\ committed' = committed
    BY <1>2, <1>3, <1>9 DEF Same, cpuvars
  <2> QED
    BY <2>1, SameLocal, CInvParts
<1>10. Local(c)'
  <2>1. ThreadOf(c)'
    BY <1>1, <1>2, <1>3, <1>5 DEF ThreadOf
  <2>2. ReadsLast(c)' /\ ReadIsCurrent(c)' /\ FillsOneWay(c)'
    BY <1>1, <1>2 DEF ReadsLast, ReadIsCurrent, FillsOneWay, Missing, InFifo, cpuvars
  <2>3. SlotsInOrder(c)'
    BY <1>1, <1>2 DEF SlotsInOrder, InFifo, ToPut, cpuvars
  <2>4. OneWay(c)' /\ CacheIsCurrent(c)'
    BY <1>1, <1>2, <1>8, CacheSame
  <2> QED
    BY <2>1, <2>2, <2>3, <2>4 DEF Local
<1>11. \A d \in CPUS : ~Carried(d) /\ (Carried(d)' <=> d = c)
  <2>1. \A d \in CPUS : ~Carried(d)
    BY <1>1, <1>3 DEF IInv, OneTransfer, CPUS
  <2> QED
    BY <1>3, <2>1 DEF Carried
<1>12. LockOfTransfer'
  BY <1>2, <1>3, <1>5, <1>11 DEF LockOfTransfer
<1>13. memory = committed
  BY <1>1, <1>11 DEF Ahead, Writing
<1>14. Ahead'
  <2>1. \A d \in CPUS : Writing(d)' <=> d = c /\ t.kind = "write"
    BY <1>2, <1>11 DEF Writing
  <2>2. t.kind = "write" => memory' = [committed EXCEPT ![t.addr] = value]
    BY <1>2, <1>13
  <2>3. t.kind # "write" => memory' = committed
    BY <1>2, <1>13
  <2> QED
    BY <1>2, <2>1, <2>2, <2>3 DEF Ahead, cpuvars
<1> QED
  BY <1>4, <1>7, <1>8, <1>9, <1>10, <1>12, <1>14 DEF CInv

\* The access is over.  A read has found what every processor sees.  A write becomes
\* visible to all processors, and the caches of the others have not kept its line.
LEMMA BusFinishStep ==
    ASSUME CInv, NEW c \in CPUS, BusFinish(c)
    PROVE  /\ CInv' /\ \A d \in CPUS : d # c => Posted(d)' = Posted(d)
           /\ trans[c].kind # "write" => committed' = committed /\ Posted(c)' = Posted(c)
           /\ trans[c].kind = "write" =>
                \E e \in Stores : /\ Posted(c) = <<e>> \o Posted(c)' /\ Posted(c)' \in Seq(Stores)
                                  /\ committed' = [committed EXCEPT ![e.addr] = e.value]
<1> DEFINE t == trans[c]
           e == [addr |-> t.addr, value |-> write_buf[c][t.slot]]
           line == LineOf(t.addr)
           found == [i \in Words |-> memory[<<line, i>>]]
<1>1. /\ CTypeOK /\ IInv /\ LockOfTransfer /\ Ahead /\ Local(c) /\ Places(c)
      /\ ThreadOf(c) /\ ReadsLast(c) /\ ReadIsCurrent(c) /\ SlotsInOrder(c)
      /\ OneWay(c) /\ FillsOneWay(c) /\ CacheIsCurrent(c)
  BY CInvParts
<1>2. /\ \A d \in CPUS : cpu[d].pc # "done"
      /\ Finish(c)
      /\ trans' = [trans EXCEPT ![c] = None]
      /\ committed' = memory
      /\ IF t.kind = "write" THEN Snoop(c, line) /\ UNCHANGED cpu
         ELSE cpu' = [cpu EXCEPT ![c] = [pc |-> "done", trans |-> t, data |-> found]] /\ UNCHANGED cache
      /\ write_buf' = IF t.kind = "write" THEN [write_buf EXCEPT ![c][t.slot] = 0] ELSE write_buf
      /\ UNCHANGED <<memory, mode, fifo, wb_pointer, result>>
  BY DEF BusFinish, TimePassed
<1>3. /\ Carried(c) /\ thread'[c] = Idle
      /\ \A d \in CPUS : d # c => thread'[d] = thread[d]
  <2>1. \A d \in CPUS : d \in DOMAIN thread
    BY <1>1 DEF CTypeOK, TypeOK, CPUS
  <2> QED
    BY <1>2, <2>1 DEF Finish, Carried
<1>4. \A d \in CPUS : Carried(d) => d = c
  BY <1>1, <1>3 DEF IInv, OneTransfer, CPUS
<1>5. IInv'
  BY <1>1, <1>2, FinishIInv DEF CPUS
<1>6. /\ trans \in [CPUS -> Read \cup Write \cup {None}]
      /\ cpu \in [CPUS -> CpuStates]
      /\ write_buf \in [CPUS -> [Slots -> Values]]
      /\ memory \in [Addresses -> Values] /\ committed \in [Addresses -> Values]
      /\ cache \in [CPUS -> [Ways -> [tag : Lines, valid : BOOLEAN, data : LineData]]]
  BY <1>1 DEF CTypeOK, CpuStates
<1>7. t \in Payload /\ t # None /\ t.addr \in Addresses /\ t.kind \in {"read", "write"} /\ line \in Lines
  <2>1. t \in Payload /\ t # None
    BY <1>1, <1>3 DEF ThreadOf, Carried, Places
  <2> QED
    BY <2>1, PayloadKinds, AddressParts
<1>8. trans'[c] = None /\ \A d \in CPUS : d # c => trans'[d] = trans[d]
  BY <1>2, <1>6
<1>9. trans' \in [CPUS -> Read \cup Write \cup {None}]
  BY <1>2, <1>6
<1>10. \A d \in CPUS : ~Writing(d)'
  BY <1>3, <1>4 DEF Writing, Carried, Idle
<1>11. LockOfTransfer' /\ Ahead'
  <2>1. \A d \in CPUS : ~Carried(d)'
    BY <1>3, <1>4 DEF Carried, Idle
  <2> QED
    BY <1>2, <1>10, <2>1 DEF LockOfTransfer, Ahead
<1>12. TypeOK'
  BY <1>5 DEF IInv
<1>13. InFifo(c)' = InFifo(c)
  BY <1>2 DEF InFifo
<1>14. ThreadOf(c)'
  BY <1>3, <1>8 DEF ThreadOf, Idle
<1>15. CASE t.kind = "read"
  <2>1. committed' = committed /\ cache' = cache /\ write_buf' = write_buf
    <3>1. \A d \in CPUS : ~Writing(d)
      BY <1>4, <1>15 DEF Writing
    <3> QED
      BY <1>1, <1>2, <1>15, <3>1 DEF Ahead
  <2>2. t \in Read /\ cpu[c].pc = "wait" /\ cpu[c].trans = t /\ fifo[c] = <<>>
    BY <1>1, <1>7, <1>15, PayloadKinds DEF ReadsLast
  <2>3. found \in LineData
    <3>1. \A i \in Words : memory[<<line, i>>] \in Values
      BY <1>6, <1>7, AddressMade
    <3> QED
      BY <3>1 DEF LineData
  <2>4. \A i \in Words : found[i] = memory[<<line, i>>]
    OBVIOUS
  <2>5. cpu' = [cpu EXCEPT ![c] = [pc |-> "done", trans |-> t, data |-> found]]
    BY <1>2, <1>15
  <2> HIDE DEF found
  <2>6. [pc |-> "done", trans |-> t, data |-> found] \in CpuStates
    BY <2>2, <2>3, CpuStatesMade
  <2>7. /\ cpu' \in [CPUS -> CpuStates] /\ cpu'[c] = [pc |-> "done", trans |-> t, data |-> found]
        /\ \A d \in CPUS : d # c => cpu'[d] = cpu[d]
    BY <1>6, <2>5, <2>6
  <2>8. CTypeOK'
    BY <1>1, <1>2, <1>9, <1>12, <2>1, <2>7 DEF CTypeOK, CpuStates
  <2>9. ASSUME NEW d \in CPUS, d # c PROVE Local(d)' /\ Posted(d)' = Posted(d)
    <3>1. Same(d)
      BY <1>2, <1>3, <1>8, <2>1, <2>7, <2>9 DEF Same
    <3> QED
      BY <2>1, <3>1, SamePosted, SameLocal, CInvParts DEF Same
  <2>10. InFifo(c) = None /\ ToPut(c) = None /\ ToPut(c)' = None
    BY <1>1, <2>2, <2>7 DEF Places, ToPut
  <2>11. Posted(c)' = Posted(c)
    <3>1. Posted(c) = (<<>> \o <<>>) \o <<>>
      BY <1>15, <2>10 DEF Posted, Word, None
    <3>2. Posted(c)' = (<<>> \o <<>>) \o <<>>
      BY <1>8, <1>13, <2>10 DEF Posted, Word, None
    <3> QED
      BY <3>1, <3>2
  <2>12. Local(c)'
    <3>1. ReadsLast(c)'
      BY <1>2, <1>8, <1>13, <2>2, <2>7, <2>10 DEF ReadsLast, None
    <3>2. ReadIsCurrent(c)'
      BY <1>2, <2>4, <2>7 DEF ReadIsCurrent
    <3>3. FillsOneWay(c)'
      BY <1>1, <2>1, <2>2, <2>7 DEF FillsOneWay, Missing
    <3>4. SlotsInOrder(c)'
      BY <1>8, <1>13, <2>10 DEF SlotsInOrder, Follows, None
    <3>5. OneWay(c)' /\ CacheIsCurrent(c)'
      BY <1>1, <1>2, <2>1, <2>11, CacheSame
    <3> QED
      BY <1>14, <3>1, <3>2, <3>3, <3>4, <3>5 DEF Local
  <2> QED
    BY <1>5, <1>11, <1>15, <2>1, <2>8, <2>9, <2>11, <2>12 DEF CInv
<1>16. CASE t.kind = "write"
  <2>1. /\ Snoop(c, line) /\ UNCHANGED cpu
        /\ write_buf' = [write_buf EXCEPT ![c][t.slot] = 0]
    BY <1>2, <1>16
  <2>2. t.slot \in Slots
    BY <1>7, <1>16, PayloadKinds
  <2>3. e \in Stores
    BY <1>1, <1>7, <1>16, WordTyped DEF Places
  <2>4. committed' = [committed EXCEPT ![e.addr] = e.value]
    BY <1>1, <1>2, <1>3, <1>16 DEF Ahead, Writing
  <2>5. /\ write_buf' \in [CPUS -> [Slots -> Values]]
        /\ \A s \in Slots : s # t.slot => write_buf'[c][s] = write_buf[c][s]
        /\ \A d \in CPUS : d # c => write_buf'[d] = write_buf[d]
    BY <1>6, <2>1, <2>2, CoherenceAssumption
  \* What the caches of the others keep is not of the line.
  <2>6. /\ cache' \in [CPUS -> [Ways -> [tag : Lines, valid : BOOLEAN, data : LineData]]]
        /\ cache'[c] = cache[c]
        /\ \A d \in CPUS, w \in Ways : cache'[d][w].valid =>
            /\ cache'[d][w] = cache[d][w]
            /\ d # c /\ mode[d] # "disabled" => cache[d][w].tag # line
    <3>1. \A d \in CPUS : cache'[d] = IF d # c /\ mode[d] # "disabled" THEN SnoopInvalidate(d, line)
                                     ELSE cache[d]
      BY <2>1 DEF Snoop
    <3>2. ASSUME NEW d \in CPUS, NEW w \in Ways
          PROVE  /\ SnoopInvalidate(d, line)[w] \in [tag : Lines, valid : BOOLEAN, data : LineData]
                 /\ SnoopInvalidate(d, line)[w].valid =>
                        SnoopInvalidate(d, line)[w] = cache[d][w] /\ cache[d][w].tag # line
      <4>1. cache[d][w] \in [tag : Lines, valid : BOOLEAN, data : LineData]
        BY <1>6
      <4>2. SnoopInvalidate(d, line)[w] = IF cache[d][w].tag = line
                                          THEN [cache[d][w] EXCEPT !.valid = FALSE] ELSE cache[d][w]
        BY DEF SnoopInvalidate
      <4>3. /\ [cache[d][w] EXCEPT !.valid = FALSE] \in [tag : Lines, valid : BOOLEAN, data : LineData]
            /\ [cache[d][w] EXCEPT !.valid = FALSE].valid = FALSE
        BY <4>1
      <4> QED
        BY <4>1, <4>2, <4>3
    <3>3. \A d \in CPUS : SnoopInvalidate(d, line) \in
                              [Ways -> [tag : Lines, valid : BOOLEAN, data : LineData]]
      BY <3>2 DEF SnoopInvalidate
    <3>4. DOMAIN cache' = CPUS /\ cache' = [d \in CPUS |-> cache'[d]]
      BY <2>1 DEF Snoop
    <3>5. \A d \in CPUS : cache'[d] \in [Ways -> [tag : Lines, valid : BOOLEAN, data : LineData]]
      BY <1>6, <3>1, <3>3
    <3>6. cache' \in [CPUS -> [Ways -> [tag : Lines, valid : BOOLEAN, data : LineData]]]
      BY <3>4, <3>5
    <3> QED
      BY <3>1, <3>2, <3>6
  <2>7. CTypeOK'
    BY <1>1, <1>2, <1>9, <1>12, <2>1, <2>5, <2>6 DEF CTypeOK
  <2>8. ToPut(c)' = ToPut(c)
    BY <2>1 DEF ToPut
  \* The slots of the writes behind it are others.
  <2>9. /\ InFifo(c).kind = "write" => InFifo(c).slot \in Slots /\ InFifo(c).slot # t.slot
        /\ ToPut(c).kind = "write" => ToPut(c).slot \in Slots /\ ToPut(c).slot # t.slot
    <3>1. /\ InFifo(c).kind = "write" => InFifo(c).slot \in Slots
          /\ ToPut(c).kind = "write" => ToPut(c).slot \in Slots
      BY <1>1, PayloadKinds DEF Places
    <3>2. /\ InFifo(c).kind = "write" => NextSlot(t.slot) = InFifo(c).slot
          /\ ToPut(c).kind = "write" =>
                /\ InFifo(c).kind = "write" => NextSlot(NextSlot(t.slot)) = ToPut(c).slot
                /\ InFifo(c).kind # "write" => NextSlot(t.slot) = ToPut(c).slot
      BY <1>1, <1>16 DEF SlotsInOrder, Follows, SlotOr
    <3> QED
      BY <2>2, <3>1, <3>2, NextSlotFacts
  <2>10. Posted(c) = <<e>> \o Posted(c)' /\ Posted(c)' \in Seq(Stores)
    <3> DEFINE rest == Word(c, InFifo(c)) \o Word(c, ToPut(c))
    <3>1. Word(c, InFifo(c))' = Word(c, InFifo(c)) /\ Word(c, ToPut(c))' = Word(c, ToPut(c))
      BY <1>13, <2>5, <2>8, <2>9 DEF Word
    <3>2. Word(c, trans[c])' = <<>> /\ Word(c, trans[c]) = <<e>>
      BY <1>8, <1>16 DEF Word, None
    <3>3. /\ Word(c, InFifo(c)) \in Seq(Stores) /\ Word(c, ToPut(c)) \in Seq(Stores)
          /\ rest \in Seq(Stores) /\ Posted(c) = <<e>> \o rest
      BY <1>1, <3>2, PostedTyped, ConcatProperties
    <3>4. Posted(c)' = (<<>> \o Word(c, InFifo(c))) \o Word(c, ToPut(c))
      BY <3>1, <3>2 DEF Posted
    <3>5. Posted(c)' = rest
      BY <3>3, <3>4, ConcatEmptySeq
    <3> QED
      BY <3>3, <3>5
  <2>11. ASSUME NEW d \in CPUS, d # c PROVE Posted(d)' = Posted(d)
    BY <1>2, <1>8, <2>1, <2>5, <2>11, SamePosted
  <2>12. ASSUME NEW d \in CPUS PROVE ThreadOf(d)'
    <3>1. CASE d # c
      <4>1. ThreadOf(d)
        BY CInvParts
      <4> QED
        BY <1>3, <1>8, <3>1, <4>1 DEF ThreadOf
    <3> QED
      BY <1>14, <3>1
  <2>13. ASSUME NEW d \in CPUS PROVE ReadsLast(d)' /\ ReadIsCurrent(d)'
    <3>1. ReadsLast(d) /\ cpu[d].pc # "done"
      BY <1>2, CInvParts
    <3>2. InFifo(d)' = InFifo(d)
      BY <1>2 DEF InFifo
    <3> QED
      BY <1>2, <1>8, <2>1, <3>1, <3>2 DEF ReadsLast, ReadIsCurrent, None
  <2>14. ASSUME NEW d \in CPUS PROVE SlotsInOrder(d)'
    <3>1. SlotsInOrder(d)
      BY CInvParts
    <3>2. InFifo(d)' = InFifo(d) /\ ToPut(d)' = ToPut(d)
      BY <1>2, <2>1 DEF InFifo, ToPut
    <3> QED
      BY <1>2, <1>8, <3>1, <3>2 DEF SlotsInOrder, Follows, None
  <2>15. ASSUME NEW d \in CPUS PROVE OneWay(d)' /\ FillsOneWay(d)'
    <3>1. OneWay(d) /\ FillsOneWay(d)
      BY CInvParts
    <3> QED
      BY <2>1, <2>6, <3>1 DEF OneWay, FillsOneWay, Missing
  <2>16. ASSUME NEW d \in CPUS PROVE CacheIsCurrent(d)'
    <3> SUFFICES ASSUME NEW w \in Ways, NEW i \in Words, cache'[d][w].valid, mode'[d] # "disabled"
                 PROVE  cache'[d][w].data[i] =
                            Latest(Posted(d)', committed', <<cache'[d][w].tag, i>>)
      BY DEF CacheIsCurrent
    <3> DEFINE b == <<cache[d][w].tag, i>>
    <3>1. cache'[d][w] = cache[d][w] /\ cache[d][w].valid /\ mode[d] # "disabled"
      BY <1>2, <2>6
    <3>2. cache[d][w].data[i] = Latest(Posted(d), committed, b)
      BY <3>1, CInvParts DEF CacheIsCurrent
    <3>3. b \in Addresses /\ LineOf(b) = cache[d][w].tag
      BY <1>6, AddressMade
    <3> HIDE DEF b, e
    <3>4. CASE d = c
      <4>1. Latest(Posted(c)', [committed EXCEPT ![e.addr] = e.value], b)
              = Latest(<<e>> \o Posted(c)', committed, b)
        BY <1>6, <2>3, <2>10, <3>3, LatestCommit
      <4> QED
        BY <2>4, <2>10, <3>1, <3>2, <3>4, <4>1 DEF b
    <3>5. CASE d # c
      <4>1. b # e.addr
        BY <2>6, <3>1, <3>3, <3>5 DEF e
      <4>2. committed'[b] = committed[b]
        BY <1>6, <2>4, <3>3, <4>1
      <4>3. Latest(Posted(d), committed', b) = Latest(Posted(d), committed, b)
        BY <4>2, LatestElsewhere
      <4> QED
        BY <2>11, <3>1, <3>2, <3>5, <4>3 DEF b
    <3> QED
      BY <3>4, <3>5
  <2>17. \A d \in CPUS : Local(d)'
    BY <2>12, <2>13, <2>14, <2>15, <2>16 DEF Local
  <2>18. CInv'
    BY <1>5, <1>11, <2>7, <2>17 DEF CInv
  <2> HIDE DEF e
  <2> QED
    BY <1>16, <2>3, <2>4, <2>10, <2>11, <2>18
<1> QED
  BY <1>7, <1>15, <1>16

----------------------------------------------------------------------------
(* The whole system *)

LEMMA CInitCInv == CInit => CInv
<1> SUFFICES ASSUME CInit PROVE CInv
  OBVIOUS
<1>1. IInv
  BY InitIInv DEF CInit
<1>2. CTypeOK
  <2>1. /\ [a \in Addresses |-> 0] \in [Addresses -> Values]
        /\ [i \in Words |-> 0] \in LineData
    BY CoherenceAssumption DEF LineData
  <2>2. [tag |-> 0, valid |-> FALSE, data |-> [i \in Words |-> 0]]
            \in [tag : Lines, valid : BOOLEAN, data : LineData]
    BY <2>1, CoherenceAssumption
  <2>3. cache \in [CPUS -> [Ways -> [tag : Lines, valid : BOOLEAN, data : LineData]]]
    BY <2>2 DEF CInit
  <2>4. /\ cpu \in [CPUS -> CpuStates]
        /\ trans \in [CPUS -> Read \cup Write \cup {None}]
        /\ mode \in [CPUS -> {"disabled", "frozen", "enabled"}]
    BY CpuStatesMade DEF CInit
  <2>5. fifo \in [CPUS -> Seq(Read \cup Write)] /\ \A c \in CPUS : Len(fifo[c]) =< FIFO
    <3>1. <<>> \in Seq(Read \cup Write) /\ Len(<<>>) = 0 /\ FIFO = 1
      BY EmptySeq, CoherenceAssumption
    <3> QED
      BY <3>1 DEF CInit
  <2>6. 0 \in Slots
    BY CoherenceAssumption DEF Slots
  <2>7. /\ write_buf \in [CPUS -> [Slots -> Values]] /\ wb_pointer \in [CPUS -> Slots]
        /\ result \in [CPUS -> Values]
    BY <2>6, CoherenceAssumption DEF CInit
  <2>8. memory \in [Addresses -> Values] /\ committed \in [Addresses -> Values]
    BY <2>1 DEF CInit
  <2> QED
    BY <1>1, <2>3, <2>4, <2>5, <2>7, <2>8 DEF CTypeOK, CpuStates, IInv
<1>3. \A c \in CPUS : /\ thread[c].pc = "idle" /\ trans[c] = None /\ InFifo(c) = None
                      /\ ToPut(c) = None /\ cpu[c].pc = "run" /\ mode[c] = "disabled"
                      /\ \A w \in Ways : ~cache[c][w].valid
  BY DEF CInit, Init, InFifo, ToPut, Run, Idle, CPUS
<1>4. ASSUME NEW c \in CPUS PROVE Local(c)
  BY <1>3 DEF Local, ThreadOf, ReadsLast, ReadIsCurrent, SlotsInOrder, Follows, OneWay,
              FillsOneWay, Missing, CacheIsCurrent, None
<1>5. LockOfTransfer /\ Ahead
  BY <1>3 DEF LockOfTransfer, Ahead, Writing, Carried, CInit
<1> QED
  BY <1>1, <1>2, <1>4, <1>5 DEF CInv

\* What the instructions of a processor ask of the memory.
LEMMA Executes ==
    ASSUME NEW c \in CPUS, NEW i \in Instructions[c], Execute(c, i)
    PROVE  \/ \E a \in Addresses, asi \in {"normal", "miss", "bypass"}, lock \in BOOLEAN,
                 next \in Values \cup {-1} :
                 Load(c, a, asi, lock, next) /\ (lock => next # -1)
           \/ \E a \in Addresses, v \in Values, asi \in {"normal", "bypass"} : Store(c, a, v, asi)
<1>1. i \in Instruction
  BY CoherenceAssumption
<1>2. CASE i \in [op : {"load"}, addr : Addresses, asi : {"normal", "miss", "bypass"}]
  <2>1. Load(c, i.addr, i.asi, FALSE, -1)
    BY <1>2 DEF Execute
  <2> QED
    BY <1>2, <2>1
<1>3. CASE i \in [op : {"store"}, addr : Addresses, asi : {"normal", "bypass"}, value : Values]
  <2>1. Store(c, i.addr, i.value, i.asi)
    BY <1>3 DEF Execute
  <2> QED
    BY <1>3, <2>1
<1>4. CASE i \in [op : {"swap"}, addr : Addresses, asi : {"normal", "miss"}, value : Values]
  <2>1. Load(c, i.addr, i.asi, TRUE, i.value)
    BY <1>4 DEF Execute
  <2>2. i.value \in Values /\ i.value # -1 /\ i.addr \in Addresses /\ i.asi \in {"normal", "miss"}
    BY <1>4, CoherenceAssumption
  <2> QED
    BY <2>1, <2>2
<1>5. CASE i \in [op : {"ldstub"}, addr : Addresses, asi : {"normal", "miss"}]
  <2>1. Load(c, i.addr, i.asi, FALSE, 1)
    BY <1>5 DEF Execute
  <2>2. 1 \in Values
    BY CoherenceAssumption
  <2> QED
    BY <1>5, <2>1, <2>2
<1> QED
  BY <1>1, <1>2, <1>3, <1>4, <1>5 DEF Instruction

\* What a processor sees in the abstract memory.
LEMMA SeenIsLatest ==
    ASSUME NEW c \in CPUS, NEW a
    PROVE  Order!Seen(c, a) = Latest(Posted(c), committed, a)
<1>1. buffer[c] = Posted(c)
  BY DEF buffer
<1> QED
  BY <1>1 DEF Order!Seen, Latest

\* The four ways a step looks to the abstract memory.
LEMMA TsoStutter ==
    ASSUME \A d \in CPUS : Posted(d)' = Posted(d), committed' = committed, result' = result
    PROVE  UNCHANGED <<committed, buffer, result>>
  BY DEF buffer

LEMMA TsoLoad ==
    ASSUME \A d \in CPUS : Posted(d)' = Posted(d), committed' = committed,
           NEW c \in CPUS, NEW a \in Addresses,
           result' = [result EXCEPT ![c] = Latest(Posted(c), committed, a)]
    PROVE  Order!Load(c)
<1>1. buffer' = buffer
  BY DEF buffer
<1>2. Order!Seen(c, a) = Latest(Posted(c), committed, a)
  BY SeenIsLatest
<1> QED
  BY <1>1, <1>2 DEF Order!Load

LEMMA TsoStore ==
    ASSUME NEW c \in CPUS, NEW e \in Stores, \A d \in CPUS : d # c => Posted(d)' = Posted(d),
           Posted(c)' = Append(Posted(c), e), committed' = committed, result' = result
    PROVE  Order!Store(c)
<1>1. buffer' = [buffer EXCEPT ![c] = Append(@, e)]
  BY DEF buffer
<1>2. e \in Order!Stores
  BY DEF Order!Stores, Stores
<1> QED
  BY <1>1, <1>2 DEF Order!Store

LEMMA TsoCommit ==
    ASSUME NEW c \in CPUS, NEW e \in Stores, \A d \in CPUS : d # c => Posted(d)' = Posted(d),
           Posted(c) = <<e>> \o Posted(c)', Posted(c)' \in Seq(Stores),
           committed' = [committed EXCEPT ![e.addr] = e.value], result' = result
    PROVE  Order!Commit(c)
<1> DEFINE rest == Posted(c)'
<1>1. buffer[c] = <<e>> \o rest /\ rest \in Seq(Stores)
  BY DEF buffer
<1>2. \A d \in CPUS : d # c => Posted(d)' = Posted(d)
  OBVIOUS
<1>3. rest = Posted(c)'
  OBVIOUS
<1> HIDE DEF rest
<1>4. <<e>> \o rest # <<>> /\ Head(<<e>> \o rest) = e /\ Tail(<<e>> \o rest) = rest
  BY <1>1
<1>5. buffer' = [buffer EXCEPT ![c] = rest]
  BY <1>2, <1>3 DEF buffer
<1> QED
  BY <1>1, <1>4, <1>5 DEF Order!Commit

LEMMA CNextCInv ==
    ASSUME CInv, [CNext]_vars
    PROVE  CInv' /\ [Order!Next]_<<committed, buffer, result>>
<1>1. CASE UNCHANGED vars
  <2>1. /\ UNCHANGED ltvars
        /\ UNCHANGED <<memory, cache, mode, cpu, fifo, write_buf, wb_pointer, result, trans, committed>>
    BY <1>1 DEF vars, cpuvars
  <2>2. CTypeOK /\ IInv /\ LockOfTransfer /\ Ahead /\ \A d \in CPUS : Local(d)
    BY DEF CInv
  <2>3. \A d \in CPUS : Posted(d)' = Posted(d)
    BY <2>1, SamePosted
  <2>4. \A d \in CPUS : Same(d)
    BY <2>1 DEF Same, ltvars
  <2>5. \A d \in CPUS : Local(d)'
    BY <2>1, <2>2, <2>4, SameLocal
  <2>6. IInv' /\ LockOfTransfer' /\ Ahead' /\ TypeOK'
    BY <2>1, <2>2, BusSame, LockSame, AheadSame DEF ltvars
  <2>7. CTypeOK'
    BY <2>1, <2>2, <2>6 DEF CTypeOK
  <2> QED
    BY <2>1, <2>3, <2>5, <2>6, <2>7, TsoStutter DEF CInv
<1>2. ASSUME NEW c \in CPUS, NEW i \in Instructions[c], Execute(c, i)
      PROVE  CInv' /\ [Order!Next]_<<committed, buffer, result>>
  <2>1. ASSUME NEW a \in Addresses, NEW asi \in {"normal", "miss", "bypass"}, NEW lock \in BOOLEAN,
               NEW next \in Values \cup {-1}, Load(c, a, asi, lock, next)
        PROVE  CInv' /\ [Order!Next]_<<committed, buffer, result>>
    <3>1. /\ CInv' /\ \A d \in CPUS : Posted(d)' = Posted(d)
          /\ \/ result' = result
             \/ result' = [result EXCEPT ![c] = Latest(Posted(c), committed, a)]
      BY <2>1, LoadStep
    <3>2. committed' = committed
      BY <2>1 DEF Load
    <3>3. UNCHANGED <<committed, buffer, result>> \/ Order!Load(c)
      BY <3>1, <3>2, TsoStutter, TsoLoad
    <3> QED
      BY <3>1, <3>3 DEF Order!Next
  <2>2. ASSUME NEW a \in Addresses, NEW v \in Values, NEW asi \in {"normal", "bypass"}, Store(c, a, v, asi)
        PROVE  CInv' /\ [Order!Next]_<<committed, buffer, result>>
    <3>1. Quiet(c) /\ BypassRule(c, a, asi) /\ StoreWord(c, a, v, asi)
      BY <2>2 DEF Store, Quiet
    <3>2. /\ CInv' /\ \A d \in CPUS : d # c => Posted(d)' = Posted(d)
          /\ Posted(c)' = Append(Posted(c), [addr |-> a, value |-> v])
      BY <3>1, StoreStep
    <3>3. committed' = committed /\ result' = result /\ [addr |-> a, value |-> v] \in Stores
      BY <3>1 DEF StoreWord, Stores
    <3>4. Order!Store(c)
      BY <3>2, <3>3, TsoStore
    <3> QED
      BY <3>2, <3>4 DEF Order!Next
  <2> QED
    BY <1>2, <2>1, <2>2, Executes
<1>3. ASSUME NEW c \in CPUS, Flush(c)
      PROVE  CInv' /\ [Order!Next]_<<committed, buffer, result>>
  <2>1. /\ cpu[c].pc = "run" /\ cache' = [cache EXCEPT ![c] = Flushed(c)] /\ mode' = mode
        /\ UNCHANGED <<ltvars, memory, cpuvars, trans, committed>>
    BY <1>3 DEF Flush
  <2>2. mode \in [CPUS -> {"disabled", "frozen", "enabled"}]
    BY DEF CInv, CTypeOK
  <2>3. CInv' /\ \A d \in CPUS : Posted(d)' = Posted(d)
    BY <2>1, <2>2, FlushStep
  <2> QED
    BY <2>1, <2>3, TsoStutter DEF cpuvars
<1>4. ASSUME NEW c \in CPUS, NEW new \in Modes[c], NEW fd \in BOOLEAN, WriteCcr(c, new, fd)
      PROVE  CInv' /\ [Order!Next]_<<committed, buffer, result>>
  <2>1. /\ cpu[c].pc = "run" /\ mode' = [mode EXCEPT ![c] = new]
        /\ UNCHANGED <<ltvars, memory, cpuvars, trans, committed>>
        /\ cache' = IF fd THEN [cache EXCEPT ![c] = Flushed(c)] ELSE cache
        /\ mode[c] = "disabled" /\ new # "disabled" => fd
    BY <1>4 DEF WriteCcr, EnableRule
  <2>2. new \in {"disabled", "frozen", "enabled"} /\ mode \in [CPUS -> {"disabled", "frozen", "enabled"}]
    BY CoherenceAssumption DEF CInv, CTypeOK
  <2>3. /\ mode' \in [CPUS -> {"disabled", "frozen", "enabled"}] /\ mode'[c] = new
        /\ \A d \in CPUS : d # c => mode'[d] = mode[d]
    BY <2>1, <2>2
  <2>4. \/ cache' = [cache EXCEPT ![c] = Flushed(c)]
        \/ cache' = cache /\ (mode[c] = "disabled" => mode'[c] = "disabled")
    BY <2>1, <2>3
  <2>5. CInv' /\ \A d \in CPUS : Posted(d)' = Posted(d)
    BY <2>1, <2>3, <2>4, FlushStep
  <2> QED
    BY <2>1, <2>5, TsoStutter DEF cpuvars
<1>5. ASSUME NEW c \in CPUS, Put(c)
      PROVE  CInv' /\ [Order!Next]_<<committed, buffer, result>>
  BY <1>5, PutStep, TsoStutter DEF Put
<1>6. ASSUME NEW c \in CPUS, Fill(c)
      PROVE  CInv' /\ [Order!Next]_<<committed, buffer, result>>
  <2>1. /\ CInv' /\ \A d \in CPUS : Posted(d)' = Posted(d)
        /\ cpu[c].trans.addr \in Addresses
        /\ result' = [result EXCEPT ![c] = Latest(Posted(c), committed, cpu[c].trans.addr)]
    BY <1>6, FillStep
  <2>2. committed' = committed
    BY <1>6 DEF Fill
  <2>3. Order!Load(c)
    BY <2>1, <2>2, TsoLoad
  <2> QED
    BY <2>1, <2>3 DEF Order!Next
<1>7. ASSUME NEW c \in CPUS, StoreBack(c)
      PROVE  CInv' /\ [Order!Next]_<<committed, buffer, result>>
  <2> DEFINE a == cpu[c].addr
             v == cpu[c].value
  <2>1. Quiet(c) /\ BypassRule(c, a, "normal") /\ StoreWord(c, a, v, "normal")
    BY <1>7 DEF StoreBack, Quiet, BypassRule
  <2>2. a \in Addresses /\ v \in Values
    BY <1>7, CInvParts, CpuStateFields DEF StoreBack, Places
  <2>3. /\ CInv' /\ \A d \in CPUS : d # c => Posted(d)' = Posted(d)
        /\ Posted(c)' = Append(Posted(c), [addr |-> a, value |-> v])
    BY <2>1, <2>2, StoreStep
  <2>4. committed' = committed /\ result' = result /\ [addr |-> a, value |-> v] \in Stores
    BY <2>1, <2>2 DEF StoreWord, Stores
  <2>5. Order!Store(c)
    BY <2>3, <2>4, TsoStore
  <2> QED
    BY <2>3, <2>5 DEF Order!Next
<1>8. ASSUME NEW c \in CPUS, MemAccess(c)
      PROVE  CInv' /\ [Order!Next]_<<committed, buffer, result>>
  BY <1>8, MemAccessStep, TsoStutter DEF MemAccess
<1>9. ASSUME NEW c \in CPUS, BusStart(c)
      PROVE  CInv' /\ [Order!Next]_<<committed, buffer, result>>
  BY <1>9, BusStartStep, TsoStutter DEF BusStart, cpuvars
<1>10. ASSUME NEW c \in CPUS, BusFinish(c)
       PROVE  CInv' /\ [Order!Next]_<<committed, buffer, result>>
  <2>1. /\ CInv' /\ \A d \in CPUS : d # c => Posted(d)' = Posted(d)
        /\ result' = result
    BY <1>10, BusFinishStep DEF BusFinish
  <2>2. CASE trans[c].kind # "write"
    BY <1>10, <2>1, <2>2, BusFinishStep, TsoStutter
  <2>3. CASE trans[c].kind = "write"
    <3>1. Order!Commit(c)
      BY <1>10, <2>1, <2>3, BusFinishStep, TsoCommit
    <3> QED
      BY <2>1, <3>1 DEF Order!Next
  <2> QED
    BY <2>2, <2>3
<1> QED
  BY <1>1, <1>2, <1>3, <1>4, <1>5, <1>6, <1>7, <1>8, <1>9, <1>10 DEF CNext, Program

LEMMA CSpecCInv == CSpec => []CInv
<1>1. CInv /\ [CNext]_vars => CInv'
  BY CNextCInv
<1> QED
  BY <1>1, CInitCInv, PTL DEF CSpec

\* The types of memory, caches, payloads, write buffers and what processors are at.
THEOREM CTypeCorrect == CSpec => []CTypeOK
  BY CSpecCInv, PTL DEF CInv

\* A valid word of a cache in use is what its processor must see: for every number of
\* processors, lines, words and ways, and for every program of theirs.
THEOREM CachesCoherent == CSpec => []ValidIsCurrent
<1>1. ASSUME CInv PROVE ValidIsCurrent
  <2> SUFFICES ASSUME NEW c \in CPUS, NEW w \in Ways, NEW i \in Words,
                      cache[c][w].valid, mode[c] # "disabled"
               PROVE  cache[c][w].data[i] = Order!Seen(c, <<cache[c][w].tag, i>>)
    BY DEF ValidIsCurrent
  <2>1. CacheIsCurrent(c)
    BY <1>1, CInvParts
  <2> QED
    BY <2>1, SeenIsLatest DEF CacheIsCurrent
<1>2. CInv => ValidIsCurrent
  BY <1>1
<1> QED
  BY <1>2, CSpecCInv, PTL

\* Write-through caches that snoop, posted writes and the bus implement total store order.
THEOREM ImplementsTso == CSpec => TsoSpec
<1>1. CInit => Order!Init
  <2> SUFFICES ASSUME CInit PROVE Order!Init
    OBVIOUS
  <2>1. \A c \in CPUS : Posted(c) = <<>>
    <3> SUFFICES ASSUME NEW c \in CPUS PROVE Posted(c) = <<>>
      OBVIOUS
    <3>1. Word(c, trans[c]) = <<>> /\ Word(c, InFifo(c)) = <<>> /\ Word(c, ToPut(c)) = <<>>
      BY DEF CInit, Word, InFifo, ToPut, None, Run
    <3>2. <<>> \in Seq(Stores)
      BY EmptySeq
    <3> QED
      BY <3>1, <3>2, ConcatEmptySeq DEF Posted
  <2> QED
    BY <2>1 DEF Order!Init, CInit, buffer
<1>2. CInv /\ [CNext]_vars => [Order!Next]_<<committed, buffer, result>>
  BY CNextCInv
<1> QED
  BY <1>1, <1>2, CSpecCInv, PTL DEF CSpec, TsoSpec, Order!Spec

----------------------------------------------------------------------------
(* The lock of the bus, without an MMU *)

\* Only the read of a SWAP is locked, its store follows, and no write is.
LocksEnd(c) ==
    /\ Missing(c) /\ cpu[c].trans.lock => cpu[c].trans.next # -1
    /\ trans[c].kind = "write" => ~trans[c].lock
    /\ InFifo(c).kind = "write" => ~InFifo(c).lock
    /\ ToPut(c).kind = "write" => ~ToPut(c).lock

\* The processor will start an access that is not locked.
WillUnlock(c) ==
    \/ cpu[c].pc \in {"wait", "done"} /\ cpu[c].trans.lock
    \/ cpu[c].pc = "store"
    \/ Posted(c) # <<>>

LInv ==
    /\ CInv /\ \A c \in CPUS : LocksEnd(c)
    /\ is_lock => lock_master \in CPUS /\ WillUnlock(lock_master)

\* A step of processor c that does not touch the lock.
LEMMA LInvStep ==
    ASSUME LInv, CInv', NEW c \in CPUS, UNCHANGED <<is_lock, lock_master>>,
           \A d \in CPUS : d # c => UNCHANGED <<trans[d], fifo[d], cpu[d]>> /\ Posted(d)' = Posted(d),
           LocksEnd(c)', is_lock /\ lock_master = c /\ WillUnlock(c) => WillUnlock(c)'
    PROVE  LInv'
<1>1. ASSUME NEW d \in CPUS, d # c PROVE LocksEnd(d)' /\ (WillUnlock(d) => WillUnlock(d)')
  BY <1>1 DEF LInv, LocksEnd, Missing, InFifo, ToPut, WillUnlock
<1>2. \A d \in CPUS : LocksEnd(d)'
  BY <1>1
<1>3. is_lock' => lock_master' \in CPUS /\ WillUnlock(lock_master)'
  <2> SUFFICES ASSUME is_lock PROVE lock_master \in CPUS /\ WillUnlock(lock_master)'
    BY DEF WillUnlock, Posted, Word, InFifo, ToPut
  <2>1. lock_master \in CPUS /\ WillUnlock(lock_master)
    BY DEF LInv
  <2> QED
    BY <1>1, <2>1
<1> QED
  BY <1>2, <1>3 DEF LInv

LEMMA LInvParts ==
    ASSUME LInv, NEW c \in CPUS
    PROVE  CInv /\ CTypeOK /\ Places(c) /\ ThreadOf(c) /\ ReadsLast(c) /\ LocksEnd(c)
  BY CInvParts DEF LInv

LEMMA PutLInv ==
    ASSUME LInv, NEW c \in CPUS, Put(c)
    PROVE  LInv'
<1> DEFINE t == cpu[c].trans
<1>1. CInv /\ CTypeOK /\ Places(c) /\ ThreadOf(c) /\ ReadsLast(c) /\ LocksEnd(c)
  BY LInvParts
<1>2. CInv' /\ \A d \in CPUS : Posted(d)' = Posted(d)
  BY <1>1, PutStep
<1>3. /\ cpu[c].pc = "put" /\ Schedule(c, t) /\ t \in Read \cup Write /\ ToPut(c) = t
      /\ UNCHANGED <<is_lock, lock_master, trans>>
  BY <1>1 DEF Put, Places, ltvars
<1>4. fifo[c] = <<>>
  <2>1. Len(fifo[c]) < FIFO /\ Len(<<InFifo(c)>>) = 1 /\ FIFO = 1
    BY CoherenceAssumption DEF Put
  <2> QED
    BY <1>1, <2>1 DEF Places
<1>5. /\ \A d \in CPUS : d # c => fifo'[d] = fifo[d] /\ cpu'[d] = cpu[d]
      /\ InFifo(c)' = t /\ ToPut(c)' = None
      /\ t.kind = "read" => cpu'[c] = [pc |-> "wait", trans |-> t]
      /\ t.kind # "read" => cpu'[c] = Run
  BY <1>1, <1>3, <1>4, ScheduleEffect
<1>6. LocksEnd(c)'
  BY <1>1, <1>3, <1>5 DEF LocksEnd, Missing, Run, None
<1>7. WillUnlock(c) => WillUnlock(c)'
  BY <1>2, <1>3 DEF WillUnlock
<1>8. \A d \in CPUS : d # c => UNCHANGED <<trans[d], fifo[d], cpu[d]>> /\ Posted(d)' = Posted(d)
  BY <1>2, <1>3, <1>5
<1> QED
  BY <1>2, <1>3, <1>6, <1>7, <1>8, LInvStep

LEMMA LoadLInv ==
    ASSUME LInv, NEW c \in CPUS, NEW a \in Addresses, NEW asi \in {"normal", "miss", "bypass"},
           NEW lock \in BOOLEAN, NEW next \in Values \cup {-1}, Load(c, a, asi, lock, next),
           lock => next # -1
    PROVE  LInv'
<1> DEFINE way == IF Bypass(c, asi) THEN -1 ELSE LocateLine(c, a)
           t == [kind |-> "read", addr |-> a, lock |-> lock, way |-> way,
                 cached |-> ~Bypass(c, asi), next |-> next]
           s == IF next = -1 THEN Run ELSE [pc |-> "store", addr |-> a, value |-> next]
<1>1. CInv /\ CTypeOK /\ Places(c) /\ ThreadOf(c) /\ ReadsLast(c) /\ LocksEnd(c)
  BY LInvParts
<1>2. CInv' /\ \A d \in CPUS : Posted(d)' = Posted(d)
  BY <1>1, LoadStep
<1>3. cpu[c].pc = "run" /\ ToPut(c) = None /\ UNCHANGED <<is_lock, lock_master, trans>>
  BY <1>1 DEF Load, Places, ltvars
<1>4. /\ \A d \in CPUS : d # c => fifo'[d] = fifo[d] /\ cpu'[d] = cpu[d]
      /\ LocksEnd(c)'
  <2>1. CASE way # -1 /\ asi # "miss"
    <3>1. cpu' = [cpu EXCEPT ![c] = s] /\ fifo' = fifo
      BY <2>1 DEF Load, Loaded
    <3>2. cpu \in [CPUS -> CpuStates] /\ s.pc \in {"run", "store"}
      BY <1>1 DEF CTypeOK, CpuStates, Run
    <3> HIDE DEF s
    <3>3. cpu'[c] = s /\ \A d \in CPUS : d # c => fifo'[d] = fifo[d] /\ cpu'[d] = cpu[d]
      BY <3>1, <3>2
    <3>4. InFifo(c)' = InFifo(c) /\ ToPut(c)' = None
      BY <3>1, <3>2, <3>3 DEF InFifo, ToPut
    <3> QED
      BY <1>1, <1>3, <3>2, <3>3, <3>4 DEF LocksEnd, Missing, None
  <2>2. CASE ~(way # -1 /\ asi # "miss")
    <3>1. Schedule(c, t)
      BY <2>2 DEF Load
    <3>2. way \in Ways \cup {-1}
      BY Located
    <3>3. t \in Read /\ t.kind = "read" /\ t.lock = lock /\ t.next = next
      BY <3>2 DEF Read, Bypass
    <3> HIDE DEF t
    <3>4. /\ \A d \in CPUS : d # c => fifo'[d] = fifo[d] /\ cpu'[d] = cpu[d]
          /\ fifo[c] = <<>> => /\ InFifo(c)' = t /\ ToPut(c)' = None
                               /\ cpu'[c] = [pc |-> "wait", trans |-> t]
          /\ fifo[c] # <<>> => /\ InFifo(c)' = InFifo(c) /\ ToPut(c)' = t
                               /\ cpu'[c] = [pc |-> "put", trans |-> t]
      BY <1>1, <3>1, <3>3, ScheduleEffect
    <3> QED
      BY <1>1, <1>3, <3>3, <3>4 DEF LocksEnd, Missing, None
  <2> QED
    BY <2>1, <2>2
<1>5. WillUnlock(c) => WillUnlock(c)'
  BY <1>2, <1>3 DEF WillUnlock
<1>6. \A d \in CPUS : d # c => UNCHANGED <<trans[d], fifo[d], cpu[d]>> /\ Posted(d)' = Posted(d)
  BY <1>2, <1>3, <1>4
<1> QED
  BY <1>2, <1>3, <1>4, <1>5, <1>6, LInvStep

LEMMA StoreLInv ==
    ASSUME LInv, ~MMU, NEW c \in CPUS, Quiet(c), NEW a \in Addresses, NEW v \in Values,
           NEW asi \in {"normal", "bypass"}, BypassRule(c, a, asi), StoreWord(c, a, v, asi)
    PROVE  LInv'
<1> DEFINE t == [kind |-> "write", addr |-> a, lock |-> StoreLock(c, asi), slot |-> wb_pointer[c]]
<1>1. CInv /\ CTypeOK /\ Places(c) /\ ThreadOf(c) /\ ReadsLast(c) /\ LocksEnd(c)
  BY LInvParts
<1>2. /\ CInv' /\ \A d \in CPUS : d # c => Posted(d)' = Posted(d)
      /\ Posted(c)' = Append(Posted(c), [addr |-> a, value |-> v])
  BY <1>1, StoreStep
<1>3. ToPut(c) = None /\ UNCHANGED <<is_lock, lock_master, trans>> /\ Schedule(c, t)
  BY <1>1 DEF StoreWord, Places, Quiet, ltvars
<1>4. t \in Write /\ t.kind = "write" /\ ~t.lock
  BY <1>1 DEF Write, StoreLock, Places
<1> HIDE DEF t
<1>5. /\ \A d \in CPUS : d # c => fifo'[d] = fifo[d] /\ cpu'[d] = cpu[d]
      /\ fifo[c] = <<>> => InFifo(c)' = t /\ ToPut(c)' = None /\ cpu'[c] = Run
      /\ fifo[c] # <<>> => /\ InFifo(c)' = InFifo(c) /\ ToPut(c)' = t
                           /\ cpu'[c] = [pc |-> "put", trans |-> t]
  BY <1>1, <1>3, <1>4, ScheduleEffect
<1>6. LocksEnd(c)'
  BY <1>1, <1>3, <1>4, <1>5 DEF LocksEnd, Missing, Run, None
<1>7. WillUnlock(c)'
  <2>1. Posted(c) \in Seq(Stores) /\ [addr |-> a, value |-> v] \in Stores
    BY <1>1, PostedTyped DEF Stores
  <2>2. Append(Posted(c), [addr |-> a, value |-> v]) # <<>>
    BY <2>1, AppendProperties
  <2> QED
    BY <1>2, <2>2 DEF WillUnlock
<1>8. \A d \in CPUS : d # c => UNCHANGED <<trans[d], fifo[d], cpu[d]>> /\ Posted(d)' = Posted(d)
  BY <1>2, <1>3, <1>5
<1> QED
  BY <1>2, <1>3, <1>6, <1>7, <1>8, LInvStep

LEMMA FillLInv ==
    ASSUME LInv, NEW c \in CPUS, Fill(c)
    PROVE  LInv'
<1> DEFINE t == cpu[c].trans
           s == IF t.next = -1 THEN Run ELSE [pc |-> "store", addr |-> t.addr, value |-> t.next]
<1>1. CInv /\ CTypeOK /\ Places(c) /\ ThreadOf(c) /\ ReadsLast(c) /\ LocksEnd(c)
  BY LInvParts
<1>2. CInv' /\ \A d \in CPUS : Posted(d)' = Posted(d)
  BY <1>1, FillStep
<1>3. /\ cpu[c].pc = "done" /\ cpu' = [cpu EXCEPT ![c] = s]
      /\ UNCHANGED <<is_lock, lock_master, trans, fifo>>
  BY DEF Fill, Loaded, ltvars
<1>4. t \in Read /\ t.kind = "read"
  BY <1>1, <1>3, CpuStateFields DEF Places, Read
<1>5. cpu \in [CPUS -> CpuStates] /\ s.pc \in {"run", "store"} /\ (t.next # -1 => s.pc = "store")
  BY <1>1 DEF CTypeOK, CpuStates, Run
<1> HIDE DEF s
<1>6. cpu'[c] = s /\ \A d \in CPUS : d # c => cpu'[d] = cpu[d]
  BY <1>3, <1>5
<1>7. LocksEnd(c)'
  <2>1. InFifo(c)' = InFifo(c) /\ ToPut(c)' = None
    BY <1>3, <1>5, <1>6 DEF InFifo, ToPut
  <2> QED
    BY <1>1, <1>3, <1>5, <1>6, <2>1 DEF LocksEnd, Missing, None
<1>8. WillUnlock(c) => WillUnlock(c)'
  BY <1>1, <1>2, <1>3, <1>4, <1>5, <1>6 DEF WillUnlock, LocksEnd, Missing
<1>9. \A d \in CPUS : d # c => UNCHANGED <<trans[d], fifo[d], cpu[d]>> /\ Posted(d)' = Posted(d)
  BY <1>2, <1>3, <1>6
<1> QED
  BY <1>2, <1>3, <1>7, <1>8, <1>9, LInvStep

LEMMA MemAccessLInv ==
    ASSUME LInv, NEW c \in CPUS, MemAccess(c)
    PROVE  LInv'
<1>1. CInv /\ CTypeOK /\ Places(c) /\ ThreadOf(c) /\ ReadsLast(c) /\ LocksEnd(c)
  BY LInvParts
<1>2. CInv' /\ \A d \in CPUS : Posted(d)' = Posted(d)
  BY <1>1, MemAccessStep
<1>3. /\ trans[c] = None /\ fifo[c] # <<>> /\ UNCHANGED <<cpu, is_lock, lock_master>>
      /\ trans' = [trans EXCEPT ![c] = InFifo(c)] /\ fifo' = [fifo EXCEPT ![c] = Tail(@)]
  BY DEF MemAccess, Request, InFifo
<1>4. c \in DOMAIN trans /\ c \in DOMAIN fifo
  BY <1>1 DEF CTypeOK
<1>5. trans'[c] = InFifo(c) /\ \A d \in CPUS : d # c => trans'[d] = trans[d] /\ fifo'[d] = fifo[d]
  BY <1>3, <1>4
<1>6. InFifo(c)' = None /\ ToPut(c)' = ToPut(c)
  <2>1. fifo'[c] = Tail(<<InFifo(c)>>)
    BY <1>1, <1>3, <1>4 DEF Places
  <2>2. Tail(<<InFifo(c)>>) = <<>>
    OBVIOUS
  <2> QED
    BY <1>3, <2>1, <2>2 DEF InFifo, ToPut
<1>7. LocksEnd(c)'
  BY <1>1, <1>3, <1>5, <1>6 DEF LocksEnd, Missing, None
<1>8. WillUnlock(c) => WillUnlock(c)'
  BY <1>2, <1>3 DEF WillUnlock
<1>9. \A d \in CPUS : d # c => UNCHANGED <<trans[d], fifo[d], cpu[d]>> /\ Posted(d)' = Posted(d)
  BY <1>2, <1>3, <1>5
<1> QED
  BY <1>2, <1>3, <1>7, <1>8, <1>9, LInvStep

\* The lock is taken by the read of a SWAP, and given up by a write.
LEMMA BusStartLInv ==
    ASSUME LInv, NEW c \in CPUS, BusStart(c)
    PROVE  LInv'
<1>1. CInv /\ CTypeOK /\ Places(c) /\ ThreadOf(c) /\ ReadsLast(c) /\ LocksEnd(c)
  BY LInvParts
<1>2. CInv' /\ \A d \in CPUS : Posted(d)' = Posted(d)
  BY <1>1, BusStartStep
<1>3. /\ thread[c].pc = "poll" /\ UNCHANGED <<cpu, fifo, trans>>
      /\ is_lock' = thread[c].access.lock /\ lock_master' = c
  BY DEF BusStart, Start, Lock, cpuvars
<1>4. trans[c] # None /\ is_lock' = trans[c].lock /\ trans[c].kind \in {"read", "write"}
  <2>1. trans[c] # None /\ is_lock' = trans[c].lock
    BY <1>1, <1>3 DEF ThreadOf
  <2> QED
    BY <1>1, <2>1, PayloadKinds DEF Places
<1>5. is_lock' => WillUnlock(c)'
  BY <1>1, <1>3, <1>4 DEF WillUnlock, ReadsLast, LocksEnd
<1>6. \A d \in CPUS : LocksEnd(d)'
  BY <1>3 DEF LInv, LocksEnd, Missing, InFifo, ToPut
<1>7. is_lock' => lock_master' \in CPUS /\ WillUnlock(lock_master)'
  BY <1>3, <1>5 DEF WillUnlock, Posted, Word, InFifo, ToPut
<1> QED
  BY <1>2, <1>6, <1>7 DEF LInv

LEMMA BusFinishLInv ==
    ASSUME LInv, NEW c \in CPUS, BusFinish(c)
    PROVE  LInv'
<1>1. /\ CInv /\ CTypeOK /\ Places(c) /\ ThreadOf(c) /\ ReadsLast(c) /\ LocksEnd(c)
      /\ LockOfTransfer
  BY LInvParts DEF CInv
<1>2. CInv' /\ \A d \in CPUS : d # c => Posted(d)' = Posted(d)
  BY <1>1, BusFinishStep
<1>3. /\ Carried(c) /\ trans' = [trans EXCEPT ![c] = None]
      /\ UNCHANGED <<is_lock, lock_master, fifo>>
      /\ trans[c].kind = "write" => cpu' = cpu
      /\ trans[c].kind # "write" => \E found :
            cpu' = [cpu EXCEPT ![c] = [pc |-> "done", trans |-> trans[c], data |-> found]]
  BY DEF BusFinish, Finish, LockAtEnd, Carried
<1>4. lock_master = c /\ is_lock = trans[c].lock /\ trans[c].kind \in {"read", "write"}
  <2>1. trans[c] # None
    BY <1>1, <1>3 DEF ThreadOf, Carried
  <2> QED
    BY <1>1, <1>3, <2>1, PayloadKinds DEF LockOfTransfer, Places
<1>5. c \in DOMAIN trans /\ c \in DOMAIN cpu
  BY <1>1 DEF CTypeOK
<1>6. trans'[c] = None /\ \A d \in CPUS : d # c => trans'[d] = trans[d] /\ cpu'[d] = cpu[d]
  <2>1. trans'[c] = None /\ \A d \in CPUS : d # c => trans'[d] = trans[d]
    BY <1>1, <1>3 DEF CTypeOK
  <2>2. DOMAIN cpu = CPUS
    BY <1>1 DEF CTypeOK
  <2>3. ASSUME NEW d \in CPUS, d # c PROVE cpu'[d] = cpu[d]
    BY <1>3, <2>2, <2>3
  <2> QED
    BY <2>1, <2>3
<1>7. InFifo(c)' = InFifo(c)
  BY <1>3 DEF InFifo
<1>8. CASE trans[c].kind = "write"
  <2>1. LocksEnd(c)'
    BY <1>1, <1>3, <1>6, <1>7, <1>8 DEF LocksEnd, Missing, ToPut, None
  <2>2. ~is_lock
    BY <1>1, <1>4, <1>8 DEF LocksEnd
  <2>3. \A d \in CPUS : d # c => UNCHANGED <<trans[d], fifo[d], cpu[d]>> /\ Posted(d)' = Posted(d)
    BY <1>2, <1>3, <1>6
  <2> QED
    BY <1>2, <1>3, <2>1, <2>2, <2>3, LInvStep
<1>9. CASE trans[c].kind = "read"
  <2>1. cpu'[c].pc = "done" /\ cpu'[c].trans = trans[c]
    BY <1>3, <1>5, <1>9
  <2>2. cpu[c].pc = "wait" /\ cpu[c].trans = trans[c]
    BY <1>1, <1>9 DEF ReadsLast
  <2>3. LocksEnd(c)'
    BY <1>1, <1>6, <1>7, <2>1, <2>2 DEF LocksEnd, Missing, ToPut, None
  <2>4. is_lock => WillUnlock(c)'
    BY <1>4, <2>1 DEF WillUnlock
  <2>5. \A d \in CPUS : d # c => UNCHANGED <<trans[d], fifo[d], cpu[d]>> /\ Posted(d)' = Posted(d)
    BY <1>2, <1>3, <1>6
  <2> QED
    BY <1>2, <1>3, <2>3, <2>4, <2>5, LInvStep
<1> QED
  BY <1>4, <1>8, <1>9

LEMMA CNextLInv == ASSUME LInv, ~MMU, [CNext]_vars PROVE LInv'
<1>0. CInv /\ CInv'
  BY CNextCInv DEF LInv
<1>1. ASSUME UNCHANGED <<is_lock, lock_master, trans, fifo, cpu, write_buf>> PROVE LInv'
  <2>1. \A d \in CPUS : Posted(d)' = Posted(d)
    BY <1>1, SamePosted
  <2>2. \A d \in CPUS : LocksEnd(d)' /\ (WillUnlock(d) => WillUnlock(d)')
    BY <1>1, <2>1 DEF LInv, LocksEnd, Missing, InFifo, ToPut, WillUnlock
  <2>3. is_lock' => lock_master' \in CPUS /\ WillUnlock(lock_master)'
    BY <1>1 DEF LInv, WillUnlock, Posted, Word, InFifo, ToPut
  <2> QED
    BY <1>0, <2>2, <2>3 DEF LInv
<1>2. CASE UNCHANGED vars
  BY <1>1, <1>2 DEF vars, ltvars, cpuvars
<1>3. ASSUME NEW c \in CPUS, Program(c) PROVE LInv'
  <2>1. ASSUME NEW i \in Instructions[c], Execute(c, i) PROVE LInv'
    <3>1. ASSUME NEW a \in Addresses, NEW v \in Values, NEW asi \in {"normal", "bypass"},
                 Store(c, a, v, asi)
          PROVE  LInv'
      BY <3>1, StoreLInv DEF Store, Quiet
    <3> QED
      BY <2>1, <3>1, LoadLInv, Executes
  <2>2. CASE Flush(c)
    BY <1>1, <2>2 DEF Flush, ltvars, cpuvars
  <2>3. CASE \E new \in Modes[c], fd \in BOOLEAN : WriteCcr(c, new, fd)
    BY <1>1, <2>3 DEF WriteCcr, ltvars, cpuvars
  <2> QED
    BY <1>3, <2>1, <2>2, <2>3 DEF Program
<1>4. ASSUME NEW c \in CPUS, StoreBack(c) PROVE LInv'
  <2> DEFINE a == cpu[c].addr
             v == cpu[c].value
  <2>1. Quiet(c) /\ BypassRule(c, a, "normal") /\ StoreWord(c, a, v, "normal")
    BY <1>4 DEF StoreBack, Quiet, BypassRule
  <2>2. a \in Addresses /\ v \in Values
    BY <1>0, <1>4, CInvParts, CpuStateFields DEF StoreBack, Places
  <2> QED
    BY <2>1, <2>2, StoreLInv
<1> QED
  BY <1>2, <1>3, <1>4, PutLInv, FillLInv, MemAccessLInv, BusStartLInv, BusFinishLInv DEF CNext

\* Without an MMU the lock of the bus is never left behind: a processor that has it is in a
\* SWAP whose store is posted or still to come.  (With one the stores are locked too.)
THEOREM LockNotLeft == ASSUME ~MMU PROVE CSpec => []LockHasEnd
<1>1. CInit => LInv
  <2> SUFFICES ASSUME CInit PROVE LInv
    OBVIOUS
  <2>1. \A c \in CPUS : /\ trans[c] = None /\ InFifo(c) = None
                        /\ ToPut(c) = None /\ cpu[c].pc = "run"
    BY DEF CInit, InFifo, ToPut, Run
  <2>2. \A c \in CPUS : LocksEnd(c)
    BY <2>1 DEF LocksEnd, Missing, None
  <2>3. ~is_lock
    BY DEF CInit, Init
  <2> QED
    BY <2>2, <2>3, CInitCInv DEF LInv
<1>2. LInv /\ [CNext]_vars => LInv'
  BY CNextLInv
<1>3. LInv => LockHasEnd
  BY DEF LInv, LockHasEnd, WillUnlock
<1> QED
  BY <1>1, <1>2, <1>3, PTL DEF CSpec
=============================================================================
