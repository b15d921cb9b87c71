-------------------------------- MODULE Tso --------------------------------
(***************************************************************************)
(* What a program on several processors may expect of the memory: total    *)
(* store order, as in the SPARC architecture.  A store waits in the buffer *)
(* of its processor, becomes visible to all others at once, in the order   *)
(* of the program, and is seen by the loads of its own processor before.   *)
(***************************************************************************)
EXTENDS Integers, Sequences

CONSTANTS CPUS, Addresses, Values, InitialMemory

VARIABLES
    mem,            \* what every processor sees
    buffer,         \* the stores of each processor that only it sees, the oldest first
    result          \* what the last load of each processor returned

Stores == [addr : Addresses, value : Values]

Init ==
    /\ mem = InitialMemory
    /\ buffer = [c \in CPUS |-> <<>>]
    /\ result = [c \in CPUS |-> 0]

\* The value of a that processor c sees.
Seen(c, a) ==
    LET own == {i \in DOMAIN buffer[c] : buffer[c][i].addr = a}
    IN  IF own = {} THEN mem[a]
        ELSE buffer[c][CHOOSE i \in own : \A j \in own : j =< i].value

Load(c) ==
    /\ UNCHANGED <<mem, buffer>>
    /\ \E a \in Addresses : result' = [result EXCEPT ![c] = Seen(c, a)]

Store(c) ==
    /\ UNCHANGED <<mem, result>>
    /\ buffer' \in {[buffer EXCEPT ![c] = Append(@, s)] : s \in Stores}

Commit(c) ==
    /\ buffer[c] # <<>>
    /\ mem' = [mem EXCEPT ![Head(buffer[c]).addr] = Head(buffer[c]).value]
    /\ buffer' = [buffer EXCEPT ![c] = Tail(@)]
    /\ UNCHANGED result

Next ==
    \E c \in CPUS :
        \/ Load(c)
        \/ Store(c)
        \/ Commit(c)

Spec == Init /\ [][Next]_<<mem, buffer, result>>
=============================================================================
