----------------------------- MODULE LockedBus -----------------------------
(***************************************************************************)
(* What a bus promises its masters, whatever the abstraction level: it has *)
(* at most one owner, and after a locked access only the master that made  *)
(* it may own the bus, until an access of its own gives the lock up.       *)
(***************************************************************************)
EXTENDS Integers

CONSTANT Masters    \* their numbers

VARIABLES
    owner,          \* the master whose access the bus carries
    locker          \* the master that has the bus locked

Nobody == -1

Init == owner = Nobody /\ locker = Nobody

Acquire(m, lock) ==
    /\ owner = Nobody
    /\ locker \in {Nobody, m}
    /\ owner' = m
    /\ locker' = IF lock THEN m ELSE Nobody

Release(m) ==
    /\ owner = m
    /\ owner' = Nobody
    /\ UNCHANGED locker

\* The bus refuses the access at once, but takes the lock.
Refuse(m, lock) ==
    /\ owner = Nobody
    /\ locker \in {Nobody, m}
    /\ locker' = IF lock THEN m ELSE Nobody
    /\ UNCHANGED owner

Next ==
    \E m \in Masters :
        \/ \E lock \in BOOLEAN : Acquire(m, lock) \/ Refuse(m, lock)
        \/ Release(m)

Spec == Init /\ [][Next]_<<owner, locker>>
=============================================================================
