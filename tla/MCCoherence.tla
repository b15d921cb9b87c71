---------------------------- MODULE MCCoherence ----------------------------
(* Small instances of processors, caches and memory. *)
EXTENDS Coherence

MCSlaveMap == [h \in {0} |-> [size |-> 1, slave |-> 0]]
MCAccesses == [addr : {0}, write : BOOLEAN, lock : BOOLEAN]
Op(op, asi, a) == [op |-> op, asi |-> asi, addr |-> a]
OpValue(op, asi, a, v) == [op |-> op, asi |-> asi, addr |-> a, value |-> v]
\* A processor with a cache, whose loads of a second line evict the first, and one that
\* never enables its own.  Each writes a value of its own.
MCInstructions ==
    [c \in {0, 1} |->
        IF c = 0 THEN {OpValue("store", "normal", <<0, 0>>, 0), OpValue("store", "normal", <<0, 1>>, 1),
                       Op("load", "normal", <<0, 0>>), Op("load", "miss", <<1, 0>>)}
        ELSE {OpValue("swap", "normal", <<0, 0>>, 1)}]
MCModes == [c \in {0, 1} |-> IF c = 0 THEN {"disabled", "enabled"} ELSE {}]
\* get_sem of core/software/grlib_tests/mptest.c.
MCGetSem == [c \in {0, 1} |-> {Op("ldstub", "miss", <<0, 0>>)}]
MCNoModes == [c \in {0, 1} |-> {}]
=============================================================================
