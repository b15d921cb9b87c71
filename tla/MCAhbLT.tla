------------------------------ MODULE MCAhbLT ------------------------------
(* Three masters and a memory map with a hole, whose areas differ in size. *)
EXTENDS AhbLT

Area(size, slave) == [size |-> size, slave |-> slave]
\* A PROM of four segments, a RAM of two, the peripherals.
MCSlaveMap == [h \in {0, 8, 12} |-> CASE h = 0 -> Area(4, 0)
                                      [] h = 8 -> Area(2, 1)
                                      [] h = 12 -> Area(1, 2)]
MCPnpArea == {15}
\* Both ends of each area, the segments above them, the configuration area:
\* read, written or read and locked.
MCAccesses == {[addr |-> a, write |-> k = "write", lock |-> k = "locked"] :
                 a \in {0, 3, 4, 8, 10, 12, 15}, k \in {"read", "write", "locked"}}
=============================================================================
