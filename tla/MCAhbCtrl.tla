----------------------------- MODULE MCAhbCtrl -----------------------------
(* Small instances of the bus. *)
EXTENDS AhbCtrl

Access(s, w, d, wr, l) == [slave |-> s, words |-> w, delay |-> d, write |-> wr, lock |-> l]

\* A word without wait states, a burst with one, and a locked read.
MCAccesses == {Access(0, 1, 1, TRUE, FALSE), Access(1, 2, 3, FALSE, FALSE),
               Access(1, 1, 1, FALSE, TRUE)}
\* Two slaves and the configuration area.
MCMixed == {Access(0, 1, 1, TRUE, FALSE), Access(PNP, 1, 1, FALSE, FALSE)}
\* A word without wait states and a locked one.
MCShort == {Access(0, 1, 1, TRUE, FALSE), Access(0, 1, 1, FALSE, TRUE)}
MCPipelined == {1}
=============================================================================
