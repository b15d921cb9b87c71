----------------------------- MODULE MCGPTimer -----------------------------
(* Two counters and short registers, written at any cycle. *)
EXTENDS GPTimer, Sequences

On(f) == [en |-> f[1] = 1, rs |-> f[2] = 1, ld |-> f[3] = 1, ie |-> f[4] = 1,
          ch |-> f[5] = 1, ip |-> f[6] = 1]
Ctrl(n, f) == [reg |-> "ctrl", nr |-> n, ctrl |-> On(f)]
\* Halt, load and start with restart, start once, chain, set the pending bit.
MCWrites ==
    {Ctrl(n, f) : n \in 0..1, f \in {<<0, 0, 0, 0, 0, 0>>, <<1, 1, 1, 1, 0, 0>>, <<1, 0, 1, 1, 0, 0>>}}
    \cup {Ctrl(1, <<1, 1, 1, 1, 1, 0>>), Ctrl(0, <<1, 0, 0, 0, 0, 1>>)}
    \cup {[reg |-> "reload", nr |-> 0, value |-> 2],
          [reg |-> "value", nr |-> 0, value |-> 3],
          [reg |-> "scaler", value |-> 1], [reg |-> "screload", value |-> 6], [reg |-> "rst"]}
=============================================================================
