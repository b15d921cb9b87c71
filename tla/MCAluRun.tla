----------------------------- MODULE MCAluRun -----------------------------
(* All pairs of words of six bits. *)
EXTENDS AluRun
=============================================================================
