----------------------------- MODULE MC_HotSwap -----------------------------
(* Model-checking instance of HotSwap: two request threads. *)
EXTENDS HotSwap

CONSTANTS t1, t2, ctor, none

MCThreads == {t1, t2}

=============================================================================
