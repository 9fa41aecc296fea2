------------------------------ MODULE MCRemote -------------------------------
(* Small instances of Remote.                                              *)
EXTENDS Remote

CONSTANTS b1, b2

\* A nondeterministic action: its two outputs come out either way round.
Swapping == [k \in Keys |-> {<<1, 2>>, <<2, 1>>}]
=============================================================================
