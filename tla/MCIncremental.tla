---------------------------- MODULE MCIncremental ----------------------------
(* Small instances of Incremental.  Files 1 and 2 are sources.             *)
EXTENDS Incremental

Act(c, d, i, o) == [cmd |-> c, deps |-> d, inputs |-> i, outputs |-> o]

\* What the commands open.
Opened == <<<<1>>, <<2, 3>>, <<2>>>>

\* A compile and a link that uses one of its two outputs and a source ...
Chain == <<Act(1, {}, {1}, <<3, 4>>), Act(2, {1}, {2, 3}, <<5>>)>>
\* ... the same with the source not declared ...
Undeclared == <<Act(1, {}, {1}, <<3, 4>>), Act(2, {1}, {3}, <<5>>)>>
\* ... and two actions that have nothing to do with each other.
Apart == <<Act(1, {}, {1}, <<3, 4>>), Act(3, {}, {2}, <<5>>)>>

Three == {Chain, Undeclared, Apart}
JustUndeclared == {Undeclared}

Flags(s, c) == [sandbox |-> s, cache |-> c]
AllFlags == {Flags(TRUE, TRUE), Flags(FALSE, TRUE), Flags(TRUE, FALSE)}
Cached == {Flags(TRUE, TRUE), Flags(FALSE, TRUE)}

\* The theorems speak of these instances.
ASSUME InstancesAssumption == WellFormed
=============================================================================
