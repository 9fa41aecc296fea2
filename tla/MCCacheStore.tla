---------------------------- MODULE MCCacheStore -----------------------------
(* Small instances of CacheStore.                                          *)
EXTENDS CacheStore, TLC

CONSTANTS b1, b2

Symmetry == Permutations(Builders)

\* A nondeterministic action: its two outputs come out either way round, so an
\* entry or a workspace that mixes two runs is neither.
Swapping == [k \in Keys |-> {<<1, 2>>, <<2, 1>>}]

\* The same beside another action that shares its blobs.
Sharing == [k \in Keys |-> IF k = 1 THEN {<<1, 2>>} ELSE {<<1, 2>>, <<2, 1>>}]

\* No collection; and one that has room for a single blob.
Idle == [MaxBytes: {0}, MinAge: {0}, DryRun: {FALSE}]
Tight == [MaxBytes: {1}, MinAge: {0}, DryRun: {FALSE}]
=============================================================================
