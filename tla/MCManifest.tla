------------------------------ MODULE MCManifest -----------------------------
(* Small instances of Manifest: every graph of N actions, and files in     *)
(* which one or two entries are not what they should be.                   *)
EXTENDS Manifest

Pieces == {"", ".", "..", "a"}

Entry(n, ds) ==
    [name |-> n, deps |-> ds, inputs |-> <<<<"a", "b">>>>, outputs |-> <<<<"a">>>>,
     command |-> TRUE, blankEnv |-> FALSE, extraField |-> FALSE]

\* The dependencies in descending order, each listed m times.
Listing(S, m) ==
    LET once == SetToSortSeq(S, LAMBDA a, b : a > b)
    IN  FlattenSeq([i \in DOMAIN once |-> [j \in 1..m |-> once[i]]])

Graphs == {g \in [Names -> SUBSET Names] : \A n \in Names : n \notin g[n]}

\* The entries in the opposite order of their names; r lists what it depends
\* on repeatedly.
Written(g, r) ==
    [i \in Names |-> LET n == N + 1 - i
                     IN  Entry(n, Listing(g[n], IF n = r THEN MaxCopies ELSE 1))]

WellFormed == {Written(g, r) : g \in Graphs, r \in {1, N}}

Line == Written([n \in Names |-> IF n = 1 THEN {} ELSE {n - 1}], 1)

\* The ways an entry may be changed.
Changes(e) ==
    {e, [e EXCEPT !.command = FALSE], [e EXCEPT !.outputs = <<>>],
        [e EXCEPT !.blankEnv = TRUE], [e EXCEPT !.extraField = TRUE],
        [e EXCEPT !.outputs = <<<<"..", "a">>>>]}
    \union {[e EXCEPT !.name = n] : n \in {0, 1, N}}
    \union {[e EXCEPT !.deps = <<d>>] : d \in {1, N, N + 1}}

\* Two entries changed, or every two short paths, or any longer path.
Ill ==
    {<<>>}
    \union UNION {{[Line EXCEPT ![i] = e, ![j] = f] :
                      e \in Changes(Line[i]), f \in Changes(Line[j])} : i, j \in Names}
    \union {[Line EXCEPT ![1].inputs = <<p>>, ![2].outputs = <<q>>] :
               p, q \in BoundedSeq(Pieces, 2) \ {<<>>}}
    \union {[Line EXCEPT ![1].inputs = <<p>>] : p \in BoundedSeq(Pieces, 4) \ {<<>>}}

AllFiles == WellFormed \union Ill
=============================================================================
