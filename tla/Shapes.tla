------------------------------- MODULE Shapes --------------------------------
(* Graphs and commands for the small instances of the two drivers.         *)
EXTENDS Driver, TLC

CONSTANTS a1, a2, a3

Symmetry == Permutations(Actions)

\* Manifest.Validate refuses an action that depends on itself.
AllGraphs ==
    {g \in [Actions -> SUBSET Actions] : \A a \in Actions : a \notin g[a]}

AllVerdicts == Verdict

\* Every acyclic shape of three actions up to renaming, and two cycles.
ThreeShapes ==
    { (a1 :> {} @@ a2 :> {} @@ a3 :> {}),
      (a1 :> {} @@ a2 :> {a1} @@ a3 :> {}),
      (a1 :> {} @@ a2 :> {a1} @@ a3 :> {a1}),
      (a1 :> {} @@ a2 :> {} @@ a3 :> {a1, a2}),
      (a1 :> {} @@ a2 :> {a1} @@ a3 :> {a2}),
      (a1 :> {} @@ a2 :> {a1} @@ a3 :> {a1, a2}),
      (a1 :> {} @@ a2 :> {a3} @@ a3 :> {a2}),
      (a1 :> {a2} @@ a2 :> {a1} @@ a3 :> {a1}) }
=============================================================================
