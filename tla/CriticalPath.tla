----------------------------- MODULE CriticalPath ----------------------------
(***************************************************************************)
(* CriticalPath, internal/graph/critical.go: the longest chain of          *)
(* dependent actions by measured duration, which no number of workers can  *)
(* beat.  It runs on the order GraphOrder computes, relaxing one action    *)
(* after another, and then walks back along the predecessors.              *)
(***************************************************************************)
EXTENDS GraphOrder

CONSTANT Durations    \* measured durations; a skipped action counts as zero

ASSUME DurationsAssumption == Durations \subseteq Nat

None == 0             \* the empty name

VARIABLES
    dur,              \* the duration of each action, once it is measured
    finish,           \* earliest finish with unlimited workers
    depth,            \* actions on the chain that decides it
    pred,             \* the dependency that held each action up
    path,             \* the path, built from its end
    length            \* its length, -1 until it is known

cpvars == <<dur, finish, depth, pred, path, length>>
vars == <<gvars, cpvars>>

\* Before the build that is measured.
CPStart ==
    /\ dur = <<>>
    /\ finish = <<>> /\ depth = <<>> /\ pred = <<>>
    /\ path = <<>> /\ length = -1

Init == GInit /\ CPStart

Relaxed == DOMAIN finish

\* What sched.Durations makes of a build's results.
Measure ==
    /\ phase = "ok" /\ dur = <<>>
    /\ dur' \in [Names -> Durations]
    /\ UNCHANGED <<gvars, finish, depth, pred, path, length>>

BetterNoDepth(d, e) ==                   \* slip: a tie goes straight to the name
    \/ finish[d] > finish[e]
    \/ finish[d] = finish[e] /\ d < e

\* Later finish first, then the deeper chain, then the smaller name.
Better(d, e) ==
    \/ finish[d] > finish[e]
    \/ finish[d] = finish[e] /\ depth[d] > depth[e]
    \/ finish[d] = finish[e] /\ depth[d] = depth[e] /\ d < e

\* The candidate the scan keeps: it is the first, or it beats the incumbent.
Best(S) == IF S = {} THEN None ELSE CHOOSE d \in S : \A e \in S \ {d} : Better(d, e)

\* f, and v at n.
With(f, n, v) == [m \in DOMAIN f \union {n} |-> IF m = n THEN v ELSE f[m]]

RelaxWith(n, d) ==
    /\ finish' = With(finish, n, (IF d = None THEN 0 ELSE finish[d]) + dur[n])
    /\ depth' = With(depth, n, (IF d = None THEN 0 ELSE depth[d]) + 1)
    /\ pred' = With(pred, n, d)

RelaxFirst ==                            \* slip: the first dependency decides
    /\ dur # <<>> /\ Relaxed # Names
    /\ LET n == order[Cardinality(Relaxed) + 1]
       IN  RelaxWith(n, IF deps(n) = {} THEN None ELSE Min(deps(n)))
    /\ UNCHANGED <<gvars, dur, path, length>>

\* The next action of the order finishes after its latest dependency.
Relax ==
    /\ dur # <<>> /\ Relaxed # Names
    /\ LET n == order[Cardinality(Relaxed) + 1] IN RelaxWith(n, Best(deps(n)))
    /\ UNCHANGED <<gvars, dur, path, length>>

\* The path ends at whichever action finishes last.
End ==
    /\ dur # <<>> /\ Relaxed = Names /\ length = -1
    /\ path' = <<Best(Names)>>
    /\ length' = finish[Best(Names)]
    /\ UNCHANGED <<gvars, dur, finish, depth, pred>>

Walk ==
    /\ length >= 0 /\ pred[Head(path)] # None
    /\ path' = <<pred[Head(path)]>> \o path
    /\ UNCHANGED <<gvars, dur, finish, depth, pred, length>>

Next ==
    \/ GNext /\ UNCHANGED cpvars
    \/ Measure \/ Relax \/ End \/ Walk

Spec == Init /\ [][Next]_vars

-----------------------------------------------------------------------------
Finished == length >= 0 /\ pred[Head(path)] = None

Chain(s) == \A i \in 1..(Len(s) - 1) : s[i] \in deps(s[i + 1])
Walks == SeqOf(Names, N) \ {<<>>}
Chains == {s \in Walks : Chain(s)}

\* What the actions of s take, one after another.
Along(g, s) ==
    LET T[i \in 0..Len(s)] == IF i = 0 THEN 0 ELSE T[i - 1] + g[s[i]]
    IN  T[Len(s)]
Total(s) == Along(dur, s)

\* The number reported bounds every build: no chain of dependent actions takes
\* longer, and some chain takes exactly as long.
LengthIsTheLongest ==
    Finished =>
        /\ \A s \in Chains : Total(s) <= length
        /\ Chain(path) /\ Total(path) = length

\* Zero durations do not make the path stop in the middle of the graph: it
\* starts at an action with no dependencies, ends at one nothing depends on,
\* and no chain of the same length has more actions.
PathSpansTheGraph ==
    Finished =>
        /\ deps(Head(path)) = {}
        /\ \A n \in Names : Last(path) \notin deps(n)
        /\ \A s \in Chains : Total(s) = length => Len(s) <= Len(path)
=============================================================================
