------------------------------ MODULE GraphOrder -----------------------------
(***************************************************************************)
(* Graph.TopologicalOrder and findCycle, internal/graph/graph.go: Kahn's   *)
(* algorithm with the ready set drained in name order and, when it stalls, *)
(* a depth-first search that names one cycle.                              *)
(*                                                                         *)
(* Names are numbers: only their order matters.  A manifest may list the   *)
(* same dependency twice, so a graph says how many copies of each edge     *)
(* there are; it never lists an action as its own dependency.              *)
(***************************************************************************)
EXTENDS Integers, Sequences, FiniteSets, FiniteSetsExt, SequencesExt

CONSTANTS
    N,                \* number of actions
    MaxCopies         \* bound on how often a dependency is listed

ASSUME NAssumption == N \in Nat \ {0}
ASSUME MaxCopiesAssumption == MaxCopies \in Nat \ {0}

Names == 1..N

VARIABLES
    copies,           \* copies[n][d]: how often n lists d as a dependency
    phase,            \* "count", "drain", "search", then "ok", "cycle", "unknown"
    remaining,        \* listed dependencies not emitted yet
    ready,            \* what can be emitted, drained smallest name first
    order,            \* what has been emitted
    color,            \* of the depth-first search
    stack,            \* its frames: the action, and the dependencies ahead
    cycle             \* what CycleError reports

kahn == <<remaining, ready, order>>
search == <<color, stack, cycle>>
gvars == <<copies, phase, kahn, search>>

deps(n) == {d \in Names : copies[n][d] > 0}

-----------------------------------------------------------------------------
\* Before TopologicalOrder.
GStart ==
    /\ phase = "count"
    /\ remaining = [n \in Names |-> 0] /\ ready = {} /\ order = <<>>
    /\ color = [n \in Names |-> "white"] /\ stack = <<>> /\ cycle = <<>>

\* What graph.New makes of a valid manifest: any graph without an action that
\* depends on itself.
GInit ==
    /\ copies \in [Names -> [Names -> 0..MaxCopies]]
    /\ \A n \in Names : copies[n][n] = 0
    /\ GStart

\* len(g.deps[n]), the repeated ones counted.
Listed(n) == Cardinality({p \in Names \X (1..MaxCopies) : p[2] <= copies[n][p[1]]})

Count ==
    /\ phase = "count"
    /\ remaining' = [n \in Names |-> Listed(n)]
    /\ ready' = {n \in Names : Listed(n) = 0}
    /\ phase' = "drain"
    /\ UNCHANGED <<copies, order, search>>

UnblockedEarly(n) ==                       \* slip: one dependency is enough
    {m \in Names : copies[m][n] > 0 /\ m \notin ToSet(order)}

\* The dependents whose count reaches zero when n is emitted.
Unblocked(n) ==
    {m \in Names : copies[m][n] > 0 /\ remaining[m] = copies[m][n]}

PopLast == Max(ready)                      \* slip: not the smallest name

Pop == Min(ready)

Emit ==
    /\ phase = "drain" /\ ready # {}
    /\ order' = Append(order, Pop)
    /\ remaining' = [m \in Names |-> remaining[m] - copies[m][Pop]]
    /\ ready' = (ready \ {Pop}) \union Unblocked(Pop)
    /\ UNCHANGED <<copies, phase, search>>

DrainedUnchecked ==                        \* slip: the stall is not noticed
    /\ phase = "drain" /\ ready = {}
    /\ phase' = "ok"
    /\ UNCHANGED <<copies, kahn, search>>

\* Fewer actions emitted than there are: the rest is behind a cycle.
Drained ==
    /\ phase = "drain" /\ ready = {}
    /\ phase' = IF Len(order) = N THEN "ok" ELSE "search"
    /\ UNCHANGED <<copies, kahn, search>>

Roots == {n \in Names : remaining[n] > 0 /\ color[n] = "white"}

Visit(n) ==
    /\ color' = [color EXCEPT ![n] = "gray"]
    /\ stack' = Append(stack, [node |-> n, ahead |-> deps(n)])

\* The outer loop of findCycle; without a root it gives up with "<unknown>".
NextRoot ==
    /\ phase = "search" /\ stack = <<>>
    /\ IF Roots # {}
       THEN Visit(Min(Roots)) /\ UNCHANGED phase
       ELSE phase' = "unknown" /\ UNCHANGED <<color, stack>>
    /\ UNCHANGED <<copies, kahn, cycle>>

Top == Last(stack)

CycleUncut(d) ==                           \* slip: the stack is not cut at d
    Append([i \in DOMAIN stack |-> stack[i].node], d)

\* The stack from d to the top, closed.
CycleAt(d) ==
    LET from == CHOOSE i \in DOMAIN stack : stack[i].node = d
    IN  Append([i \in 1..(Len(stack) - from + 1) |-> stack[from + i - 1].node], d)

\* Kahn emitted d, so it is on no cycle.
Emitted(d) == remaining[d] = 0

\* One round of the loop over the dependencies of the action on top.
Look ==
    /\ phase = "search" /\ stack # <<>>
    /\ IF Top.ahead = {}
       THEN /\ color' = [color EXCEPT ![Top.node] = "black"]
            /\ stack' = Front(stack)
            /\ UNCHANGED <<phase, cycle>>
       ELSE LET d == Min(Top.ahead)
                rest == [stack EXCEPT ![Len(stack)].ahead = @ \ {d}]
            IN  CASE ~Emitted(d) /\ color[d] = "gray" ->
                        /\ cycle' = CycleAt(d)
                        /\ phase' = "cycle"
                        /\ UNCHANGED <<color, stack>>
                  [] ~Emitted(d) /\ color[d] = "white" ->
                        /\ color' = [color EXCEPT ![d] = "gray"]
                        /\ stack' = Append(rest, [node |-> d, ahead |-> deps(d)])
                        /\ UNCHANGED <<phase, cycle>>
                  [] OTHER ->
                        /\ stack' = rest
                        /\ UNCHANGED <<phase, color, cycle>>
    /\ UNCHANGED <<copies, kahn>>

GNext == Count \/ Emit \/ Drained \/ NextRoot \/ Look

GSpec == GInit /\ [][GNext]_gvars

-----------------------------------------------------------------------------
Topological(s) ==
    /\ IsInjective(s)
    /\ \A j \in DOMAIN s : \A d \in deps(s[j]) : \E i \in 1..(j - 1) : s[i] = d

\* At every moment what has been emitted is closed under dependencies and in
\* an order that runs each action after all of them.
OrderIsTopological == Topological(order)

\* No nonempty set of actions in which every action waits for another one.
Acyclic ==
    \A S \in (SUBSET Names) \ {{}} : {n \in S : deps(n) \cap S = {}} # {}

\* The drivers are told there is an order exactly when the graph has one.
OrderIffAcyclic ==
    /\ phase = "ok" => Acyclic /\ ToSet(order) = Names
    /\ phase \in {"search", "cycle", "unknown"} => ~Acyclic

LexLess(s, t) ==
    \E i \in DOMAIN s : s[i] < t[i] /\ \A j \in 1..(i - 1) : s[j] = t[j]

Orderings == SetToSeqs(Names)

\* The same manifest always yields the same sequence: the order is the first of
\* all topological orders by name, whatever became ready when.
OrderIsCanonical ==
    phase = "ok" =>
        \A t \in Orderings \ {order} : LexLess(t, order) => ~Topological(t)

\* A stall is always explained by a real, simple, closed cycle, and never by
\* the placeholder; and since an action that stalls has a dependency that
\* stalls, the first walk finds it without ever backing out of an action.
CycleIsReal ==
    /\ phase # "unknown"
    /\ \A n \in Names : color[n] # "black"
    /\ phase = "cycle" =>
          /\ Len(cycle) >= 3
          /\ cycle[1] = Last(cycle) /\ IsInjective(Tail(cycle))
          /\ \A i \in 1..(Len(cycle) - 1) : cycle[i + 1] \in deps(cycle[i])
=============================================================================
