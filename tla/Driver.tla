------------------------------- MODULE Driver --------------------------------
(***************************************************************************)
(* What the drivers of a build have in common: the graph they are given    *)
(* and what running one action can come to.                                *)
(***************************************************************************)
EXTENDS Integers, FiniteSets

CONSTANT Actions      \* the names of the manifest's actions

ASSUME ActionsAssumption == IsFiniteSet(Actions)

\* No nonempty set of actions in which every action waits for another one:
\* TopologicalOrder succeeds exactly on these graphs (module GraphOrder).
Acyclic(g) ==
    \A S \in (SUBSET Actions) \ {{}} : {a \in S : g[a] \cap S = {}} # {}

\* What an action would do if it were run.
Verdict == {"succeeds", "fails", "unrunnable", "hangs"}

OutcomesNoKill(v, ctxDone) ==       \* slip: the context kills nothing
    IF v = "hangs" THEN {}
    ELSE {[res |-> v # "unrunnable",
           err |-> IF v = "succeeds" THEN "nil" ELSE "own"]}

\* What Runner.Run may return: whether there is a Result, and the error.  A
\* command killed with the context, or never started because of it, is reported
\* as the context's error; a missing input or an unusable sandbox returns an
\* error and no Result.
Outcomes(v, ctxDone) ==
    CASE v = "succeeds" -> {[res |-> TRUE, err |-> e] :
                e \in IF ctxDone THEN {"nil", "canceled"} ELSE {"nil"}}
      [] v = "fails" -> {[res |-> TRUE, err |-> e] :
                e \in IF ctxDone THEN {"own", "canceled"} ELSE {"own"}}
      [] v = "unrunnable" -> {[res |-> FALSE, err |-> "own"]}
      [] v = "hangs" ->
            IF ctxDone THEN {[res |-> TRUE, err |-> "canceled"]} ELSE {}
=============================================================================
