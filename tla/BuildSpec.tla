------------------------------ MODULE BuildSpec ------------------------------
(***************************************************************************)
(* What a build promises, whichever driver executes it.  The parallel      *)
(* scheduler (module Sched) and the sequential driver (module SeqBuild)    *)
(* both implement this specification: one outcome per action, decided      *)
(* once, a command started only when every dependency has been built, an   *)
(* action given up on only for a cause, and an answer that matches.        *)
(***************************************************************************)
EXTENDS Driver

VARIABLES
    deps,             \* [Actions -> SUBSET Actions], fixed at the start
    keepGoing,        \* Options.KeepGoing, fixed at the start
    limit,            \* how many commands may run at once, fixed at the start
    outcome,          \* [Actions -> Outcome]
    interrupted,      \* the caller cancelled the build's context
    answer            \* "none" until Build returns, then "ok" or "error"

vars == <<deps, keepGoing, limit, outcome, interrupted, answer>>

Outcome == {"pending", "running", "built", "failed", "skipped"}

InState(o) == {a \in Actions : outcome[a] = o}

-----------------------------------------------------------------------------
Init ==
    /\ deps \in [Actions -> SUBSET Actions]
    /\ keepGoing \in BOOLEAN
    /\ limit \in Nat \ {0}
    /\ outcome = [a \in Actions |-> "pending"]
    /\ interrupted = FALSE
    /\ answer = "none"

Start(a) ==
    /\ answer = "none"
    /\ outcome[a] = "pending"
    /\ Acyclic(deps)
    /\ \A d \in deps[a] : outcome[d] = "built"
    /\ Cardinality(InState("running")) < limit
    /\ outcome' = [outcome EXCEPT ![a] = "running"]
    /\ UNCHANGED <<deps, keepGoing, limit, interrupted, answer>>

Finish(a) ==
    /\ outcome[a] = "running"
    /\ \E o \in {"built", "failed"} : outcome' = [outcome EXCEPT ![a] = o]
    /\ UNCHANGED <<deps, keepGoing, limit, interrupted, answer>>

\* Why an action may be given up on without running its command.
MaySkip(a) ==
    \/ interrupted
    \/ ~keepGoing /\ InState("failed") # {}
    \/ \E d \in deps[a] : outcome[d] \in {"failed", "skipped"}

Skip(S) ==
    /\ answer = "none"
    /\ S # {}
    /\ \A a \in S : outcome[a] = "pending" /\ MaySkip(a)
    /\ outcome' = [a \in Actions |-> IF a \in S THEN "skipped" ELSE outcome[a]]
    /\ UNCHANGED <<deps, keepGoing, limit, interrupted, answer>>

Interrupt ==
    /\ answer = "none"
    /\ interrupted' = TRUE
    /\ UNCHANGED <<deps, keepGoing, limit, outcome, answer>>

\* A failure is always answered by an error, and without an interruption
\* nothing else is.
Return ==
    /\ answer = "none"
    /\ InState("pending") = {} /\ InState("running") = {}
    /\ answer' \in IF InState("failed") # {} THEN {"error"}
                   ELSE IF interrupted THEN {"ok", "error"} ELSE {"ok"}
    /\ UNCHANGED <<deps, keepGoing, limit, outcome, interrupted>>

\* A graph with a cycle is refused before anything starts.
Reject ==
    /\ answer = "none"
    /\ ~Acyclic(deps)
    /\ answer' = "error"
    /\ UNCHANGED <<deps, keepGoing, limit, outcome, interrupted>>

Next ==
    \/ \E a \in Actions : Start(a) \/ Finish(a)
    \/ \E S \in SUBSET Actions : Skip(S)
    \/ Interrupt \/ Return \/ Reject

Spec == Init /\ [][Next]_vars
=============================================================================
