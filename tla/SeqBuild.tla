------------------------------ MODULE SeqBuild -------------------------------
(***************************************************************************)
(* The sequential driver, internal/runner/build.go: actions one at a time, *)
(* in topological order, poisoning everything downstream of what did not   *)
(* get built.  It is the reference the parallel scheduler is judged by, so *)
(* it is held to the same abstract build.                                  *)
(*                                                                         *)
(* The driver is one thread; the steps are the points at which the caller  *)
(* can cancel the context or the summary can be looked at.                 *)
(***************************************************************************)
EXTENDS Driver, Sequences, SequencesExt

CONSTANTS
    Graphs,           \* the dependency maps a build may be given
    Verdicts          \* what the commands of this instance may do

ASSUME GraphsAssumption == Graphs \subseteq [Actions -> SUBSET Actions]
ASSUME VerdictsAssumption == Verdicts \subseteq Verdict

VARIABLES
    deps,             \* the graph's dependency map
    keepGoing,        \* Options.KeepGoing
    verdict,          \* what each command will do
    pc,               \* where Build is
    todo,             \* the part of the order still ahead, current action first
    poisoned,         \* actions downstream of one that was not built
    results,          \* actions with a Result in the Summary
    failed,           \* Summary.Failed
    skipped,          \* Summary.Skipped
    firstErr,         \* the error Build will return
    interrupted       \* the caller cancelled the context

input == <<deps, keepGoing, verdict>>
summary == <<results, failed, skipped, firstErr>>
vars == <<input, pc, todo, poisoned, summary, interrupted>>

-----------------------------------------------------------------------------
\* Names are arbitrary, so any order that lists dependencies first may be the
\* one TopologicalOrder chooses by name.
Orders(g) ==
    {s \in SetToSeqs(Actions) :
        \A i, j \in DOMAIN s : s[i] \in g[s[j]] => i < j}

Dependents(a) == {b \in Actions : a \in deps[b]}

MarkDirectOnly(a) ==      \* slip: the recursive call is missing
    poisoned \union Dependents(a)

\* markDependents: what the recursion adds to the map, which it does not enter
\* where an action is poisoned already.
MarkDependents(a) ==
    poisoned \union
    {x \in Actions :
        \A C \in SUBSET Actions :
            /\ Dependents(a) \ poisoned \subseteq C
            /\ \A c \in C : Dependents(c) \ poisoned \subseteq C
            => x \in C}

-----------------------------------------------------------------------------
Init ==
    /\ deps \in Graphs
    /\ keepGoing \in BOOLEAN
    /\ verdict \in [Actions -> Verdicts]
    /\ pc = "start"
    /\ todo = <<>>
    /\ poisoned = {}
    /\ results = {} /\ failed = {} /\ skipped = {}
    /\ firstErr = "nil"
    /\ interrupted = FALSE

Reject ==
    /\ pc = "start"
    /\ ~Acyclic(deps)
    /\ pc' = "rejected"
    /\ UNCHANGED <<input, todo, poisoned, summary, interrupted>>

Begin ==
    /\ pc = "start"
    /\ Acyclic(deps)
    /\ todo' \in Orders(deps)
    /\ pc' = "loop"
    /\ UNCHANGED <<input, poisoned, summary, interrupted>>

SkipPoisoned ==
    /\ pc = "loop" /\ todo # <<>>
    /\ Head(todo) \in poisoned
    /\ skipped' = skipped \union {Head(todo)}
    /\ poisoned' = MarkDependents(Head(todo))
    /\ todo' = Tail(todo)
    /\ UNCHANGED <<input, pc, results, failed, firstErr, interrupted>>

SkipInterruptedSilently ==    \* slip: the context's error is not kept
    /\ pc = "loop" /\ todo # <<>>
    /\ Head(todo) \notin poisoned
    /\ interrupted
    /\ skipped' = skipped \union {Head(todo)}
    /\ poisoned' = MarkDependents(Head(todo))
    /\ todo' = Tail(todo)
    /\ UNCHANGED <<input, pc, results, failed, firstErr, interrupted>>

\* Between two actions the driver looks at the context itself.
SkipInterrupted ==
    /\ pc = "loop" /\ todo # <<>>
    /\ Head(todo) \notin poisoned
    /\ interrupted
    /\ skipped' = skipped \union {Head(todo)}
    /\ poisoned' = MarkDependents(Head(todo))
    /\ firstErr' = IF firstErr = "nil" THEN "canceled" ELSE firstErr
    /\ todo' = Tail(todo)
    /\ UNCHANGED <<input, pc, results, failed, interrupted>>

Run ==
    /\ pc = "loop" /\ todo # <<>>
    /\ Head(todo) \notin poisoned
    /\ ~interrupted
    /\ pc' = "run"
    /\ UNCHANGED <<input, todo, poisoned, summary, interrupted>>

RecordUnpoisoned ==           \* slip: a failure poisons nothing
    /\ pc = "run"
    /\ \E o \in Outcomes(verdict[Head(todo)], interrupted) :
         /\ results' = IF o.res THEN results \union {Head(todo)} ELSE results
         /\ IF o.err = "nil"
            THEN pc' = "loop" /\ UNCHANGED <<failed, firstErr>>
            ELSE /\ failed' = failed \union {Head(todo)}
                 /\ firstErr' = IF firstErr = "nil" THEN o.err ELSE firstErr
                 /\ pc' = IF keepGoing THEN "loop" ELSE "abort"
    /\ todo' = Tail(todo)
    /\ UNCHANGED <<input, poisoned, skipped, interrupted>>

Record ==
    /\ pc = "run"
    /\ \E o \in Outcomes(verdict[Head(todo)], interrupted) :
         /\ results' = IF o.res THEN results \union {Head(todo)} ELSE results
         /\ IF o.err = "nil"
            THEN pc' = "loop" /\ UNCHANGED <<poisoned, failed, firstErr>>
            ELSE /\ failed' = failed \union {Head(todo)}
                 /\ poisoned' = MarkDependents(Head(todo))
                 /\ firstErr' = IF firstErr = "nil" THEN o.err ELSE firstErr
                 /\ pc' = IF keepGoing THEN "loop" ELSE "abort"
    /\ todo' = Tail(todo)
    /\ UNCHANGED <<input, skipped, interrupted>>

AbortUnrecorded ==            \* slip: the rest of the order is forgotten
    /\ pc = "abort"
    /\ todo' = <<>>
    /\ pc' = "leave"
    /\ UNCHANGED <<input, poisoned, summary, interrupted>>

\* Fail-fast: everything after this point never gets a chance to run.
Abort ==
    /\ pc = "abort"
    /\ skipped' = skipped \union ToSet(todo)
    /\ todo' = <<>>
    /\ pc' = "leave"
    /\ UNCHANGED <<input, poisoned, results, failed, firstErr, interrupted>>

Return ==
    /\ (pc = "loop" /\ todo = <<>>) \/ pc = "leave"
    /\ pc' = "returned"
    /\ UNCHANGED <<input, todo, poisoned, summary, interrupted>>

Interrupt ==
    /\ pc \notin {"rejected", "returned"}
    /\ ~interrupted
    /\ interrupted' = TRUE
    /\ UNCHANGED <<input, pc, todo, poisoned, summary>>

Next ==
    \/ Reject \/ Begin \/ SkipPoisoned \/ SkipInterrupted \/ Run \/ Record
    \/ Abort \/ Return \/ Interrupt

Spec == Init /\ [][Next]_vars

\* The driver's thread runs; a killed command is waited for two seconds.
Driving ==
    \/ Reject \/ Begin \/ SkipPoisoned \/ SkipInterrupted \/ Run \/ Record
    \/ Abort \/ Return

FairSpec == Spec /\ WF_vars(Driving)

-----------------------------------------------------------------------------
Built == results \ failed
Decided == Built \union failed \union skipped

\* Between two actions, what is poisoned is exactly what is downstream of
\* something not built: the early stop of the recursion misses nothing, so no
\* action runs on inputs that were never produced.
PoisonIsDownstream ==
    pc = "loop" =>
        poisoned = {a \in Actions :
                       deps[a] \intersect (failed \union skipped \union poisoned) # {}}

\* What is behind is decided, once, and what is ahead is not.
DecidedInOrder ==
    /\ failed \intersect skipped = {} /\ Built \intersect skipped = {}
    /\ pc \notin {"start", "rejected"} => Decided = Actions \ ToSet(todo)

\* A build that was cut short, by a failure or by the caller, is an error.
CutShortIsAnError ==
    pc = "returned" /\ Built # Actions => firstErr # "nil"

\* The build the caller sees (refinement mapping onto BuildSpec).
Outcome(a) ==
    CASE a \in failed -> "failed"
      [] a \in skipped -> "skipped"
      [] a \in Built -> "built"
      [] pc = "run" /\ a = Head(todo) -> "running"
      [] OTHER -> "pending"

outcome == [a \in Actions |-> Outcome(a)]

answer ==
    CASE pc = "rejected" -> "error"
      [] pc = "returned" -> IF firstErr = "nil" THEN "ok" ELSE "error"
      [] OTHER -> "none"

Abstract == INSTANCE BuildSpec WITH limit <- 1

\* The sequential driver implements the same abstract build, with one slot.
ImplementsBuildSpec == Abstract!Spec
=============================================================================
