-------------------------------- MODULE Sched --------------------------------
(***************************************************************************)
(* The parallel scheduler, internal/sched/sched.go.                        *)
(*                                                                         *)
(* Build starts one goroutine per action.  Each goroutine waits for the    *)
(* done channels of its dependencies, takes a slot of a counting           *)
(* semaphore, runs its command, records the outcome under a mutex and,     *)
(* through its deferred calls, gives the slot back and closes its own      *)
(* channel.  Any of them may find the build's context cancelled instead:   *)
(* by the first failure when KeepGoing is off, or by the caller.           *)
(*                                                                         *)
(* One step is what one goroutine does between two points at which another *)
(* one can see a difference.  The lists of the Summary are sorted before   *)
(* they are returned, so they are sets here.  The command itself is a      *)
(* verdict per action, fixed but unknown, so that a parallel build can be  *)
(* compared with the build the graph and the commands define.              *)
(***************************************************************************)
EXTENDS Driver

CONSTANTS
    Graphs,           \* the dependency maps a build may be given
    Verdicts,         \* what the commands of this instance may do
    WorkerOptions,    \* values of Options.Workers
    NumCPU,           \* runtime.NumCPU()
    Interruptible     \* whether the caller may cancel the context

ASSUME GraphsAssumption == Graphs \subseteq [Actions -> SUBSET Actions]
ASSUME VerdictsAssumption == Verdicts \subseteq Verdict
ASSUME WorkersAssumption == WorkerOptions \subseteq Int
ASSUME NumCPUAssumption == NumCPU \in Nat \ {0}
ASSUME InterruptibleAssumption == Interruptible \in BOOLEAN

VARIABLES
    deps,             \* the graph's dependency map
    keepGoing,        \* Options.KeepGoing
    workers,          \* Options.Workers as the caller gave it
    verdict,          \* what each command will do
    phase,            \* where Build itself is
    pc,               \* where each action's goroutine is
    sem,              \* number of tokens in the semaphore channel
    done,             \* actions whose done channel is closed
    state,            \* the map of statuses; a key never written reads statusOK
    results,          \* actions with a Result in the Summary
    failed,           \* Summary.Failed
    skipped,          \* Summary.Skipped
    firstErr,         \* the error Build will return
    cancelled,        \* Build's own cancel() was called
    interrupted       \* the caller cancelled the parent context

input == <<deps, keepGoing, workers, verdict>>
summary == <<state, results, failed, skipped, firstErr>>
vars == <<input, phase, pc, sem, done, summary, cancelled, interrupted>>

-----------------------------------------------------------------------------
\* A request of zero or less means one slot per CPU: an unbuffered semaphore
\* channel would block every goroutine for ever.
Slots == IF workers <= 0 THEN NumCPU ELSE workers

\* ctx.Done() of the derived context.
CtxDone == cancelled \/ interrupted

-----------------------------------------------------------------------------
Init ==
    /\ deps \in Graphs
    /\ keepGoing \in BOOLEAN
    /\ workers \in WorkerOptions
    /\ verdict \in [Actions -> Verdicts]
    /\ phase = "start"
    /\ pc = [a \in Actions |-> "idle"]
    /\ sem = 0
    /\ done = {}
    /\ state = [a \in Actions |-> "ok"]
    /\ results = {} /\ failed = {} /\ skipped = {}
    /\ firstErr = "nil"
    /\ cancelled = FALSE /\ interrupted = FALSE

\* A cycle is reported before anything starts.
Reject ==
    /\ phase = "start"
    /\ ~Acyclic(deps)
    /\ phase' = "rejected"
    /\ UNCHANGED <<input, pc, sem, done, summary, cancelled, interrupted>>

\* The channels are made and every goroutine is started.
Launch ==
    /\ phase = "start"
    /\ Acyclic(deps)
    /\ phase' = "building"
    /\ pc' = [a \in Actions |-> "wait"]
    /\ UNCHANGED <<input, sem, done, summary, cancelled, interrupted>>

MarkSkippedReleasing(a) ==     \* slip: the release is deferred too early
    /\ state' = [state EXCEPT ![a] = "skipped"]
    /\ skipped' = skipped \union {a}
    /\ pc' = [pc EXCEPT ![a] = "release"]
    /\ UNCHANGED <<input, phase, sem, done, results, failed, firstErr,
                   cancelled, interrupted>>

MarkSkipped(a) ==
    /\ state' = [state EXCEPT ![a] = "skipped"]
    /\ skipped' = skipped \union {a}
    /\ pc' = [pc EXCEPT ![a] = "close"]
    /\ UNCHANGED <<input, phase, sem, done, results, failed, firstErr,
                   cancelled, interrupted>>

SkipBlockedUnrecorded(a) ==    \* slip: return without skip(name)
    /\ pc[a] = "wait"
    /\ deps[a] \subseteq done
    /\ \E d \in deps[a] : state[d] # "ok"
    /\ pc' = [pc EXCEPT ![a] = "close"]
    /\ UNCHANGED <<input, phase, sem, done, summary, cancelled, interrupted>>

\* A dependency that failed or was skipped never produced this action's inputs.
SkipBlocked(a) ==
    /\ pc[a] = "wait"
    /\ deps[a] \subseteq done
    /\ \E d \in deps[a] : state[d] # "ok"
    /\ MarkSkipped(a)

\* The context ended while the goroutine waited for a dependency or a slot.
SkipCancelled(a) ==
    /\ pc[a] \in {"wait", "acquire"}
    /\ CtxDone
    /\ MarkSkipped(a)

AdmitByStateOnly(a) ==         \* slip: the map is read before the channels
    /\ pc[a] = "wait"
    /\ \A d \in deps[a] : state[d] = "ok"
    /\ ~CtxDone
    /\ pc' = [pc EXCEPT ![a] = "acquire"]
    /\ UNCHANGED <<input, phase, sem, done, summary, cancelled, interrupted>>

\* Every dependency is done and recorded ok, and the context is still live.
Admit(a) ==
    /\ pc[a] = "wait"
    /\ deps[a] \subseteq done
    /\ \A d \in deps[a] : state[d] = "ok"
    /\ ~CtxDone
    /\ pc' = [pc EXCEPT ![a] = "acquire"]
    /\ UNCHANGED <<input, phase, sem, done, summary, cancelled, interrupted>>

AcquireOneMore(a) ==           \* slip: one slot too many
    /\ pc[a] = "acquire"
    /\ sem <= Slots
    /\ sem' = sem + 1
    /\ pc' = [pc EXCEPT ![a] = "run"]
    /\ UNCHANGED <<input, phase, done, summary, cancelled, interrupted>>

\* The send on the semaphore is ready.  With the context done as well, select
\* chooses either case.
Acquire(a) ==
    /\ pc[a] = "acquire"
    /\ sem < Slots
    /\ sem' = sem + 1
    /\ pc' = [pc EXCEPT ![a] = "run"]
    /\ UNCHANGED <<input, phase, done, summary, cancelled, interrupted>>

LastError(o) == o.err              \* slip: the last error wins

ErrorOfResult(o) ==                \* slip: no Result, no error
    IF firstErr = "nil" /\ o.res THEN o.err ELSE firstErr

FirstError(o) == IF firstErr = "nil" THEN o.err ELSE firstErr

CancelAlways == "cancel"           \* slip: KeepGoing is not consulted

AfterFailure == IF keepGoing THEN "release" ELSE "cancel"

\* Run returns and its outcome is recorded in one critical section.
Record(a) ==
    /\ pc[a] = "run"
    /\ \E o \in Outcomes(verdict[a], CtxDone) :
         /\ results' = IF o.res THEN results \union {a} ELSE results
         /\ IF o.err = "nil"
            THEN /\ state' = [state EXCEPT ![a] = "ok"]
                 /\ pc' = [pc EXCEPT ![a] = "release"]
                 /\ UNCHANGED <<failed, firstErr>>
            ELSE /\ state' = [state EXCEPT ![a] = "failed"]
                 /\ failed' = failed \union {a}
                 /\ firstErr' = FirstError(o)
                 /\ pc' = [pc EXCEPT ![a] = AfterFailure]
    /\ UNCHANGED <<input, phase, sem, done, skipped, cancelled, interrupted>>

\* Fail-fast: stop the work in flight.
Cancel(a) ==
    /\ pc[a] = "cancel"
    /\ cancelled' = TRUE
    /\ pc' = [pc EXCEPT ![a] = "release"]
    /\ UNCHANGED <<input, phase, sem, done, summary, interrupted>>

\* The deferred receive from the semaphore: only goroutines that took a slot
\* get here.
Release(a) ==
    /\ pc[a] = "release"
    /\ sem' = sem - 1
    /\ pc' = [pc EXCEPT ![a] = "close"]
    /\ UNCHANGED <<input, phase, done, summary, cancelled, interrupted>>

CloseForgotten(a) ==           \* slip: a way out that does not close
    /\ pc[a] = "close"
    /\ done' = IF a \in skipped THEN done ELSE done \union {a}
    /\ pc' = [pc EXCEPT ![a] = "gone"]
    /\ UNCHANGED <<input, phase, sem, summary, cancelled, interrupted>>

\* The deferred close(done[name]) and wg.Done, on every way out.
Close(a) ==
    /\ pc[a] = "close"
    /\ done' = done \union {a}
    /\ pc' = [pc EXCEPT ![a] = "gone"]
    /\ UNCHANGED <<input, phase, sem, summary, cancelled, interrupted>>

\* wg.Wait returns, and with it Build, whose deferred cancel() runs.
Return ==
    /\ phase = "building"
    /\ \A a \in Actions : pc[a] = "gone"
    /\ phase' = "returned"
    /\ cancelled' = TRUE
    /\ UNCHANGED <<input, pc, sem, done, summary, interrupted>>

\* The caller's context ends: an interrupt signal, a deadline.
Interrupt ==
    /\ Interruptible
    /\ phase \in {"start", "building"}
    /\ ~interrupted
    /\ interrupted' = TRUE
    /\ UNCHANGED <<input, phase, pc, sem, done, summary, cancelled>>

Step(a) ==
    \/ SkipBlocked(a) \/ SkipCancelled(a) \/ Admit(a) \/ Acquire(a)
    \/ Record(a) \/ Cancel(a) \/ Release(a) \/ Close(a)

Next ==
    \/ Reject \/ Launch \/ Return \/ Interrupt
    \/ \E a \in Actions : Step(a)

Spec == Init /\ [][Next]_vars

\* The Go runtime runs every goroutine that can run; a command that is killed
\* with its context is waited for two seconds at most.
Fairness ==
    /\ WF_vars(Reject \/ Launch) /\ WF_vars(Return)
    /\ \A a \in Actions : WF_vars(Step(a))

FairSpec == Spec /\ Fairness

-----------------------------------------------------------------------------
(* What must be true of it.                                                *)

Phases == {"start", "rejected", "building", "returned"}
Locations ==
    {"idle", "wait", "acquire", "run", "cancel", "release", "close", "gone"}

\* Every variable keeps to its domain.
TypeOK ==
    /\ deps \in [Actions -> SUBSET Actions]
    /\ keepGoing \in BOOLEAN
    /\ workers \in Int
    /\ verdict \in [Actions -> Verdict]
    /\ phase \in Phases
    /\ pc \in [Actions -> Locations]
    /\ sem \in Nat
    /\ done \subseteq Actions
    /\ state \in [Actions -> {"ok", "failed", "skipped"}]
    /\ results \subseteq Actions /\ failed \subseteq Actions
    /\ skipped \subseteq Actions
    /\ firstErr \in {"nil", "own", "canceled"}
    /\ cancelled \in BOOLEAN /\ interrupted \in BOOLEAN

Built == results \ failed
Decided == Built \union failed \union skipped
Running == {a \in Actions : pc[a] = "run"}
Holders == {a \in Actions : pc[a] \in {"run", "cancel", "release"}}
Started == Running \union results \union failed

\* A command runs, or has run, only when the commands of all its dependencies
\* ran to success before: reading a status out of the map, whose missing keys
\* look like success, never admits an action early.
DependenciesBuilt == \A a \in Started : deps[a] \subseteq Built

\* The tokens in the channel are the slots held, and no more than the worker
\* limit are, whatever limit was asked for and however actions end.
SlotsAccounted == sem = Cardinality(Holders) /\ sem <= Slots

\* Every action has at most one outcome, and when Build returns each has one,
\* no slot is held, and nobody is left waiting on a channel.
EveryActionDecidedOnce ==
    /\ failed \intersect skipped = {} /\ Built \intersect skipped = {}
    /\ phase = "returned" =>
          Decided = Actions /\ done = Actions /\ sem = 0

\* The error returned is the failure that stopped the build, not the echo of
\* its own cancellation in a sibling: unless the caller interrupted, the first
\* error recorded is a command's own, and there is one exactly when something
\* was not built.
FirstErrorIsTheCause ==
    ~interrupted =>
        /\ firstErr # "canceled"
        /\ firstErr = "nil" <=> failed = {}
        /\ phase = "returned" /\ firstErr = "nil" => Built = Actions

\* Whatever the interleaving, an uninterrupted build ends as the graph and the
\* commands dictate, so as the sequential driver would.  With KeepGoing the
\* three equations have one solution on an acyclic graph; without it, what was
\* skipped depends on timing but whether the build succeeds does not.
OutcomeMatchesCommands ==
    phase = "returned" /\ ~interrupted =>
        IF keepGoing
        THEN /\ Built = {a \in Actions :
                            verdict[a] = "succeeds" /\ deps[a] \subseteq Built}
             /\ failed = {a \in Actions :
                            verdict[a] # "succeeds" /\ deps[a] \subseteq Built}
             /\ skipped = {a \in Actions : ~(deps[a] \subseteq Built)}
        ELSE failed = {} <=> \A a \in Actions : verdict[a] = "succeeds"

\* A build none of whose commands hangs returns: no failure, skip or full
\* semaphore leaves a goroutine waiting for a channel nobody will close.
BuildReturns ==
    (\A a \in Actions : verdict[a] # "hangs")
        ~> phase \in {"rejected", "returned"}

\* Once the context is cancelled, by the caller or by the first failure, Build
\* returns even if commands would have run for ever.
CancelledBuildReturns ==
    CtxDone ~> phase \in {"rejected", "returned"}

\* The build the caller sees (refinement mapping onto BuildSpec).
Outcome(a) ==
    CASE a \in failed -> "failed"
      [] a \in skipped -> "skipped"
      [] a \in Built -> "built"
      [] pc[a] = "run" /\ a \notin Decided -> "running"
      [] OTHER -> "pending"

outcome == [a \in Actions |-> Outcome(a)]

answer ==
    CASE phase = "rejected" -> "error"
      [] phase = "returned" -> IF firstErr = "nil" THEN "ok" ELSE "error"
      [] OTHER -> "none"

Abstract == INSTANCE BuildSpec WITH limit <- Slots

\* The scheduler implements the abstract build.
ImplementsBuildSpec == Abstract!Spec

-----------------------------------------------------------------------------
(* What documents, comments and tests say of it, and the code does not do. *)

\* Summary.Succeeded().
Succeeded == Cardinality(results) - Cardinality(failed)

\* "Succeeded, Failed, and Skipped together account for every action in the
\* graph": a failure without a Result is subtracted without being counted.
SummaryAddsUp ==
    phase = "returned" =>
        /\ Succeeded >= 0
        /\ Succeeded + Cardinality(failed) + Cardinality(skipped)
              = Cardinality(Actions)

\* A build the caller cancelled before everything was built says so.
CancellationIsAnError ==
    phase = "returned" /\ skipped # {} => firstErr # "nil"
=============================================================================
