----------------------------- MODULE SchedProofs -----------------------------
(***************************************************************************)
(* Theorems about the parallel scheduler, for every set of actions, every  *)
(* graph, every worker limit and every outcome of the commands.            *)
(*                                                                         *)
(* None of the invariants is inductive alone: that a dependency was built  *)
(* follows from its closed channel only because the goroutine recorded its *)
(* status before closing it, so the strengthening ties each goroutine's    *)
(* place in the code to what it has put in the shared variables.           *)
(***************************************************************************)
EXTENDS Sched, FiniteSetTheorems, TLAPS

Undecided == {"idle", "wait", "acquire", "run"}
Settled == {"cancel", "release", "close", "gone"}

\* What one goroutine has written, by where it is.
Written(a) ==
    /\ a \in done <=> pc[a] = "gone"
    /\ pc[a] \in Undecided =>
          state[a] = "ok" /\ a \notin results /\ a \notin failed /\ a \notin skipped
    /\ pc[a] \in Settled =>
          \/ state[a] = "ok" /\ a \in results /\ a \notin failed /\ a \notin skipped
          \/ state[a] = "failed" /\ a \in failed /\ a \notin skipped
          \/ state[a] = "skipped" /\ a \in skipped /\ a \notin results /\ a \notin failed
    /\ pc[a] = "cancel" => a \in failed

Records == \A a \in Actions : Written(a)

\* Past the dependency check, the dependencies are built.
Admitted ==
    \A a \in Actions :
        pc[a] \in {"acquire", "run"} \/ a \in results \/ a \in failed =>
            deps[a] \subseteq Built

\* Goroutines live between Launch and Return.
Joined ==
    /\ phase \in {"start", "rejected"} => \A a \in Actions : pc[a] = "idle"
    /\ phase = "returned" => \A a \in Actions : pc[a] = "gone"

\* Every reason to give up on an action is a failure or the caller.
Causes ==
    /\ firstErr = "nil" <=> failed = {}
    /\ cancelled => failed # {} \/ phase = "returned"
    /\ skipped # {} => interrupted \/ failed # {}
    /\ firstErr = "canceled" => interrupted

IInv == TypeOK /\ Records /\ Admitted /\ Joined /\ SlotsAccounted /\ Causes

-----------------------------------------------------------------------------
\* The goroutines holding a slot are finitely many.
LEMMA HoldersFinite ==
    IsFiniteSet(Holders) /\ Cardinality(Holders) \in Nat
BY ActionsAssumption, FS_Subset, FS_CardinalityType DEF Holders

\* A slot limit is positive, whatever was asked for.
LEMMA SlotsPositive ==
    ASSUME workers \in Int
    PROVE  Slots \in Nat /\ Slots > 0
BY NumCPUAssumption DEF Slots

\* A success has a Result, and only a cancelled context kills a command.
LEMMA RunOutcome ==
    ASSUME TypeOK, NEW a \in Actions, NEW o \in Outcomes(verdict[a], CtxDone)
    PROVE  /\ o.err \in {"nil", "own", "canceled"}
           /\ o.err = "nil" => o.res /\ verdict[a] = "succeeds"
           /\ o.err = "own" => verdict[a] # "succeeds"
           /\ o.err = "canceled" => CtxDone
<1>1. verdict[a] \in Verdict
  BY DEF TypeOK
<1>2. CASE verdict[a] = "succeeds"
  BY <1>2 DEF Outcomes
<1>3. CASE verdict[a] = "fails"
  BY <1>3 DEF Outcomes
<1>4. CASE verdict[a] = "unrunnable"
  BY <1>4 DEF Outcomes
<1>5. CASE verdict[a] = "hangs"
  BY <1>5 DEF Outcomes
<1> QED
  BY <1>1, <1>2, <1>3, <1>4, <1>5 DEF Verdict

\* The invariant holds when Build is entered.
LEMMA InitIInv == Init => IInv
<1> SUFFICES ASSUME Init PROVE IInv
  OBVIOUS
<1> USE DEF Init
<1>1. TypeOK
  BY GraphsAssumption, VerdictsAssumption, WorkersAssumption
  DEF TypeOK, Phases, Locations
<1>2. Records /\ Admitted /\ Joined /\ Causes
  BY DEF Records, Written, Undecided, Settled, Admitted, Joined, Causes
<1>3. SlotsAccounted
  <2>1. Holders = {}
    BY DEF Holders
  <2>2. Slots \in Nat
    BY <1>1, SlotsPositive DEF TypeOK
  <2> QED
    BY <2>1, <2>2, FS_EmptySet DEF SlotsAccounted
<1> QED
  BY <1>1, <1>2, <1>3 DEF IInv

\* A slot is taken by one goroutine and given back by one that holds it.
LEMMA SlotsStep == IInv /\ [Next]_vars => SlotsAccounted'
<1> SUFFICES ASSUME IInv, [Next]_vars PROVE SlotsAccounted'
  OBVIOUS
<1> USE DEF IInv, SlotsAccounted
<1>0. Slots \in Nat
  BY SlotsPositive DEF TypeOK
<1>1. ASSUME Holders' = Holders, sem' = sem, workers' = workers
      PROVE  SlotsAccounted'
  BY <1>1 DEF Slots
<1>2. CASE Reject \/ Return \/ Interrupt \/ UNCHANGED vars
  BY <1>1, <1>2 DEF Reject, Return, Interrupt, vars, input, Holders
<1>3. CASE Launch
  <2>1. Holders = {} /\ Holders' = {}
    BY <1>3 DEF Launch, Holders, Joined
  <2> QED
    BY <1>1, <1>3, <2>1 DEF Launch, input
<1>4. ASSUME NEW a \in Actions, Step(a)
      PROVE  SlotsAccounted'
  <2>1. CASE SkipBlocked(a) \/ SkipCancelled(a) \/ Admit(a) \/ Close(a)
    BY <1>1, <2>1 DEF SkipBlocked, SkipCancelled, MarkSkipped, Admit, Close,
                      input, Holders, TypeOK
  <2>2. CASE Record(a) \/ Cancel(a)
    BY <1>1, <2>2 DEF Record, Cancel, AfterFailure, input, Holders, TypeOK
  <2>3. CASE Acquire(a)
    <3>1. Holders' = Holders \union {a} /\ a \notin Holders
      BY <2>3 DEF Acquire, Holders, TypeOK
    <3>2. Cardinality(Holders') = Cardinality(Holders) + 1
      BY <3>1, HoldersFinite, FS_AddElement
    <3> QED
      BY <1>0, <2>3, <3>2 DEF Acquire, Slots, input, TypeOK
  <2>4. CASE Release(a)
    <3>1. Holders' = Holders \ {a} /\ a \in Holders
      BY <2>4 DEF Release, Holders, TypeOK
    <3>2. Cardinality(Holders') = Cardinality(Holders) - 1
      BY <3>1, HoldersFinite, FS_RemoveElement
    <3> QED
      BY <1>0, <2>4, <3>2 DEF Release, Slots, input, TypeOK
  <2> QED
    BY <1>4, <2>1, <2>2, <2>3, <2>4 DEF Step
<1> QED
  BY <1>2, <1>3, <1>4 DEF Next

\* Types are kept; the count of tokens is a number because it counts holders.
LEMMA TypeStep == IInv /\ [Next]_vars => TypeOK'
<1> SUFFICES ASSUME IInv, [Next]_vars PROVE TypeOK'
  OBVIOUS
<1> USE DEF IInv, TypeOK, Phases, Locations
<1>0. sem' \in Nat
  BY SlotsStep, HoldersFinite, ActionsAssumption, FS_Subset, FS_CardinalityType
  DEF SlotsAccounted, Holders
<1>1. CASE Reject \/ Launch \/ Return \/ Interrupt \/ UNCHANGED vars
  BY <1>1 DEF Reject, Launch, Return, Interrupt, vars, input, summary
<1>2. ASSUME NEW a \in Actions, Step(a)
      PROVE  TypeOK'
  <2>1. CASE SkipBlocked(a) \/ SkipCancelled(a)
    BY <2>1 DEF SkipBlocked, SkipCancelled, MarkSkipped, input
  <2>2. CASE Admit(a) \/ Acquire(a) \/ Cancel(a) \/ Release(a) \/ Close(a)
    BY <1>0, <2>2 DEF Admit, Acquire, Cancel, Release, Close, input, summary
  <2>3. CASE Record(a)
    <3> PICK o \in Outcomes(verdict[a], CtxDone) : Record(a)!2!(o)
      BY <2>3 DEF Record
    <3>1. o.err \in {"nil", "own", "canceled"}
      BY RunOutcome
    <3> QED
      BY <2>3, <3>1 DEF Record, FirstError, AfterFailure, input
  <2> QED
    BY <1>2, <2>1, <2>2, <2>3 DEF Step
<1> QED
  BY <1>1, <1>2 DEF Next

\* A goroutine writes only about its own action, and everything it writes
\* about it before it closes the channel.
LEMMA RecordsStep == IInv /\ [Next]_vars => Records'
<1> SUFFICES ASSUME IInv, [Next]_vars, NEW b \in Actions PROVE Written(b)'
  BY DEF Records
<1> USE DEF Written, Undecided, Settled
<1>0. Written(b) /\ TypeOK
  BY DEF IInv, Records
<1>1. CASE Reject \/ Return \/ Interrupt \/ UNCHANGED vars
  BY <1>0, <1>1 DEF Reject, Return, Interrupt, vars, summary
<1>2. CASE Launch
  BY <1>0, <1>2 DEF Launch, summary, IInv, Joined
<1>3. ASSUME NEW a \in Actions, Step(a)
      PROVE  Written(b)'
  <2> USE <1>0 DEF TypeOK
  <2>1. CASE SkipBlocked(a) \/ SkipCancelled(a)
    BY <2>1 DEF SkipBlocked, SkipCancelled, MarkSkipped
  <2>2. CASE Admit(a) \/ Acquire(a) \/ Release(a)
    BY <2>2 DEF Admit, Acquire, Release, summary
  <2>3. CASE Cancel(a) \/ Close(a)
    BY <2>3 DEF Cancel, Close, summary
  <2>4. CASE Record(a)
    <3> PICK o \in Outcomes(verdict[a], CtxDone) : Record(a)!2!(o)
      BY <2>4 DEF Record
    <3>1. o.err = "nil" => o.res
      BY RunOutcome
    <3> QED
      BY <2>4, <3>1 DEF Record, AfterFailure
  <2> QED
    BY <1>3, <2>1, <2>2, <2>3, <2>4 DEF Step
<1> QED
  BY <1>1, <1>2, <1>3 DEF Next

\* What is built stays built.
LEMMA BuiltGrows == IInv /\ [Next]_vars => Built \subseteq Built'
<1> SUFFICES ASSUME IInv, [Next]_vars PROVE Built \subseteq Built'
  OBVIOUS
<1>1. CASE Reject \/ Launch \/ Return \/ Interrupt \/ UNCHANGED vars
  BY <1>1 DEF Reject, Launch, Return, Interrupt, vars, summary, Built
<1>2. ASSUME NEW a \in Actions, Step(a)
      PROVE  Built \subseteq Built'
  <2>1. CASE SkipBlocked(a) \/ SkipCancelled(a)
    BY <2>1 DEF SkipBlocked, SkipCancelled, MarkSkipped, Built
  <2>2. CASE Admit(a) \/ Acquire(a) \/ Cancel(a) \/ Release(a) \/ Close(a)
    BY <2>2 DEF Admit, Acquire, Cancel, Release, Close, summary, Built
  <2>3. CASE Record(a)
    <3>1. a \notin Built
      BY <2>3 DEF Record, IInv, Records, Written, Undecided, Built
    <3> PICK o \in Outcomes(verdict[a], CtxDone) : Record(a)!2!(o)
      BY <2>3 DEF Record
    <3> QED
      BY <3>1 DEF Built
  <2> QED
    BY <1>2, <2>1, <2>2, <2>3 DEF Step
<1> QED
  BY <1>1, <1>2 DEF Next

\* A closed channel and a status that reads ok mean the dependency was built.
LEMMA AdmittedStep == IInv /\ [Next]_vars => Admitted'
<1> SUFFICES ASSUME IInv, [Next]_vars, NEW b \in Actions,
                    pc'[b] \in {"acquire", "run"} \/ b \in results'
                        \/ b \in failed'
             PROVE  deps'[b] \subseteq Built'
  BY DEF Admitted
<1>0. deps' = deps /\ TypeOK /\ deps[b] \subseteq Actions
  BY DEF IInv, TypeOK, Next, vars, input, Reject, Launch, Return, Interrupt,
         Step, SkipBlocked, SkipCancelled, MarkSkipped, Admit, Acquire, Record,
         Cancel, Release, Close
<1>1. ASSUME pc[b] \in {"acquire", "run"} \/ b \in results \/ b \in failed
      PROVE  deps'[b] \subseteq Built'
  BY <1>0, <1>1, BuiltGrows DEF IInv, Admitted
<1>2. CASE Reject \/ Launch \/ Return \/ Interrupt \/ UNCHANGED vars
  BY <1>1, <1>2 DEF Reject, Launch, Return, Interrupt, vars, summary
<1>3. ASSUME NEW a \in Actions, Step(a)
      PROVE  deps'[b] \subseteq Built'
  <2> USE <1>0 DEF TypeOK
  <2>1. CASE SkipBlocked(a) \/ SkipCancelled(a)
    BY <1>1, <2>1 DEF SkipBlocked, SkipCancelled, MarkSkipped
  <2>2. CASE Acquire(a) \/ Cancel(a) \/ Release(a) \/ Close(a)
    BY <1>1, <2>2 DEF Acquire, Cancel, Release, Close, summary
  <2>3. CASE Record(a)
    BY <1>1, <2>3 DEF Record, AfterFailure
  <2>4. CASE Admit(a)
    <3>1. CASE a # b
      BY <1>1, <2>4, <3>1 DEF Admit, summary
    <3>2. CASE a = b
      <4>1. ASSUME NEW d \in deps[b]
            PROVE  d \in Built
        BY <2>4, <3>2, <4>1
        DEF Admit, IInv, Records, Written, Settled, Built
      <4> QED
        BY <2>4, <4>1, BuiltGrows
    <3> QED
      BY <3>1, <3>2
  <2> QED
    BY <1>3, <2>1, <2>2, <2>3, <2>4 DEF Step
<1> QED
  BY <1>2, <1>3 DEF Next

\* No goroutine moves before Launch or after Return.
LEMMA JoinedStep == IInv /\ [Next]_vars => Joined'
<1> SUFFICES ASSUME IInv, [Next]_vars PROVE Joined'
  OBVIOUS
<1> USE DEF IInv, Joined
<1>1. CASE Reject \/ Launch \/ Return \/ Interrupt \/ UNCHANGED vars
  BY <1>1 DEF Reject, Launch, Return, Interrupt, vars
<1>2. ASSUME NEW a \in Actions, Step(a)
      PROVE  Joined'
  <2>1. phase' = phase /\ pc[a] \notin {"idle", "gone"}
    BY <1>2 DEF Step, SkipBlocked, SkipCancelled, MarkSkipped, Admit, Acquire,
                Record, Cancel, Release, Close
  <2> QED
    BY <2>1 DEF TypeOK, Phases
<1> QED
  BY <1>1, <1>2 DEF Next

\* The first error is recorded before its own cancellation can be seen.
LEMMA CausesStep == IInv /\ [Next]_vars => Causes'
<1> SUFFICES ASSUME IInv, [Next]_vars PROVE Causes'
  OBVIOUS
<1> USE DEF Causes
<1>0. Causes /\ TypeOK
  BY DEF IInv
<1>1. CASE Reject \/ Launch \/ Return \/ Interrupt \/ UNCHANGED vars
  BY <1>0, <1>1 DEF Reject, Launch, Return, Interrupt, vars, summary, TypeOK
<1>2. ASSUME NEW a \in Actions, Step(a)
      PROVE  Causes'
  <2>0. phase = "building" /\ phase' = phase
    BY <1>2 DEF IInv, Joined, TypeOK, Phases, Step, SkipBlocked, SkipCancelled,
                MarkSkipped, Admit, Acquire, Record, Cancel, Release, Close
  <2>1. CASE SkipBlocked(a)
    <3> PICK d \in deps[a] : state[d] # "ok"
      BY <2>1 DEF SkipBlocked
    <3>1. d \in Actions
      BY <1>0 DEF TypeOK
    <3>2. d \in failed \/ d \in skipped
      BY <1>0, <3>1 DEF IInv, Records, Written, Undecided, Settled, TypeOK,
                        Locations
    <3> QED
      BY <1>0, <2>1, <3>2 DEF SkipBlocked, MarkSkipped
  <2>2. CASE SkipCancelled(a)
    BY <1>0, <2>0, <2>2 DEF SkipCancelled, MarkSkipped, CtxDone
  <2>3. CASE Admit(a) \/ Acquire(a) \/ Release(a) \/ Close(a)
    BY <1>0, <2>3 DEF Admit, Acquire, Release, Close, summary
  <2>4. CASE Cancel(a)
    BY <1>0, <2>4 DEF Cancel, summary, IInv, Records, Written
  <2>5. CASE Record(a)
    <3> PICK o \in Outcomes(verdict[a], CtxDone) : Record(a)!2!(o)
      BY <2>5 DEF Record
    <3>1. o.err = "canceled" => CtxDone
      BY <1>0, RunOutcome
    <3> QED
      BY <1>0, <2>0, <2>5, <3>1 DEF Record, FirstError, CtxDone
  <2> QED
    BY <1>2, <2>1, <2>2, <2>3, <2>4, <2>5 DEF Step
<1> QED
  BY <1>1, <1>2 DEF Next

\* The strengthened invariant is an invariant of the scheduler.
THEOREM Inductive == Spec => []IInv
<1>1. IInv /\ [Next]_vars => IInv'
  BY SlotsStep, TypeStep, RecordsStep, AdmittedStep, JoinedStep, CausesStep
  DEF IInv
<1> QED
  BY InitIInv, <1>1, PTL DEF Spec

-----------------------------------------------------------------------------
\* Every variable keeps to its domain, in every reachable state.
THEOREM TypeCorrect == Spec => []TypeOK
<1>1. IInv => TypeOK
  BY DEF IInv
<1> QED
  BY Inductive, <1>1, PTL

\* No command ever starts before the commands of its dependencies succeeded.
THEOREM DependencyOrder == Spec => []DependenciesBuilt
<1>1. IInv => DependenciesBuilt
  BY DEF IInv, Admitted, DependenciesBuilt, Started, Running, TypeOK
<1> QED
  BY Inductive, <1>1, PTL

\* The semaphore bounds the commands in flight by the worker limit.
THEOREM WorkerLimit == Spec => []SlotsAccounted
<1>1. IInv => SlotsAccounted
  BY DEF IInv
<1> QED
  BY Inductive, <1>1, PTL

\* Build returns with exactly one outcome per action and nothing held.
THEOREM EveryActionDecided == Spec => []EveryActionDecidedOnce
<1>1. IInv => EveryActionDecidedOnce
  <2> SUFFICES ASSUME IInv PROVE EveryActionDecidedOnce
    OBVIOUS
  <2>1. failed \intersect skipped = {} /\ Built \intersect skipped = {}
    BY DEF IInv, Records, Written, Undecided, Settled, TypeOK, Locations, Built
  <2>2. ASSUME phase = "returned"
        PROVE  Decided = Actions /\ done = Actions /\ sem = 0
    <3>1. \A a \in Actions : pc[a] = "gone"
      BY <2>2 DEF IInv, Joined
    <3>2. Decided = Actions /\ done = Actions
      BY <3>1 DEF IInv, Records, Written, Settled, TypeOK, Built, Decided
    <3>3. Holders = {}
      BY <3>1 DEF Holders
    <3> QED
      BY <3>2, <3>3, FS_EmptySet DEF IInv, SlotsAccounted
  <2> QED
    BY <2>1, <2>2 DEF EveryActionDecidedOnce
<1> QED
  BY Inductive, <1>1, PTL

\* Fail-fast returns the failure that caused it, not its own cancellation.
THEOREM CauseIsReported == Spec => []FirstErrorIsTheCause
<1>1. IInv => FirstErrorIsTheCause
  <2> SUFFICES ASSUME IInv, ~interrupted PROVE
        /\ firstErr # "canceled"
        /\ firstErr = "nil" <=> failed = {}
        /\ phase = "returned" /\ firstErr = "nil" => Built = Actions
    BY DEF FirstErrorIsTheCause
  <2>1. firstErr # "canceled" /\ (firstErr = "nil" <=> failed = {})
    BY DEF IInv, Causes
  <2>2. ASSUME phase = "returned", firstErr = "nil"
        PROVE  Built = Actions
    <3>1. \A a \in Actions : pc[a] = "gone"
      BY <2>2 DEF IInv, Joined
    <3> QED
      BY <2>2, <3>1
      DEF IInv, Causes, Records, Written, Settled, TypeOK, Built
  <2> QED
    BY <2>1, <2>2
<1> QED
  BY Inductive, <1>1, PTL

-----------------------------------------------------------------------------
(* What the build came to, and why.  Fail-fast leaves the choice of what is *)
(* skipped to timing; the reasons for skipping and failing do not depend on *)
(* it.                                                                      *)

\* Only an acyclic graph is ever built.
Admissible == phase \in {"building", "returned"} => Acyclic(deps)

\* A sibling's failure cancels the build only when KeepGoing is off.
FailFastOnly ==
    (cancelled /\ phase # "returned") \/ (\E a \in Actions : pc[a] = "cancel")
        => ~keepGoing

\* Why an action has the outcome it has.
Reasons ==
    /\ \A a \in Built : verdict[a] = "succeeds"
    /\ ~interrupted /\ failed # {} => \E a \in failed : verdict[a] # "succeeds"
    /\ ~interrupted /\ keepGoing =>
          /\ \A a \in failed : verdict[a] # "succeeds"
          /\ \A a \in skipped : deps[a] \cap (failed \union skipped) # {}

WhyInv == Admissible /\ FailFastOnly /\ Reasons

\* The reasons hold when Build is entered: nothing is decided.
LEMMA InitWhy == Init => WhyInv
BY DEF Init, WhyInv, Admissible, FailFastOnly, Reasons, Built

\* Launch is the one way to start building, and what Build was given is fixed.
LEMMA InputFixed == [Next]_vars => UNCHANGED input
BY DEF Next, vars, input, Reject, Launch, Return, Interrupt, Step, SkipBlocked,
       SkipCancelled, MarkSkipped, Admit, Acquire, Record, Cancel, Release, Close

LEMMA AdmissibleStep == Admissible /\ [Next]_vars => Admissible'
<1> SUFFICES ASSUME Admissible, [Next]_vars PROVE Admissible'
  OBVIOUS
<1>1. deps' = deps
  BY InputFixed DEF input
<1>2. phase' \in {"building", "returned"} =>
         phase \in {"building", "returned"} \/ Acyclic(deps)
  BY DEF Next, vars, Reject, Launch, Return, Interrupt, Step, SkipBlocked,
         SkipCancelled, MarkSkipped, Admit, Acquire, Record, Cancel, Release, Close
<1> QED
  BY <1>1, <1>2 DEF Admissible, Acyclic

\* KeepGoing is consulted before the cancellation, not after.
LEMMA FailFastStep == IInv /\ FailFastOnly /\ [Next]_vars => FailFastOnly'
<1> SUFFICES ASSUME IInv, FailFastOnly, [Next]_vars PROVE FailFastOnly'
  OBVIOUS
<1> USE DEF FailFastOnly
<1>0. keepGoing' = keepGoing /\ TypeOK
  BY InputFixed DEF input, IInv
<1>1. CASE Reject \/ Launch \/ Interrupt \/ UNCHANGED vars
  BY <1>0, <1>1 DEF Reject, Launch, Interrupt, vars, TypeOK
<1>2. CASE Return
  BY <1>0, <1>2 DEF Return, TypeOK
<1>3. ASSUME NEW a \in Actions, Step(a)
      PROVE  FailFastOnly'
  <2> USE <1>0 DEF TypeOK
  <2>1. CASE SkipBlocked(a) \/ SkipCancelled(a)
    BY <2>1 DEF SkipBlocked, SkipCancelled, MarkSkipped
  <2>2. CASE Admit(a) \/ Acquire(a) \/ Cancel(a) \/ Release(a) \/ Close(a)
    BY <2>2 DEF Admit, Acquire, Cancel, Release, Close
  <2>3. CASE Record(a)
    BY <2>3 DEF Record, AfterFailure
  <2> QED
    BY <1>3, <2>1, <2>2, <2>3 DEF Step
<1> QED
  BY <1>1, <1>2, <1>3 DEF Next

\* Recording and skipping give the reasons; nothing takes one back.
LEMMA ReasonsStep == IInv /\ WhyInv /\ [Next]_vars => Reasons'
<1> SUFFICES ASSUME IInv, WhyInv, [Next]_vars PROVE Reasons'
  OBVIOUS
<1> USE DEF Reasons
<1>0. UNCHANGED <<deps, keepGoing, verdict>> /\ TypeOK /\ Reasons
  BY InputFixed DEF input, IInv, WhyInv
<1>1. CASE Reject \/ Launch \/ Return \/ Interrupt \/ UNCHANGED vars
  BY <1>0, <1>1 DEF Reject, Launch, Return, Interrupt, vars, summary, Built
<1>2. ASSUME NEW a \in Actions, Step(a)
      PROVE  Reasons'
  <2>0. phase = "building"
    BY <1>2 DEF IInv, Joined, TypeOK, Phases, Step, SkipBlocked, SkipCancelled,
                MarkSkipped, Admit, Acquire, Record, Cancel, Release, Close
  <2>1. CASE SkipBlocked(a)
    <3> PICK d \in deps[a] : state[d] # "ok"
      BY <2>1 DEF SkipBlocked
    <3>1. d \in Actions
      BY <1>0 DEF TypeOK
    <3>2. d \in failed \/ d \in skipped
      BY <1>0, <3>1 DEF IInv, Records, Written, Undecided, Settled, TypeOK,
                        Locations
    <3> QED
      BY <1>0, <2>1, <3>2 DEF SkipBlocked, MarkSkipped, Built
  <2>2. CASE SkipCancelled(a)
    <3>1. interrupted \/ ~keepGoing
      BY <2>0, <2>2 DEF SkipCancelled, CtxDone, WhyInv, FailFastOnly
    <3> QED
      BY <1>0, <2>2, <3>1 DEF SkipCancelled, MarkSkipped, Built
  <2>3. CASE Admit(a) \/ Acquire(a) \/ Cancel(a) \/ Release(a) \/ Close(a)
    BY <1>0, <2>3 DEF Admit, Acquire, Cancel, Release, Close, summary, Built
  <2>4. CASE Record(a)
    <3> PICK o \in Outcomes(verdict[a], CtxDone) : Record(a)!2!(o)
      BY <2>4 DEF Record
    <3>1. /\ o.err = "nil" => o.res /\ verdict[a] = "succeeds"
          /\ o.err = "own" => verdict[a] # "succeeds"
          /\ o.err = "canceled" => CtxDone
          /\ o.err \in {"nil", "own", "canceled"}
      BY <1>0, RunOutcome
    <3>2. CtxDone => interrupted \/ (~keepGoing /\ failed # {})
      BY <2>0 DEF CtxDone, WhyInv, FailFastOnly, IInv, Causes
    <3>3. interrupted' = interrupted /\ skipped' = skipped
      BY <2>4 DEF Record
    <3>4. CASE o.err = "nil"
      <4>1. Built' \subseteq Built \union {a} /\ failed' = failed
        BY <3>4, <3>1 DEF Built
      <4> QED
        BY <1>0, <3>1, <3>3, <3>4, <4>1
    <3>5. CASE o.err # "nil"
      <4>1. failed' = failed \union {a} /\ Built' \subseteq Built
        BY <3>5 DEF Built
      <4> QED
        BY <1>0, <3>1, <3>2, <3>3, <3>5, <4>1
    <3> QED
      BY <3>4, <3>5
  <2> QED
    BY <1>2, <2>1, <2>2, <2>3, <2>4 DEF Step
<1> QED
  BY <1>1, <1>2 DEF Next

LEMMA WhyInvariant == Spec => [](IInv /\ WhyInv)
<1>1. IInv /\ WhyInv /\ [Next]_vars => WhyInv'
  BY AdmissibleStep, FailFastStep, ReasonsStep DEF WhyInv
<1> QED
  BY Inductive, InitWhy, <1>1, PTL DEF Spec

\* A parallel build that nobody interrupts ends as the graph and the commands
\* dictate, under every schedule.
THEOREM OutcomeIsDetermined == Spec => []OutcomeMatchesCommands
<1>1. IInv /\ WhyInv => OutcomeMatchesCommands
  <2> SUFFICES ASSUME IInv, WhyInv, phase = "returned", ~interrupted
               PROVE  OutcomeMatchesCommands
    BY DEF OutcomeMatchesCommands
  <2>0. TypeOK /\ Reasons /\ Admitted
    BY DEF IInv, WhyInv
  <2>1. \A a \in Actions :
           a \in Built \/ a \in failed \/ a \in skipped
    BY DEF IInv, Joined, Records, Written, Settled, Built
  <2>2. \A a \in Actions :
           /\ a \in Built => a \notin failed /\ a \notin skipped
           /\ a \in failed => a \notin skipped
    BY DEF IInv, Joined, Records, Written, Settled, Built
  <2>3. \A a \in Built \union failed : deps[a] \subseteq Built
    BY <2>0 DEF Admitted, Built, TypeOK
  <2>4. ASSUME keepGoing
        PROVE  /\ Built = {a \in Actions :
                            verdict[a] = "succeeds" /\ deps[a] \subseteq Built}
               /\ failed = {a \in Actions :
                            verdict[a] # "succeeds" /\ deps[a] \subseteq Built}
               /\ skipped = {a \in Actions : ~(deps[a] \subseteq Built)}
    <3>1. /\ \A a \in Built : verdict[a] = "succeeds"
          /\ \A a \in failed : verdict[a] # "succeeds"
      BY <2>0, <2>4 DEF Reasons
    <3>2. \A a \in skipped : ~(deps[a] \subseteq Built)
      BY <2>0, <2>2, <2>4 DEF Reasons, TypeOK
    <3>3. Built \subseteq Actions /\ failed \subseteq Actions /\ skipped \subseteq Actions
      BY <2>0 DEF TypeOK, Built
    <3> HIDE DEF Built
    <3> QED
      BY <2>1, <2>3, <3>1, <3>2, <3>3
  <2>5. failed = {} <=> \A a \in Actions : verdict[a] = "succeeds"
    <3>1. failed = {} => skipped = {}
      BY DEF IInv, Causes
    <3> QED
      BY <2>0, <2>1, <3>1 DEF Reasons, TypeOK
  <2> QED
    BY <2>4, <2>5 DEF OutcomeMatchesCommands
<1> QED
  BY WhyInvariant, <1>1, PTL

-----------------------------------------------------------------------------
(* Whether Build can come to an end: what of BuildReturns is not about     *)
(* fairness.                                                               *)

\* What a goroutine at each place waits for: it can move exactly when this
\* holds.
Ready(a) ==
    \/ pc[a] = "wait" /\ (deps[a] \subseteq done \/ CtxDone)
    \/ pc[a] = "acquire" /\ (sem < Slots \/ CtxDone)
    \/ pc[a] = "run" /\ Outcomes(verdict[a], CtxDone) # {}
    \/ pc[a] \in {"cancel", "release", "close"}

\* Until Build returns some goroutine can move, or all are gone and Build can,
\* or a command that never ends is running and nobody has cancelled the build.
\* No goroutine waits for a channel that will not be closed, for a slot that
\* will not be given back, or for another one that waits for it.
NobodyIsStuck ==
    phase = "building" =>
        \/ \E a \in Actions : Ready(a)
        \/ \A a \in Actions : pc[a] = "gone"
        \/ ~CtxDone /\ \E a \in Running : verdict[a] = "hangs"

\* How far a goroutine, and Build, have come.
Place ==
    [l \in Locations |->
        CASE l = "idle" -> 0 [] l = "wait" -> 1 [] l = "acquire" -> 2 [] l = "run" -> 3
          [] l = "cancel" -> 4 [] l = "release" -> 5 [] l = "close" -> 6 [] l = "gone" -> 7]
Stage == [p \in Phases |-> IF p = "start" THEN 0 ELSE IF p = "building" THEN 1 ELSE 2]

\* Nothing goes back or around: every step takes one goroutine, Build or the
\* caller further, and none of them back, so a build has at most six steps of
\* each goroutine and three of others.
StepsAdvance ==
    [][/\ \A a \in Actions : Place[pc[a]] <= Place[pc'[a]]
       /\ Stage[phase] <= Stage[phase']
       /\ interrupted => interrupted'
       /\ \/ \E a \in Actions : Place[pc[a]] < Place[pc'[a]]
          \/ Stage[phase] < Stage[phase']
          \/ ~interrupted /\ interrupted']_vars

\* Launch starts every goroutine.
Launched == phase = "building" => \A a \in Actions : pc[a] # "idle"

LEMMA LaunchedStep == IInv /\ Launched /\ [Next]_vars => Launched'
<1> SUFFICES ASSUME IInv, Launched, [Next]_vars PROVE Launched'
  OBVIOUS
<1> USE DEF Launched
<1>1. CASE Reject \/ Launch \/ Return \/ Interrupt \/ UNCHANGED vars
  BY <1>1 DEF Reject, Launch, Return, Interrupt, vars
<1>2. ASSUME NEW a \in Actions, Step(a)
      PROVE  Launched'
  <2>1. phase' = phase /\ \E l \in Locations \ {"idle"} : pc' = [pc EXCEPT ![a] = l]
    BY <1>2 DEF Step, SkipBlocked, SkipCancelled, MarkSkipped, Admit, Acquire, Record,
                Cancel, Release, Close, AfterFailure, Locations
  <2> QED
    BY <2>1 DEF IInv, TypeOK
<1> QED
  BY <1>1, <1>2 DEF Next

\* Somebody can always move.  Whoever holds a slot can, unless its command hangs;
\* with no holders there is a free slot; and if all that are left wait for
\* dependencies, one of them waits for none of the others.
THEOREM AlwaysSomebodyMoves == Spec => []NobodyIsStuck
<1>1. IInv /\ Admissible /\ Launched => NobodyIsStuck
  <2> SUFFICES ASSUME IInv, Admissible, Launched, phase = "building",
                      \A a \in Actions : ~Ready(a),
                      NEW z \in Actions, pc[z] # "gone",
                      CtxDone \/ \A a \in Running : verdict[a] # "hangs"
               PROVE  FALSE
    BY DEF NobodyIsStuck
  <2>1. \A a \in Actions : pc[a] \in {"wait", "acquire", "run", "gone"}
    BY DEF Ready, Launched, IInv, TypeOK, Locations
  <2>2. ASSUME NEW a \in Actions, pc[a] = "run"
        PROVE  FALSE
    <3>1. verdict[a] \in Verdict /\ a \in Running
      BY <2>2 DEF IInv, TypeOK, Running
    <3>2. Outcomes(verdict[a], CtxDone) # {}
      <4>1. CASE verdict[a] = "succeeds"
        <5>1. [res |-> TRUE, err |-> "nil"] \in Outcomes(verdict[a], CtxDone)
          BY <4>1 DEF Outcomes
        <5> QED
          BY <5>1
      <4>2. CASE verdict[a] = "fails"
        <5>1. [res |-> TRUE, err |-> "own"] \in Outcomes(verdict[a], CtxDone)
          BY <4>2 DEF Outcomes
        <5> QED
          BY <5>1
      <4>3. CASE verdict[a] = "unrunnable"
        BY <4>3 DEF Outcomes
      <4>4. CASE verdict[a] = "hangs"
        BY <3>1, <4>4 DEF Outcomes
      <4> QED
        BY <3>1, <4>1, <4>2, <4>3, <4>4 DEF Verdict
    <3> QED
      BY <2>2, <3>2 DEF Ready
  <2>3. ASSUME NEW a \in Actions, pc[a] = "acquire"
        PROVE  FALSE
    <3>1. Holders = {}
      BY <2>1, <2>2 DEF Holders
    <3>2. sem = 0
      BY <3>1, FS_EmptySet DEF IInv, SlotsAccounted
    <3>3. sem < Slots
      BY <3>2, SlotsPositive DEF IInv, TypeOK
    <3> QED
      BY <2>3, <3>3 DEF Ready
  <2>4. PICK S : S = {a \in Actions : pc[a] # "gone"}
    OBVIOUS
  <2>5. PICK a \in S : deps[a] \cap S = {}
    <3>1. S \in (SUBSET Actions) \ {{}}
      BY <2>4
    <3>2. {a \in S : deps[a] \cap S = {}} # {}
      BY <3>1 DEF Admissible, Acyclic
    <3> QED
      BY <3>2
  <2>6. pc[a] = "wait"
    BY <2>1, <2>2, <2>3, <2>4
  <2>7. deps[a] \subseteq done
    BY <2>4, <2>5 DEF IInv, TypeOK, Records, Written
  <2> QED
    BY <2>4, <2>6, <2>7 DEF Ready
<1>2. Init => Launched
  BY DEF Init, Launched
<1>3. IInv /\ WhyInv => Admissible
  BY DEF WhyInv
<1> QED
  BY <1>1, <1>2, <1>3, WhyInvariant, LaunchedStep, PTL DEF Spec

\* A build is a bounded number of steps, under every schedule; with the theorem
\* above, a build that goes on taking steps ends.
THEOREM EveryStepAdvances == Spec => StepsAdvance
<1> DEFINE Forward ==
      /\ \A a \in Actions : Place[pc[a]] <= Place[pc'[a]]
      /\ Stage[phase] <= Stage[phase']
      /\ interrupted => interrupted'
      /\ \/ \E a \in Actions : Place[pc[a]] < Place[pc'[a]]
         \/ Stage[phase] < Stage[phase']
         \/ ~interrupted /\ interrupted'
<1>1. \A l \in Locations : Place[l] \in 0..7
  BY DEF Place, Locations
<1>2. /\ Place["idle"] = 0 /\ Place["wait"] = 1 /\ Place["acquire"] = 2 /\ Place["run"] = 3
      /\ Place["cancel"] = 4 /\ Place["release"] = 5 /\ Place["close"] = 6 /\ Place["gone"] = 7
  BY DEF Place, Locations
<1>3. /\ \A p \in Phases : Stage[p] \in 0..2
      /\ Stage["start"] = 0 /\ Stage["rejected"] = 2
      /\ Stage["building"] = 1 /\ Stage["returned"] = 2
  BY DEF Stage, Phases
<1>4. IInv /\ [Next]_vars => [Forward]_vars
  <2> SUFFICES ASSUME IInv, Next PROVE Forward
    OBVIOUS
  <2>0. /\ pc \in [Actions -> Locations] /\ Stage[phase] \in Nat
        /\ \A a \in Actions : Place[pc[a]] \in Nat
    BY <1>1, <1>3 DEF IInv, TypeOK
  <2>1. CASE Reject
    BY <1>3, <2>0, <2>1 DEF Reject
  <2>2. CASE Launch
    <3>1. \A a \in Actions : pc[a] = "idle" /\ pc'[a] = "wait"
      BY <2>2 DEF Launch, IInv, Joined
    <3> QED
      BY <1>2, <1>3, <2>0, <2>2, <3>1 DEF Launch
  <2>3. CASE Return
    BY <1>3, <2>0, <2>3 DEF Return
  <2>4. CASE Interrupt
    BY <1>3, <2>0, <2>4 DEF Interrupt
  <2>5. ASSUME NEW a \in Actions, Step(a)
        PROVE  Forward
    <3>1. /\ UNCHANGED <<phase, interrupted>>
          /\ \E l \in Locations : /\ pc' = [pc EXCEPT ![a] = l]
                                  /\ Place[pc[a]] < Place[l]
      BY <1>2, <2>5 DEF Step, SkipBlocked, SkipCancelled, MarkSkipped, Admit, Acquire,
                        Record, Cancel, Release, Close, AfterFailure, Locations
    <3>2. Place[pc[a]] < Place[pc'[a]] /\ \A b \in Actions \ {a} : pc'[b] = pc[b]
      BY <2>0, <3>1
    <3>3. \A b \in Actions : Place[pc[b]] <= Place[pc'[b]]
      <4> SUFFICES ASSUME NEW b \in Actions PROVE Place[pc[b]] <= Place[pc'[b]]
        OBVIOUS
      <4>1. Place[pc[b]] \in Nat
        BY <2>0
      <4>2. b # a => Place[pc'[b]] = Place[pc[b]]
        BY <3>2
      <4> QED
        BY <1>1, <2>0, <3>1, <3>2, <4>1, <4>2
    <3> QED
      BY <2>0, <3>1, <3>2, <3>3
  <2> QED
    BY <2>1, <2>2, <2>3, <2>4, <2>5 DEF Next
<1> QED
  BY <1>4, Inductive, PTL DEF Spec, StepsAdvance

-----------------------------------------------------------------------------
(* The scheduler implements the abstract build.                            *)

\* The outcome the caller sees, by where the goroutine is.
Seen ==
    \A a \in Actions :
        /\ outcome[a] = "pending" <=> pc[a] \in {"idle", "wait", "acquire"}
        /\ outcome[a] = "running" <=> pc[a] = "run"
        /\ outcome[a] = "failed" <=> a \in failed
        /\ outcome[a] = "skipped" <=> a \in skipped
        /\ outcome[a] = "built" <=> a \in Built
        /\ pc[a] \in Settled => outcome[a] \in {"failed", "skipped", "built"}

LEMMA SeenNow == IInv => Seen
<1> SUFFICES ASSUME IInv, NEW a \in Actions
             PROVE  /\ outcome[a] = "pending" <=> pc[a] \in {"idle", "wait", "acquire"}
                    /\ outcome[a] = "running" <=> pc[a] = "run"
                    /\ outcome[a] = "failed" <=> a \in failed
                    /\ outcome[a] = "skipped" <=> a \in skipped
                    /\ outcome[a] = "built" <=> a \in Built
                    /\ pc[a] \in Settled => outcome[a] \in {"failed", "skipped", "built"}
  BY DEF Seen
<1>1. Written(a) /\ pc[a] \in Locations
  BY DEF IInv, Records, TypeOK
<1>2. outcome[a] = Outcome(a)
  BY DEF outcome
<1> QED
  BY <1>1, <1>2 DEF Outcome, Written, Undecided, Settled, Locations, Built, Decided

\* While goroutines live, Build has not answered.
LEMMA Answered ==
    ASSUME TypeOK
    PROVE  /\ answer = "none" <=> phase \in {"start", "building"}
           /\ phase = "rejected" => answer = "error"
           /\ phase = "returned" => answer = IF firstErr = "nil" THEN "ok" ELSE "error"
BY DEF answer, TypeOK, Phases

\* The commands in flight all hold a slot.
LEMMA InFlight ==
    ASSUME IInv
    PROVE  /\ Abstract!InState("running") = Running
           /\ IsFiniteSet(Running) /\ Cardinality(Running) \in Nat
           /\ Cardinality(Running) <= sem
<1>1. Abstract!InState("running") = Running
  BY SeenNow DEF Seen, Abstract!InState, Running
<1>2. Running \subseteq Holders
  BY DEF Running, Holders
<1>3. /\ IsFiniteSet(Running) /\ Cardinality(Running) \in Nat
      /\ Cardinality(Running) <= Cardinality(Holders)
  BY <1>2, HoldersFinite, FS_Subset, FS_CardinalityType
<1> QED
  BY <1>1, <1>3 DEF IInv, SlotsAccounted

\* Both speak of the same cycles.
LEMMA SameCycles == Abstract!Acyclic(deps) <=> Acyclic(deps)
BY DEF Abstract!Acyclic, Acyclic

LEMMA SameCount == \A S : Abstract!Cardinality(S) = Cardinality(S)
BY DEF Abstract!Cardinality, Cardinality, Abstract!IsFiniteSet, IsFiniteSet

\* Every step of the scheduler is a step of the abstract build or invisible.
LEMMA StepRefines ==
    IInv /\ IInv' /\ WhyInv /\ WhyInv' /\ [Next]_vars
        => [Abstract!Next]_(Abstract!vars)
<1> SUFFICES ASSUME IInv, IInv', WhyInv, WhyInv', [Next]_vars
             PROVE  [Abstract!Next]_(Abstract!vars)
  OBVIOUS
<1> USE DEF Abstract!vars
<1>s. Seen /\ Seen'
  BY SeenNow, PTL
<1>0. /\ TypeOK /\ TypeOK'
      /\ UNCHANGED <<deps, keepGoing, workers, verdict>> /\ Slots' = Slots
  BY InputFixed DEF input, IInv, Slots
<1>1. ASSUME UNCHANGED <<outcome, answer, interrupted>>
      PROVE  [Abstract!Next]_(Abstract!vars)
  BY <1>0, <1>1
<1>2. CASE UNCHANGED vars
  <2>1. UNCHANGED <<outcome, answer, interrupted>>
    BY <1>2 DEF vars, summary, outcome, Outcome, Decided, Built, answer
  <2> QED
    BY <1>1, <2>1
<1>3. CASE Reject
  <2>1. UNCHANGED <<pc, summary, interrupted>> /\ phase = "start"
        /\ phase' = "rejected" /\ ~Acyclic(deps)
    BY <1>3 DEF Reject
  <2>2. outcome' = outcome
    BY <2>1 DEF summary, outcome, Outcome, Decided, Built
  <2>3. answer = "none" /\ answer' = "error"
    BY <2>1 DEF answer
  <2>4. Abstract!Reject
    BY <1>0, <2>1, <2>2, <2>3, SameCycles DEF Abstract!Reject
  <2> QED
    BY <2>4 DEF Abstract!Next
<1>4. CASE Launch
  <2>1. UNCHANGED <<summary, interrupted>> /\ phase = "start" /\ phase' = "building"
    BY <1>4 DEF Launch
  <2>2. \A a \in Actions : pc[a] = "idle" /\ pc'[a] = "wait"
    BY <1>4, <2>1 DEF Launch, IInv, Joined
  <2>3. outcome' = outcome
    BY <2>1, <2>2 DEF summary, outcome, Outcome, Decided, Built
  <2>4. answer' = answer
    BY <2>1 DEF answer
  <2> QED
    BY <1>1, <2>1, <2>3, <2>4
<1>5. CASE Return
  <2>1. /\ UNCHANGED <<pc, summary, interrupted>> /\ phase = "building"
        /\ phase' = "returned" /\ \A a \in Actions : pc[a] = "gone"
    BY <1>5 DEF Return
  <2>2. outcome' = outcome
    BY <2>1 DEF summary, outcome, Outcome, Decided, Built
  <2>3. answer = "none" /\ answer' = IF firstErr = "nil" THEN "ok" ELSE "error"
    BY <2>1 DEF answer, summary
  <2>4. Abstract!InState("pending") = {} /\ Abstract!InState("running") = {}
    BY <2>1, <1>s DEF Seen, Abstract!InState
  <2>5. Abstract!InState("failed") = failed
    BY <1>0, <1>s DEF Seen, Abstract!InState, TypeOK
  <2>6. firstErr = "nil" <=> failed = {}
    BY DEF IInv, Causes
  <2>7. Abstract!Return
    BY <1>0, <2>1, <2>2, <2>3, <2>4, <2>5, <2>6 DEF Abstract!Return
  <2> QED
    BY <2>7 DEF Abstract!Next
<1>6. CASE Interrupt
  <2>1. UNCHANGED <<pc, summary, phase>> /\ phase \in {"start", "building"}
        /\ interrupted' = TRUE
    BY <1>6 DEF Interrupt
  <2>2. outcome' = outcome
    BY <2>1 DEF summary, outcome, Outcome, Decided, Built
  <2>3. answer = "none" /\ answer' = answer
    BY <2>1 DEF answer, summary
  <2>4. Abstract!Interrupt
    BY <1>0, <2>1, <2>2, <2>3 DEF Abstract!Interrupt
  <2> QED
    BY <2>4 DEF Abstract!Next
<1>7. ASSUME NEW a \in Actions, Step(a)
      PROVE  [Abstract!Next]_(Abstract!vars)
  <2>1. /\ phase = "building" /\ phase' = phase /\ interrupted' = interrupted
        /\ \A b \in Actions : b # a => pc'[b] = pc[b]
    BY <1>0, <1>7
    DEF IInv, Joined, TypeOK, Phases, Step, SkipBlocked, SkipCancelled,
        MarkSkipped, Admit, Acquire, Record, Cancel, Release, Close
  <2>2. answer = "none" /\ answer' = answer /\ Acyclic(deps)
    BY <2>1 DEF answer, WhyInv, Admissible
  <2>3. \A b \in Actions : b # a => outcome'[b] = outcome[b]
    <3>1. \A b \in Actions \ {a} :
             /\ b \in failed' <=> b \in failed
             /\ b \in skipped' <=> b \in skipped
             /\ b \in results' <=> b \in results
      BY <1>7 DEF Step, SkipBlocked, SkipCancelled, MarkSkipped, Admit, Acquire,
                  Record, Cancel, Release, Close, summary
    <3> QED
      BY <2>1, <3>1 DEF outcome, Outcome, Decided, Built
  <2>4. \A o : outcome'[a] = o => outcome' = [outcome EXCEPT ![a] = o]
    BY <2>3 DEF outcome
  <2>5. ASSUME outcome'[a] = outcome[a]
        PROVE  [Abstract!Next]_(Abstract!vars)
    <3>1. outcome' = outcome
      BY <2>3, <2>5 DEF outcome
    <3> QED
      BY <1>1, <2>1, <2>2, <3>1
  <2>6. CASE SkipBlocked(a) \/ SkipCancelled(a)
    <3>1. pc[a] \in {"wait", "acquire"} /\ a \in skipped'
      BY <2>6 DEF SkipBlocked, SkipCancelled, MarkSkipped
    <3>2. outcome[a] = "pending" /\ outcome'[a] = "skipped"
      <4>1. outcome[a] = "pending"
        BY <3>1, <1>s DEF Seen
      <4>2. outcome'[a] = "skipped"
        BY <3>1, <1>s DEF Seen
      <4> QED
        BY <4>1, <4>2
    <3>3. Abstract!MaySkip(a)
      <4>1. CASE SkipBlocked(a)
        <5> PICK d \in deps[a] : state[d] # "ok"
          BY <4>1 DEF SkipBlocked
        <5>1. d \in Actions
          BY <1>0 DEF TypeOK
        <5>2. d \in failed \/ d \in skipped
          BY <1>0, <5>1 DEF IInv, Records, Written, Undecided, Settled, TypeOK,
                            Locations
        <5>3. outcome[d] \in {"failed", "skipped"}
          BY <5>1, <5>2, <1>s DEF Seen
        <5> QED
          BY <5>3 DEF Abstract!MaySkip
      <4>2. CASE SkipCancelled(a)
        <5>1. interrupted \/ (~keepGoing /\ failed # {})
          BY <2>1, <4>2 DEF SkipCancelled, CtxDone, WhyInv, FailFastOnly, IInv, Causes
        <5>2. Abstract!InState("failed") = failed
          BY <1>0, <1>s DEF Seen, Abstract!InState, TypeOK
        <5> QED
          BY <5>1, <5>2 DEF Abstract!MaySkip
      <4> QED
        BY <2>6, <4>1, <4>2
    <3>4. outcome' = [b \in Actions |-> IF b \in {a} THEN "skipped" ELSE outcome[b]]
      BY <2>3, <3>2 DEF outcome
    <3>5. Abstract!Skip({a})
      BY <1>0, <2>1, <2>2, <3>2, <3>3, <3>4 DEF Abstract!Skip
    <3> QED
      BY <3>5 DEF Abstract!Next
  <2>7. CASE Admit(a)
    <3>1. pc[a] = "wait" /\ pc'[a] = "acquire"
      BY <1>0, <2>7 DEF Admit, TypeOK
    <3>2. outcome[a] = "pending"
      BY <3>1, <1>s DEF Seen
    <3>3. outcome'[a] = "pending"
      BY <3>1, <1>s DEF Seen
    <3> QED
      BY <2>5, <3>2, <3>3
  <2>8. CASE Acquire(a)
    <3>1. pc[a] = "acquire" /\ pc'[a] = "run" /\ sem < Slots
      BY <1>0, <2>8 DEF Acquire, TypeOK
    <3>2. outcome[a] = "pending"
      BY <3>1, <1>s DEF Seen
    <3>3. outcome'[a] = "running"
      BY <3>1, <1>s DEF Seen
    <3>4. \A d \in deps[a] : outcome[d] = "built"
      BY <1>0, <3>1, <1>s DEF Seen, IInv, Admitted, TypeOK
    <3>5. Abstract!Cardinality(Abstract!InState("running")) < Slots
      <4>1. Slots \in Nat /\ sem \in Nat
        BY <1>0, SlotsPositive DEF TypeOK
      <4> QED
        BY <3>1, <4>1, InFlight, SameCount
    <3>6. Abstract!Start(a)
      BY <1>0, <2>1, <2>2, <2>4, <3>2, <3>3, <3>4, <3>5, SameCycles
      DEF Abstract!Start
    <3> QED
      BY <3>6 DEF Abstract!Next
  <2>9. CASE Record(a)
    <3>1. pc[a] = "run" /\ pc'[a] \in Settled
      BY <1>0, <2>9 DEF Record, AfterFailure, TypeOK, Settled
    <3>2. outcome[a] = "running"
      BY <3>1, <1>s DEF Seen
    <3>3. outcome'[a] \in {"failed", "skipped", "built"} /\ (outcome'[a] = "skipped" <=> a \in skipped')
      BY <3>1, <1>s DEF Seen, Settled
    <3>4. a \notin skipped'
      BY <2>9, <3>1 DEF Record, IInv, Records, Written, Undecided
    <3>5. \E o \in {"built", "failed"} : outcome' = [outcome EXCEPT ![a] = o]
      BY <2>4, <3>3, <3>4
    <3>6. Abstract!Finish(a)
      BY <1>0, <2>1, <2>2, <3>2, <3>5 DEF Abstract!Finish
    <3> QED
      BY <3>6 DEF Abstract!Next
  <2>10. CASE Cancel(a) \/ Release(a) \/ Close(a)
    <3>1. UNCHANGED summary /\ pc[a] \in Settled /\ pc'[a] \in Settled
      BY <1>0, <2>10 DEF Cancel, Release, Close, Settled, TypeOK
    <3>2. outcome'[a] = outcome[a]
      BY <3>1 DEF summary, Settled, outcome, Outcome, Decided, Built
    <3> QED
      BY <2>5, <3>2
  <2> QED
    BY <1>7, <2>6, <2>7, <2>8, <2>9, <2>10 DEF Step
<1> QED
  BY <1>2, <1>3, <1>4, <1>5, <1>6, <1>7 DEF Next

\* The scheduler is the abstract build: one outcome per action, decided once,
\* a command started only when its dependencies are built and a slot is free,
\* an action given up on only for a cause, and an answer that matches.
THEOREM SchedulerIsABuild == Spec => ImplementsBuildSpec
<1>1. Init => Abstract!Init
  <2> SUFFICES ASSUME Init PROVE Abstract!Init
    OBVIOUS
  <2>1. TypeOK /\ outcome = [a \in Actions |-> "pending"]
    BY InitIInv DEF IInv, Init, outcome, Outcome, Decided, Built
  <2>2. Slots \in Nat \ {0}
    BY <2>1, SlotsPositive DEF TypeOK
  <2>3. answer = "none" /\ interrupted = FALSE
    BY DEF Init, answer
  <2> QED
    BY <2>1, <2>2, <2>3 DEF Abstract!Init, TypeOK
<1>2. IInv /\ IInv' /\ WhyInv /\ WhyInv' /\ [Next]_vars
          => [Abstract!Next]_(Abstract!vars)
  BY StepRefines
<1> QED
  BY <1>1, <1>2, WhyInvariant, PTL DEF Spec, ImplementsBuildSpec, Abstract!Spec
=============================================================================
