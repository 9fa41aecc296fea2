---------------------------- MODULE SeqBuildProofs ---------------------------
(***************************************************************************)
(* Theorems about the sequential driver, for every set of actions, every   *)
(* graph and every outcome of the commands.                                *)
(*                                                                         *)
(* That no action runs on inputs that were never produced rests on two     *)
(* facts about the same loop: the order, in which what is ahead waits only *)
(* for what is behind or nearer, and the poison, which is closed under     *)
(* dependence although the recursion that spreads it stops early.          *)
(***************************************************************************)
EXTENDS SeqBuild, FiniteSetTheorems, SequenceTheorems, TLAPS

Places == {"start", "rejected", "loop", "run", "abort", "leave", "returned"}

Types ==
    /\ deps \in [Actions -> SUBSET Actions]
    /\ keepGoing \in BOOLEAN
    /\ verdict \in [Actions -> Verdict]
    /\ pc \in Places
    /\ todo \in Seq(Actions)
    /\ poisoned \subseteq Actions
    /\ results \subseteq Actions /\ failed \subseteq Actions
    /\ skipped \subseteq Actions
    /\ firstErr \in {"nil", "own", "canceled"}
    /\ interrupted \in BOOLEAN

\* Dependencies first, and nothing twice.
Sorted(s) ==
    /\ IsInjective(s)
    /\ \A i, j \in DOMAIN s : s[i] \in deps[s[j]] => i < j

Place ==
    /\ pc \in {"start", "rejected"} =>
          poisoned \union results \union failed \union skipped = {}
    /\ pc \in {"rejected", "start", "leave", "returned"} => todo = <<>>
    /\ pc = "run" => todo # <<>> /\ Head(todo) \notin poisoned
    /\ pc \in {"abort", "leave"} => failed # {}
    /\ pc = "abort" => ~keepGoing
    /\ pc \notin {"start", "rejected"} => Acyclic(deps)

\* What is poisoned, in the loop and while a command runs.
Downstream ==
    {a \in Actions :
        deps[a] \intersect (failed \union skipped \union poisoned) # {}}

Poison == pc \in {"loop", "run"} => poisoned = Downstream

\* What was built was built on what was built.
Grounded ==
    /\ \A a \in Built : deps[a] \subseteq Built
    /\ poisoned \intersect Built = {}

Errors ==
    /\ failed \union skipped \union poisoned # {} => firstErr # "nil"
    /\ firstErr # "nil" => failed # {} \/ interrupted

SInv ==
    Types /\ Sorted(todo) /\ Place /\ DecidedInOrder /\ Poison /\ Grounded /\ Errors

-----------------------------------------------------------------------------
\* Taking the first action off an order without repetition.
LEMMA TakeFirst ==
    ASSUME NEW s \in Seq(Actions), s # <<>>, IsInjective(s)
    PROVE  /\ Head(s) \in Actions /\ Head(s) \in ToSet(s)
           /\ Tail(s) \in Seq(Actions) /\ IsInjective(Tail(s))
           /\ ToSet(Tail(s)) = ToSet(s) \ {Head(s)}
           /\ \A i \in DOMAIN Tail(s) : i + 1 \in DOMAIN s /\ Tail(s)[i] = s[i + 1]
           /\ ToSet(s) \subseteq Actions
<1>1. /\ DOMAIN s = 1..Len(s) /\ Len(s) \in Nat \ {0}
      /\ Head(s) = s[1] /\ Tail(s) \in Seq(Actions)
      /\ Len(Tail(s)) = Len(s) - 1 /\ DOMAIN Tail(s) = 1..Len(Tail(s))
      /\ \A i \in 1..Len(Tail(s)) : Tail(s)[i] = s[i + 1]
  OBVIOUS
<1>2. \A i \in DOMAIN Tail(s) : i + 1 \in DOMAIN s /\ Tail(s)[i] = s[i + 1]
  BY <1>1
<1>3. IsInjective(Tail(s))
  BY <1>1, <1>2 DEF IsInjective
<1>4. ToSet(Tail(s)) = ToSet(s) \ {Head(s)}
  <2>1. ASSUME NEW x \in ToSet(Tail(s))
        PROVE  x \in ToSet(s) /\ x # Head(s)
    <3> PICK i \in DOMAIN Tail(s) : x = Tail(s)[i]
      BY <2>1 DEF ToSet
    <3>1. i + 1 \in DOMAIN s /\ x = s[i + 1] /\ i + 1 # 1 /\ 1 \in DOMAIN s
      BY <1>1, <1>2
    <3> QED
      BY <1>1, <3>1 DEF ToSet, IsInjective
  <2>2. ASSUME NEW x \in ToSet(s), x # Head(s)
        PROVE  x \in ToSet(Tail(s))
    <3> PICK i \in DOMAIN s : x = s[i]
      BY <2>2 DEF ToSet
    <3>1. i - 1 \in DOMAIN Tail(s) /\ Tail(s)[i - 1] = s[i]
      BY <1>1, <2>2
    <3> QED
      BY <3>1 DEF ToSet
  <2> QED
    BY <2>1, <2>2
<1> QED
  BY <1>1, <1>2, <1>3, <1>4 DEF ToSet

\* An order stays sorted as it is worked off, and the first action of it waits
\* for nothing in it.
LEMMA FirstIsReady ==
    ASSUME NEW s \in Seq(Actions), s # <<>>, Sorted(s)
    PROVE  Sorted(Tail(s)) /\ deps[Head(s)] \intersect ToSet(s) = {}
<1>1. /\ DOMAIN s = 1..Len(s) /\ 1 \in DOMAIN s /\ Head(s) = s[1] /\ Len(s) \in Nat
      /\ DOMAIN Tail(s) \subseteq Int
  OBVIOUS
<1>2. /\ IsInjective(Tail(s))
      /\ \A i \in DOMAIN Tail(s) : i + 1 \in DOMAIN s /\ Tail(s)[i] = s[i + 1]
  BY TakeFirst DEF Sorted
<1>3. \A i, j \in DOMAIN Tail(s) : Tail(s)[i] \in deps[Tail(s)[j]] => i < j
  BY <1>1, <1>2 DEF Sorted
<1>4. deps[Head(s)] \intersect ToSet(s) = {}
  BY <1>1 DEF Sorted, ToSet
<1> QED
  BY <1>2, <1>3, <1>4 DEF Sorted

\* TopologicalOrder's result is an order of all the actions.
LEMMA WholeOrder ==
    ASSUME NEW s \in Orders(deps)
    PROVE  s \in Seq(Actions) /\ Sorted(s) /\ ToSet(s) = Actions
<1> DEFINE n == Cardinality(Actions)
<1>1. n \in Nat
  BY ActionsAssumption, FS_CardinalityType
<1>2. /\ s \in [1..n -> Actions]
      /\ \A i, j \in 1..n : i # j => s[i] # s[j]
      /\ \A i, j \in DOMAIN s : s[i] \in deps[s[j]] => i < j
  BY DEF Orders, SetToSeqs
<1>3. s \in Seq(Actions)
  BY <1>1, <1>2
<1>4. s \in Injection(1..n, Actions)
  BY <1>2 DEF Injection, IsInjective
<1>5. s \in Surjection(1..n, Actions)
  BY <1>1, <1>4, ActionsAssumption, FS_Injection, FS_Interval
<1>6. ToSet(s) = Actions
  BY <1>2, <1>5 DEF Surjection, ToSet
<1> QED
  BY <1>2, <1>3, <1>6 DEF Sorted, IsInjective

-----------------------------------------------------------------------------
\* What the recursion marks when an action was not built: everything marked
\* that waits for it directly or through the newly marked, and nothing else.
LEMMA Marked ==
    ASSUME Types, NEW x \in Actions
    PROVE  /\ MarkDependents(x) \subseteq Actions
           /\ poisoned \subseteq MarkDependents(x)
           /\ \A a \in Actions : x \in deps[a] => a \in MarkDependents(x)
           /\ \A c \in MarkDependents(x) \ poisoned : \A a \in Actions :
                 c \in deps[a] => a \in MarkDependents(x)
           /\ \A a \in MarkDependents(x) \ poisoned :
                 deps[a] \intersect ({x} \union MarkDependents(x)) # {}
<1> DEFINE Closed(C) ==
               /\ Dependents(x) \ poisoned \subseteq C
               /\ \A c \in C : Dependents(c) \ poisoned \subseteq C
<1> DEFINE L == {a \in Actions : \A C \in SUBSET Actions : Closed(C) => a \in C}
<1>1. MarkDependents(x) = poisoned \union L
  BY DEF MarkDependents
<1>2. Closed(L)
  BY DEF Dependents
<1>3. ASSUME NEW a \in L, deps[a] \intersect ({x} \union L) = {}
      PROVE  FALSE
  <2>1. Closed(L \ {a})
    BY <1>2, <1>3 DEF Dependents
  <2>2. L \ {a} \in SUBSET Actions
    OBVIOUS
  <2>3. a \in L \ {a}
    BY <2>1, <2>2
  <2> QED
    BY <2>3
<1>4. \A a \in Actions : x \in deps[a] => a \in poisoned \union L
  BY <1>2 DEF Dependents
<1>5. \A c \in L : \A a \in Actions : c \in deps[a] => a \in poisoned \union L
  BY <1>2 DEF Dependents
<1>6. L \subseteq Actions
  OBVIOUS
<1> HIDE DEF L, Closed
<1> QED
  BY <1>1, <1>3, <1>4, <1>5, <1>6 DEF Types

\* What was built waits for nothing unbuilt, so the recursion never reaches it.
LEMMA MarkedNotBuilt ==
    ASSUME Types, NEW x \in Actions, NEW B \in SUBSET Actions, x \notin B,
           \A a \in B : deps[a] \subseteq B, poisoned \intersect B = {}
    PROVE  MarkDependents(x) \intersect B = {}
<1> DEFINE Closed(C) ==
               /\ Dependents(x) \ poisoned \subseteq C
               /\ \A c \in C : Dependents(c) \ poisoned \subseteq C
<1> DEFINE L == {a \in Actions : \A C \in SUBSET Actions : Closed(C) => a \in C}
<1>1. MarkDependents(x) = poisoned \union L
  BY DEF MarkDependents
<1>2. Closed(Actions \ B)
  BY DEF Dependents
<1>3. L \subseteq Actions \ B
  BY <1>2
<1> QED
  BY <1>1, <1>3

\* An action that was not built is added to the poison and everything after
\* it with it, in the loop as when a command fails.
LEMMA PoisonSpreads ==
    ASSUME Types, poisoned = Downstream, NEW x \in Actions
    PROVE  MarkDependents(x) =
              {a \in Actions :
                  deps[a] \intersect (failed \union skipped \union {x}
                                          \union MarkDependents(x)) # {}}
<1> DEFINE M == MarkDependents(x)
<1>1. /\ M \subseteq Actions /\ poisoned \subseteq M
      /\ \A a \in Actions : x \in deps[a] => a \in M
      /\ \A c \in M \ poisoned : \A a \in Actions : c \in deps[a] => a \in M
      /\ \A a \in M \ poisoned : deps[a] \intersect ({x} \union M) # {}
  BY Marked
<1> HIDE DEF M
<1>2. ASSUME NEW a \in Actions,
             deps[a] \intersect (failed \union skipped \union {x} \union M) # {}
      PROVE  a \in M
  <2> PICK d \in deps[a] : d \in failed \union skipped \union {x} \union M
    BY <1>2
  <2>1. CASE d \in failed \union skipped \union poisoned
    BY <1>1, <2>1 DEF Downstream
  <2>2. CASE d \in {x} \union (M \ poisoned)
    BY <1>1, <2>2
  <2> QED
    BY <2>1, <2>2
<1>3. ASSUME NEW a \in M
      PROVE  /\ a \in Actions
             /\ deps[a] \intersect (failed \union skipped \union {x} \union M) # {}
  <2>1. CASE a \in poisoned
    BY <1>1, <2>1 DEF Downstream
  <2>2. CASE a \notin poisoned
    BY <1>1, <1>3, <2>2
  <2> QED
    BY <1>1, <1>3, <2>1, <2>2
<1>4. M = {a \in Actions :
              deps[a] \intersect (failed \union skipped \union {x} \union M) # {}}
  BY <1>2, <1>3
<1> QED
  BY <1>4 DEF M

\* A success has a Result, and only a cancelled context kills a command.
LEMMA RunOutcome ==
    ASSUME Types, NEW a \in Actions, NEW o \in Outcomes(verdict[a], interrupted)
    PROVE  /\ o.err \in {"nil", "own", "canceled"}
           /\ o.err = "nil" => o.res
<1>1. verdict[a] \in Verdict
  BY DEF Types
<1>2. CASE verdict[a] = "succeeds"
  BY <1>2 DEF Outcomes
<1>3. CASE verdict[a] = "fails"
  BY <1>3 DEF Outcomes
<1>4. CASE verdict[a] = "unrunnable"
  BY <1>4 DEF Outcomes
<1>5. CASE verdict[a] = "hangs"
  BY <1>5 DEF Outcomes
<1> QED
  BY <1>1, <1>2, <1>3, <1>4, <1>5 DEF Verdict

-----------------------------------------------------------------------------
\* The invariant holds when Build is entered.
LEMMA InitSInv == Init => SInv
<1> SUFFICES ASSUME Init PROVE SInv
  OBVIOUS
<1> USE DEF Init
<1>0. todo \in Seq(Actions) /\ DOMAIN todo = {}
  OBVIOUS
<1>1. Types
  BY <1>0, GraphsAssumption, VerdictsAssumption DEF Types, Places
<1>2. Sorted(todo)
  BY <1>0 DEF Sorted, IsInjective
<1>3. Place /\ DecidedInOrder /\ Poison /\ Grounded /\ Errors
  BY DEF Place, DecidedInOrder, Poison, Grounded, Errors, Built
<1> QED
  BY <1>1, <1>2, <1>3 DEF SInv

\* Steps that decide nothing.
LEMMA QuietStep ==
    SInv /\ (Reject \/ Begin \/ Run \/ Return \/ Interrupt \/ UNCHANGED vars)
        => SInv'
<1> SUFFICES ASSUME SInv,
                    Reject \/ Begin \/ Run \/ Return \/ Interrupt \/ UNCHANGED vars
             PROVE  SInv'
  OBVIOUS
<1> USE DEF SInv, vars, input, summary
<1>0. UNCHANGED <<deps, keepGoing, verdict, poisoned, results, failed, skipped, firstErr>>
  BY DEF Reject, Begin, Run, Return, Interrupt
<1>1. CASE Begin
  <2>1. todo' \in Seq(Actions) /\ Sorted(todo') /\ ToSet(todo') = Actions
    BY <1>1, WholeOrder DEF Begin
  <2>2. pc' = "loop" /\ pc = "start" /\ interrupted' = interrupted /\ Acyclic(deps)
    BY <1>1 DEF Begin
  <2>3. poisoned = {} /\ results = {} /\ failed = {} /\ skipped = {}
    BY <2>2 DEF Place
  <2>4. Types' /\ Sorted(todo)'
    BY <1>0, <2>1, <2>2 DEF Types, Places, Sorted
  <2>5. Place'
    BY <1>0, <2>2 DEF Place, Acyclic
  <2>6. DecidedInOrder'
    BY <1>0, <2>1, <2>3 DEF DecidedInOrder, Decided, Built
  <2>7. Poison' /\ Grounded' /\ Errors'
    BY <1>0, <2>2, <2>3 DEF Poison, Downstream, Grounded, Built, Errors, Types
  <2> QED
    BY <2>4, <2>5, <2>6, <2>7
<1>2. CASE Reject \/ Run \/ Return \/ Interrupt \/ UNCHANGED vars
  <2>1. todo' = todo
    BY <1>2 DEF Reject, Run, Return, Interrupt
  <2>2. Types' /\ Sorted(todo)'
    BY <1>0, <1>2, <2>1
    DEF Types, Places, Sorted, Reject, Run, Return, Interrupt
  <2>3. Place'
    BY <1>0, <1>2, <2>1
    DEF Place, Types, Acyclic, Reject, Run, Return, Interrupt
  <2>4. DecidedInOrder'
    BY <1>0, <1>2, <2>1
    DEF DecidedInOrder, Decided, Built, Reject, Run, Return, Interrupt
  <2>5. Poison' /\ Grounded'
    BY <1>0, <1>2
    DEF Poison, Downstream, Grounded, Built, Reject, Run, Return, Interrupt
  <2>6. Errors'
    BY <1>0, <1>2 DEF Errors, Types, Reject, Run, Return, Interrupt
  <2> QED
    BY <2>2, <2>3, <2>4, <2>5, <2>6
<1> QED
  BY <1>1, <1>2

\* The action at hand: undecided, with every dependency decided.
LEMMA AtHand ==
    ASSUME SInv, pc \in {"loop", "run"}, todo # <<>>
    PROVE  /\ Head(todo) \in Actions /\ Head(todo) \in ToSet(todo)
           /\ Tail(todo) \in Seq(Actions) /\ Sorted(Tail(todo))
           /\ ToSet(Tail(todo)) = ToSet(todo) \ {Head(todo)}
           /\ ToSet(todo) \subseteq Actions
           /\ Head(todo) \notin Decided
           /\ deps[Head(todo)] \subseteq Decided
           /\ Decided = Actions \ ToSet(todo)
<1>1. todo \in Seq(Actions) /\ Sorted(todo) /\ IsInjective(todo)
  BY DEF SInv, Types, Sorted
<1>2. Decided = Actions \ ToSet(todo)
  BY DEF SInv, DecidedInOrder
<1> QED
  BY <1>1, <1>2, TakeFirst, FirstIsReady DEF SInv, Types

\* The action at hand is skipped: it is poisoned, or the caller interrupted.
LEMMA SkipStep == SInv /\ (SkipPoisoned \/ SkipInterrupted) => SInv'
<1> SUFFICES ASSUME SInv, SkipPoisoned \/ SkipInterrupted PROVE SInv'
  OBVIOUS
<1> DEFINE x == Head(todo)
<1> USE DEF SInv
<1>0. /\ UNCHANGED <<deps, keepGoing, verdict, pc, results, failed, interrupted>>
      /\ pc = "loop" /\ todo # <<>> /\ todo' = Tail(todo)
      /\ skipped' = skipped \union {x} /\ poisoned' = MarkDependents(x)
  BY DEF SkipPoisoned, SkipInterrupted, input
<1>1. /\ x \in Actions /\ x \in ToSet(todo) /\ x \notin Decided
      /\ Tail(todo) \in Seq(Actions) /\ Sorted(Tail(todo))
      /\ ToSet(Tail(todo)) = ToSet(todo) \ {x} /\ Decided = Actions \ ToSet(todo)
  BY <1>0, AtHand
<1> HIDE DEF x
<1>2. firstErr' \in {"nil", "own", "canceled"} /\ firstErr' # "nil"
      /\ (firstErr' # "nil" => failed # {} \/ interrupted)
  BY DEF SkipPoisoned, SkipInterrupted, Errors, Types
<1>3. /\ MarkDependents(x) \subseteq Actions
      /\ MarkDependents(x) \intersect Built = {}
      /\ poisoned' = {a \in Actions :
              deps[a] \intersect (failed \union skipped' \union poisoned') # {}}
  <2>1. MarkDependents(x) \subseteq Actions
    BY <1>1, Marked
  <2>2. Built \subseteq Actions /\ x \notin Built /\ poisoned = Downstream
    BY <1>0, <1>1 DEF Types, Built, Decided, Poison
  <2>3. MarkDependents(x) \intersect Built = {}
    BY <1>1, <2>2, MarkedNotBuilt DEF Grounded
  <2>4. MarkDependents(x) =
              {a \in Actions :
                  deps[a] \intersect (failed \union skipped \union {x}
                                          \union MarkDependents(x)) # {}}
    BY <1>1, <2>2, PoisonSpreads
  <2> QED
    BY <1>0, <2>1, <2>3, <2>4
<1>4. Types' /\ Sorted(todo)'
  BY <1>0, <1>1, <1>2, <1>3 DEF Types, Sorted
<1>8. Place'
  BY <1>0 DEF Place, Acyclic
<1>5. DecidedInOrder'
  BY <1>0, <1>1 DEF DecidedInOrder, Decided, Built
<1>6. Poison' /\ Grounded'
  BY <1>0, <1>3 DEF Poison, Downstream, Grounded, Built
<1>7. Errors'
  BY <1>0, <1>2 DEF Errors
<1> QED
  BY <1>4, <1>5, <1>6, <1>7, <1>8

\* The command of the action at hand ends.
LEMMA RecordStep == SInv /\ Record => SInv'
<1> SUFFICES ASSUME SInv, Record PROVE SInv'
  OBVIOUS
<1> DEFINE x == Head(todo)
<1> USE DEF SInv
<1>0. /\ UNCHANGED <<deps, keepGoing, verdict, skipped, interrupted>>
      /\ pc = "run" /\ todo # <<>> /\ todo' = Tail(todo) /\ x \notin poisoned
  BY DEF Record, input, Place
<1>1. /\ x \in Actions /\ x \in ToSet(todo) /\ x \notin Decided
      /\ Tail(todo) \in Seq(Actions) /\ Sorted(Tail(todo))
      /\ ToSet(Tail(todo)) = ToSet(todo) \ {x} /\ Decided = Actions \ ToSet(todo)
      /\ deps[x] \subseteq Decided
  BY <1>0, AtHand
<1>2. PICK o \in Outcomes(verdict[x], interrupted) : Record!2!(o)
  BY DEF Record
<1>3. o.err \in {"nil", "own", "canceled"} /\ (o.err = "nil" => o.res)
  BY <1>1, RunOutcome
<1>4. poisoned = Downstream
  BY <1>0 DEF Poison
<1>5. CASE o.err = "nil"
  <2>1. /\ results' = results \union {x} /\ pc' = "loop"
        /\ UNCHANGED <<poisoned, failed, firstErr>>
    BY <1>2, <1>3, <1>5
  <2> HIDE DEF x
  <2>2. Built' = Built \union {x}
    BY <1>1, <2>1 DEF Built, Decided
  <2>3. deps[x] \subseteq Built
    BY <1>0, <1>1, <1>4 DEF Downstream, Decided, Types
  <2>4. Types' /\ Sorted(todo)' /\ Place'
    BY <1>0, <1>1, <2>1 DEF Types, Places, Sorted, Place, Acyclic
  <2>5. DecidedInOrder'
    BY <1>0, <1>1, <2>1, <2>2 DEF DecidedInOrder, Decided
  <2>6. Poison' /\ Grounded'
    BY <1>0, <1>4, <2>1, <2>2, <2>3 DEF Poison, Downstream, Grounded
  <2>7. Errors'
    BY <1>0, <2>1 DEF Errors
  <2> QED
    BY <2>4, <2>5, <2>6, <2>7
<1>6. CASE o.err # "nil"
  <2>1. /\ results' \in {results, results \union {x}}
        /\ failed' = failed \union {x} /\ poisoned' = MarkDependents(x)
        /\ firstErr' = IF firstErr = "nil" THEN o.err ELSE firstErr
        /\ pc' = IF keepGoing THEN "loop" ELSE "abort"
    BY <1>2, <1>6
  <2> HIDE DEF x
  <2>2. Built' = Built
    BY <1>1, <2>1 DEF Built, Decided
  <2>3. Built \subseteq Actions /\ x \notin Built
    BY <1>1 DEF Types, Built, Decided
  <2>4. MarkDependents(x) \subseteq Actions /\ MarkDependents(x) \intersect Built = {}
    BY <1>1, <2>3, Marked, MarkedNotBuilt DEF Grounded
  <2>5. MarkDependents(x) =
              {a \in Actions :
                  deps[a] \intersect (failed \union skipped \union {x}
                                          \union MarkDependents(x)) # {}}
    BY <1>1, <1>4, PoisonSpreads
  <2>6. Types' /\ Sorted(todo)'
    BY <1>0, <1>1, <1>3, <2>1, <2>4 DEF Types, Places, Sorted
  <2>7. Place'
    BY <1>0, <2>1 DEF Place, Acyclic, Types
  <2>8. DecidedInOrder'
    BY <1>0, <1>1, <2>1, <2>2 DEF DecidedInOrder, Decided
  <2>9. Poison' /\ Grounded'
    BY <1>0, <2>1, <2>2, <2>4, <2>5 DEF Poison, Downstream, Grounded
  <2>10. Errors'
    BY <1>0, <1>6, <2>1 DEF Errors
  <2> QED
    BY <2>6, <2>7, <2>8, <2>9, <2>10
<1> QED
  BY <1>5, <1>6

\* Fail-fast gives up on all that is left.
LEMMA AbortStep == SInv /\ Abort => SInv'
<1> SUFFICES ASSUME SInv, Abort PROVE SInv'
  OBVIOUS
<1> USE DEF SInv
<1>0. /\ UNCHANGED <<deps, keepGoing, verdict, poisoned, results, failed, firstErr, interrupted>>
      /\ pc = "abort" /\ pc' = "leave" /\ todo' = <<>>
      /\ skipped' = skipped \union ToSet(todo)
  BY DEF Abort, input
<1>1. /\ ToSet(todo) \subseteq Actions /\ ToSet(todo') = {}
      /\ todo' \in Seq(Actions) /\ DOMAIN todo' = {}
  BY <1>0 DEF Types, ToSet
<1>2. Types' /\ Sorted(todo)'
  BY <1>0, <1>1 DEF Types, Places, Sorted, IsInjective
<1>6. Place'
  BY <1>0 DEF Place, Acyclic
<1>3. DecidedInOrder'
  BY <1>0, <1>1 DEF DecidedInOrder, Decided, Built
<1>4. Poison' /\ Grounded'
  BY <1>0 DEF Poison, Grounded, Built
<1>5. Errors'
  BY <1>0 DEF Errors, Place
<1> QED
  BY <1>2, <1>3, <1>4, <1>5, <1>6

\* The strengthened invariant is an invariant of the driver.
THEOREM SequentialInvariant == Spec => []SInv
<1>1. SInv /\ [Next]_vars => SInv'
  BY QuietStep, SkipStep, RecordStep, AbortStep DEF Next
<1> QED
  BY InitSInv, <1>1, PTL DEF Spec

-----------------------------------------------------------------------------
\* Between two actions, exactly what is downstream of something not built is
\* poisoned, however early the recursion stopped.
THEOREM PoisonIsExact == Spec => []PoisonIsDownstream
<1>1. SInv => PoisonIsDownstream
  BY DEF SInv, Poison, Downstream, PoisonIsDownstream
<1> QED
  BY SequentialInvariant, <1>1, PTL

\* The loop decides every action it passes, once, and none ahead of it.
THEOREM LoopDecides == Spec => []DecidedInOrder
<1>1. SInv => DecidedInOrder
  BY DEF SInv
<1> QED
  BY SequentialInvariant, <1>1, PTL

\* A build that left something unbuilt returns an error.
THEOREM NoSilentGap == Spec => []CutShortIsAnError
<1>1. SInv => CutShortIsAnError
  <2> SUFFICES ASSUME SInv, pc = "returned", Built # Actions
               PROVE  firstErr # "nil"
    BY DEF CutShortIsAnError
  <2>1. todo = <<>> /\ Decided = Actions \ ToSet(todo) /\ Built \subseteq Actions
    BY DEF SInv, Place, DecidedInOrder, Built, Types
  <2>2. ToSet(todo) = {}
    BY <2>1 DEF ToSet
  <2> QED
    BY <2>1, <2>2 DEF SInv, Errors, Decided
<1> QED
  BY SequentialInvariant, <1>1, PTL

-----------------------------------------------------------------------------
(* The sequential driver implements the abstract build, with one slot.     *)

\* Both speak of the same cycles, and count alike.
LEMMA SameCycles == Abstract!Acyclic(deps) <=> Acyclic(deps)
BY DEF Abstract!Acyclic, Acyclic

LEMMA SameCount == \A S : Abstract!Cardinality(S) = Cardinality(S)
BY DEF Abstract!Cardinality, Cardinality, Abstract!IsFiniteSet, IsFiniteSet

\* The outcome the caller sees.
Seen ==
    \A a \in Actions :
        /\ outcome[a] = "failed" <=> a \in failed
        /\ outcome[a] = "skipped" <=> a \in skipped
        /\ outcome[a] = "built" <=> a \in Built
        /\ outcome[a] = "running" <=> pc = "run" /\ a = Head(todo)
        /\ outcome[a] = "pending" <=>
              a \notin Decided /\ ~(pc = "run" /\ a = Head(todo))

LEMMA SeenNow == SInv => Seen
<1> SUFFICES ASSUME SInv PROVE Seen
  OBVIOUS
<1>1. /\ failed \intersect skipped = {} /\ Built \intersect skipped = {}
      /\ Built \intersect failed = {}
  BY DEF SInv, DecidedInOrder, Built
<1>2. pc = "run" => Head(todo) \notin Decided
  BY AtHand DEF SInv, Place
<1> QED
  BY <1>1, <1>2 DEF Seen, outcome, Outcome, Decided

\* Until it returns, the driver has not answered.
LEMMA Unanswered ==
    ASSUME Types, pc \notin {"rejected", "returned"}
    PROVE  answer = "none"
BY DEF answer, Types, Places

\* Every step of the driver is a step of the abstract build or invisible.
LEMMA StepRefines ==
    SInv /\ SInv' /\ [Next]_vars => [Abstract!Next]_(Abstract!vars)
<1> SUFFICES ASSUME SInv, SInv', [Next]_vars
             PROVE  [Abstract!Next]_(Abstract!vars)
  OBVIOUS
<1> USE DEF Abstract!vars
<1>s. Seen /\ Seen'
  BY SeenNow, PTL
<1>t. Types /\ Types'
  BY DEF SInv
<1>0. UNCHANGED <<deps, keepGoing, verdict>>
  BY DEF Next, vars, input, Reject, Begin, SkipPoisoned, SkipInterrupted, Run,
         Record, Abort, Return, Interrupt
<1>1. ASSUME UNCHANGED <<outcome, answer, interrupted>>
      PROVE  [Abstract!Next]_(Abstract!vars)
  BY <1>0, <1>1
<1>u. ASSUME UNCHANGED <<results, failed, skipped>>, pc # "run", pc' # "run"
      PROVE  outcome' = outcome
  BY <1>u DEF outcome, Outcome, Decided, Built
<1>v. ASSUME NEW x \in Actions,
             \A a \in Actions \ {x} :
                 /\ a \in failed' <=> a \in failed
                 /\ a \in skipped' <=> a \in skipped
                 /\ a \in results' <=> a \in results
                 /\ ~(pc = "run" /\ a = Head(todo))
                 /\ ~(pc' = "run" /\ a = Head(todo'))
      PROVE  \A v : outcome'[x] = v => outcome' = [outcome EXCEPT ![x] = v]
  <2>1. ASSUME NEW a \in Actions \ {x}
        PROVE  Outcome(a)' = Outcome(a)
    BY <1>v DEF Outcome, Decided, Built
  <2>2. \A a \in Actions \ {x} : outcome'[a] = outcome[a]
    BY <2>1 DEF outcome
  <2>3. outcome = [a \in Actions |-> outcome[a]] /\ outcome' = [a \in Actions |-> outcome'[a]]
    BY DEF outcome
  <2> QED
    BY <2>2, <2>3
<1>2. CASE UNCHANGED vars
  <2>1. UNCHANGED <<outcome, answer, interrupted>>
    BY <1>2 DEF vars, summary, outcome, Outcome, Decided, Built, answer
  <2> QED
    BY <1>1, <2>1
<1>3. CASE Reject
  <2>1. /\ UNCHANGED <<results, failed, skipped, interrupted>> /\ pc = "start"
        /\ pc' = "rejected" /\ ~Acyclic(deps)
    BY <1>3 DEF Reject, summary
  <2>2. outcome' = outcome
    BY <1>u, <2>1
  <2>3. answer = "none" /\ answer' = "error"
    BY <2>1 DEF answer
  <2>4. Abstract!Reject
    BY <1>0, <2>1, <2>2, <2>3, SameCycles DEF Abstract!Reject
  <2> QED
    BY <2>4 DEF Abstract!Next
<1>4. CASE Begin
  <2>1. /\ UNCHANGED <<results, failed, skipped, interrupted>>
        /\ pc = "start" /\ pc' = "loop"
    BY <1>4 DEF Begin, summary
  <2>2. outcome' = outcome /\ answer' = answer
    BY <1>u, <2>1 DEF answer
  <2> QED
    BY <1>1, <2>1, <2>2
<1>5. CASE SkipPoisoned \/ SkipInterrupted
  <2> DEFINE x == Head(todo)
  <2>1. /\ pc = "loop" /\ pc' = pc /\ todo # <<>>
        /\ UNCHANGED <<results, failed, interrupted>>
        /\ skipped' = skipped \union {x}
        /\ x \in poisoned \/ interrupted
    BY <1>5 DEF SkipPoisoned, SkipInterrupted
  <2>2. /\ x \in Actions /\ x \notin Decided /\ deps[x] \subseteq Decided
    BY <2>1, AtHand
  <2> HIDE DEF x
  <2>3. answer = "none" /\ answer' = answer
    BY <2>1 DEF answer
  <2>4. outcome[x] = "pending"
    BY <1>s, <2>1, <2>2 DEF Seen
  <2>5. outcome' = [a \in Actions |-> IF a \in {x} THEN "skipped" ELSE outcome[a]]
    BY <2>1, <2>2 DEF outcome, Outcome, Decided, Built
  <2>6. Abstract!MaySkip(x)
    <3>1. CASE interrupted
      BY <3>1 DEF Abstract!MaySkip
    <3>2. CASE x \in poisoned
      <4> PICK d \in deps[x] : d \in failed \union skipped \union poisoned
        BY <2>1, <3>2 DEF SInv, Poison, Downstream
      <4>1. d \in failed \/ d \in skipped
        BY <2>2 DEF SInv, Grounded, Decided
      <4>2. outcome[d] \in {"failed", "skipped"}
        BY <1>s, <1>t, <4>1 DEF Seen, Types
      <4> QED
        BY <4>2 DEF Abstract!MaySkip
    <3> QED
      BY <2>1, <3>1, <3>2
  <2>7. Abstract!Skip({x})
    BY <1>0, <2>1, <2>2, <2>3, <2>4, <2>5, <2>6 DEF Abstract!Skip
  <2> QED
    BY <2>2, <2>7 DEF Abstract!Next
<1>6. CASE Run
  <2> DEFINE x == Head(todo)
  <2>1. /\ pc = "loop" /\ pc' = "run" /\ todo # <<>> /\ todo' = todo
        /\ UNCHANGED <<results, failed, skipped, interrupted>> /\ x \notin poisoned
    BY <1>6 DEF Run, summary
  <2>2. /\ x \in Actions /\ x \notin Decided /\ deps[x] \subseteq Decided
    BY <2>1, AtHand
  <2>3. answer = "none" /\ answer' = answer
    BY <2>1 DEF answer
  <2>4. outcome[x] = "pending"
    BY <1>s, <2>1, <2>2 DEF Seen
  <2>5. outcome' = [outcome EXCEPT ![x] = "running"]
    <3>1. outcome'[x] = "running"
      BY <1>s, <2>1, <2>2 DEF Seen
    <3> QED
      BY <1>v, <2>1, <2>2, <3>1
  <2> HIDE DEF x
  <2>6. \A d \in deps[x] : outcome[d] = "built"
    BY <1>s, <1>t, <2>1, <2>2
    DEF Seen, SInv, Poison, Downstream, Decided, Types
  <2>7. Abstract!Cardinality(Abstract!InState("running")) < 1
    <3>1. Abstract!InState("running") = {}
      BY <1>s, <2>1 DEF Seen, Abstract!InState
    <3> QED
      BY <3>1, SameCount, FS_EmptySet
  <2>8. Acyclic(deps)
    BY <2>1 DEF SInv, Place
  <2>9. Abstract!Start(x)
    BY <1>0, <2>1, <2>2, <2>3, <2>4, <2>5, <2>6, <2>7, <2>8, SameCycles
    DEF Abstract!Start
  <2> QED
    BY <2>2, <2>9 DEF Abstract!Next
<1>7. CASE Record
  <2> DEFINE x == Head(todo)
  <2>1. /\ pc = "run" /\ todo # <<>> /\ pc' \in {"loop", "abort"}
        /\ UNCHANGED <<skipped, interrupted>>
    BY <1>7 DEF Record, SInv, Place
  <2>2. x \in Actions /\ x \notin Decided
    BY <2>1, AtHand
  <2>3. PICK o \in Outcomes(verdict[x], interrupted) : Record!2!(o)
    BY <1>7 DEF Record
  <2>4. o.err = "nil" => o.res
    BY <1>t, <2>2, RunOutcome
  <2>5. outcome[x] = "running"
    BY <1>s, <2>1, <2>2 DEF Seen
  <2> HIDE DEF x
  <2>6. \/ results' = results \union {x} /\ failed' = failed
        \/ results' \in {results, results \union {x}} /\ failed' = failed \union {x}
    BY <2>3, <2>4 DEF x
  <2>7. \A v : outcome'[x] = v => outcome' = [outcome EXCEPT ![x] = v]
    <3>1. \A a \in Actions \ {x} :
             /\ a \in failed' <=> a \in failed
             /\ a \in skipped' <=> a \in skipped
             /\ a \in results' <=> a \in results
             /\ ~(pc = "run" /\ a = Head(todo))
             /\ ~(pc' = "run" /\ a = Head(todo'))
      BY <2>1, <2>6 DEF x
    <3> QED
      BY <1>v, <2>2, <3>1
  <2>8. \E r \in {"built", "failed"} : outcome' = [outcome EXCEPT ![x] = r]
    <3>1. CASE results' = results \union {x} /\ failed' = failed
      <4>1. x \in Built'
        BY <2>2, <3>1 DEF Built, Decided
      <4>2. outcome'[x] = "built"
        BY <1>s, <2>2, <4>1 DEF Seen
      <4> QED
        BY <2>2, <2>7, <3>1, <4>2
    <3>2. CASE results' \in {results, results \union {x}} /\ failed' = failed \union {x}
      <4>1. x \in failed'
        BY <2>2, <3>2 DEF Built, Decided
      <4>2. outcome'[x] = "failed"
        BY <1>s, <2>2, <4>1 DEF Seen
      <4> QED
        BY <2>2, <2>7, <3>2, <4>2
    <3> QED
      BY <2>6, <3>1, <3>2
  <2>9. answer' = answer
    BY <2>1 DEF answer
  <2>10. Abstract!Finish(x)
    BY <1>0, <2>1, <2>5, <2>8, <2>9 DEF Abstract!Finish
  <2> QED
    BY <2>2, <2>10 DEF Abstract!Next
<1>8. CASE Abort
  <2>1. /\ pc = "abort" /\ pc' = "leave" /\ skipped' = skipped \union ToSet(todo)
        /\ UNCHANGED <<results, failed, interrupted>>
    BY <1>8 DEF Abort
  <2>2. /\ ToSet(todo) \subseteq Actions /\ ToSet(todo) \intersect Decided = {}
        /\ ~keepGoing /\ failed # {}
    BY <2>1 DEF SInv, Types, ToSet, Place, DecidedInOrder
  <2>3. answer = "none" /\ answer' = answer
    BY <2>1 DEF answer
  <2>4. CASE ToSet(todo) = {}
    <3>1. skipped' = skipped
      BY <2>1, <2>4
    <3>2. outcome' = outcome
      BY <1>u, <2>1, <3>1
    <3> QED
      BY <1>1, <2>1, <2>3, <3>2
  <2>5. CASE ToSet(todo) # {}
    <3>1. \A a \in ToSet(todo) : outcome[a] = "pending"
      BY <1>s, <2>1, <2>2 DEF Seen
    <3>2. \A a \in ToSet(todo) : Abstract!MaySkip(a)
      <4>1. Abstract!InState("failed") # {}
        BY <1>s, <1>t, <2>2 DEF Seen, Abstract!InState, Types
      <4> QED
        BY <2>2, <4>1 DEF Abstract!MaySkip
    <3>3. outcome' = [a \in Actions |->
                         IF a \in ToSet(todo) THEN "skipped" ELSE outcome[a]]
      BY <2>1, <2>2 DEF outcome, Outcome, Decided, Built
    <3>4. Abstract!Skip(ToSet(todo))
      BY <1>0, <2>1, <2>3, <2>5, <3>1, <3>2, <3>3 DEF Abstract!Skip
    <3> QED
      BY <2>2, <3>4 DEF Abstract!Next
  <2> QED
    BY <2>4, <2>5
<1>9. CASE Return
  <2>1. /\ pc \in {"loop", "leave"} /\ todo = <<>> /\ pc' = "returned"
        /\ UNCHANGED <<results, failed, skipped, firstErr, interrupted>>
    BY <1>9 DEF Return, summary, SInv, Place
  <2>2. outcome' = outcome
    BY <1>u, <2>1
  <2>3. answer = "none" /\ answer' = IF firstErr = "nil" THEN "ok" ELSE "error"
    BY <2>1 DEF answer
  <2>4. Decided = Actions
    <3>1. ToSet(todo) = {}
      BY <2>1 DEF ToSet
    <3> QED
      BY <1>t, <2>1, <3>1 DEF SInv, DecidedInOrder
  <2>5. Abstract!InState("pending") = {} /\ Abstract!InState("running") = {}
    BY <1>s, <2>1, <2>4 DEF Seen, Abstract!InState
  <2>6. Abstract!InState("failed") = failed
    BY <1>s, <1>t DEF Seen, Abstract!InState, Types
  <2>7. /\ failed # {} => firstErr # "nil"
        /\ firstErr # "nil" => failed # {} \/ interrupted
    BY DEF SInv, Errors
  <2>8. Abstract!Return
    BY <1>0, <2>1, <2>2, <2>3, <2>5, <2>6, <2>7 DEF Abstract!Return
  <2> QED
    BY <2>8 DEF Abstract!Next
<1>10. CASE Interrupt
  <2>1. /\ pc \notin {"rejected", "returned"} /\ interrupted' = TRUE
        /\ UNCHANGED <<pc, todo, results, failed, skipped, firstErr>>
    BY <1>10 DEF Interrupt, summary
  <2>2. outcome' = outcome
    BY <2>1 DEF outcome, Outcome, Decided, Built
  <2>3. answer = "none" /\ answer' = answer
    BY <1>t, <2>1, Unanswered DEF answer
  <2>4. Abstract!Interrupt
    BY <1>0, <2>1, <2>2, <2>3 DEF Abstract!Interrupt
  <2> QED
    BY <2>4 DEF Abstract!Next
<1> QED
  BY <1>2, <1>3, <1>4, <1>5, <1>6, <1>7, <1>8, <1>9, <1>10 DEF Next

\* The sequential driver is the same abstract build as the scheduler, with one
\* slot: the two can differ only where BuildSpec lets a build choose.
THEOREM SequentialIsABuild == Spec => ImplementsBuildSpec
<1>1. Init => Abstract!Init
  <2> SUFFICES ASSUME Init PROVE Abstract!Init
    OBVIOUS
  <2>1. Types /\ outcome = [a \in Actions |-> "pending"]
    BY InitSInv DEF SInv, Init, outcome, Outcome, Decided, Built
  <2>2. answer = "none" /\ interrupted = FALSE
    BY DEF Init, answer
  <2> QED
    BY <2>1, <2>2 DEF Abstract!Init, Types
<1>2. SInv /\ SInv' /\ [Next]_vars => [Abstract!Next]_(Abstract!vars)
  BY StepRefines
<1> QED
  BY <1>1, <1>2, SequentialInvariant, PTL
  DEF Spec, ImplementsBuildSpec, Abstract!Spec
=============================================================================
