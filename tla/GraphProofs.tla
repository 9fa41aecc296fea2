----------------------------- MODULE GraphProofs -----------------------------
(***************************************************************************)
(* Theorems about the order of the graph and the cycle search, for any     *)
(* number of actions and any graph.                                        *)
(***************************************************************************)
EXTENDS GraphOrder, FiniteSetTheorems, TLAPS

Frame == [node: Names, ahead: SUBSET Names]

GTyped ==
    /\ copies \in [Names -> [Names -> 0..MaxCopies]] /\ \A n \in Names : copies[n][n] = 0
    /\ phase \in {"count", "drain", "search", "ok", "cycle"}
    /\ remaining \in [Names -> Nat] /\ ready \in SUBSET Names /\ order \in Seq(Names)
    /\ color \in [Names -> {"white", "gray"}] /\ stack \in Seq(Frame)

\* What stands before place j of the order.
Before(j) == {order[i] : i \in 1..(j - 1)}

\* The order has nothing twice and nothing early, and at every place the least
\* of what could stand there.
Sorted ==
    /\ phase = "count" => order = <<>>
    /\ IsInjective(order)
    /\ \A j \in 1..Len(order) :
          /\ deps(order[j]) \subseteq Before(j)
          /\ \A m \in Names \ Before(j) : deps(m) \subseteq Before(j) => order[j] <= m

\* The listed dependencies of n that have not been emitted.
Open(n) ==
    {p \in Names \X (1..MaxCopies) : p[2] <= copies[n][p[1]] /\ p[1] \notin ToSet(order)}

\* The counters count them, and what has none left is ready.
Counted ==
    phase # "count" =>
        /\ \A n \in Names : remaining[n] = Cardinality(Open(n))
        /\ ready = {n \in Names \ ToSet(order) : remaining[n] = 0}

\* All were emitted, or some cannot be.
Drains ==
    /\ phase \in {"search", "cycle"} => ready = {} /\ ToSet(order) # Names
    /\ phase = "ok" => Len(order) = N /\ ToSet(order) = Names

\* The stack is a simple path through what was not emitted, and the action on
\* top has a dependency ahead that was not emitted either.
Searching ==
    /\ stack # <<>> => phase \in {"search", "cycle"}
    /\ \A n \in Names : color[n] = "gray" <=> \E i \in 1..Len(stack) : stack[i].node = n
    /\ \A i, j \in 1..Len(stack) : stack[i].node = stack[j].node => i = j
    /\ \A i \in 1..Len(stack) : remaining[stack[i].node] > 0
    /\ \A i, j \in 1..Len(stack) : j = i + 1 => stack[j].node \in deps(stack[i].node)
    /\ stack # <<>> =>
          /\ Top.ahead \subseteq deps(Top.node)
          /\ \A d \in deps(Top.node) : remaining[d] > 0 => d \in Top.ahead

GInv == GTyped /\ Sorted /\ Counted /\ Drains /\ Searching /\ CycleIsReal

-----------------------------------------------------------------------------
(* Induction over the subsets of a finite set, for what a definition that   *)
(* chooses the least element takes for granted.                             *)

\* What holds of a set when it holds of the set less any one element, holds of
\* every finite set.
LEMMA ByRemoval ==
    ASSUME NEW S, IsFiniteSet(S), NEW A,
           \A T \in SUBSET S : (\A x \in T : T \ {x} \in A) => T \in A
    PROVE  S \in A
<1> DEFINE B == {T \in SUBSET S : T \notin A}
<1>1. SUFFICES ASSUME S \notin A PROVE FALSE
  OBVIOUS
<1>2. S \in B /\ B \subseteq SUBSET S
  BY <1>1
<1>3. IsWellFoundedOn(StrictSubsetOrdering(S), SUBSET S)
  BY FS_StrictSubsetOrderingWellFounded, FS_FiniteSubsetsOfFinite
<1>4. \E T \in B : \A U \in B : ~(<<U, T>> \in StrictSubsetOrdering(S))
  BY <1>2, <1>3, WFMin
<1>5. PICK T \in B : \A U \in B : ~(<<U, T>> \in StrictSubsetOrdering(S))
  BY <1>4
<1>6. ASSUME NEW x \in T
      PROVE  T \ {x} \in A
  <2>1. <<T \ {x}, T>> \in StrictSubsetOrdering(S)
    BY <1>6 DEF StrictSubsetOrdering
  <2> QED
    BY <1>5, <2>1
<1> QED
  BY <1>5, <1>6

\* Numbers, if finitely many, have a least one.
LEMMA LeastIsThere ==
    ASSUME NEW S \in SUBSET Nat, IsFiniteSet(S), S # {}
    PROVE  Min(S) \in S /\ \A y \in S : Min(S) <= y
<1> DEFINE A == {T \in SUBSET S : T # {} => \E x \in T : \A y \in T : x <= y}
<1>1. ASSUME NEW T \in SUBSET S, \A x \in T : T \ {x} \in A
      PROVE  T \in A
  <2> SUFFICES ASSUME T # {} PROVE \E x \in T : \A y \in T : x <= y
    OBVIOUS
  <2>1. PICK z \in T : TRUE
    OBVIOUS
  <2>2. CASE T \ {z} = {}
    BY <2>1, <2>2
  <2>3. CASE T \ {z} # {}
    <3>1. PICK x \in T \ {z} : \A y \in T \ {z} : x <= y
      BY <1>1, <2>1, <2>3
    <3>2. x \in Nat /\ z \in Nat
      OBVIOUS
    <3>3. CASE x <= z
      BY <3>1, <3>3
    <3>4. CASE ~(x <= z)
      <4>1. \A y \in T : z <= y
        BY <3>1, <3>2, <3>4
      <4> QED
        BY <4>1
    <3> QED
      BY <3>3, <3>4
  <2> QED
    BY <2>2, <2>3
<1>2. S \in A
  <2> HIDE DEF A
  <2> QED
    BY <1>1, ByRemoval
<1>3. \E x \in S : \A y \in S : x <= y
  BY <1>2
<1> QED
  BY <1>3 DEF Min

-----------------------------------------------------------------------------
\* Names are numbers, and finitely many.
LEMMA NamesAreFinite ==
    /\ \A S \in SUBSET Names : IsFiniteSet(S) /\ S \in SUBSET Nat
    /\ IsFiniteSet(Names \X (1..MaxCopies)) /\ Cardinality(Names) = N
<1>1. IsFiniteSet(Names) /\ Names \subseteq Nat /\ Cardinality(Names) = N
  BY NAssumption, FS_Interval DEF Names
<1>2. IsFiniteSet(1..MaxCopies)
  BY MaxCopiesAssumption, FS_Interval
<1>3. ASSUME NEW S \in SUBSET Names PROVE IsFiniteSet(S)
  BY <1>1, FS_Subset
<1> QED
  BY <1>1, <1>2, <1>3, FS_Product

\* A counter is zero when everything it waits for has been emitted.
LEMMA NothingOpen ==
    ASSUME GTyped, NEW n \in Names
    PROVE  /\ Cardinality(Open(n)) \in Nat /\ IsFiniteSet(Open(n))
           /\ Cardinality(Open(n)) = 0 <=> deps(n) \subseteq ToSet(order)
<1>1. IsFiniteSet(Open(n)) /\ Cardinality(Open(n)) \in Nat
  <2>1. Open(n) \in SUBSET (Names \X (1..MaxCopies))
    BY DEF Open
  <2> QED
    BY <2>1, NamesAreFinite, FS_Subset, FS_CardinalityType
<1>2. Open(n) = {} <=> deps(n) \subseteq ToSet(order)
  <2>1. ASSUME NEW d \in deps(n), d \notin ToSet(order)
        PROVE  <<d, 1>> \in Open(n)
    BY <2>1, MaxCopiesAssumption DEF Open, deps, GTyped
  <2>2. ASSUME NEW p \in Open(n)
        PROVE  p[1] \in deps(n) /\ p[1] \notin ToSet(order)
    BY MaxCopiesAssumption DEF Open, deps, GTyped
  <2> QED
    BY <2>1, <2>2
<1> QED
  BY <1>1, <1>2, FS_EmptySet

LEMMA InitGInv == GInit => GInv
<1> SUFFICES ASSUME GInit PROVE GInv
  OBVIOUS
<1>1. /\ phase = "count" /\ remaining = [n \in Names |-> 0] /\ ready = {} /\ order = <<>>
      /\ color = [n \in Names |-> "white"] /\ stack = <<>> /\ cycle = <<>>
  BY DEF GInit, GStart
<1>2. Len(order) = 0 /\ Len(stack) = 0 /\ DOMAIN order = {}
  BY <1>1
<1>3. GTyped
  BY <1>1 DEF GInit, GTyped
<1>4. Sorted /\ Counted /\ Drains
  BY <1>1, <1>2 DEF Sorted, Counted, Drains, IsInjective
<1>5. Searching /\ CycleIsReal
  BY <1>1, <1>2 DEF Searching, CycleIsReal
<1> QED
  BY <1>3, <1>4, <1>5 DEF GInv

LEMMA CountKeeps == GInv /\ Count => GInv'
<1> SUFFICES ASSUME GInv, Count PROVE GInv'
  OBVIOUS
<1>0. GTyped /\ Sorted /\ Searching /\ CycleIsReal
  BY DEF GInv
<1>1. /\ phase = "count" /\ phase' = "drain" /\ order = <<>>
      /\ remaining' = [n \in Names |-> Listed(n)]
      /\ ready' = {n \in Names : Listed(n) = 0}
      /\ UNCHANGED <<copies, order, color, stack, cycle>>
  BY <1>0 DEF Count, Sorted, search
<1>2. ToSet(order) = {}
  BY <1>1 DEF ToSet
<1>3. \A n \in Names : Listed(n) = Cardinality(Open(n)) /\ Open(n)' = Open(n) /\ Listed(n) \in Nat
  <2>1. ASSUME NEW n \in Names
        PROVE  {p \in Names \X (1..MaxCopies) : p[2] <= copies[n][p[1]]} = Open(n)
    BY <1>2 DEF Open
  <2>2. \A n \in Names : Open(n)' = Open(n)
    BY <1>1 DEF Open
  <2> QED
    BY <1>0, <2>1, <2>2, NothingOpen DEF Listed
<1>4. GTyped'
  BY <1>0, <1>1, <1>3 DEF GTyped
<1>5. Counted'
  <2>1. ToSet(order)' = {}
    BY <1>1, <1>2
  <2> QED
    BY <1>1, <1>3, <2>1 DEF Counted
<1>6. Sorted' /\ Drains'
  <2>1. Len(order') = 0
    BY <1>1
  <2> QED
    BY <1>0, <1>1, <2>1 DEF Sorted, Drains, IsInjective
<1>7. Searching'
  <2>1. stack = <<>> /\ stack' = <<>> /\ Len(stack) = 0
    BY <1>0, <1>1 DEF Searching
  <2> QED
    BY <1>0, <1>1, <2>1 DEF Searching
<1>8. CycleIsReal'
  BY <1>0, <1>1 DEF CycleIsReal
<1> QED
  BY <1>4, <1>5, <1>6, <1>7, <1>8 DEF GInv

\* The least of what is ready is emitted.
LEMMA EmitKeeps == GInv /\ Emit => GInv'
<1> SUFFICES ASSUME GInv, Emit PROVE GInv'
  OBVIOUS
<1>0. GTyped /\ Sorted /\ Counted /\ Searching /\ CycleIsReal
  BY DEF GInv
<1>1. PICK n \in ready : n = Min(ready) /\ \A m \in ready : n <= m
  <2>1. ready \in SUBSET Nat /\ IsFiniteSet(ready) /\ ready # {}
    BY <1>0, NamesAreFinite DEF Emit, GTyped
  <2> QED
    BY <2>1, LeastIsThere
<1>2. /\ phase = "drain" /\ phase' = "drain"
      /\ order' = Append(order, n)
      /\ remaining' = [m \in Names |-> remaining[m] - copies[m][n]]
      /\ ready' = (ready \ {n}) \union Unblocked(n)
      /\ UNCHANGED <<copies, color, stack, cycle>>
  BY <1>1 DEF Emit, Pop, search
<1>3. PICK L \in Nat, s \in Seq(Names) : L = Len(order) /\ s = order
  BY <1>0 DEF GTyped
<1>4. /\ order' \in Seq(Names) /\ Len(order') = L + 1 /\ order'[L + 1] = n
      /\ \A i \in 1..L : order'[i] = order[i]
      /\ DOMAIN order' = 1..(L + 1) /\ DOMAIN order = 1..L
  BY <1>0, <1>1, <1>2, <1>3 DEF GTyped
<1>5. ToSet(order') = ToSet(order) \union {n}
  <2>1. \A i \in 1..(L + 1) : i = L + 1 \/ i \in 1..L
    BY <1>3
  <2>2. L + 1 \in 1..(L + 1) /\ \A i \in 1..L : i \in 1..(L + 1)
    BY <1>3
  <2> QED
    BY <1>4, <2>1, <2>2 DEF ToSet
<1>6. /\ n \in Names /\ n \notin ToSet(order) /\ deps(n) \subseteq ToSet(order)
      /\ \A m \in Names : remaining[m] = 0 <=> deps(m) \subseteq ToSet(order)
      /\ ready = {m \in Names \ ToSet(order) : remaining[m] = 0}
  <2>1. \A m \in Names : remaining[m] = Cardinality(Open(m))
    BY <1>0, <1>2 DEF Counted
  <2>2. \A m \in Names : remaining[m] = 0 <=> deps(m) \subseteq ToSet(order)
    BY <1>0, <2>1, NothingOpen
  <2> QED
    BY <1>0, <1>1, <1>2, <2>2 DEF Counted
<1>7. \A j \in 1..L : Before(j)' = Before(j)
  <2>1. \A j \in 1..L : \A i \in 1..(j - 1) : i \in 1..L
    BY <1>3
  <2> QED
    BY <1>4, <2>1 DEF Before
<1>8. Before(L + 1)' = ToSet(order)
  <2>1. (L + 1) - 1 = L
    BY <1>3
  <2> QED
    BY <1>4, <2>1 DEF Before, ToSet
<1>9. \A m \in Names : deps(m)' = deps(m)
  BY <1>2 DEF deps
<1>10. Sorted'
  <2>1. IsInjective(order')
    <3> SUFFICES ASSUME NEW i \in 1..(L + 1), NEW j \in 1..(L + 1), order'[i] = order'[j]
                 PROVE  i = j
      BY <1>4 DEF IsInjective
    <3>1. (i = L + 1 \/ i \in 1..L) /\ (j = L + 1 \/ j \in 1..L)
      BY <1>3
    <3>2. \A k \in 1..L : order[k] # n
      BY <1>4, <1>6 DEF ToSet
    <3> QED
      BY <1>0, <1>4, <3>1, <3>2 DEF Sorted, IsInjective
  <2>2. ASSUME NEW j \in 1..(L + 1)
        PROVE  /\ deps(order'[j]) \subseteq Before(j)'
               /\ \A m \in Names \ Before(j)' : deps(m) \subseteq Before(j)' => order'[j] <= m
    <3>1. CASE j = L + 1
      <4>1. ASSUME NEW m \in Names \ ToSet(order), deps(m) \subseteq ToSet(order)
            PROVE  n <= m
        BY <1>1, <1>6, <4>1
      <4> QED
        BY <1>4, <1>6, <1>8, <3>1, <4>1
    <3>2. CASE j \in 1..L
      BY <1>0, <1>3, <1>4, <1>7, <3>2 DEF Sorted
    <3> QED
      BY <1>3, <3>1, <3>2
  <2>3. \A j \in 1..Len(order') : order'[j] \in Names
    BY <1>4
  <2> QED
    BY <1>2, <1>4, <1>9, <2>1, <2>2, <2>3 DEF Sorted
<1>11. ASSUME NEW m \in Names
       PROVE  /\ remaining'[m] = Cardinality(Open(m)') /\ remaining'[m] \in Nat
              /\ remaining'[m] = remaining[m] - copies[m][n]
  <2>1. PICK k \in 0..MaxCopies : k = copies[m][n]
    BY <1>0, <1>6 DEF GTyped
  <2>2. PICK A : A = Open(m)
    OBVIOUS
  <2>3. Open(m)' = A \ ({n} \X (1..k))
    <3>1. Open(m)' = {p \in Names \X (1..MaxCopies) :
                         p[2] <= copies[m][p[1]] /\ p[1] \notin ToSet(order) /\ p[1] # n}
      BY <1>2, <1>5 DEF Open
    <3>2. ASSUME NEW p \in Names \X (1..MaxCopies), p[2] <= copies[m][p[1]]
          PROVE  p[1] = n <=> p \in {n} \X (1..k)
      BY <1>6, <2>1, <3>2
    <3> QED
      BY <2>2, <3>1, <3>2 DEF Open
  <2>4. A \cap ({n} \X (1..k)) = {n} \X (1..k)
    <3>1. ASSUME NEW p \in {n} \X (1..k)
          PROVE  p \in A
      <4>1. p \in Names \X (1..MaxCopies) /\ p[1] = n /\ p[2] \in 1..k
        BY <1>6, <2>1, MaxCopiesAssumption
      <4> QED
        BY <1>6, <2>1, <2>2, <4>1 DEF Open
    <3> QED
      BY <3>1
  <2>5. Cardinality({n} \X (1..k)) = k
    <3>1. IsFiniteSet(1..k) /\ Cardinality(1..k) = k
      <4>1. k \in Int /\ 1 \in Int /\ (IF 1 > k THEN 0 ELSE k - 1 + 1) = k
        BY <2>1, MaxCopiesAssumption
      <4> QED
        BY <4>1, FS_Interval
    <3>2. IsFiniteSet({n}) /\ Cardinality({n}) = 1
      BY FS_Singleton
    <3>3. Cardinality({n} \X (1..k)) = 1 * k
      BY <3>1, <3>2, FS_Product
    <3> QED
      BY <2>1, <3>3
  <2>6. IsFiniteSet(A) /\ Cardinality(A) = remaining[m]
    BY <1>0, <1>2, <2>2, NothingOpen DEF Counted
  <2>7. /\ Cardinality(A \ ({n} \X (1..k))) = remaining[m] - k
        /\ Cardinality(A \ ({n} \X (1..k))) \in Nat
    <3>1. PICK R : R = {n} \X (1..k)
      OBVIOUS
    <3>2. IsFiniteSet(A \ R) /\ Cardinality(A \ R) = Cardinality(A) - Cardinality(A \cap R)
      BY <2>6, FS_Difference
    <3>3. A \cap R = R /\ Cardinality(R) = k
      BY <2>4, <2>5, <3>1
    <3>4. Cardinality(A \ R) = remaining[m] - k
      BY <2>6, <3>2, <3>3
    <3>5. Cardinality(A \ R) \in Nat
      BY <3>2, FS_CardinalityType
    <3> QED
      BY <3>1, <3>4, <3>5
  <2> QED
    BY <1>2, <2>1, <2>3, <2>7
<1>12. GTyped'
  <2>1. remaining' \in [Names -> Nat]
    BY <1>2, <1>11
  <2>2. ready' \in SUBSET Names
    BY <1>0, <1>2 DEF GTyped, Unblocked
  <2> QED
    BY <1>0, <1>2, <1>4, <2>1, <2>2 DEF GTyped
<1>13. Counted'
  <2>1. ASSUME NEW m \in Names
        PROVE  m \in ready' <=> m \notin ToSet(order') /\ remaining'[m] = 0
    <3>1. copies[m][n] \in Nat /\ remaining[m] \in Nat /\ remaining'[m] \in Nat
      BY <1>0, <1>6, <1>11 DEF GTyped
    <3>2. copies[m][n] > 0 <=> n \in deps(m)
      BY <1>6 DEF deps
    <3>3. m \in ToSet(order) => deps(m) \subseteq ToSet(order)
      <4> SUFFICES ASSUME m \in ToSet(order) PROVE deps(m) \subseteq ToSet(order)
        OBVIOUS
      <4>1. PICK j \in 1..L : order[j] = m
        BY <1>4 DEF ToSet
      <4>2. deps(m) \subseteq Before(j)
        BY <1>0, <1>3, <4>1 DEF Sorted
      <4>3. Before(j) \subseteq ToSet(order)
        <5>1. \A i \in 1..(j - 1) : i \in 1..L
          BY <1>3
        <5> QED
          BY <1>4, <5>1 DEF Before, ToSet
      <4> QED
        BY <4>2, <4>3
    <3>4. n \notin deps(n)
      BY <1>0, <1>6 DEF deps, GTyped
    <3>5. m \in ready' <=> (m \in ready /\ m # n) \/ (n \in deps(m) /\ remaining[m] = copies[m][n])
      BY <1>2, <3>2 DEF Unblocked, deps
    <3>6. remaining'[m] = 0 <=> remaining[m] = copies[m][n]
      BY <1>11, <3>1
    <3>7. m \in ready => n \notin deps(m) /\ remaining[m] = 0 /\ m \notin ToSet(order)
      BY <1>6
    <3>8. n \notin deps(m) => copies[m][n] = 0
      BY <3>1, <3>2
    <3> QED
      BY <1>5, <1>6, <3>3, <3>4, <3>5, <3>6, <3>7, <3>8
  <2>2. ready' = {m \in Names \ ToSet(order') : remaining'[m] = 0}
    BY <1>12, <2>1 DEF GTyped
  <2> QED
    BY <1>2, <1>11, <2>2 DEF Counted
<1>14. Drains' /\ CycleIsReal'
  BY <1>0, <1>2 DEF Drains, CycleIsReal
<1>15. Searching'
  <2>1. stack = <<>> /\ Len(stack) = 0
    BY <1>0, <1>2 DEF Searching
  <2> QED
    BY <1>0, <1>2, <2>1 DEF Searching
<1> QED
  BY <1>10, <1>12, <1>13, <1>14, <1>15 DEF GInv

\* Nothing is ready: everything was emitted, or there is something that cannot be.
LEMMA DrainedKeeps == GInv /\ Drained => GInv'
<1> SUFFICES ASSUME GInv, Drained PROVE GInv'
  OBVIOUS
<1>0. GTyped /\ Sorted /\ Counted /\ Searching /\ CycleIsReal
  BY DEF GInv
<1>1. /\ phase = "drain" /\ ready = {}
      /\ phase' = IF Len(order) = N THEN "ok" ELSE "search"
      /\ UNCHANGED <<copies, remaining, ready, order, color, stack, cycle>>
  BY DEF Drained, kahn, search
<1>2. PICK L \in Nat, s \in Seq(Names) : L = Len(order) /\ s = order
  BY <1>0 DEF GTyped
<1>3. L = N <=> ToSet(order) = Names
  <2>1. s \in [1..L -> Names] /\ IsInjective(s)
    BY <1>0, <1>2 DEF Sorted
  <2>2. s \in Injection(1..L, Names)
    BY <2>1 DEF Injection
  <2>3. IsFiniteSet(Names) /\ Cardinality(Names) = N /\ Cardinality(1..L) = L
    <3>1. L \in Int /\ 1 \in Int /\ (IF 1 > L THEN 0 ELSE L - 1 + 1) = L
      BY <1>2
    <3>2. Cardinality(1..L) = L
      BY <3>1, FS_Interval
    <3> QED
      BY <3>2, NamesAreFinite
  <2>4. L = N <=> s \in Surjection(1..L, Names)
    BY <2>2, <2>3, FS_Injection
  <2>5. s \in Surjection(1..L, Names) <=> ToSet(order) = Names
    BY <1>2, <2>1 DEF Surjection, ToSet
  <2> QED
    BY <2>4, <2>5
<1>4. GTyped'
  BY <1>0, <1>1 DEF GTyped
<1>5. Sorted' /\ Counted'
  BY <1>0, <1>1 DEF Sorted, Counted, Before, Open, deps
<1>6. Drains'
  BY <1>1, <1>2, <1>3 DEF Drains
<1>7. Searching'
  <2>1. stack = <<>> /\ Len(stack) = 0
    BY <1>0, <1>1 DEF Searching
  <2> QED
    BY <1>0, <1>1, <2>1 DEF Searching
<1>8. CycleIsReal'
  BY <1>0, <1>1 DEF CycleIsReal
<1> QED
  BY <1>4, <1>5, <1>6, <1>7, <1>8 DEF GInv

\* An action that could not be emitted waits for another one.
LEMMA StallHasDependency ==
    ASSUME GTyped, Counted, Drains, phase = "search", NEW n \in Names
    PROVE  /\ n \notin ToSet(order) => remaining[n] > 0
           /\ remaining[n] > 0 => \E d \in deps(n) : remaining[d] > 0
<1>1. \A m \in Names : m \notin ToSet(order) => remaining[m] > 0
  <2>1. \A m \in Names : m \notin ToSet(order) => remaining[m] # 0
    BY DEF Counted, Drains
  <2> QED
    BY <2>1 DEF GTyped
<1>2. remaining[n] = 0 <=> deps(n) \subseteq ToSet(order)
  BY NothingOpen DEF Counted
<1>3. deps(n) \subseteq Names /\ remaining[n] \in Nat
  BY DEF deps, GTyped
<1>4. remaining[n] > 0 => \E d \in deps(n) : remaining[d] > 0
  BY <1>1, <1>2, <1>3
<1> QED
  BY <1>1, <1>4

\* The search starts at something that could not be emitted: there is one.
LEMMA NextRootKeeps == GInv /\ NextRoot => GInv'
<1> SUFFICES ASSUME GInv, NextRoot PROVE GInv'
  OBVIOUS
<1>0. GTyped /\ Sorted /\ Counted /\ Drains /\ Searching /\ CycleIsReal
  BY DEF GInv
<1>1. phase = "search" /\ stack = <<>> /\ UNCHANGED <<copies, remaining, ready, order, cycle>>
  BY DEF NextRoot, kahn
<1>2. Len(stack) = 0 /\ \A n \in Names : color[n] = "white"
  <2>1. Len(stack) = 0
    BY <1>1
  <2>2. \A n \in Names : color[n] # "gray"
    BY <1>0, <2>1 DEF Searching
  <2> QED
    BY <1>0, <2>1, <2>2 DEF GTyped
<1>3. Roots # {}
  <2>1. ToSet(order) \subseteq Names
    BY <1>0 DEF GTyped, ToSet
  <2>2. PICK n \in Names : n \notin ToSet(order)
    BY <1>0, <1>1, <2>1 DEF Drains
  <2>3. remaining[n] > 0
    BY <1>0, <1>1, <2>2, StallHasDependency
  <2> QED
    BY <1>2, <2>3 DEF Roots
<1>4. PICK n \in Roots : n = Min(Roots)
  <2>1. Roots \in SUBSET Names
    BY DEF Roots
  <2>2. Roots \in SUBSET Nat /\ IsFiniteSet(Roots)
    BY <2>1, NamesAreFinite
  <2> QED
    BY <1>3, <2>2, LeastIsThere
<1>5. /\ color' = [color EXCEPT ![n] = "gray"] /\ phase' = phase
      /\ stack' = Append(stack, [node |-> n, ahead |-> deps(n)])
  BY <1>3, <1>4 DEF NextRoot, Visit
<1>6. n \in Names /\ remaining[n] > 0 /\ deps(n) \subseteq Names
  BY <1>4 DEF Roots, deps
<1>7. /\ Len(stack') = 1 /\ stack'[1] = [node |-> n, ahead |-> deps(n)] /\ stack' # <<>>
      /\ stack' \in Seq(Frame)
  <2>1. [node |-> n, ahead |-> deps(n)] \in Frame
    BY <1>6 DEF Frame
  <2> QED
    BY <1>1, <1>5, <2>1
<1>8. GTyped'
  BY <1>0, <1>1, <1>5, <1>7 DEF GTyped
<1>9. Sorted' /\ Counted'
  BY <1>0, <1>1, <1>5 DEF Sorted, Counted, Before, Open, deps
<1>10. Drains' /\ CycleIsReal'
  <2>1. \A m \in Names : color'[m] # "black"
    BY <1>8 DEF GTyped
  <2> QED
    BY <1>0, <1>1, <1>5, <2>1 DEF Drains, CycleIsReal
<1>11. Searching'
  <2>1. \A m \in Names : color'[m] = "gray" <=> m = n
    BY <1>0, <1>2, <1>5, <1>6 DEF GTyped
  <2>2. \A i \in 1..Len(stack') : i = 1
    BY <1>7
  <2>3. Top' = [node |-> n, ahead |-> deps(n)] /\ deps(n)' = deps(n)
    BY <1>1, <1>7 DEF Top, Last, deps
  <2>4. \A m \in Names : color'[m] = "gray" <=> \E i \in 1..Len(stack') : stack'[i].node = m
    BY <1>7, <2>1, <2>2
  <2>5. (stack' # <<>>) => /\ Top'.ahead \subseteq deps(Top.node)'
                           /\ \A d \in deps(Top.node)' : remaining'[d] > 0 => d \in Top'.ahead
    BY <2>3 DEF deps
  <2>6. \A i \in 1..Len(stack') : remaining'[stack'[i].node] > 0
    BY <1>1, <1>6, <1>7, <2>2
  <2> QED
    BY <1>1, <1>5, <2>2, <2>4, <2>5, <2>6 DEF Searching
<1> QED
  BY <1>8, <1>9, <1>10, <1>11 DEF GInv

\* What the top of the stack looks at next.
LEMMA TopWaits ==
    ASSUME GTyped, Counted, Drains, Searching, phase = "search", stack # <<>>
    PROVE  /\ Len(stack) \in Nat \ {0} /\ Top \in Frame /\ Top = stack[Len(stack)]
           /\ Top.ahead # {} /\ Min(Top.ahead) \in Top.ahead
<1>1. Len(stack) \in Nat \ {0} /\ stack[Len(stack)] \in Frame
  BY DEF GTyped
<1>2. Top = stack[Len(stack)]
  BY DEF Top, Last
<1>3. Top.node \in Names /\ Top.ahead \in SUBSET Names
  BY <1>1, <1>2 DEF Frame
<1>4. remaining[Top.node] > 0
  BY <1>1, <1>2 DEF Searching
<1>5. \E d \in deps(Top.node) : remaining[d] > 0
  <2>1. PICK n \in Names : n = Top.node
    BY <1>3
  <2> QED
    BY <1>4, <2>1, StallHasDependency
<1>6. Top.ahead # {}
  BY <1>5 DEF Searching
<1>7. Min(Top.ahead) \in Top.ahead
  <2>1. PICK S \in SUBSET Names : S = Top.ahead
    BY <1>3
  <2>2. S \in SUBSET Nat /\ IsFiniteSet(S) /\ S # {}
    BY <1>6, <2>1, NamesAreFinite
  <2> QED
    BY <2>1, <2>2, LeastIsThere
<1> QED
  BY <1>1, <1>2, <1>6, <1>7

\* The next dependency closes a cycle, is visited, or was emitted.
LEMMA LookKeeps == GInv /\ Look => GInv'
<1> SUFFICES ASSUME GInv, Look PROVE GInv'
  OBVIOUS
<1>0. GTyped /\ Sorted /\ Counted /\ Drains /\ Searching /\ CycleIsReal
  BY DEF GInv
<1>1. phase = "search" /\ stack # <<>> /\ UNCHANGED <<copies, remaining, ready, order>>
  BY DEF Look, kahn
<1>2. PICK L \in Nat \ {0} : L = Len(stack)
  BY <1>0, <1>1, TopWaits
<1>3. PICK top \in Frame : top = Top /\ top = stack[L]
  BY <1>0, <1>1, <1>2, TopWaits
<1>4. PICK d \in top.ahead : d = Min(top.ahead) /\ top.ahead # {}
  BY <1>0, <1>1, <1>3, TopWaits
<1> DEFINE rest == [stack EXCEPT ![Len(stack)].ahead = @ \ {d}]
<1>5. /\ d \in Names /\ d \in deps(top.node) /\ d # top.node /\ top.node \in Names
      /\ top.ahead \subseteq deps(top.node)
      /\ \A x \in deps(top.node) : remaining[x] > 0 => x \in top.ahead
  <2>1. /\ top.ahead \subseteq deps(top.node)
        /\ \A x \in deps(top.node) : remaining[x] > 0 => x \in top.ahead
    BY <1>0, <1>1, <1>3 DEF Searching
  <2>2. \A n \in Names : n \notin deps(n) /\ deps(n) \subseteq Names
    BY <1>0 DEF GTyped, deps
  <2> QED
    BY <1>3, <1>4, <2>1, <2>2 DEF Frame
<1>6. /\ rest \in Seq(Frame) /\ Len(rest) = L
      /\ \A i \in 1..L : rest[i].node = stack[i].node
      /\ rest[L].node = top.node /\ rest[L].ahead = top.ahead \ {d}
  <2>1. PICK s \in Seq(Frame) : s = stack /\ Len(s) = L /\ s[L] = top
    BY <1>0, <1>2, <1>3 DEF GTyped
  <2> DEFINE less == [top EXCEPT !.ahead = top.ahead \ {d}]
  <2>2. rest = [s EXCEPT ![L] = less]
    BY <1>2, <2>1
  <2>3. less \in Frame /\ less.node = top.node /\ less.ahead = top.ahead \ {d}
    <3>1. top.ahead \ {d} \in SUBSET Names
      BY <1>3 DEF Frame
    <3> QED
      BY <1>3, <3>1 DEF Frame
  <2>5. L \in 1..L
    BY <1>2
  <2>6. /\ rest \in Seq(Frame) /\ Len(rest) = L
        /\ rest[L] = less
        /\ \A i \in 1..L : i # L => rest[i] = s[i]
    <3> HIDE DEF less, rest
    <3>1. s \in [1..L -> Frame]
      BY <2>1
    <3>2. rest \in [1..L -> Frame] /\ rest[L] = less /\ \A i \in 1..L : i # L => rest[i] = s[i]
      BY <2>2, <2>3, <2>5, <3>1
    <3>3. rest \in Seq(Frame) /\ Len(rest) = L
      BY <1>2, <3>2
    <3> QED
      BY <3>2, <3>3
  <2> QED
    BY <2>1, <2>3, <2>6
<1> HIDE DEF rest
<1>7. (Sorted' /\ Counted') \/ phase' \notin {"search", "cycle"}
  BY <1>0, <1>1 DEF Sorted, Counted, Before, Open, deps
<1>8. CASE ~Emitted(d) /\ color[d] = "gray"
  <2>1. cycle' = CycleAt(d) /\ phase' = "cycle" /\ UNCHANGED <<color, stack>>
    BY <1>3, <1>4, <1>8 DEF Look
  <2>2. GTyped' /\ Drains'
    BY <1>0, <1>1, <2>1 DEF GTyped, Drains
  <2>3. Searching'
    BY <1>0, <1>1, <2>1 DEF Searching, Top, deps
  <2>4. PICK f \in 1..L : f = (CHOOSE i \in DOMAIN stack : stack[i].node = d) /\ stack[f].node = d
    <3>1. DOMAIN stack = 1..L
      BY <1>0, <1>2 DEF GTyped
    <3>2. \E i \in 1..L : stack[i].node = d
      BY <1>0, <1>2, <1>5, <1>8 DEF Searching
    <3> QED
      BY <3>1, <3>2
  <2>5. PICK m \in Nat : m = L - f + 1 /\ m >= 2 /\ f + m = L + 1
    <3>1. f # L
      BY <1>3, <1>5, <2>4
    <3>2. L - f + 1 \in Nat /\ L - f + 1 >= 2 /\ f + (L - f + 1) = L + 1
      BY <1>2, <2>4, <3>1
    <3> QED
      BY <3>2
  <2> DEFINE c == [i \in 1..m |-> stack[f + i - 1].node]
  <2>6. \A i \in 1..m : f + i - 1 \in 1..L
    BY <1>2, <2>4, <2>5
  <2>7. c \in Seq(Names) /\ Len(c) = m /\ \A i \in 1..m : c[i] = stack[f + i - 1].node
    <3>1. \A i \in 1..L : stack[i].node \in Names
      <4>1. \A i \in 1..L : stack[i] \in Frame
        BY <1>0, <1>2 DEF GTyped
      <4> QED
        BY <4>1 DEF Frame
    <3> QED
      BY <2>5, <2>6, <3>1
  <2>8. PICK q : q = cycle' /\ q = Append(c, d)
    <3>1. CycleAt(d) = Append([i \in 1..(Len(stack) - f + 1) |-> stack[f + i - 1].node], d)
      BY <2>4 DEF CycleAt
    <3>2. Len(stack) - f + 1 = m
      BY <1>2, <2>5
    <3> QED
      BY <2>1, <3>1, <3>2
  <2> HIDE DEF c
  <2>9. /\ q \in Seq(Names) /\ Len(q) = m + 1 /\ q[m + 1] = d
        /\ \A i \in 1..m : q[i] = stack[f + i - 1].node
    BY <1>5, <2>7, <2>8
  <2>10. q[1] = d /\ Last(q) = d
    <3>1. 1 \in 1..m /\ f + 1 - 1 = f
      BY <2>4, <2>5
    <3> QED
      BY <2>4, <2>9, <3>1 DEF Last
  <2>11. IsInjective(Tail(q))
    <3>1. /\ DOMAIN Tail(q) = 1..m
          /\ \A i \in 1..m : Tail(q)[i] = q[i + 1]
      BY <2>9
    <3>2. ASSUME NEW i \in 1..m
          PROVE  \/ i < m /\ f + i \in 1..L /\ Tail(q)[i] = stack[f + i].node
                 \/ i = m /\ Tail(q)[i] = stack[f].node
      <4>1. CASE i = m
        BY <2>4, <2>9, <3>1, <4>1
      <4>2. CASE i # m
        <5>1. i < m /\ i + 1 \in 1..m /\ f + (i + 1) - 1 = f + i /\ f + i \in 1..L
          BY <2>4, <2>5, <4>2
        <5>2. q[i + 1] = stack[f + (i + 1) - 1].node
          BY <2>9, <5>1
        <5> QED
          BY <3>1, <5>1, <5>2
      <4> QED
        BY <4>1, <4>2
    <3>3. \A i, j \in 1..L : stack[i].node = stack[j].node => i = j
      BY <1>0, <1>2 DEF Searching
    <3>a. f \in Nat /\ m \in Nat /\ f \in 1..L
      BY <1>2, <2>4, <2>5
    <3>b. \A i \in 1..m : i < m => f + i \in 1..L /\ f + i # f /\ Tail(q)[i] = stack[f + i].node
      <4> SUFFICES ASSUME NEW i \in 1..m, i < m
                   PROVE  f + i \in 1..L /\ f + i # f /\ Tail(q)[i] = stack[f + i].node
        OBVIOUS
      <4>1. f + i # f /\ i # m
        BY <3>a
      <4>2. f + i \in 1..L /\ Tail(q)[i] = stack[f + i].node
        BY <3>2, <4>1
      <4> QED
        BY <4>1, <4>2
    <3>c. Tail(q)[m] = stack[f].node
      <4>1. m \in 1..m /\ ~(m < m)
        BY <2>5
      <4> QED
        BY <3>2, <4>1
    <3>4. ASSUME NEW i \in 1..m, NEW j \in 1..m, Tail(q)[i] = Tail(q)[j]
          PROVE  i = j
      <4>1. CASE i < m /\ j < m
        <5>1. f + i = f + j
          BY <3>3, <3>4, <3>b, <4>1
        <5> QED
          BY <3>a, <5>1
      <4>2. CASE i = m /\ j < m
        BY <3>3, <3>4, <3>a, <3>b, <3>c, <4>2
      <4>3. CASE i < m /\ j = m
        BY <3>3, <3>4, <3>a, <3>b, <3>c, <4>3
      <4> QED
        BY <3>a, <4>1, <4>2, <4>3
    <3> QED
      BY <3>1, <3>4 DEF IsInjective
  <2>12. ASSUME NEW i \in 1..m
         PROVE  q[i + 1] \in deps(q[i])
    <3>1. q[i] = stack[f + i - 1].node
      BY <2>9
    <3>2. CASE i = m
      <4>1. f + i - 1 = L
        BY <2>4, <2>5, <3>2
      <4> QED
        BY <1>3, <1>5, <2>9, <3>1, <3>2, <4>1
    <3>3. CASE i # m
      <4>1. /\ i + 1 \in 1..m /\ f + (i + 1) - 1 = (f + i - 1) + 1
            /\ f + i - 1 \in 1..L /\ f + (i + 1) - 1 \in 1..L
        BY <2>4, <2>5, <3>3
      <4>2. q[i + 1] = stack[f + (i + 1) - 1].node
        BY <2>9, <4>1
      <4>3. \A k, l \in 1..L : l = k + 1 => stack[l].node \in deps(stack[k].node)
        BY <1>0, <1>2 DEF Searching
      <4>4. stack[f + (i + 1) - 1].node \in deps(stack[f + i - 1].node)
        BY <4>1, <4>3
      <4> QED
        BY <3>1, <4>2, <4>4
    <3> QED
      BY <3>2, <3>3
  <2>13. CycleIsReal'
    <3>1. \A n \in Names : color'[n] # "black"
      BY <2>2 DEF GTyped
    <3>2. \A x : deps(x)' = deps(x)
      BY <1>1 DEF deps
    <3>3. Len(q) >= 3 /\ \A i \in 1..(Len(q) - 1) : q[i + 1] \in deps(q[i])
      <4>1. Len(q) - 1 = m
        BY <2>5, <2>9
      <4> QED
        BY <2>5, <2>9, <2>12, <4>1
    <3> QED
      BY <2>1, <2>8, <2>10, <2>11, <3>1, <3>2, <3>3 DEF CycleIsReal
  <2> QED
    BY <1>7, <2>1, <2>2, <2>3, <2>13 DEF GInv
<1>9. CASE ~Emitted(d) /\ color[d] = "white"
  <2>1. /\ color' = [color EXCEPT ![d] = "gray"]
        /\ stack' = Append(rest, [node |-> d, ahead |-> deps(d)])
        /\ UNCHANGED <<phase, cycle>>
    BY <1>3, <1>4, <1>9 DEF Look, rest
  <2>2. remaining[d] > 0 /\ deps(d) \subseteq Names
    BY <1>0, <1>5, <1>9 DEF Emitted, GTyped, deps
  <2>3. /\ stack' \in Seq(Frame) /\ Len(stack') = L + 1 /\ stack' # <<>>
        /\ stack'[L + 1] = [node |-> d, ahead |-> deps(d)]
        /\ \A i \in 1..L : stack'[i].node = stack[i].node
    <3>1. [node |-> d, ahead |-> deps(d)] \in Frame
      BY <1>5, <2>2 DEF Frame
    <3> QED
      BY <1>6, <2>1, <3>1
  <2>4. GTyped'
    BY <1>0, <1>1, <2>1, <2>3 DEF GTyped
  <2>5. Drains' /\ CycleIsReal'
    <3>1. \A m \in Names : color'[m] # "black"
      BY <2>4 DEF GTyped
    <3> QED
      BY <1>0, <1>1, <2>1, <3>1 DEF Drains, CycleIsReal
  <2>6. /\ \A i \in 1..(L + 1) : i = L + 1 \/ i \in 1..L
        /\ L + 1 \in 1..(L + 1) /\ L \in 1..L /\ \A i \in 1..L : i \in 1..(L + 1) /\ i # L + 1
    BY <1>2
  <2>7. \A m \in Names : color'[m] = "gray" <=> \E i \in 1..(L + 1) : stack'[i].node = m
    <3>1. \A m \in Names : color'[m] = "gray" <=> m = d \/ color[m] = "gray"
      BY <1>0, <1>5, <2>1 DEF GTyped
    <3>2. \A m \in Names : color[m] = "gray" <=> \E i \in 1..L : stack[i].node = m
      BY <1>0, <1>2 DEF Searching
    <3>3. stack'[L + 1].node = d
      BY <2>3
    <3> QED
      BY <2>3, <2>6, <3>1, <3>2, <3>3
  <2>8. \A i, j \in 1..(L + 1) : stack'[i].node = stack'[j].node => i = j
    <3>1. \A i \in 1..L : stack[i].node # d
      BY <1>0, <1>2, <1>5, <1>9 DEF Searching
    <3>2. \A i, j \in 1..L : stack[i].node = stack[j].node => i = j
      BY <1>0, <1>2 DEF Searching
    <3>3. stack'[L + 1].node = d
      BY <2>3
    <3> QED
      BY <2>3, <2>6, <3>1, <3>2, <3>3
  <2>9. \A i \in 1..(L + 1) : remaining'[stack'[i].node] > 0
    <3>1. \A i \in 1..L : remaining[stack[i].node] > 0
      BY <1>0, <1>2 DEF Searching
    <3> QED
      BY <1>1, <2>2, <2>3, <2>6, <3>1
  <2>10. \A i, j \in 1..(L + 1) : j = i + 1 => stack'[j].node \in deps(stack'[i].node)
    <3> SUFFICES ASSUME NEW i \in 1..(L + 1), NEW j \in 1..(L + 1), j = i + 1
                 PROVE  stack'[j].node \in deps(stack'[i].node)
      OBVIOUS
    <3>1. CASE i = L
      BY <1>3, <1>5, <2>3, <2>6, <3>1
    <3>2. CASE i # L
      <4>1. i \in 1..L /\ j \in 1..L
        BY <1>2, <3>2
      <4>2. stack[j].node \in deps(stack[i].node)
        BY <1>0, <1>2, <4>1 DEF Searching
      <4> QED
        BY <2>3, <4>1, <4>2
    <3> QED
      BY <3>1, <3>2
  <2>11. \A x : deps(x)' = deps(x)
    BY <1>1 DEF deps
  <2>12. Top' = [node |-> d, ahead |-> deps(d)]
    BY <2>3 DEF Top, Last
  <2>13. Searching'
    BY <1>1, <2>1, <2>3, <2>7, <2>8, <2>9, <2>10, <2>11, <2>12 DEF Searching
  <2> QED
    BY <1>1, <1>7, <2>1, <2>4, <2>5, <2>13 DEF GInv
<1>10. CASE Emitted(d)
  <2>1. stack' = rest /\ UNCHANGED <<phase, color, cycle>>
    BY <1>3, <1>4, <1>10 DEF Look, rest
  <2>2. GTyped'
    BY <1>0, <1>1, <1>6, <2>1 DEF GTyped
  <2>3. Drains' /\ CycleIsReal'
    BY <1>0, <1>1, <2>1 DEF Drains, CycleIsReal
  <2>4. \A x : deps(x)' = deps(x)
    BY <1>1 DEF deps
  <2>5. Top'.node = top.node /\ Top'.ahead = top.ahead \ {d}
    BY <1>6, <2>1 DEF Top, Last
  <2>6. \A i \in 1..L : stack'[i].node = stack[i].node
    BY <1>6, <2>1
  <2>7. Len(stack') = Len(stack)
    BY <1>2, <1>6, <2>1
  <2>8. /\ Top'.ahead \subseteq deps(Top'.node)
        /\ \A x \in deps(Top'.node) : remaining[x] > 0 => x \in Top'.ahead
    <3>1. ~(remaining[d] > 0)
      BY <1>0, <1>5, <1>10 DEF Emitted, GTyped
    <3> QED
      BY <1>5, <2>5, <3>1
  <2>9. Searching'
    BY <1>0, <1>1, <1>2, <2>1, <2>4, <2>6, <2>7, <2>8 DEF Searching
  <2> QED
    BY <1>1, <1>7, <2>1, <2>2, <2>3, <2>9 DEF GInv
<1> QED
  <2>1. color[d] \in {"white", "gray"}
    BY <1>0, <1>5 DEF GTyped
  <2> QED
    BY <1>8, <1>9, <1>10, <2>1

LEMMA NextGInv == GInv /\ [GNext]_gvars => GInv'
<1> SUFFICES ASSUME GInv, [GNext]_gvars PROVE GInv'
  OBVIOUS
<1>1. CASE UNCHANGED gvars
  <2>1. UNCHANGED <<copies, phase, remaining, ready, order, color, stack, cycle>>
    BY <1>1 DEF gvars, kahn, search
  <2>2. GTyped' /\ Drains'
    BY <2>1 DEF GInv, GTyped, Drains
  <2>4. Sorted'
    BY <2>1 DEF GInv, Sorted, Before, deps
  <2>5. Counted'
    BY <2>1 DEF GInv, Counted, Open
  <2>3. Searching' /\ CycleIsReal'
    BY <2>1 DEF GInv, Searching, CycleIsReal, Top, deps
  <2> QED
    BY <2>2, <2>3, <2>4, <2>5 DEF GInv
<1> QED
  BY <1>1, CountKeeps, EmitKeeps, DrainedKeeps, NextRootKeeps, LookKeeps DEF GNext

LEMMA Inductive == GSpec => []GInv
BY NextGInv, InitGInv, PTL DEF GSpec

-----------------------------------------------------------------------------
LEMMA OrdersByDependence == GInv => OrderIsTopological
<1> SUFFICES ASSUME GInv PROVE OrderIsTopological
  OBVIOUS
<1>1. DOMAIN order = 1..Len(order)
  BY DEF GInv, GTyped
<1> QED
  BY <1>1 DEF GInv, Sorted, Before, OrderIsTopological, Topological

\* What has been emitted stands in an order that runs each action once, after
\* all it depends on (TopologicalOrder).
THEOREM OrderRespectsDependencies == GSpec => []OrderIsTopological
BY OrdersByDependence, Inductive, PTL

\* In a topological order of all actions some action of every set comes first.
LEMMA OrderedIsAcyclic ==
    ASSUME GTyped, Sorted, ToSet(order) = Names
    PROVE  Acyclic
<1> SUFFICES ASSUME NEW S \in SUBSET Names, S # {}
             PROVE  \E n \in S : deps(n) \cap S = {}
  BY DEF Acyclic
<1>1. DOMAIN order = 1..Len(order) /\ Len(order) \in Nat
  BY DEF GTyped
<1> DEFINE I == {i \in 1..Len(order) : order[i] \in S}
<1>2. I # {}
  BY <1>1 DEF ToSet
<1>3. I \in SUBSET Nat /\ IsFiniteSet(I)
  <2>1. IsFiniteSet(1..Len(order))
    BY <1>1, FS_Interval
  <2> QED
    BY <2>1, FS_Subset
<1>4. PICK j \in I : \A i \in I : j <= i
  <2> HIDE DEF I
  <2> QED
    BY <1>2, <1>3, LeastIsThere
<1>5. ASSUME NEW d \in deps(order[j]), d \in S
      PROVE  FALSE
  <2>1. PICK i \in 1..(j - 1) : order[i] = d
    BY <1>5 DEF Sorted, Before
  <2>2. i \in I /\ i < j
    BY <1>1, <1>5, <2>1
  <2> QED
    BY <1>1, <1>4, <2>2
<1> QED
  BY <1>4, <1>5

LEMMA OrdersIfAcyclic == GInv => OrderIffAcyclic
<1> SUFFICES ASSUME GInv PROVE OrderIffAcyclic
  OBVIOUS
<1>0. GTyped /\ Sorted /\ Counted /\ Drains
  BY DEF GInv
<1>1. CASE phase = "ok"
  BY <1>0, <1>1, OrderedIsAcyclic DEF Drains, OrderIffAcyclic
<1>2. CASE phase \in {"search", "cycle"}
  <2>1. PICK S \in SUBSET Names : S = Names \ ToSet(order)
    OBVIOUS
  <2>2. S # {}
    <3>1. ToSet(order) \subseteq Names
      BY <1>0 DEF GTyped, ToSet
    <3> QED
      BY <1>0, <1>2, <2>1, <3>1 DEF Drains
  <2>3. ASSUME NEW n \in S
        PROVE  deps(n) \cap S # {}
    <3>1. remaining[n] = Cardinality(Open(n)) /\ remaining[n] # 0
      BY <1>0, <1>2, <2>1, <2>3 DEF Counted, Drains
    <3>2. ~(deps(n) \subseteq ToSet(order))
      BY <1>0, <3>1, NothingOpen
    <3>3. deps(n) \subseteq Names
      BY DEF deps
    <3> QED
      BY <2>1, <3>2, <3>3
  <2>4. ~Acyclic
    BY <2>2, <2>3 DEF Acyclic
  <2> QED
    BY <1>2, <2>4 DEF OrderIffAcyclic
<1>3. CASE phase \in {"count", "drain"}
  BY <1>3 DEF OrderIffAcyclic
<1> QED
  BY <1>0, <1>1, <1>2, <1>3 DEF GTyped

\* There is an order exactly when no set of actions waits for itself.
THEOREM OrderExactlyIfAcyclic == GSpec => []OrderIffAcyclic
BY OrdersIfAcyclic, Inductive, PTL

LEMMA OrdersByName == GInv => OrderIsCanonical
<1> SUFFICES ASSUME GInv, phase = "ok", NEW t \in Orderings, LexLess(t, order), Topological(t)
             PROVE  FALSE
  BY DEF OrderIsCanonical
<1>1. t \in [1..N -> Names] /\ Len(order) = N /\ DOMAIN t = 1..N
  BY NamesAreFinite DEF Orderings, SetToSeqs, GInv, Drains
<1>2. PICK i \in 1..N : t[i] < order[i] /\ \A j \in 1..(i - 1) : t[j] = order[j]
  BY <1>1 DEF LexLess
<1>3. t[i] \notin Before(i) /\ deps(t[i]) \subseteq Before(i)
  <2>1. \A j \in 1..(i - 1) : j \in 1..N /\ j # i
    BY <1>2, NAssumption
  <2>2. IsInjective(t) /\ \A d \in deps(t[i]) : \E j \in 1..(i - 1) : t[j] = d
    BY <1>1 DEF Topological
  <2> QED
    BY <1>1, <1>2, <2>1, <2>2 DEF Before, IsInjective
<1>4. order[i] <= t[i]
  BY <1>1, <1>3 DEF GInv, Sorted
<1>5. order[i] \in Nat /\ t[i] \in Nat
  <2>1. order[i] \in Names /\ t[i] \in Names
    <3>1. order \in Seq(Names) /\ Len(order) = N
      BY <1>1 DEF GInv, GTyped
    <3>2. order[i] \in Names
      BY <1>2, <3>1
    <3> QED
      BY <1>1, <1>2, <3>2
  <2> QED
    BY <2>1, NAssumption DEF Names
<1> QED
  BY <1>2, <1>4, <1>5

\* The order is the first of all topological orders by name, so the same
\* manifest always builds in the same sequence.
THEOREM OrderIsDetermined == GSpec => []OrderIsCanonical
BY OrdersByName, Inductive, PTL

LEMMA FindsCycle == GInv => CycleIsReal
BY DEF GInv

\* When no order exists findCycle names a real cycle, simple and closed; it never
\* gives up, nor leaves an action it has entered.
THEOREM CycleIsFound == GSpec => []CycleIsReal
BY FindsCycle, Inductive, PTL

=============================================================================
