--------------------------- MODULE CollectorProofs ---------------------------
(***************************************************************************)
(* Theorems about the garbage collector, for any number of keys, digests   *)
(* and outputs and any options, from any state of the directory.           *)
(***************************************************************************)
EXTENDS Collector, FiniteSetTheorems, TLAPS

Scanning == {"idle", "entries", "blobs"}
Removing == {"sweep", "evict", "done"}

GTyped ==
    /\ DOMAIN cas \subseteq Names /\ cas \in [DOMAIN cas -> Blob]
    /\ DOMAIN ac \subseteq Keys /\ ac \in [DOMAIN ac -> Entry]
    /\ clock \in Times /\ now \in Times /\ opts \in CollectorOptions
    /\ gpc \in Scanning \union Removing
    /\ todo \subseteq Names \union Keys
    /\ DOMAIN entries \subseteq Keys /\ entries \in [DOMAIN entries -> Entry]
    /\ DOMAIN blobs \subseteq Names /\ blobs \in [DOMAIN blobs -> Times]
    /\ refs \in [Names -> Nat]
    /\ queue \in Seq(Keys) /\ drop \in Seq(Digests)
    /\ after \in Nat

\* The entries read are those on the disk, less what has been evicted.
EntriesRead ==
    /\ \A k \in DOMAIN entries \cap DOMAIN ac : entries[k] = ac[k] /\ ac[k].readable
    /\ gpc \in Scanning \union {"sweep"} => DOMAIN entries \subseteq DOMAIN ac
    /\ gpc = "idle" => DOMAIN entries = {}
    /\ gpc = "entries" => todo \subseteq Keys
    /\ gpc # "idle" => \A k \in DOMAIN ac :
          ac[k].readable => k \in DOMAIN entries \/ (gpc = "entries" /\ k \in todo)

\* The blobs seen are those on the disk, less what has been removed; a
\* temporary file is taken for removed.
BlobsSeen ==
    /\ DOMAIN blobs \subseteq DOMAIN cas
    /\ \A d \in DOMAIN blobs : blobs[d] = cas[d].at
    /\ gpc \in {"idle", "entries"} => DOMAIN blobs = {}
    /\ gpc = "blobs" => todo \subseteq Names
    /\ gpc \in Removing => after = Cardinality(DOMAIN blobs)
    /\ gpc \in Removing \union {"blobs"} /\ ~opts.DryRun =>
          \A d \in DOMAIN cas : \/ d \in DOMAIN blobs \/ d \in TmpNames
                                \/ gpc = "blobs" /\ d \in todo

\* The outputs still counted that are d: those of the entries kept, and those
\* not yet looked at of the entry c being evicted.
Naming(kept, c, d) ==
    {p \in (DOMAIN entries) \X (1..Outputs) :
        /\ p[1] \in kept \/ (p[1] = c /\ p[2] > Outputs - Len(drop))
        /\ entries[p[1]].out[p[2]] = d}

\* A reference count is the number of outputs still counted.
Counting(kept, c) ==
    /\ ~opts.DryRun \/ gpc = "sweep" => kept = DOMAIN entries \cap DOMAIN ac
    /\ Range(queue) \subseteq kept
    /\ drop # <<>> =>
          /\ c \in DOMAIN entries \ kept /\ Len(drop) <= Outputs
          /\ \A j \in 1..Len(drop) : drop[j] = entries[c].out[Outputs - Len(drop) + j]
    /\ \A d \in Names : refs[d] = Cardinality(Naming(kept, c, d))

Counted ==
    gpc \in Removing =>
        \E kept \in SUBSET DOMAIN entries : \E c \in Keys \union {0} : Counting(kept, c)

\* Nothing unnamed is passed over.
Reachable ==
    gpc \in Removing /\ ~opts.DryRun =>
        \A d \in DOMAIN cas \cap Digests :
            \/ Young(cas[d].at) \/ refs[d] > 0
            \/ gpc = "sweep" /\ d \in todo

\* The queue: what is left of the entries sorted, behind those passed over or
\* evicted.
Queued ==
    /\ gpc \in Scanning \union {"sweep"} => queue = <<>>
    /\ gpc # "evict" => drop = <<>>
    /\ gpc = "sweep" => todo \subseteq DOMAIN blobs /\ \A d \in todo : refs[d] = 0
    /\ \A i, j \in 1..Len(queue) : i < j => Before(queue[i], queue[j])
    /\ gpc = "evict" => opts.MaxBytes > 0 /\
          \A k \in DOMAIN entries \ Range(queue) :
             /\ \A l \in Range(queue) : entries[k].at <= entries[l].at
             /\ ~opts.DryRun /\ k \in DOMAIN ac => Young(ac[k].at)

GInv ==
    /\ GTyped /\ EntriesRead /\ BlobsSeen /\ Counted /\ Reachable /\ Queued
    /\ OldestGoesFirst /\ BudgetMet

-----------------------------------------------------------------------------
(* Induction over the subsets of a finite set, for what a definition that   *)
(* chooses the least element, or an order, takes for granted.              *)

\* What holds of a set when it holds of the set less any one element, holds of
\* every finite set.
LEMMA ByRemoval ==
    ASSUME NEW S, IsFiniteSet(S), NEW A,
           \A T \in SUBSET S : (\A x \in T : T \ {x} \in A) => T \in A
    PROVE  S \in A
<1> DEFINE B == {T \in SUBSET S : T \notin A}
<1>1. SUFFICES ASSUME S \notin A PROVE FALSE
  OBVIOUS
<1>2. S \in B /\ B \subseteq SUBSET S
  BY <1>1
<1>3. IsWellFoundedOn(StrictSubsetOrdering(S), SUBSET S)
  BY FS_StrictSubsetOrderingWellFounded, FS_FiniteSubsetsOfFinite
<1>4. \E T \in B : \A U \in B : ~(<<U, T>> \in StrictSubsetOrdering(S))
  BY <1>2, <1>3, WFMin
<1>5. PICK T \in B : \A U \in B : ~(<<U, T>> \in StrictSubsetOrdering(S))
  BY <1>4
<1>6. ASSUME NEW x \in T
      PROVE  T \ {x} \in A
  <2>1. <<T \ {x}, T>> \in StrictSubsetOrdering(S)
    BY <1>6 DEF StrictSubsetOrdering
  <2> QED
    BY <1>5, <2>1
<1> QED
  BY <1>5, <1>6

\* The least of some numbers is one of them.
LEMMA MinIsOne ==
    ASSUME NEW S \in SUBSET Nat, IsFiniteSet(S), S # {}
    PROVE  Min(S) \in S
<1> DEFINE A == {T \in SUBSET S : T # {} => \E x \in T : \A y \in T : x <= y}
<1>1. ASSUME NEW T \in SUBSET S, \A x \in T : T \ {x} \in A
      PROVE  T \in A
  <2> SUFFICES ASSUME T # {} PROVE \E x \in T : \A y \in T : x <= y
    OBVIOUS
  <2>1. PICK z \in T : TRUE
    OBVIOUS
  <2>2. CASE T \ {z} = {}
    BY <2>1, <2>2
  <2>3. CASE T \ {z} # {}
    <3>1. PICK x \in T \ {z} : \A y \in T \ {z} : x <= y
      BY <1>1, <2>1, <2>3
    <3>2. x \in Nat /\ z \in Nat
      OBVIOUS
    <3>3. CASE x <= z
      BY <3>1, <3>3
    <3>4. CASE ~(x <= z)
      <4>1. \A y \in T : z <= y
        BY <3>1, <3>2, <3>4
      <4> QED
        BY <4>1
    <3> QED
      BY <3>3, <3>4
  <2> QED
    BY <2>2, <2>3
<1>2. S \in A
  <2> HIDE DEF A
  <2> QED
    BY <1>1, ByRemoval
<1>3. \E x \in S : \A y \in S : x <= y
  BY <1>2
<1> QED
  BY <1>3 DEF Min

\* Before puts any two entries one way round.
LEMMA BeforeOrders ==
    ASSUME entries \in [DOMAIN entries -> Entry], NEW S \in SUBSET Nat, S \subseteq DOMAIN entries
    PROVE  /\ \A k \in S : ~Before(k, k)
           /\ \A k, l \in S : k # l => Before(k, l) \/ Before(l, k)
           /\ \A k, l, m \in S : Before(k, l) /\ Before(l, m) => Before(k, m)
           /\ \A k, l \in S : Before(k, l) => entries[k].at <= entries[l].at
<1>1. \A k \in S : entries[k].at \in Nat /\ k \in Nat
  BY MaxClockAssumption DEF Entry, Times
<1> QED
  BY <1>1 DEF Before

\* There is an order by last use, and it has every entry once.
LEMMA LastUseOrder ==
    ASSUME entries \in [DOMAIN entries -> Entry], NEW S \in SUBSET Nat, S \subseteq DOMAIN entries,
           IsFiniteSet(S)
    PROVE  /\ Cardinality(S) \in Nat
           /\ ByLastUse(S) \in [1..Cardinality(S) -> S]
           /\ \A i, j \in 1..Cardinality(S) : i < j => Before(ByLastUse(S)[i], ByLastUse(S)[j])
           /\ Range(ByLastUse(S)) = S
<1>0. /\ \A k \in S : ~Before(k, k)
      /\ \A k, l \in S : k # l => Before(k, l) \/ Before(l, k)
      /\ \A k, l, m \in S : Before(k, l) /\ Before(l, m) => Before(k, m)
  BY BeforeOrders
<1> DEFINE Latest(T) == \E m \in T : \A k \in T \ {m} : Before(k, m)
<1>1. ASSUME NEW T \in SUBSET S, T # {}
      PROVE  Latest(T)
  <2> DEFINE A == {U \in SUBSET T : U # {} => Latest(U)}
  <2>1. ASSUME NEW U \in SUBSET T, \A x \in U : U \ {x} \in A
        PROVE  U \in A
    <3> SUFFICES ASSUME U # {} PROVE Latest(U)
      OBVIOUS
    <3>1. PICK z \in U : TRUE
      OBVIOUS
    <3>2. CASE U \ {z} = {}
      BY <3>1, <3>2
    <3>3. CASE U \ {z} # {}
      <4>1. PICK m \in U \ {z} : \A k \in (U \ {z}) \ {m} : Before(k, m)
        BY <2>1, <3>1, <3>3
      <4>2. CASE Before(z, m)
        BY <4>1, <4>2
      <4>3. CASE Before(m, z)
        <5>1. \A k \in U \ {z} : Before(k, z)
          BY <1>0, <3>1, <4>1, <4>3
        <5> QED
          BY <3>1, <5>1
      <4> QED
        BY <1>0, <3>1, <4>1, <4>2, <4>3
    <3> QED
      BY <3>2, <3>3
  <2>2. IsFiniteSet(T)
    BY FS_Subset
  <2>3. T \in A
    <3> HIDE DEF A
    <3> QED
      BY <2>1, <2>2, ByRemoval
  <2> QED
    BY <1>1, <2>3
<1> HIDE DEF Latest
<1> DEFINE InOrder(T) ==
        \E q \in [1..Cardinality(T) -> T] :
            \A i, j \in 1..Cardinality(T) : i < j => Before(q[i], q[j])
           C == {T \in SUBSET S : InOrder(T)}
<1>2. ASSUME NEW T \in SUBSET S, \A x \in T : T \ {x} \in C
      PROVE  InOrder(T)
  <2>0. IsFiniteSet(T)
    BY FS_Subset
  <2>1. CASE T = {}
    <3>1. Cardinality({}) = 0
      BY FS_EmptySet
    <3>2. 1..0 = {}
      OBVIOUS
    <3>3. [x \in {} |-> x] \in [{} -> {}]
      OBVIOUS
    <3> QED
      BY <2>1, <3>1, <3>2, <3>3
  <2>2. CASE T # {}
    <3>1. PICK m \in T : \A k \in T \ {m} : Before(k, m)
      BY <1>1, <2>2 DEF Latest
    <3>2. PICK q \in [1..Cardinality(T \ {m}) -> T \ {m}] :
             \A i, j \in 1..Cardinality(T \ {m}) : i < j => Before(q[i], q[j])
      BY <1>2
    <3>3. PICK n \in Nat : n = Cardinality(T \ {m}) /\ Cardinality(T) = n + 1
      <4>1. Cardinality(T) \in Nat /\ Cardinality(T \ {m}) = Cardinality(T) - 1
            /\ Cardinality(T \ {m}) \in Nat
        BY <2>0, <3>1, FS_RemoveElement, FS_CardinalityType
      <4> QED
        BY <4>1
    <3> DEFINE r == [i \in 1..(n + 1) |-> IF i = n + 1 THEN m ELSE q[i]]
    <3>4. r \in [1..(n + 1) -> T]
      <4>1. \A i \in 1..(n + 1) : i = n + 1 \/ i \in 1..n
        BY <3>3
      <4>2. \A i \in 1..n : q[i] \in T
        BY <3>2, <3>3
      <4> QED
        BY <3>1, <4>1, <4>2
    <3>5. ASSUME NEW i \in 1..(n + 1), NEW j \in 1..(n + 1), i < j
          PROVE  Before(r[i], r[j])
      <4>0. i \in 1..n /\ i # n + 1
        BY <3>5
      <4>1. r[i] = q[i] /\ q[i] \in T \ {m}
        BY <3>2, <3>3, <4>0
      <4>2. CASE j = n + 1
        BY <3>1, <4>1, <4>2
      <4>3. CASE j # n + 1
        <5>1. j \in 1..n /\ r[j] = q[j]
          BY <3>3, <4>3
        <5> QED
          BY <3>2, <3>3, <3>5, <4>0, <4>1, <5>1
      <4> QED
        BY <4>2, <4>3
    <3> HIDE DEF r
    <3> QED
      BY <3>3, <3>4, <3>5
  <2> QED
    BY <2>1, <2>2
<1>3. InOrder(S)
  <2>1. \A T \in SUBSET S : (\A x \in T : T \ {x} \in C) => T \in C
    BY <1>2
  <2>2. S \in C
    <3> HIDE DEF C
    <3> QED
      BY <2>1, ByRemoval
  <2> QED
    BY <2>2
<1>4. /\ ByLastUse(S) \in [1..Cardinality(S) -> S]
      /\ \A i, j \in 1..Cardinality(S) : i < j => Before(ByLastUse(S)[i], ByLastUse(S)[j])
  BY <1>3 DEF ByLastUse
<1>5. PICK q : q = ByLastUse(S)
  OBVIOUS
<1>6. PICK n \in Nat : n = Cardinality(S)
  BY FS_CardinalityType
<1>7. q \in Injection(1..n, S)
  <2>1. q \in [1..n -> S] /\ \A i, j \in 1..n : i < j => Before(q[i], q[j])
    BY <1>4, <1>5, <1>6
  <2>2. ASSUME NEW i \in 1..n, NEW j \in 1..n, q[i] = q[j]
        PROVE  i = j
    <3>1. ~(i < j) /\ ~(j < i)
      BY <1>0, <2>1, <2>2
    <3> QED
      BY <3>1
  <2> QED
    BY <2>1, <2>2 DEF Injection, IsInjective
<1>8. IsFiniteSet(1..n) /\ Cardinality(1..n) = n
  BY FS_Interval
<1>9. q \in Surjection(1..n, S)
  BY <1>6, <1>7, <1>8, FS_Injection
<1>10. Range(q) = S
  BY <1>9 DEF Surjection, Range
<1> QED
  BY <1>4, <1>5, <1>6, <1>10

-----------------------------------------------------------------------------
LEMMA NothingRead == DOMAIN <<>> = {} /\ Range(<<>>) = {} /\ Len(<<>>) = 0
<1>1. DOMAIN <<>> = {} /\ Len(<<>>) = 0
  OBVIOUS
<1> QED
  BY <1>1 DEF Range

LEMMA NoFunction == ASSUME NEW S PROVE <<>> \in [DOMAIN <<>> -> S] /\ <<>> \in Seq(S)
<1>1. <<>> \in Seq(S)
  OBVIOUS
<1>2. DOMAIN <<>> = {}
  OBVIOUS
<1>3. <<>> = [x \in DOMAIN <<>> |-> <<>>[x]]
  OBVIOUS
<1> QED
  BY <1>1, <1>2, <1>3

\* Keys and digests are numbers, and finitely many.
LEMMA Finite ==
    /\ \A S \in SUBSET Keys : IsFiniteSet(S) /\ S \in SUBSET Nat
    /\ \A S \in SUBSET Names : IsFiniteSet(S) /\ S \in SUBSET Nat
    /\ \A S \in SUBSET Keys : IsFiniteSet(S \X (1..Outputs))
<1>1. IsFiniteSet(Keys) /\ IsFiniteSet(Names) /\ Keys \subseteq Nat /\ Names \subseteq Nat
  BY NamesAssumption, FS_Union DEF Names
<1>2. IsFiniteSet(1..Outputs)
  BY OutputsAssumption, FS_Interval
<1>3. ASSUME NEW S \in SUBSET Keys
      PROVE  IsFiniteSet(S) /\ IsFiniteSet(S \X (1..Outputs))
  BY <1>1, <1>2, FS_Subset, FS_Product
<1>4. ASSUME NEW S \in SUBSET Names
      PROVE  IsFiniteSet(S)
  BY <1>1, FS_Subset
<1> QED
  BY <1>1, <1>3, <1>4

\* Whatever the directory holds.
LEMMA InitGInv == GCInit => GInv
<1> SUFFICES ASSUME GCInit PROVE GInv
  OBVIOUS
<1>1. /\ gpc = "idle" /\ entries = <<>> /\ blobs = <<>> /\ queue = <<>> /\ drop = <<>>
      /\ todo = {} /\ refs = [d \in Names |-> 0] /\ after = 0 /\ now = 0
      /\ opts \in CollectorOptions /\ clock = MaxClock
  BY DEF GCInit, CollectorInit
<1>2. DOMAIN cas \subseteq Names /\ cas \in [DOMAIN cas -> Blob]
  BY DEF GCInit, PartialFunctions
<1>3. DOMAIN ac \subseteq Keys /\ ac \in [DOMAIN ac -> Entry]
  BY DEF GCInit, PartialFunctions
<1>4. /\ DOMAIN entries = {} /\ DOMAIN blobs = {} /\ Len(queue) = 0
      /\ entries \in [DOMAIN entries -> Entry] /\ blobs \in [DOMAIN blobs -> Times]
      /\ queue \in Seq(Keys) /\ drop \in Seq(Digests)
  BY <1>1, NothingRead, NoFunction
<1>5. GTyped
  BY <1>1, <1>2, <1>3, <1>4, MaxClockAssumption DEF GTyped, Times, Scanning
<1>6. EntriesRead /\ BlobsSeen /\ Counted /\ Reachable
  BY <1>1, <1>4 DEF EntriesRead, BlobsSeen, Counted, Reachable, Removing
<1>7. Queued /\ OldestGoesFirst /\ BudgetMet
  BY <1>1, <1>4 DEF Queued, OldestGoesFirst, BudgetMet
<1> QED
  BY <1>5, <1>6, <1>7 DEF GInv

\* The two walks only read.
LEMMA ScanKeeps ==
    GInv /\ (StartCollection \/ ScanEntry \/ EntriesScanned \/ ScanBlob) => GInv'
<1> SUFFICES ASSUME GInv, StartCollection \/ ScanEntry \/ EntriesScanned \/ ScanBlob
             PROVE  GInv'
  OBVIOUS
<1>0. GTyped /\ EntriesRead /\ BlobsSeen /\ Queued /\ OldestGoesFirst
  BY DEF GInv
<1> USE DEF Scanning, Removing
<1>1. CASE StartCollection
  <2>1. GTyped'
    BY <1>0, <1>1 DEF StartCollection, GTyped, disk
  <2>2. EntriesRead' /\ BlobsSeen'
    BY <1>0, <1>1 DEF StartCollection, EntriesRead, BlobsSeen, disk, GTyped
  <2>3. Counted' /\ Reachable' /\ BudgetMet'
    BY <1>1 DEF StartCollection, Counted, Reachable, BudgetMet
  <2>4. Queued' /\ OldestGoesFirst'
    BY <1>0, <1>1, NothingRead DEF StartCollection, Queued, OldestGoesFirst, EntriesRead, disk
  <2> QED
    BY <2>1, <2>2, <2>3, <2>4 DEF GInv
<1>2. CASE ScanEntry
  <2>0. todo # {} /\ todo \in SUBSET Nat /\ IsFiniteSet(todo) /\ gpc = "entries" /\ todo \subseteq Keys
    BY <1>0, <1>2, Finite DEF ScanEntry, EntriesRead
  <2>1. PICK k \in todo : k = Min(todo)
    BY <2>0, MinIsOne
  <2>2. /\ entries' = IF k \in DOMAIN ac /\ ac[k].readable
                      THEN [x \in DOMAIN entries \union {k} |-> IF x = k THEN ac[k] ELSE entries[x]]
                      ELSE entries
        /\ todo' = todo \ {k}
        /\ UNCHANGED <<cas, ac, clock, opts, now, gpc, blobs, refs, queue, drop, after>>
    BY <1>2, <2>1 DEF ScanEntry, disk
  <2>3. CASE k \in DOMAIN ac /\ ac[k].readable
    <3>1. /\ DOMAIN entries' = DOMAIN entries \union {k} /\ entries'[k] = ac[k]
          /\ \A x \in DOMAIN entries \ {k} : entries'[x] = entries[x]
      BY <2>2, <2>3
    <3>2. entries' \in [DOMAIN entries' -> Entry]
      BY <1>0, <2>2, <2>3 DEF GTyped
    <3>3. GTyped'
      BY <1>0, <2>0, <2>1, <2>2, <3>1, <3>2 DEF GTyped
    <3>4. EntriesRead'
      BY <1>0, <2>0, <2>1, <2>2, <2>3, <3>1 DEF EntriesRead
    <3>5. BlobsSeen' /\ Counted' /\ Reachable' /\ BudgetMet'
      BY <1>0, <2>0, <2>2 DEF BlobsSeen, Counted, Reachable, BudgetMet
    <3>6. Queued'
      BY <1>0, <2>0, <2>2, NothingRead DEF Queued
    <3>7. OldestGoesFirst'
      BY <2>0, <2>2, <3>4 DEF OldestGoesFirst, EntriesRead
    <3> QED
      BY <3>3, <3>4, <3>5, <3>6, <3>7 DEF GInv
  <2>4. CASE ~(k \in DOMAIN ac /\ ac[k].readable)
    <3>1. entries' = entries
      BY <2>2, <2>4
    <3>3. GTyped'
      BY <1>0, <2>0, <2>1, <2>2, <3>1 DEF GTyped
    <3>4. EntriesRead'
      BY <1>0, <2>0, <2>1, <2>2, <2>4, <3>1 DEF EntriesRead
    <3>5. BlobsSeen' /\ Counted' /\ Reachable' /\ BudgetMet'
      BY <1>0, <2>0, <2>2 DEF BlobsSeen, Counted, Reachable, BudgetMet
    <3>6. Queued'
      BY <1>0, <2>0, <2>2, NothingRead DEF Queued
    <3>7. OldestGoesFirst'
      BY <2>0, <2>2, <3>4 DEF OldestGoesFirst, EntriesRead
    <3> QED
      BY <3>3, <3>4, <3>5, <3>6, <3>7 DEF GInv
  <2> QED
    BY <2>3, <2>4
<1>3. CASE EntriesScanned
  <2>1. GTyped'
    BY <1>0, <1>3 DEF EntriesScanned, GTyped, disk
  <2>2. EntriesRead' /\ BlobsSeen'
    BY <1>0, <1>3 DEF EntriesScanned, EntriesRead, BlobsSeen, disk, GTyped
  <2>3. Counted' /\ Reachable' /\ BudgetMet'
    BY <1>3 DEF EntriesScanned, Counted, Reachable, BudgetMet
  <2>4. Queued' /\ OldestGoesFirst'
    BY <1>0, <1>3, <2>2, NothingRead DEF EntriesScanned, Queued, OldestGoesFirst, EntriesRead, disk
  <2> QED
    BY <2>1, <2>2, <2>3, <2>4 DEF GInv
<1>4. CASE ScanBlob
  <2>0. todo # {} /\ todo \in SUBSET Nat /\ IsFiniteSet(todo) /\ gpc = "blobs" /\ todo \subseteq Names
    BY <1>0, <1>4, Finite DEF ScanBlob, BlobsSeen
  <2>1. PICK d \in todo : d = Min(todo)
    BY <2>0, MinIsOne
  <2>2. /\ blobs' = IF d \in DOMAIN cas
                    THEN [x \in DOMAIN blobs \union {d} |-> IF x = d THEN cas[d].at ELSE blobs[x]]
                    ELSE blobs
        /\ todo' = todo \ {d}
        /\ UNCHANGED <<cas, ac, clock, opts, now, gpc, entries, refs, queue, drop, after>>
    BY <1>4, <2>1 DEF ScanBlob, disk
  <2>3. EntriesRead' /\ Counted' /\ Reachable' /\ BudgetMet'
    BY <1>0, <2>0, <2>2 DEF EntriesRead, Counted, Reachable, BudgetMet
  <2>4. Queued'
    BY <1>0, <2>0, <2>2, NothingRead DEF Queued
  <2>5. OldestGoesFirst'
    BY <2>0, <2>2, <2>3 DEF OldestGoesFirst, EntriesRead
  <2>6. CASE d \in DOMAIN cas
    <3>1. /\ DOMAIN blobs' = DOMAIN blobs \union {d} /\ blobs'[d] = cas[d].at
          /\ \A x \in DOMAIN blobs \ {d} : blobs'[x] = blobs[x]
      BY <2>2, <2>6
    <3>2. blobs' \in [DOMAIN blobs' -> Times]
      BY <1>0, <2>2, <2>6 DEF GTyped, Blob
    <3>3. GTyped'
      BY <1>0, <2>0, <2>1, <2>2, <3>1, <3>2 DEF GTyped
    <3>4. BlobsSeen'
      BY <1>0, <2>0, <2>1, <2>2, <2>6, <3>1 DEF BlobsSeen
    <3> QED
      BY <2>3, <2>4, <2>5, <3>3, <3>4 DEF GInv
  <2>7. CASE d \notin DOMAIN cas
    <3>1. blobs' = blobs
      BY <2>2, <2>7
    <3>3. GTyped'
      BY <1>0, <2>0, <2>1, <2>2, <3>1 DEF GTyped
    <3>4. BlobsSeen'
      BY <1>0, <2>0, <2>1, <2>2, <2>7, <3>1 DEF BlobsSeen
    <3> QED
      BY <2>3, <2>4, <2>5, <3>3, <3>4 DEF GInv
  <2> QED
    BY <2>6, <2>7
<1> QED
  BY <1>1, <1>2, <1>3, <1>4

-----------------------------------------------------------------------------
\* The outputs still counted are finitely many.
LEMMA CountsAreNumbers ==
    ASSUME GTyped, NEW K, NEW c, NEW d
    PROVE  IsFiniteSet(Naming(K, c, d)) /\ Cardinality(Naming(K, c, d)) \in Nat
<1>1. IsFiniteSet((DOMAIN entries) \X (1..Outputs))
  BY Finite DEF GTyped
<1>2. Naming(K, c, d) \in SUBSET ((DOMAIN entries) \X (1..Outputs))
  BY DEF Naming
<1> QED
  BY <1>1, <1>2, FS_Subset, FS_CardinalityType

\* Both walks are done: what is named is counted, what is not is to be swept.
LEMMA BlobsScannedKeeps == GInv /\ BlobsScanned => GInv'
<1> SUFFICES ASSUME GInv, BlobsScanned PROVE GInv'
  OBVIOUS
<1>0. GTyped /\ EntriesRead /\ BlobsSeen /\ Queued /\ OldestGoesFirst
  BY DEF GInv
<1> USE DEF Scanning, Removing
<1>1. /\ gpc = "blobs" /\ gpc' = "sweep" /\ todo = {}
      /\ refs' = [d \in Names |-> CountRefs(d)]
      /\ todo' = {d \in DOMAIN blobs : CountRefs(d) = 0}
      /\ after' = Cardinality(DOMAIN blobs)
      /\ UNCHANGED <<cas, ac, clock, opts, now, entries, blobs, queue, drop>>
  BY DEF BlobsScanned, Size, disk
<1>2. drop = <<>> /\ queue = <<>>
  BY <1>0, <1>1 DEF Queued
<1> DEFINE all == DOMAIN entries
<1>3. \A d \in Names : Naming(all, 0, d)' = Naming(all, 0, d) /\ CountRefs(d) = Cardinality(Naming(all, 0, d))
  <2>1. ASSUME NEW d
        PROVE  Naming(all, 0, d) = {ko \in (DOMAIN entries) \X (1..Outputs) :
                                       entries[ko[1]].out[ko[2]] = d}
    BY DEF Naming
  <2>2. \A d \in Names : CountRefs(d) = Cardinality(Naming(all, 0, d))
    BY <2>1 DEF CountRefs
  <2> QED
    BY <1>1, <2>2 DEF Naming
<1>4. \A d \in Names : CountRefs(d) \in Nat /\ refs'[d] = CountRefs(d)
  BY <1>0, <1>1, <1>3, CountsAreNumbers
<1>5. Cardinality(DOMAIN blobs) \in Nat
  BY <1>0, Finite, FS_CardinalityType DEF GTyped
<1>6. GTyped'
  BY <1>0, <1>1, <1>4, <1>5 DEF GTyped
<1>7. EntriesRead' /\ BlobsSeen'
  BY <1>0, <1>1 DEF EntriesRead, BlobsSeen
<1>8. Counted'
  <2>1. Counting(all, 0)'
    <3>1. all' = all /\ all \subseteq DOMAIN ac /\ Range(queue) = {}
      BY <1>0, <1>1, <1>2, NothingRead DEF EntriesRead
    <3>2. \A d \in Names : refs'[d] = Cardinality(Naming(all, 0, d)')
      BY <1>3, <1>4
    <3> QED
      BY <1>1, <1>2, <3>1, <3>2 DEF Counting
  <2>2. all' \in SUBSET DOMAIN entries'
    BY <1>1
  <2> QED
    BY <2>1, <2>2 DEF Counted
<1>9. Reachable'
  <2> SUFFICES ASSUME ~opts.DryRun, NEW d \in DOMAIN cas \cap Digests, ~(refs'[d] > 0)
               PROVE  d \in todo'
    BY <1>1 DEF Reachable, Young
  <2>1. d \in DOMAIN blobs
    BY <1>0, <1>1, NamesAssumption DEF BlobsSeen
  <2>2. CountRefs(d) = 0
    BY <1>0, <1>4, <2>1 DEF GTyped
  <2> QED
    BY <1>1, <2>1, <2>2
<1>10. Queued'
  <2>1. Len(queue) = 0
    BY <1>2, NothingRead
  <2>2. \A d \in todo' : refs'[d] = 0
    BY <1>0, <1>1, <1>4 DEF GTyped
  <2> QED
    BY <1>0, <1>1, <1>2, <2>1, <2>2 DEF Queued
<1>11. OldestGoesFirst' /\ BudgetMet'
  BY <1>1, <1>0 DEF OldestGoesFirst, BudgetMet, EntriesRead, Young
<1> QED
  BY <1>6, <1>7, <1>8, <1>9, <1>10, <1>11 DEF GInv

\* A step that touches none of it leaves the counts right.
LEMMA StillCounted ==
    ASSUME NEW K \in SUBSET DOMAIN entries, NEW c, Counting(K, c), gpc = "sweep" \/ gpc' = gpc, gpc' # "idle",
           UNCHANGED <<ac, opts, entries, refs, queue, drop>>
    PROVE  Counting(K, c)' /\ K \in SUBSET DOMAIN entries'
<1>1. \A d \in Names : Naming(K, c, d)' = Naming(K, c, d)
  BY DEF Naming
<1> QED
  BY <1>1 DEF Counting

\* What remove does to the files and to what is known of them.
LEMMA Removal ==
    ASSUME GTyped, BlobsSeen, gpc \in Removing, NEW d \in DOMAIN blobs, RemoveBlob(d)
    PROVE  /\ DOMAIN cas' \subseteq DOMAIN cas /\ cas' \in [DOMAIN cas' -> Blob]
           /\ \A x \in DOMAIN cas' : cas'[x] = cas[x]
           /\ \A x \in DOMAIN cas \ DOMAIN cas' : x = d /\ ~opts.DryRun
           /\ DOMAIN blobs' \subseteq DOMAIN blobs /\ blobs' \in [DOMAIN blobs' -> Times]
           /\ \A x \in DOMAIN blobs' : blobs'[x] = blobs[x] /\ x \in DOMAIN cas'
           /\ \A x \in DOMAIN blobs \ DOMAIN blobs' :
                 x = d /\ (opts.DryRun \/ x \in TmpNames \/ x \notin DOMAIN cas')
           /\ after' \in Nat /\ after' = Cardinality(DOMAIN blobs')
           /\ ~opts.DryRun /\ d \in Digests /\ d \in DOMAIN cas' => Young(cas[d].at)
<1>0. /\ cas \in [DOMAIN cas -> Blob] /\ blobs \in [DOMAIN blobs -> Times]
      /\ DOMAIN blobs \subseteq DOMAIN cas /\ \A x \in DOMAIN blobs : blobs[x] = cas[x].at
      /\ DOMAIN blobs \subseteq Names /\ after = Cardinality(DOMAIN blobs) /\ after \in Nat
  BY DEF GTyped, BlobsSeen
<1>1. CASE Young(blobs[d])
  BY <1>0, <1>1 DEF RemoveBlob
<1>2. CASE ~Young(blobs[d])
  <2>1. /\ cas' = IF ~opts.DryRun /\ d \in Digests THEN Without(cas, d) ELSE cas
        /\ blobs' = Without(blobs, d) /\ after' = after - 1
    BY <1>2 DEF RemoveBlob
  <2>2. /\ DOMAIN blobs' = DOMAIN blobs \ {d} /\ blobs' \in [DOMAIN blobs' -> Times]
        /\ \A x \in DOMAIN blobs' : blobs'[x] = blobs[x]
    BY <1>0, <2>1 DEF Without, Restrict
  <2>3. after' \in Nat /\ after' = Cardinality(DOMAIN blobs')
    <3>1. IsFiniteSet(DOMAIN blobs)
      BY <1>0, Finite
    <3>2. /\ Cardinality(DOMAIN blobs \ {d}) = Cardinality(DOMAIN blobs) - 1
          /\ IsFiniteSet(DOMAIN blobs \ {d})
      BY <3>1, FS_RemoveElement
    <3>3. Cardinality(DOMAIN blobs \ {d}) \in Nat
      BY <3>2, FS_CardinalityType
    <3> QED
      BY <1>0, <2>1, <2>2, <3>2, <3>3
  <2>4. CASE ~opts.DryRun /\ d \in Digests
    <3>1. /\ DOMAIN cas' = DOMAIN cas \ {d} /\ cas' \in [DOMAIN cas' -> Blob]
          /\ \A x \in DOMAIN cas' : cas'[x] = cas[x]
      BY <1>0, <2>1, <2>4 DEF Without, Restrict
    <3> QED
      BY <1>0, <2>2, <2>3, <2>4, <3>1
  <2>5. CASE ~(~opts.DryRun /\ d \in Digests)
    <3>1. cas' = cas /\ (opts.DryRun \/ d \in TmpNames)
      BY <1>0, <2>1, <2>5 DEF Names
    <3> QED
      BY <1>0, <2>2, <2>3, <2>5, <3>1
  <2> QED
    BY <2>4, <2>5
<1> QED
  BY <1>1, <1>2

\* The sweep takes what nothing names.
LEMMA SweepKeeps == GInv /\ Sweep => GInv'
<1> SUFFICES ASSUME GInv, Sweep PROVE GInv'
  OBVIOUS
<1>0. GTyped /\ EntriesRead /\ BlobsSeen /\ Queued /\ OldestGoesFirst /\ Counted /\ Reachable
  BY DEF GInv
<1> USE DEF Scanning, Removing
<1>1. PICK d \in todo : RemoveBlob(d) /\ todo' = todo \ {d}
  BY DEF Sweep
<1>2. /\ gpc = "sweep"
      /\ UNCHANGED <<ac, clock, opts, now, gpc, entries, refs, queue, drop>>
  BY DEF Sweep
<1>3. d \in DOMAIN blobs
  BY <1>0, <1>1, <1>2 DEF Queued
<1>4. /\ DOMAIN cas' \subseteq DOMAIN cas /\ cas' \in [DOMAIN cas' -> Blob]
      /\ \A x \in DOMAIN cas' : cas'[x] = cas[x]
      /\ DOMAIN blobs' \subseteq DOMAIN blobs /\ blobs' \in [DOMAIN blobs' -> Times]
      /\ \A x \in DOMAIN blobs' : blobs'[x] = blobs[x] /\ x \in DOMAIN cas'
      /\ \A x \in DOMAIN blobs \ DOMAIN blobs' :
            x = d /\ (opts.DryRun \/ x \in TmpNames \/ x \notin DOMAIN cas')
      /\ after' \in Nat /\ after' = Cardinality(DOMAIN blobs')
      /\ ~opts.DryRun /\ d \in Digests /\ d \in DOMAIN cas' => Young(cas[d].at)
  BY <1>0, <1>1, <1>2, <1>3, Removal
<1>5. GTyped'
  BY <1>0, <1>1, <1>2, <1>4 DEF GTyped
<1>6. BlobsSeen'
  BY <1>0, <1>2, <1>4 DEF BlobsSeen
<1>7. EntriesRead' /\ OldestGoesFirst' /\ BudgetMet'
  BY <1>0, <1>2 DEF EntriesRead, OldestGoesFirst, BudgetMet, Young
<1>8. Counted'
  <2>1. PICK K \in SUBSET DOMAIN entries : \E c \in Keys \union {0} : Counting(K, c)
    BY <1>0, <1>2 DEF Counted
  <2>2. PICK c \in Keys \union {0} : Counting(K, c)
    BY <2>1
  <2>3. Counting(K, c)' /\ K \in SUBSET DOMAIN entries'
    BY <1>2, <2>2, StillCounted
  <2> QED
    BY <2>3 DEF Counted
<1>9. Reachable'
  BY <1>0, <1>1, <1>2, <1>4 DEF Reachable, Young
<1>10. Queued'
  BY <1>0, <1>1, <1>2, <1>4, NothingRead DEF Queued
<1> QED
  BY <1>5, <1>6, <1>7, <1>8, <1>9, <1>10 DEF GInv

\* Swept: the budget is met, or the entries are put in order.
LEMMA SweptKeeps == GInv /\ Swept => GInv'
<1> SUFFICES ASSUME GInv, Swept PROVE GInv'
  OBVIOUS
<1>0. GTyped /\ EntriesRead /\ BlobsSeen /\ Queued /\ OldestGoesFirst /\ Counted /\ Reachable
  BY DEF GInv
<1>n. opts.MaxBytes \in Nat /\ after \in Nat
  BY <1>0, OptionsAssumption DEF GTyped
<1> USE DEF Scanning, Removing
<1>1. /\ gpc = "sweep" /\ todo = {} /\ queue = <<>> /\ drop = <<>>
      /\ UNCHANGED <<cas, ac, clock, opts, now, todo, entries, blobs, refs, drop, after>>
  BY <1>0 DEF Swept, disk, Queued
<1>2. EntriesRead' /\ BlobsSeen' /\ Reachable' /\ OldestGoesFirst'
  <2>1. gpc' \in {"done", "evict"}
    BY DEF Swept
  <2> QED
    BY <1>0, <1>1, <2>1 DEF EntriesRead, BlobsSeen, Reachable, OldestGoesFirst, Young
<1>3. CASE opts.MaxBytes <= 0 \/ after <= opts.MaxBytes
  <2>1. gpc' = "done" /\ queue' = queue
    BY <1>3 DEF Swept
  <2>2. GTyped'
    BY <1>0, <1>1, <2>1 DEF GTyped
  <2>3. Counted'
    <3>1. PICK K \in SUBSET DOMAIN entries : \E c \in Keys \union {0} : Counting(K, c)
      BY <1>0, <1>1 DEF Counted
    <3>2. PICK c \in Keys \union {0} : Counting(K, c)
      BY <3>1
    <3>3. Counting(K, c)' /\ K \in SUBSET DOMAIN entries'
      BY <1>1, <2>1, <3>2, StillCounted
    <3> QED
      BY <3>3 DEF Counted
  <2>4. Queued'
    BY <1>0, <1>1, <2>1, NothingRead DEF Queued
  <2>5. BudgetMet'
    BY <1>1, <1>3, <1>n DEF BudgetMet
  <2> QED
    BY <1>2, <2>2, <2>3, <2>4, <2>5 DEF GInv
<1>4. CASE ~(opts.MaxBytes <= 0 \/ after <= opts.MaxBytes)
  <2>1. gpc' = "evict" /\ queue' = ByLastUse(DOMAIN entries)
    BY <1>4 DEF Swept
  <2>2. PICK q : q = ByLastUse(DOMAIN entries)
    OBVIOUS
  <2>3. /\ Cardinality(DOMAIN entries) \in Nat
        /\ q \in [1..Cardinality(DOMAIN entries) -> DOMAIN entries]
        /\ \A i, j \in 1..Cardinality(DOMAIN entries) : i < j => Before(q[i], q[j])
        /\ Range(q) = DOMAIN entries
    BY <1>0, <2>2, Finite, LastUseOrder DEF GTyped
  <2>4. q \in Seq(Keys) /\ Len(q) = Cardinality(DOMAIN entries)
    <3>1. q \in Seq(DOMAIN entries) /\ Len(q) = Cardinality(DOMAIN entries)
      BY <2>3
    <3> QED
      BY <1>0, <2>3, <3>1 DEF GTyped
  <2>5. GTyped'
    BY <1>0, <1>1, <2>1, <2>2, <2>4 DEF GTyped
  <2>6. Counted'
    <3>1. PICK K \in SUBSET DOMAIN entries : \E c \in Keys \union {0} : Counting(K, c)
      BY <1>0, <1>1 DEF Counted
    <3>2. PICK c \in Keys \union {0} : Counting(K, c)
      BY <3>1
    <3>3. K = DOMAIN entries
      BY <1>0, <1>1, <3>2 DEF Counting, EntriesRead
    <3>4. \A d \in Names : Naming(K, c, d)' = Naming(K, c, d)
      BY <1>1 DEF Naming
    <3>5. Counting(K, c)'
      BY <1>0, <1>1, <2>1, <2>2, <2>3, <3>2, <3>3, <3>4 DEF Counting, EntriesRead
    <3>6. K \in SUBSET DOMAIN entries'
      BY <1>1
    <3>7. \E L \in SUBSET DOMAIN entries' : \E e \in Keys \union {0} : Counting(L, e)'
      BY <3>2, <3>5, <3>6
    <3> QED
      BY <3>7 DEF Counted
  <2>7. Queued'
    <3>1. \A i, j \in 1..Len(q) : i < j => Before(q[i], q[j])'
      BY <1>1, <2>3, <2>4 DEF Before
    <3> QED
      BY <1>1, <1>4, <1>n, <2>1, <2>2, <2>3, <3>1 DEF Queued
  <2>8. BudgetMet'
    BY <2>1 DEF BudgetMet
  <2> QED
    BY <1>2, <2>5, <2>6, <2>7, <2>8 DEF GInv
<1> QED
  BY <1>3, <1>4

-----------------------------------------------------------------------------
\* Taking the head of the sorted queue leaves a sorted queue of the rest.
LEMMA SortedQueue ==
    ASSUME GTyped, NEW q \in Seq(Keys), q # <<>>, Range(q) \subseteq DOMAIN entries,
           \A i, j \in 1..Len(q) : i < j => Before(q[i], q[j])
    PROVE  /\ Head(q) \in Keys \cap DOMAIN entries /\ Tail(q) \in Seq(Keys)
           /\ Range(q) = {Head(q)} \union Range(Tail(q)) /\ Head(q) \notin Range(Tail(q))
           /\ \A i, j \in 1..Len(Tail(q)) : i < j => Before(Tail(q)[i], Tail(q)[j])
           /\ \A l \in Range(Tail(q)) : entries[Head(q)].at <= entries[l].at
<1>1. PICK n \in Nat : Len(q) = n + 1
  <2>1. Len(q) \in Nat \ {0}
    OBVIOUS
  <2>2. Len(q) - 1 \in Nat /\ Len(q) = (Len(q) - 1) + 1
    BY <2>1
  <2> QED
    BY <2>2
<1>2. /\ Tail(q) \in Seq(Keys) /\ Len(Tail(q)) = n /\ Head(q) = q[1]
      /\ \A i \in 1..n : Tail(q)[i] = q[i + 1]
  BY <1>1
<1>3. DOMAIN q = 1..(n + 1) /\ DOMAIN Tail(q) = 1..n
  BY <1>1, <1>2
<1>4. \A i \in 1..(n + 1) : i = 1 \/ (i - 1 \in 1..n /\ (i - 1) + 1 = i)
  OBVIOUS
<1>5. \A i \in 1..n : i + 1 \in 1..(n + 1) /\ 1 < i + 1
  OBVIOUS
<1>6. Range(Tail(q)) = {q[i + 1] : i \in 1..n}
  BY <1>2, <1>3 DEF Range
<1>7. Range(q) = {q[i] : i \in 1..(n + 1)}
  BY <1>3 DEF Range
<1>8. Range(q) = {Head(q)} \union Range(Tail(q))
  <2>1. \A x \in Range(q) : x = q[1] \/ x \in Range(Tail(q))
    <3> SUFFICES ASSUME NEW i \in 1..(n + 1), i # 1 PROVE q[i] \in Range(Tail(q))
      BY <1>7
    <3>1. i - 1 \in 1..n /\ q[(i - 1) + 1] = q[i]
      BY <1>4
    <3> QED
      BY <1>6, <3>1
  <2>2. q[1] \in Range(q) /\ \A i \in 1..n : q[i + 1] \in Range(q)
    <3>1. 1 \in 1..(n + 1)
      OBVIOUS
    <3> QED
      BY <1>5, <1>7, <3>1
  <2> QED
    BY <1>2, <1>6, <2>1, <2>2
<1>9. \A l \in Range(Tail(q)) : Before(Head(q), l)
  <2> SUFFICES ASSUME NEW i \in 1..n PROVE Before(q[1], q[i + 1])
    BY <1>2, <1>6
  <2>1. 1 \in 1..Len(q) /\ i + 1 \in 1..Len(q) /\ 1 < i + 1
    BY <1>1
  <2> QED
    BY <2>1
<1>10. /\ Range(q) \in SUBSET Nat
       /\ \A k \in Range(q) : ~Before(k, k)
       /\ \A k, l \in Range(q) : Before(k, l) => entries[k].at <= entries[l].at
  <2>1. Range(q) \in SUBSET Nat
    BY <1>3, NamesAssumption DEF GTyped
  <2> QED
    BY <2>1, BeforeOrders DEF GTyped
<1>11. Head(q) \notin Range(Tail(q))
  BY <1>8, <1>9, <1>10
<1>12. \A l \in Range(Tail(q)) : entries[Head(q)].at <= entries[l].at
  BY <1>8, <1>9, <1>10
<1>13. ASSUME NEW i \in 1..n, NEW j \in 1..n, i < j
       PROVE  Before(Tail(q)[i], Tail(q)[j])
  <2>1. i + 1 \in 1..Len(q) /\ j + 1 \in 1..Len(q) /\ i + 1 < j + 1
    BY <1>1, <1>13
  <2>2. Before(q[i + 1], q[j + 1])
    BY <2>1
  <2> QED
    BY <1>2, <2>2
<1> QED
  BY <1>2, <1>8, <1>11, <1>12, <1>13

\* The next entry in order goes, unless it is young.
LEMMA EvictKeeps == GInv /\ Evict => GInv'
<1> SUFFICES ASSUME GInv, Evict PROVE GInv'
  OBVIOUS
<1>0. /\ GTyped /\ EntriesRead /\ BlobsSeen /\ Queued /\ OldestGoesFirst /\ Counted
      /\ Reachable
  BY DEF GInv
<1> USE DEF Scanning, Removing
<1>1. /\ gpc = "evict" /\ drop = <<>>
      /\ UNCHANGED <<cas, clock, opts, now, todo, entries, blobs, refs, after>>
  BY DEF Evict
<1>2. BlobsSeen' /\ Reachable'
  <2>1. gpc' \in {"evict", "done"}
    BY <1>1 DEF Evict
  <2> QED
    BY <1>0, <1>1, <2>1 DEF BlobsSeen, Reachable, Young
<1>3. PICK K \in SUBSET DOMAIN entries : \E c \in Keys \union {0} : Counting(K, c)
  BY <1>0, <1>1 DEF Counted
<1>4. PICK c \in Keys \union {0} : Counting(K, c)
  BY <1>3
<1>5. CASE queue = <<>> \/ after <= opts.MaxBytes
  <2>1. gpc' = "done" /\ UNCHANGED <<ac, queue, drop>>
    BY <1>5 DEF Evict
  <2>2. GTyped'
    BY <1>0, <1>1, <2>1 DEF GTyped
  <2>3. EntriesRead' /\ OldestGoesFirst'
    BY <1>0, <1>1, <2>1 DEF EntriesRead, OldestGoesFirst, Young
  <2>4. Counted'
    <3>1. \A d \in Names : Naming(K, c, d)' = Naming(K, c, d)
      BY <1>1, <2>1 DEF Naming
    <3>2. Counting(K, c)'
      BY <1>1, <1>4, <2>1, <3>1 DEF Counting
    <3>3. \E L \in SUBSET DOMAIN entries' : \E e \in Keys \union {0} : Counting(L, e)'
      BY <1>1, <1>4, <3>2
    <3> QED
      BY <3>3 DEF Counted
  <2>5. Queued'
    BY <1>0, <1>1, <2>1 DEF Queued, Before
  <2>6. BudgetMet'
    <3> SUFFICES ASSUME ~opts.DryRun, after > opts.MaxBytes, NEW k \in DOMAIN ac, ac[k].readable
                 PROVE  Young(ac[k].at)
      BY <1>1, <2>1 DEF BudgetMet, Young
    <3>1. opts.MaxBytes \in Nat /\ after \in Nat
      BY <1>0, OptionsAssumption DEF GTyped
    <3>2. queue = <<>> /\ Range(queue) = {}
      BY <1>5, <3>1, NothingRead
    <3>3. k \in DOMAIN entries
      BY <1>0, <1>1 DEF EntriesRead
    <3> QED
      BY <1>0, <1>1, <3>2, <3>3 DEF Queued
  <2> QED
    BY <1>2, <2>2, <2>3, <2>4, <2>5, <2>6 DEF GInv
<1>6. CASE ~(queue = <<>> \/ after <= opts.MaxBytes)
  <2>1. PICK q \in Seq(Keys) : q = queue
    BY <1>0 DEF GTyped
  <2>2. /\ q # <<>> /\ Range(q) \subseteq K
        /\ \A i, j \in 1..Len(q) : i < j => Before(q[i], q[j])
    BY <1>0, <1>4, <1>6, <2>1 DEF Queued, Counting
  <2>3. PICK k \in Keys \cap DOMAIN entries, t \in Seq(Keys) :
           /\ k = Head(q) /\ t = Tail(q)
           /\ Range(q) = {k} \union Range(t) /\ k \notin Range(t)
           /\ \A i, j \in 1..Len(t) : i < j => Before(t[i], t[j])
           /\ \A l \in Range(t) : entries[k].at <= entries[l].at
    BY <1>0, <2>1, <2>2, SortedQueue
  <2>4. /\ gpc' = gpc /\ queue' = t
        /\ IF Young(entries[k].at) THEN UNCHANGED <<ac, drop>>
           ELSE /\ ac' = IF opts.DryRun THEN ac ELSE Without(ac, k)
                /\ drop' = entries[k].out
    BY <1>6, <2>1, <2>3 DEF Evict
  <2>5. \A i, j \in 1..Len(t) : i < j => Before(t[i], t[j])'
    BY <1>1, <2>3 DEF Before
  <2>6. /\ opts.MaxBytes > 0
        /\ \A x \in DOMAIN entries \ Range(q) :
             /\ \A l \in Range(q) : entries[x].at <= entries[l].at
             /\ ~opts.DryRun /\ x \in DOMAIN ac => Young(ac[x].at)
    BY <1>0, <1>1, <2>1 DEF Queued
  <2>7. BudgetMet'
    BY <1>1, <2>4 DEF BudgetMet
  <2>8. CASE Young(entries[k].at)
    <3>1. UNCHANGED <<ac, drop>>
      BY <2>4, <2>8
    <3>2. GTyped'
      BY <1>0, <1>1, <2>4, <3>1 DEF GTyped
    <3>3. EntriesRead' /\ OldestGoesFirst'
      BY <1>0, <1>1, <2>4, <3>1 DEF EntriesRead, OldestGoesFirst, Young
    <3>4. Counted'
      <4>1. \A d \in Names : Naming(K, c, d)' = Naming(K, c, d)
        BY <1>1, <3>1 DEF Naming
      <4>2. Counting(K, c)'
        BY <1>1, <1>4, <2>2, <2>3, <2>4, <3>1, <4>1 DEF Counting
      <4>3. \E L \in SUBSET DOMAIN entries' : \E e \in Keys \union {0} : Counting(L, e)'
        BY <1>1, <1>4, <4>2
      <4> QED
        BY <4>3 DEF Counted
    <3>5. Queued'
      <4>1. ASSUME NEW x \in DOMAIN entries \ Range(t)
            PROVE  /\ \A l \in Range(t) : entries[x].at <= entries[l].at
                   /\ ~opts.DryRun /\ x \in DOMAIN ac => Young(ac[x].at)
        BY <1>0, <2>3, <2>6, <2>8 DEF EntriesRead
      <4> QED
        BY <1>1, <2>4, <2>5, <2>6, <3>1, <4>1 DEF Queued, Young
    <3> QED
      BY <1>2, <2>7, <3>2, <3>3, <3>4, <3>5 DEF GInv
  <2>9. CASE ~Young(entries[k].at)
    <3>1. drop' = entries[k].out /\ ac' = IF opts.DryRun THEN ac ELSE Without(ac, k)
      BY <2>4, <2>9
    <3>2. /\ DOMAIN ac' = IF opts.DryRun THEN DOMAIN ac ELSE DOMAIN ac \ {k}
          /\ \A x \in DOMAIN ac' : ac'[x] = ac[x]
          /\ ac' \in [DOMAIN ac' -> Entry]
      BY <1>0, <3>1 DEF Without, Restrict, GTyped
    <3>3. entries[k].out \in [1..Outputs -> Digests]
      BY <1>0, <2>3 DEF GTyped, Entry
    <3>4. drop' \in Seq(Digests) /\ Len(drop') = Outputs
      BY <3>1, <3>3, OutputsAssumption
    <3>5. GTyped'
      BY <1>0, <1>1, <2>4, <3>2, <3>4 DEF GTyped
    <3>6. EntriesRead'
      BY <1>0, <1>1, <2>4, <3>2 DEF EntriesRead
    <3>7. OldestGoesFirst'
      <4> SUFFICES ASSUME ~opts.DryRun, NEW x \in DOMAIN entries, NEW l \in DOMAIN entries,
                          x \notin DOMAIN ac', l \in DOMAIN ac', ~Young(ac'[l].at)
                   PROVE  entries[x].at <= entries[l].at
        BY <1>1 DEF OldestGoesFirst, Young
      <4>1. l \in DOMAIN ac /\ ~Young(ac[l].at) /\ l # k
        BY <3>2
      <4>2. CASE x \notin DOMAIN ac
        BY <1>0, <4>1, <4>2 DEF OldestGoesFirst
      <4>3. CASE x \in DOMAIN ac
        <5>1. x = k
          BY <3>2, <4>3
        <5>2. l \in Range(t)
          BY <2>3, <2>6, <4>1
        <5> QED
          BY <2>3, <5>1, <5>2
      <4> QED
        BY <4>2, <4>3
    <3>8. Counted'
      <4> DEFINE L == K \ {k}
      <4>1. k \in K
        BY <2>2, <2>3
      <4>2. ASSUME NEW d \in Names
            PROVE  Naming(L, k, d)' = Naming(K, c, d)
        <5>1. Naming(K, c, d) = {p \in (DOMAIN entries) \X (1..Outputs) :
                                    p[1] \in K /\ entries[p[1]].out[p[2]] = d}
          <6>1. \A p \in (DOMAIN entries) \X (1..Outputs) : ~(p[2] > Outputs - Len(drop))
            BY <1>1, NothingRead, OutputsAssumption
          <6> QED
            BY <6>1 DEF Naming
        <5>2. Naming(L, k, d)' = {p \in (DOMAIN entries) \X (1..Outputs) :
                                    /\ p[1] \in L \/ p[1] = k
                                    /\ entries[p[1]].out[p[2]] = d}
          <6>1. \A p \in (DOMAIN entries) \X (1..Outputs) : p[2] > Outputs - Len(drop')
            BY <3>4, OutputsAssumption
          <6> QED
            BY <1>1, <6>1 DEF Naming
        <5> QED
          BY <4>1, <5>1, <5>2
      <4>3. ~opts.DryRun => L = DOMAIN entries \cap DOMAIN ac'
        BY <1>4, <3>2 DEF Counting
      <4>4. Range(t) \subseteq L
        BY <2>2, <2>3
      <4>5. \A j \in 1..Len(drop') : drop'[j] = entries[k].out[Outputs - Len(drop') + j]
        BY <3>1, <3>4, OutputsAssumption
      <4>6. \A d \in Names : refs[d] = Cardinality(Naming(K, c, d))
        BY <1>4 DEF Counting
      <4>7. Counting(L, k)'
        <5>1. k \in DOMAIN entries' \ L /\ Len(drop') <= Outputs
          BY <1>1, <2>3, <3>4, OutputsAssumption
        <5>2. \A d \in Names : refs'[d] = Cardinality(Naming(L, k, d)')
          BY <1>1, <4>2, <4>6
        <5>3. /\ ~opts'.DryRun \/ gpc' = "sweep" => L = DOMAIN entries' \cap DOMAIN ac'
              /\ Range(queue') \subseteq L
              /\ \A j \in 1..Len(drop') : drop'[j] = entries'[k].out[Outputs - Len(drop') + j]
          BY <1>1, <2>4, <4>3, <4>4, <4>5
        <5> HIDE DEF L
        <5> QED
          BY <5>1, <5>2, <5>3 DEF Counting
      <4>8. \E M \in SUBSET DOMAIN entries' : \E e \in Keys \union {0} : Counting(M, e)'
        <5>1. L \in SUBSET DOMAIN entries' /\ k \in Keys \union {0}
          BY <1>1, <2>3
        <5> HIDE DEF L
        <5> QED
          BY <4>7, <5>1
      <4> QED
        BY <4>8 DEF Counted
    <3>9. Queued'
      <4>1. ASSUME NEW x \in DOMAIN entries \ Range(t)
            PROVE  /\ \A l \in Range(t) : entries[x].at <= entries[l].at
                   /\ ~opts.DryRun /\ x \in DOMAIN ac' => Young(ac'[x].at)
        BY <2>3, <2>6, <3>2
      <4> QED
        BY <1>1, <2>4, <2>5, <2>6, <4>1 DEF Queued, Young
    <3> QED
      BY <1>2, <2>7, <3>5, <3>6, <3>7, <3>8, <3>9 DEF GInv
  <2> QED
    BY <2>8, <2>9
<1> QED
  BY <1>5, <1>6

\* A blob of the entry evicted loses one reference, and goes with the last.
LEMMA DropKeeps == GInv /\ Drop => GInv'
<1> SUFFICES ASSUME GInv, Drop PROVE GInv'
  OBVIOUS
<1>0. /\ GTyped /\ EntriesRead /\ BlobsSeen /\ Queued /\ OldestGoesFirst /\ Counted
      /\ Reachable
  BY DEF GInv
<1> USE DEF Scanning, Removing
<1>1. /\ drop # <<>> /\ gpc = "evict"
      /\ UNCHANGED <<ac, clock, opts, now, gpc, todo, entries, queue>>
  BY <1>0 DEF Drop, Queued
<1>2. PICK s \in Seq(Digests) : s = drop /\ s # <<>>
  BY <1>0, <1>1 DEF GTyped
<1>3. PICK d \in Digests : d = Head(drop) /\ d = s[1]
  BY <1>2
<1>4. /\ refs' = [refs EXCEPT ![d] = @ - 1] /\ drop' = Tail(s)
      /\ IF refs'[d] > 0 \/ d \notin DOMAIN blobs THEN UNCHANGED <<cas, blobs, after>>
         ELSE RemoveBlob(d)
  BY <1>2, <1>3 DEF Drop
<1>5. PICK n \in Nat : Len(s) = n + 1
  <2>1. Len(s) \in Nat \ {0}
    BY <1>2
  <2>2. Len(s) - 1 \in Nat /\ Len(s) = (Len(s) - 1) + 1
    BY <2>1
  <2> QED
    BY <2>2
<1>6. /\ Tail(s) \in Seq(Digests) /\ Len(Tail(s)) = n
      /\ \A i \in 1..n : Tail(s)[i] = s[i + 1]
  BY <1>2, <1>5
<1>7. PICK K \in SUBSET DOMAIN entries : \E c \in Keys \union {0} : Counting(K, c)
  BY <1>0, <1>1 DEF Counted
<1>8. PICK c \in Keys \union {0} : Counting(K, c)
  BY <1>7
<1>9. /\ c \in DOMAIN entries \ K /\ c \in Keys /\ n + 1 <= Outputs
      /\ \A j \in 1..(n + 1) : s[j] = entries[c].out[Outputs - (n + 1) + j]
      /\ \A x \in Names : refs[x] = Cardinality(Naming(K, c, x))
  BY <1>0, <1>1, <1>2, <1>5, <1>8 DEF Counting, GTyped
<1>10. PICK o \in 1..Outputs : o = Outputs - n
  BY <1>9, OutputsAssumption
<1>11. entries[c].out[o] = d
  <2>1. 1 \in 1..(n + 1) /\ Outputs - (n + 1) + 1 = o
    BY <1>10, OutputsAssumption
  <2> QED
    BY <1>3, <1>9, <2>1
<1>12. ASSUME NEW x \in Names
       PROVE  Naming(K, c, x)' = IF x = d THEN Naming(K, c, x) \ {<<c, o>>} ELSE Naming(K, c, x)
  <2>1. Naming(K, c, x) = {p \in (DOMAIN entries) \X (1..Outputs) :
                              /\ p[1] \in K \/ (p[1] = c /\ p[2] >= o)
                              /\ entries[p[1]].out[p[2]] = x}
    <3>1. \A p \in (DOMAIN entries) \X (1..Outputs) : p[2] > Outputs - Len(drop) <=> p[2] >= o
      BY <1>2, <1>5, <1>10, OutputsAssumption
    <3> QED
      BY <3>1 DEF Naming
  <2>2. Naming(K, c, x)' = {p \in (DOMAIN entries) \X (1..Outputs) :
                              /\ p[1] \in K \/ (p[1] = c /\ p[2] > o)
                              /\ entries[p[1]].out[p[2]] = x}
    <3>1. Outputs - Len(drop') = o
      BY <1>4, <1>6, <1>10
    <3> QED
      BY <1>1, <3>1 DEF Naming
  <2>3. ASSUME NEW p \in (DOMAIN entries) \X (1..Outputs)
        PROVE  (p[1] \in K \/ (p[1] = c /\ p[2] > o))
               <=> (p[1] \in K \/ (p[1] = c /\ p[2] >= o)) /\ p # <<c, o>>
    BY <1>9, <1>10, OutputsAssumption
  <2>4. CASE x = d
    BY <2>1, <2>2, <2>3, <2>4
  <2>5. CASE x # d
    <3>1. \A p \in (DOMAIN entries) \X (1..Outputs) :
             p = <<c, o>> => entries[p[1]].out[p[2]] # x
      BY <1>11, <2>5
    <3> QED
      BY <2>1, <2>2, <2>3, <2>5, <3>1
  <2> QED
    BY <2>4, <2>5
<1>13. d \in Names /\ refs' \in [Names -> Nat]
       /\ \A x \in Names : refs'[x] = Cardinality(Naming(K, c, x)')
       /\ \A y \in Names \ {d} : refs'[y] = refs[y]
  <2>1. d \in Names
    BY DEF Names
  <2>2. <<c, o>> \in Naming(K, c, d)
    <3>1. o > Outputs - Len(drop)
      BY <1>2, <1>5, <1>10, OutputsAssumption
    <3> QED
      BY <1>9, <1>10, <1>11, <3>1 DEF Naming
  <2>3. /\ IsFiniteSet(Naming(K, c, d) \ {<<c, o>>})
        /\ Cardinality(Naming(K, c, d) \ {<<c, o>>}) = Cardinality(Naming(K, c, d)) - 1
    <3>1. PICK N : N = Naming(K, c, d)
      OBVIOUS
    <3>2. IsFiniteSet(N)
      BY <1>0, <3>1, CountsAreNumbers
    <3>3. IsFiniteSet(N \ {<<c, o>>}) /\ Cardinality(N \ {<<c, o>>}) = Cardinality(N) - 1
      BY <2>2, <3>1, <3>2, FS_RemoveElement
    <3> QED
      BY <3>1, <3>3
  <2>4. refs'[d] = Cardinality(Naming(K, c, d) \ {<<c, o>>}) /\ refs'[d] \in Nat
    <3>1. refs'[d] = refs[d] - 1
      BY <1>0, <1>4, <2>1 DEF GTyped
    <3>2. Cardinality(Naming(K, c, d) \ {<<c, o>>}) \in Nat
      BY <2>3, FS_CardinalityType
    <3> QED
      BY <1>9, <2>1, <2>3, <3>1, <3>2
  <2>5. /\ DOMAIN refs' = Names /\ \A x \in Names \ {d} : refs'[x] = refs[x]
        /\ refs' \in [Names -> Int]
    <3>1. refs \in [Names -> Nat] /\ refs[d] \in Nat
      BY <1>0, <2>1 DEF GTyped
    <3>2. refs' = [x \in Names |-> IF x = d THEN refs[d] - 1 ELSE refs[x]]
      BY <1>4, <3>1
    <3>3. \A x \in Names : (IF x = d THEN refs[d] - 1 ELSE refs[x]) \in Int
      BY <3>1
    <3> QED
      BY <3>2, <3>3
  <2>6. \A x \in Names : refs'[x] \in Nat
    BY <1>0, <2>4, <2>5 DEF GTyped
  <2>7. refs' \in [Names -> Nat]
    BY <2>5, <2>6
  <2> QED
    BY <1>9, <1>12, <2>1, <2>4, <2>5, <2>7
<1>14. /\ DOMAIN cas' \subseteq DOMAIN cas /\ cas' \in [DOMAIN cas' -> Blob]
       /\ \A x \in DOMAIN cas' : cas'[x] = cas[x]
       /\ DOMAIN blobs' \subseteq DOMAIN blobs /\ blobs' \in [DOMAIN blobs' -> Times]
       /\ \A x \in DOMAIN blobs' : blobs'[x] = blobs[x] /\ x \in DOMAIN cas'
       /\ \A x \in DOMAIN blobs \ DOMAIN blobs' :
             x = d /\ (opts.DryRun \/ x \in TmpNames \/ x \notin DOMAIN cas')
       /\ after' \in Nat /\ after' = Cardinality(DOMAIN blobs')
       /\ ~opts.DryRun /\ d \in DOMAIN cas' => Young(cas[d].at) \/ refs'[d] > 0
  <2>1. CASE refs'[d] > 0 \/ d \notin DOMAIN blobs
    <3>1. UNCHANGED <<cas, blobs, after>>
      BY <1>4, <2>1
    <3>2. ~opts.DryRun /\ d \in DOMAIN cas => d \in DOMAIN blobs
      BY <1>0, <1>1, NamesAssumption DEF BlobsSeen
    <3> QED
      BY <1>0, <1>1, <2>1, <3>1, <3>2 DEF GTyped, BlobsSeen
  <2>2. CASE ~(refs'[d] > 0 \/ d \notin DOMAIN blobs)
    <3>1. RemoveBlob(d) /\ d \in DOMAIN blobs
      BY <1>4, <2>2
    <3> QED
      BY <1>0, <1>1, <3>1, Removal
  <2> QED
    BY <2>1, <2>2
<1>15. GTyped'
  BY <1>0, <1>1, <1>4, <1>6, <1>13, <1>14 DEF GTyped
<1>16. EntriesRead' /\ OldestGoesFirst' /\ BudgetMet'
  BY <1>0, <1>1 DEF EntriesRead, OldestGoesFirst, BudgetMet, Young
<1>17. BlobsSeen'
  BY <1>0, <1>1, <1>14 DEF BlobsSeen
<1>18. Counted'
  <2>1. ASSUME NEW j \in 1..n
        PROVE  Tail(s)[j] = entries[c].out[Outputs - n + j]
    <3>1. j + 1 \in 1..(n + 1) /\ Outputs - (n + 1) + (j + 1) = Outputs - n + j
      BY OutputsAssumption
    <3>2. s[j + 1] = entries[c].out[Outputs - (n + 1) + (j + 1)]
      BY <1>9, <3>1
    <3> QED
      BY <1>6, <3>1, <3>2
  <2>2. Counting(K, c)'
    <3>1. /\ ~opts'.DryRun \/ gpc' = "sweep" => K = DOMAIN entries' \cap DOMAIN ac'
          /\ Range(queue') \subseteq K
      BY <1>1, <1>8 DEF Counting
    <3>2. /\ c \in DOMAIN entries' \ K /\ Len(drop') <= Outputs
          /\ \A j \in 1..Len(drop') : drop'[j] = entries'[c].out[Outputs - Len(drop') + j]
      <4>1. Len(drop') = n /\ drop' = Tail(s) /\ entries' = entries
        BY <1>1, <1>4, <1>6
      <4>2. n <= Outputs
        BY <1>9, OutputsAssumption
      <4> QED
        BY <1>9, <2>1, <4>1, <4>2
    <3> QED
      BY <1>13, <3>1, <3>2 DEF Counting
  <2>3. \E L \in SUBSET DOMAIN entries' : \E e \in Keys \union {0} : Counting(L, e)'
    BY <1>1, <1>8, <2>2
  <2> QED
    BY <2>3 DEF Counted
<1>19. Reachable'
  <2> SUFFICES ASSUME ~opts.DryRun, NEW x \in DOMAIN cas' \cap Digests
               PROVE  Young(cas'[x].at) \/ refs'[x] > 0
    BY <1>1 DEF Reachable, Young
  <2>1. x \in DOMAIN cas /\ cas'[x] = cas[x] /\ x \in Names
    BY <1>14 DEF Names
  <2> QED
    BY <1>0, <1>1, <1>13, <1>14, <2>1 DEF Reachable
<1>20. Queued'
  BY <1>0, <1>1, <1>13 DEF Queued, Before, Young
<1> QED
  BY <1>15, <1>16, <1>17, <1>18, <1>19, <1>20 DEF GInv

LEMMA NextGInv == GInv /\ [Collect]_<<disk, gvars>> => GInv'
<1> SUFFICES ASSUME GInv, [Collect]_<<disk, gvars>> PROVE GInv'
  OBVIOUS
<1>1. CASE Collect
  BY <1>1, ScanKeeps, BlobsScannedKeeps, SweepKeeps, SweptKeeps, EvictKeeps, DropKeeps
     DEF Collect
<1>2. CASE UNCHANGED <<disk, gvars>>
  <2>1. UNCHANGED <<cas, ac, clock, opts, now, gpc, todo, entries, blobs, refs, queue, drop, after>>
    BY <1>2 DEF disk, gvars
  <2>2. GTyped' /\ EntriesRead' /\ BlobsSeen' /\ Reachable' /\ OldestGoesFirst' /\ BudgetMet'
    BY <2>1 DEF GInv, GTyped, EntriesRead, BlobsSeen, Reachable, OldestGoesFirst, BudgetMet, Young
  <2>3. Counted'
    <3> SUFFICES ASSUME gpc \in Removing PROVE Counted'
      BY <2>1 DEF Counted
    <3>1. PICK K \in SUBSET DOMAIN entries : \E c \in Keys \union {0} : Counting(K, c)
      BY DEF GInv, Counted
    <3>2. PICK c \in Keys \union {0} : Counting(K, c)
      BY <3>1
    <3>3. Counting(K, c)' /\ K \in SUBSET DOMAIN entries'
      BY <2>1, <3>2, StillCounted DEF Removing
    <3> QED
      BY <3>3 DEF Counted
  <2>4. Queued'
    BY <2>1 DEF GInv, Queued, Before, Young
  <2> QED
    BY <2>2, <2>3, <2>4 DEF GInv
<1> QED
  BY <1>1, <1>2

-----------------------------------------------------------------------------
LEMMA Inductive == GCSpec => []GInv
<1>1. GCInit => GInv
  BY InitGInv
<1>2. GInv /\ [Collect]_<<disk, gvars>> => GInv'
  BY NextGInv
<1> QED
  BY <1>1, <1>2, PTL DEF GCSpec

\* Every variable keeps to its domain; in particular no reference count, nor
\* the bytes left, goes below zero.
THEOREM CollectorTyped == GCSpec => []GCTypeOK
<1>1. GInv => GCTypeOK
  <2> SUFFICES ASSUME GTyped PROVE GCTypeOK
    BY DEF GInv
  <2>1. Range(cas) \subseteq Blob /\ Range(ac) \subseteq Entry
    BY DEF GTyped, Range
  <2>2. Range(entries) \subseteq Entry /\ Range(blobs) \subseteq Times
    BY DEF GTyped, Range
  <2>3. ToSet(queue) \subseteq Keys /\ ToSet(drop) \subseteq Digests
    BY DEF GTyped, ToSet
  <2> QED
    BY <2>1, <2>2, <2>3 DEF GTyped, GCTypeOK, Scanning, Removing
<1> QED
  BY <1>1, Inductive, PTL

\* A collection that ends over its budget has left only entries too young to
\* evict (GC, phase two).
THEOREM BudgetIsMet == GCSpec => []BudgetMet
<1>1. GInv => BudgetMet
  BY DEF GInv
<1> QED
  BY <1>1, Inductive, PTL

\* Entries go least recently used first, whatever the walk found them in (the
\* sort in GC).
THEOREM OldestFirst == GCSpec => []OldestGoesFirst
<1>1. GInv => OldestGoesFirst
  BY DEF GInv
<1> QED
  BY <1>1, Inductive, PTL

\* When a collection is done, a blob that is old enough and still there is
\* named by an entry that is still there (the reference counts of GC).
THEOREM NoGarbageStays == GCSpec => []GarbageGone
<1>1. GInv => GarbageGone
  <2> SUFFICES ASSUME GInv, gpc = "done", ~opts.DryRun, NEW d \in DOMAIN cas \cap Digests,
                      ~Young(cas[d].at)
               PROVE  \E k \in DOMAIN ac : ac[k].readable /\ d \in Range(ac[k].out)
    BY DEF GarbageGone
  <2>1. refs[d] > 0
    BY DEF GInv, Reachable, Removing
  <2>2. drop = <<>> /\ Len(drop) = 0
    BY NothingRead DEF GInv, Queued
  <2>3. PICK K \in SUBSET DOMAIN entries : \E c \in Keys \union {0} : Counting(K, c)
    BY DEF GInv, Counted, Removing
  <2>4. PICK c \in Keys \union {0} : Counting(K, c)
    BY <2>3
  <2>5. K = DOMAIN entries \cap DOMAIN ac /\ Cardinality(Naming(K, c, d)) > 0
    BY <2>1, <2>4 DEF Counting, Names
  <2>6. PICK p \in Naming(K, c, d) : TRUE
    <3>1. Naming(K, c, d) # {}
      BY <2>5, FS_EmptySet
    <3> QED
      BY <3>1
  <2>7. PICK k \in DOMAIN entries, i \in 1..Outputs :
           (k \in K \/ i > Outputs) /\ entries[k].out[i] = d
    BY <2>2, <2>6, OutputsAssumption DEF Naming
  <2>8. k \in DOMAIN ac /\ entries[k] = ac[k] /\ ac[k].readable
    BY <2>5, <2>7, OutputsAssumption DEF GInv, EntriesRead
  <2>9. d \in Range(ac[k].out)
    <3>1. ac[k].out \in [1..Outputs -> Digests]
      BY <2>8 DEF GInv, GTyped, Entry
    <3> QED
      BY <2>7, <2>8, <3>1 DEF Range
  <2> QED
    BY <2>8, <2>9
<1> QED
  BY <1>1, Inductive, PTL

\* What GC reports is what is left, when no temporary file was lying about: a
\* file whose name is no digest is counted as removed but stays.
THEOREM ReportIsTrue == TmpNames = {} => (GCSpec => []ReportMatchesDisk)
<1>1. ASSUME TmpNames = {}
      PROVE  GInv => ReportMatchesDisk
  <2> SUFFICES ASSUME GInv, gpc = "done", ~opts.DryRun PROVE after = Size(DOMAIN cas)
    BY DEF ReportMatchesDisk
  <2>1. after = Cardinality(DOMAIN blobs) /\ DOMAIN blobs = DOMAIN cas
    BY <1>1 DEF GInv, BlobsSeen, Removing
  <2> QED
    BY <2>1 DEF Size
<1>2. SUFFICES ASSUME TmpNames = {} PROVE GCSpec => []ReportMatchesDisk
  OBVIOUS
<1>3. GInv => ReportMatchesDisk
  BY <1>1, <1>2
<1> QED
  BY <1>3, Inductive, PTL

\* What is removed from the disk: entries in Evict, and blobs nothing kept
\* names in the sweep and with the last of their entries.
LEMMA OnlyUnnamedGo ==
    ASSUME GInv, GInv', [Collect]_<<disk, gvars>>, NEW d \in DOMAIN cas, d \notin DOMAIN cas'
    PROVE  refs'[d] = 0 /\ gpc' \in Removing /\ ~opts'.DryRun
<1>0. GTyped /\ BlobsSeen /\ Queued
  BY DEF GInv
<1>1. Sweep \/ Drop
  BY DEF Collect, StartCollection, ScanEntry, EntriesScanned, ScanBlob, BlobsScanned, Swept,
         Evict, disk
<1>2. CASE Sweep
  <2>1. PICK e \in todo : RemoveBlob(e)
    BY <1>2 DEF Sweep
  <2>2. gpc = "sweep" /\ UNCHANGED <<gpc, opts, refs>>
    BY <1>2 DEF Sweep
  <2>3. e \in DOMAIN blobs /\ refs[e] = 0
    BY <1>0, <2>1, <2>2 DEF Queued
  <2>4. d = e /\ ~opts.DryRun
    BY <1>0, <2>1, <2>2, <2>3, Removal DEF Removing
  <2> QED
    BY <2>2, <2>3, <2>4 DEF Removing
<1>3. CASE Drop
  <2>1. drop # <<>> /\ gpc = "evict" /\ UNCHANGED <<gpc, opts>>
    BY <1>0, <1>3 DEF Drop, Queued
  <2>2. PICK e \in Digests : e = Head(drop)
    BY <1>0, <2>1 DEF GTyped
  <2>3. IF refs'[e] > 0 \/ e \notin DOMAIN blobs THEN UNCHANGED <<cas, blobs, after>>
        ELSE RemoveBlob(e)
    BY <1>3, <2>2 DEF Drop
  <2>4. ~(refs'[e] > 0) /\ e \in DOMAIN blobs /\ RemoveBlob(e)
    BY <2>3
  <2>5. d = e /\ ~opts.DryRun
    BY <1>0, <2>1, <2>4, Removal DEF Removing
  <2>6. refs' \in [Names -> Nat]
    BY DEF GInv, GTyped
  <2>7. refs'[e] = 0
    BY <2>2, <2>4, <2>6 DEF Names
  <2> QED
    BY <2>1, <2>5, <2>7 DEF Removing
<1> QED
  BY <1>1, <1>2, <1>3

\* Wherever a collection is interrupted, an entry that could be restored and is
\* still there can still be restored: GC removes an entry before its blobs, and
\* a blob only with the last entry naming it.
THEOREM SharedBlobsStay == GCSpec => EntriesStayRestorable
<1>1. GInv /\ GInv' /\ [Collect]_<<disk, gvars>> =>
        [\A k \in Keys : Restorable(k) /\ k \in DOMAIN ac' => Restorable(k)']_disk
  <2> SUFFICES ASSUME GInv, GInv', [Collect]_<<disk, gvars>>,
                      NEW k \in Keys, Restorable(k), k \in DOMAIN ac'
               PROVE  Restorable(k)'
    OBVIOUS
  <2>1. k \in DOMAIN ac /\ ac'[k] = ac[k]
    <3>1. UNCHANGED ac \/ Evict
      BY DEF Collect, StartCollection, ScanEntry, EntriesScanned, ScanBlob, BlobsScanned, Sweep,
             Swept, Drop, disk
    <3>2. CASE Evict
      <4>1. \/ ac' = ac
            \/ ac' = Without(ac, Head(queue))
        BY <3>2 DEF Evict
      <4> QED
        BY <4>1 DEF Restorable, Without, Restrict
    <3> QED
      BY <3>1, <3>2 DEF Restorable
  <2>2. ac[k].readable /\ Range(ac[k].out) \subseteq DOMAIN cas
    BY DEF Restorable
  <2>3. ASSUME NEW d \in Range(ac[k].out), d \notin DOMAIN cas'
        PROVE  FALSE
    <3>1. refs'[d] = 0 /\ gpc' \in Removing /\ ~opts'.DryRun
      BY <2>2, <2>3, OnlyUnnamedGo
    <3>2. PICK i \in 1..Outputs : ac[k].out[i] = d /\ d \in Digests
      <4>1. ac[k].out \in [1..Outputs -> Digests]
        BY <2>1 DEF GInv, GTyped, Entry
      <4> QED
        BY <4>1, <2>3 DEF Range
    <3>3. PICK K \in SUBSET DOMAIN entries' : \E c \in Keys \union {0} : Counting(K, c)'
      BY <3>1 DEF GInv, Counted
    <3>4. PICK c \in Keys \union {0} : Counting(K, c)'
      BY <3>3
    <3>5. K = DOMAIN entries' \cap DOMAIN ac' /\ refs'[d] = Cardinality(Naming(K, c, d)')
      BY <3>1, <3>2, <3>4 DEF Counting, Names
    <3>6. k \in DOMAIN entries' /\ entries'[k] = ac'[k]
      BY <2>1, <2>2, <3>1 DEF GInv, EntriesRead, Removing
    <3>7. <<k, i>> \in Naming(K, c, d)'
      BY <2>1, <3>2, <3>5, <3>6 DEF Naming
    <3>8. IsFiniteSet(Naming(K, c, d)')
      <4>1. Naming(K, c, d)' \in SUBSET ((DOMAIN entries') \X (1..Outputs))
        BY DEF Naming
      <4>2. IsFiniteSet((DOMAIN entries') \X (1..Outputs))
        BY Finite DEF GInv, GTyped
      <4> QED
        BY <4>1, <4>2, FS_Subset
    <3>9. Naming(K, c, d)' = {}
      BY <3>1, <3>5, <3>8, FS_EmptySet
    <3> QED
      BY <3>7, <3>9
  <2> QED
    BY <2>1, <2>2, <2>3 DEF Restorable
<1> QED
  BY <1>1, Inductive, PTL DEF GCSpec, EntriesStayRestorable

=============================================================================
