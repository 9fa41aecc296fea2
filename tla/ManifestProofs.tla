----------------------------- MODULE ManifestProofs ---------------------------
(***************************************************************************)
(* Theorems about what becomes of a manifest, from its file to the         *)
(* critical path of its graph: for any number of actions, any files, any   *)
(* paths and any durations.                                                *)
(***************************************************************************)
EXTENDS Manifest, GraphProofs

-----------------------------------------------------------------------------
(* Induction up to a number, and recursion.                                *)

\* What holds of 0, and of a number when it holds of the one before it.
LEMMA UpTo ==
    ASSUME NEW n \in Nat, NEW A, 0 \in A, \A i \in 1..n : i - 1 \in A => i \in A
    PROVE  0..n \subseteq A
<1> SUFFICES ASSUME ~(0..n \subseteq A) PROVE FALSE
  OBVIOUS
<1>1. PICK S : S = (0..n) \ A
  OBVIOUS
<1>2. S # {} /\ S \in SUBSET Nat /\ IsFiniteSet(S)
  <2>1. IsFiniteSet(0..n)
    BY FS_Interval
  <2>2. IsFiniteSet(S)
    BY <1>1, <2>1, FS_Subset
  <2> QED
    BY <1>1, <2>2
<1>3. PICK m \in S : \A y \in S : m <= y
  BY <1>2, LeastIsThere
<1>4. m \in 1..n /\ m - 1 \in 0..n
  BY <1>1, <1>3
<1>5. m - 1 \in A
  BY <1>1, <1>2, <1>3, <1>4
<1> QED
  BY <1>1, <1>3, <1>4, <1>5

\* The functions that start at b and take a step of F at every number after 0.
Following(n, D, b, F) ==
    {f \in [0..n -> D] : f[0] = b /\ \A i \in 1..n : f[i] = F[i][f[i - 1]]}

\* There is one.
LEMMA Recursion ==
    ASSUME NEW n \in Nat, NEW D, NEW b \in D, NEW F \in [1..n -> [D -> D]]
    PROVE  Following(n, D, b, F) # {}
<1>1. PICK A : A = {m \in 0..n : \E f \in [0..m -> D] :
                       f[0] = b /\ \A i \in 1..m : f[i] = F[i][f[i - 1]]}
  OBVIOUS
<1>2. 0 \in A
  <2>1. PICK f : f = [j \in 0..0 |-> b]
    OBVIOUS
  <2>2. f \in [0..0 -> D] /\ f[0] = b /\ 1..0 = {}
    BY <2>1
  <2> QED
    BY <1>1, <2>2
<1>3. ASSUME NEW m \in 1..n, m - 1 \in A
      PROVE  m \in A
  <2>1. PICK f \in [0..(m - 1) -> D] :
           f[0] = b /\ \A i \in 1..(m - 1) : f[i] = F[i][f[i - 1]]
    BY <1>1, <1>3
  <2>2. PICK g : g = [j \in 0..m |-> IF j = m THEN F[m][f[m - 1]] ELSE f[j]]
    OBVIOUS
  <2>3. \A j \in 0..(m - 1) : j \in 0..m /\ j # m /\ g[j] = f[j]
    BY <2>2
  <2>4. m \in 0..m /\ m - 1 \in 0..(m - 1) /\ 0 \in 0..(m - 1)
    OBVIOUS
  <2>5. g[m] = F[m][f[m - 1]] /\ f[m - 1] \in D
    BY <2>1, <2>2, <2>4
  <2>6. g \in [0..m -> D]
    <3>1. \A j \in 0..m : g[j] \in D
      <4>1. \A j \in 0..m : j = m \/ j \in 0..(m - 1)
        OBVIOUS
      <4>2. g[m] \in D
        BY <2>5
      <4> QED
        BY <2>1, <2>3, <4>1, <4>2
    <3> QED
      BY <2>2, <3>1
  <2>7. \A i \in 1..m : g[i] = F[i][g[i - 1]]
    <3>1. \A i \in 1..m : i = m \/ (i \in 1..(m - 1) /\ i - 1 \in 0..(m - 1) /\ i \in 0..(m - 1))
      OBVIOUS
    <3>2. g[m] = F[m][g[m - 1]]
      BY <2>3, <2>4, <2>5
    <3> QED
      BY <2>1, <2>3, <3>1, <3>2
  <2>8. g[0] = b /\ m \in 0..n
    BY <2>1, <2>3, <2>4
  <2> QED
    BY <1>1, <2>6, <2>7, <2>8
<1>4. n \in 0..n
  OBVIOUS
<1> QED
  BY <1>1, <1>2, <1>3, <1>4, UpTo DEF Following

-----------------------------------------------------------------------------
(* How long a chain takes.                                                 *)

\* The sum along s is that of a function that adds one action at a time.
LEMMA Running ==
    ASSUME NEW g, NEW s, Len(s) \in Nat, \A i \in 1..Len(s) : g[s[i]] \in Nat
    PROVE  \E T \in [0..Len(s) -> Nat] :
              /\ T[0] = 0 /\ \A i \in 1..Len(s) : T[i] = T[i - 1] + g[s[i]]
              /\ Along(g, s) = T[Len(s)]
<1>1. PICK n \in Nat : n = Len(s)
  OBVIOUS
<1> DEFINE Solves(T) == T = [i \in 0..n |-> IF i = 0 THEN 0 ELSE T[i - 1] + g[s[i]]]
<1>2. \E T \in [0..n -> Nat] : T[0] = 0 /\ \A i \in 1..n : T[i] = T[i - 1] + g[s[i]]
  <2>1. PICK F : F = [i \in 1..n |-> [x \in Nat |-> x + g[s[i]]]]
    OBVIOUS
  <2>2. ASSUME NEW i \in 1..n, NEW x \in Nat
        PROVE  F[i][x] = x + g[s[i]] /\ F[i][x] \in Nat
    <3>1. g[s[i]] \in Nat
      BY <1>1
    <3>2. F[i] = [y \in Nat |-> y + g[s[i]]]
      BY <2>1
    <3>3. F[i][x] = x + g[s[i]]
      BY <3>2
    <3> QED
      BY <3>1, <3>3
  <2>3. PICK D : D = Nat
    OBVIOUS
  <2>4. 0 \in D /\ \A i \in 1..n : \A x \in D : F[i][x] \in D
    BY <2>2, <2>3
  <2>8. F \in [1..n -> [D -> D]]
    BY <2>1, <2>3, <2>4
  <2>5. PICK T \in [0..n -> D] : T[0] = 0 /\ \A i \in 1..n : T[i] = F[i][T[i - 1]]
    <3>1. Following(n, D, 0, F) # {}
      BY <1>1, <2>4, <2>8, Recursion
    <3> QED
      BY <3>1 DEF Following
  <2>6. \A i \in 1..n : i - 1 \in 0..n /\ T[i - 1] \in Nat
    BY <2>3, <2>5
  <2>7. \A i \in 1..n : T[i] = T[i - 1] + g[s[i]]
    BY <2>2, <2>5, <2>6
  <2> QED
    BY <2>3, <2>5, <2>7
<1>3. \E T : Solves(T)
  <2>1. PICK T \in [0..n -> Nat] : T[0] = 0 /\ \A i \in 1..n : T[i] = T[i - 1] + g[s[i]]
    BY <1>2
  <2>2. \A i \in 0..n : i = 0 \/ i \in 1..n
    OBVIOUS
  <2>3. \A i \in 0..n : T[i] = IF i = 0 THEN 0 ELSE T[i - 1] + g[s[i]]
    BY <2>1, <2>2
  <2>4. T = [i \in 0..n |-> T[i]]
    BY <2>1
  <2> QED
    BY <2>3, <2>4
<1>4. PICK T : Solves(T) /\ Along(g, s) = T[n]
  <2>1. Along(g, s) = (CHOOSE T : Solves(T))[n]
    BY <1>1 DEF Along
  <2>2. Solves(CHOOSE T : Solves(T))
    BY <1>3
  <2> QED
    BY <2>1, <2>2
<1>5. T[0] = 0 /\ \A i \in 1..n : T[i] = T[i - 1] + g[s[i]]
  <2>1. \A i \in 0..n : T[i] = IF i = 0 THEN 0 ELSE T[i - 1] + g[s[i]]
    BY <1>4
  <2>2. 0 \in 0..n /\ \A i \in 1..n : i \in 0..n /\ i # 0
    OBVIOUS
  <2> QED
    BY <2>1, <2>2
<1>6. T = [i \in 0..n |-> T[i]]
  BY <1>4
<1> HIDE DEF Solves
<1>7. PICK A : A = {i \in 0..n : T[i] \in Nat}
  OBVIOUS
<1>8. 0 \in A /\ \A i \in 1..n : i - 1 \in A => i \in A
  BY <1>1, <1>5, <1>7
<1>9. 0..n \subseteq A
  BY <1>8, UpTo
<1>10. T \in [0..n -> Nat]
  BY <1>6, <1>7, <1>9
<1> QED
  BY <1>1, <1>4, <1>5, <1>10

\* One action more at the front.
LEMMA AlongFromFront ==
    ASSUME NEW g \in [Names -> Nat], NEW s \in Seq(Names), NEW p \in Names
    PROVE  Along(g, <<p>> \o s) = g[p] + Along(g, s) /\ Along(g, s) \in Nat
<1>1. PICK n \in Nat : n = Len(s)
  OBVIOUS
<1>2. PICK t : t = <<p>> \o s
  OBVIOUS
<1>11. t \in Seq(Names)
  BY <1>2
<1>3. Len(t) = n + 1 /\ t[1] = p /\ \A i \in 1..n : t[i + 1] = s[i]
  BY <1>1, <1>2
<1>4. PICK T \in [0..n -> Nat] :
         /\ T[0] = 0 /\ \A i \in 1..n : T[i] = T[i - 1] + g[s[i]]
         /\ Along(g, s) = T[n]
  <2>1. \A i \in 1..n : g[s[i]] \in Nat
    BY <1>1
  <2> QED
    BY <1>1, <2>1, Running
<1>5. PICK U \in [0..(n + 1) -> Nat] :
         /\ U[0] = 0 /\ \A i \in 1..(n + 1) : U[i] = U[i - 1] + g[t[i]]
         /\ Along(g, t) = U[n + 1]
  <2>1. \A i \in 1..(n + 1) : t[i] \in Names
    BY <1>3, <1>11
  <2>2. \A i \in 1..(n + 1) : g[t[i]] \in Nat
    BY <2>1
  <2>3. Len(t) \in Nat /\ Len(t) = n + 1
    BY <1>3
  <2>4. \E U \in [0..Len(t) -> Nat] :
           /\ U[0] = 0 /\ \A i \in 1..Len(t) : U[i] = U[i - 1] + g[t[i]]
           /\ Along(g, t) = U[Len(t)]
    BY <2>2, <2>3, Running
  <2> QED
    BY <2>3, <2>4
<1>6. PICK A : A = {i \in 0..n : U[i + 1] = g[p] + T[i]}
  OBVIOUS
<1>7. 0 \in A
  <2>1. U[1] = U[1 - 1] + g[t[1]]
    BY <1>5
  <2>2. U[1] = g[p] + T[0]
    BY <1>3, <1>4, <1>5, <2>1
  <2> QED
    BY <1>6, <2>2
<1>8. ASSUME NEW i \in 1..n, i - 1 \in A
      PROVE  i \in A
  <2>1. U[i] = g[p] + T[i - 1]
    BY <1>6, <1>8
  <2>2. i + 1 \in 1..(n + 1) /\ (i + 1) - 1 = i /\ i - 1 \in 0..n /\ i \in 0..n
    OBVIOUS
  <2>3. U[i + 1] = U[i] + g[s[i]]
    BY <1>3, <1>5, <2>2
  <2>4. T[i] = T[i - 1] + g[s[i]]
    BY <1>4
  <2>5. s[i] \in Names
    BY <1>1
  <2>6. T[i - 1] \in Nat /\ g[p] \in Nat /\ g[s[i]] \in Nat
    BY <1>4, <2>2, <2>5
  <2>7. \A a, b, c \in Nat : (b + a) + c = b + (a + c)
    OBVIOUS
  <2>8. (g[p] + T[i - 1]) + g[s[i]] = g[p] + (T[i - 1] + g[s[i]])
    BY <2>6, <2>7
  <2>9. U[i + 1] = g[p] + T[i]
    BY <2>1, <2>3, <2>4, <2>8
  <2> QED
    BY <1>6, <2>2, <2>9
<1>9. n \in A
  <2>1. n \in 0..n
    OBVIOUS
  <2> QED
    BY <1>7, <1>8, <2>1, UpTo
<1>10. n \in 0..n
  OBVIOUS
<1> QED
  BY <1>2, <1>4, <1>5, <1>6, <1>9, <1>10

-----------------------------------------------------------------------------
(* The critical path.                                                      *)

\* d is no worse than e: what Better leaves when names do not count.
AtLeast(d, e) ==
    finish[e] < finish[d] \/ (finish[e] = finish[d] /\ depth[e] <= depth[d])

\* An action finishes after the latest of its dependencies, the one it names.
Held(n) ==
    /\ pred[n] = None <=> deps(n) = {}
    /\ pred[n] = None => finish[n] = dur[n] /\ depth[n] = 1
    /\ pred[n] # None =>
          /\ pred[n] \in deps(n) /\ finish[n] = finish[pred[n]] + dur[n]
          /\ depth[n] = depth[pred[n]] + 1
          /\ \A e \in deps(n) : AtLeast(pred[n], e)

\* The walk so far: a chain that ends where the latest action does, and is as
\* long as that one's finish and depth say, less what is ahead.
Walked ==
    /\ Relaxed = Names /\ path \in Seq(Names) \ {<<>>} /\ Chain(path)
    /\ length = finish[Last(path)] /\ \A n \in Names : AtLeast(Last(path), n)
    /\ Total(path) + finish[Head(path)] = length + dur[Head(path)]
    /\ Len(path) + depth[Head(path)] = depth[Last(path)] + 1

CPInv ==
    /\ dur = <<>> => finish = <<>> /\ depth = <<>> /\ pred = <<>> /\ length = -1
    /\ dur # <<>> => phase = "ok" /\ dur \in [Names -> Nat]
    /\ Cardinality(Relaxed) \in 0..Len(order) /\ Relaxed = Before(Cardinality(Relaxed) + 1)
    /\ finish \in [Relaxed -> Nat] /\ depth \in [Relaxed -> Nat]
    /\ pred \in [Relaxed -> Names \union {None}]
    /\ \A n \in Relaxed : deps(n) \subseteq Relaxed /\ Held(n)
    /\ length = -1 \/ (length \in Nat /\ dur # <<>> /\ Walked)

\* Durations can be told from none.
LEMMA Measured ==
    ASSUME NEW g \in [Names -> Durations]
    PROVE  g \in [Names -> Nat] /\ g # <<>>
<1>1. g \in [Names -> Nat]
  BY DurationsAssumption
<1>2. 1 \in DOMAIN g
  BY NAssumption DEF Names
<1>3. DOMAIN <<>> = {}
  OBVIOUS
<1> QED
  BY <1>1, <1>2, <1>3

\* Any set of candidates has a best one, and it is no worse than any.
LEMMA BestIsBest ==
    ASSUME NEW R \in SUBSET Names, finish \in [R -> Nat], depth \in [R -> Nat],
           NEW S \in SUBSET R, S # {}
    PROVE  Best(S) \in S /\ \A e \in S : AtLeast(Best(S), e)
<1>1. PICK A : A = {T \in SUBSET S : T # {} => \E d \in T : \A e \in T \ {d} : Better(d, e)}
  OBVIOUS
<1>2. \A d \in S : finish[d] \in Nat /\ depth[d] \in Nat /\ d \in Nat
  BY NAssumption DEF Names
<1>3. ASSUME NEW T \in SUBSET S, \A x \in T : T \ {x} \in A
      PROVE  T \in A
  <2> SUFFICES ASSUME T # {} PROVE \E d \in T : \A e \in T \ {d} : Better(d, e)
    BY <1>1
  <2>1. PICK z \in T : TRUE
    OBVIOUS
  <2>2. CASE T \ {z} = {}
    BY <2>1, <2>2
  <2>3. CASE T \ {z} # {}
    <3>1. PICK d \in T \ {z} : \A e \in (T \ {z}) \ {d} : Better(d, e)
      BY <1>1, <1>3, <2>1, <2>3
    <3>2. CASE Better(d, z)
      BY <3>1, <3>2
    <3>3. CASE ~Better(d, z)
      <4>1. Better(z, d)
        BY <1>2, <3>1, <3>3 DEF Better
      <4>2. ASSUME NEW e \in T \ {z} PROVE Better(z, e)
        <5>1. CASE e = d
          BY <4>1, <5>1
        <5>2. CASE e # d
          <6>1. Better(d, e) /\ d \in S /\ e \in S /\ z \in S
            BY <3>1, <5>2
          <6> QED
            BY <1>2, <4>1, <6>1 DEF Better
        <5> QED
          BY <5>1, <5>2
      <4> QED
        BY <4>2
    <3> QED
      BY <3>2, <3>3
  <2> QED
    BY <2>2, <2>3
<1>4. S \in A
  <2>1. IsFiniteSet(S)
    BY NamesAreFinite
  <2> QED
    BY <1>3, <2>1, ByRemoval
<1>5. \E d \in S : \A e \in S \ {d} : Better(d, e)
  BY <1>1, <1>4
<1>6. Best(S) \in S /\ \A e \in S \ {Best(S)} : Better(Best(S), e)
  BY <1>5 DEF Best
<1>7. ASSUME NEW e \in S PROVE AtLeast(Best(S), e)
  <2>1. CASE e = Best(S)
    BY <1>2, <1>6, <2>1 DEF AtLeast
  <2>2. CASE e # Best(S)
    BY <1>2, <1>6, <2>2 DEF AtLeast, Better
  <2> QED
    BY <2>1, <2>2
<1> QED
  BY <1>6, <1>7

\* Before the measurement.
Unmeasured ==
    dur = <<>> /\ finish = <<>> /\ depth = <<>> /\ pred = <<>> /\ length = -1

LEMMA UnmeasuredCPInv == GTyped /\ Unmeasured => CPInv
<1> SUFFICES ASSUME GTyped, Unmeasured PROVE CPInv
  OBVIOUS
<1>1. Relaxed = {} /\ Cardinality(Relaxed) = 0
  BY FS_EmptySet DEF Relaxed, Unmeasured
<1>2. Before(1) = {}
  BY DEF Before
<1>3. Cardinality(Relaxed) \in 0..Len(order) /\ Relaxed = Before(Cardinality(Relaxed) + 1)
  BY <1>1, <1>2 DEF GTyped
<1>4. \A T : <<>> \in [{} -> T]
  OBVIOUS
<1>5. /\ finish \in [Relaxed -> Nat] /\ depth \in [Relaxed -> Nat]
      /\ pred \in [Relaxed -> Names \union {None}]
  BY <1>1, <1>4 DEF Unmeasured
<1> QED
  BY <1>1, <1>3, <1>5 DEF CPInv, Unmeasured

\* What a complete order says of its places.
LEMMA Places ==
    ASSUME GInv, phase = "ok"
    PROVE  /\ Len(order) = N /\ N \in Nat /\ Before(N + 1) = Names
           /\ \A j \in 1..N :
                 /\ order[j] \in Names /\ order[j] \notin Before(j)
                 /\ deps(order[j]) \subseteq Before(j)
                 /\ Before(j + 1) = Before(j) \union {order[j]}
<1>1. Len(order) = N /\ ToSet(order) = Names /\ DOMAIN order = 1..N /\ N \in Nat
  BY NAssumption DEF GInv, Drains, GTyped
<1>2. Before(N + 1) = Names
  <2>1. (N + 1) - 1 = N
    BY <1>1
  <2> QED
    BY <1>1, <2>1 DEF Before, ToSet
<1>3. ASSUME NEW j \in 1..N
      PROVE  /\ order[j] \in Names /\ order[j] \notin Before(j)
             /\ deps(order[j]) \subseteq Before(j)
             /\ Before(j + 1) = Before(j) \union {order[j]}
  <2>1. order[j] \in Names
    BY <1>1 DEF ToSet
  <2>2. deps(order[j]) \subseteq Before(j)
    BY <1>1 DEF GInv, Sorted
  <2>3. \A i \in 1..(j - 1) : i \in 1..N /\ i # j
    BY <1>1
  <2>4. order[j] \notin Before(j)
    BY <1>1, <2>3 DEF Before, GInv, Sorted, IsInjective
  <2>5. (j + 1) - 1 = j /\ \A i : i \in 1..j <=> i \in 1..(j - 1) \/ i = j
    BY <1>1
  <2>6. Before(j + 1) = Before(j) \union {order[j]}
    BY <2>5 DEF Before
  <2> QED
    BY <2>1, <2>2, <2>4, <2>6
<1> QED
  BY <1>1, <1>2, <1>3

\* The next action of the order is held by the best of its dependencies, which
\* have all been relaxed.
LEMMA RelaxKeeps == GInv /\ CPInv /\ Relax => CPInv'
<1> SUFFICES ASSUME GInv, CPInv, Relax PROVE CPInv'
  OBVIOUS
<1>1. /\ phase = "ok" /\ dur \in [Names -> Nat] /\ dur # <<>> /\ Relaxed # Names
      /\ UNCHANGED <<phase, copies, order, dur, path, length>> /\ length = -1
  BY DEF CPInv, Relax, gvars, kahn, Walked
<1>2. PICK R, k : R = Relaxed /\ k = Cardinality(R) /\ R = Before(k + 1) /\ k \in 0..N
  <2>1. Len(order) = N
    BY <1>1, Places
  <2>2. Cardinality(Relaxed) \in 0..N /\ Relaxed = Before(Cardinality(Relaxed) + 1)
    BY <2>1 DEF CPInv
  <2> QED
    BY <2>2
<1>3. R \in SUBSET Names /\ k + 1 \in 1..N /\ N \in Nat
  <2>1. k # N
    BY <1>1, <1>2, Places
  <2>2. R \subseteq Names
    <3>1. N \in Nat
      BY <1>1, Places
    <3>2. \A i \in 1..((k + 1) - 1) : i \in 1..N
      BY <1>2, <3>1
    <3>3. \A i \in 1..N : order[i] \in Names
      BY <1>1, Places
    <3> QED
      BY <1>2, <3>2, <3>3 DEF Before
  <2> QED
    BY <1>1, <1>2, <2>1, <2>2, Places
<1>4. PICK n \in Names : n = order[k + 1]
  BY <1>1, <1>3, Places
<1>5. n \notin R /\ deps(n) \subseteq R /\ R \union {n} = Before((k + 1) + 1)
  BY <1>1, <1>2, <1>3, <1>4, Places
<1>6. PICK d : d = Best(deps(n))
  OBVIOUS
<1>7. /\ finish' = With(finish, n, (IF d = None THEN 0 ELSE finish[d]) + dur[n])
      /\ depth' = With(depth, n, (IF d = None THEN 0 ELSE depth[d]) + 1)
      /\ pred' = With(pred, n, d)
  BY <1>2, <1>4, <1>6 DEF Relax, RelaxWith
<1>8. finish \in [R -> Nat] /\ depth \in [R -> Nat] /\ pred \in [R -> Names \union {None}]
  BY <1>2 DEF CPInv
<1>9. /\ d = None <=> deps(n) = {}
      /\ d # None => d \in deps(n) /\ d \in R /\ \A e \in deps(n) : AtLeast(d, e)
      /\ d \in Names \union {None}
  <2>1. None \notin Names
    BY DEF None, Names
  <2>2. CASE deps(n) = {}
    BY <1>6, <2>2 DEF Best
  <2>3. CASE deps(n) # {}
    <3>1. d \in deps(n) /\ \A e \in deps(n) : AtLeast(d, e)
      BY <1>3, <1>5, <1>6, <1>8, <2>3, BestIsBest
    <3> QED
      BY <1>3, <1>5, <2>1, <2>3, <3>1
  <2> QED
    BY <2>2, <2>3
<1>10. /\ DOMAIN finish' = R \union {n} /\ DOMAIN depth' = R \union {n}
       /\ \A m \in R : finish'[m] = finish[m] /\ depth'[m] = depth[m] /\ pred'[m] = pred[m]
       /\ finish'[n] = (IF d = None THEN 0 ELSE finish[d]) + dur[n]
       /\ depth'[n] = (IF d = None THEN 0 ELSE depth[d]) + 1
       /\ pred'[n] = d
  BY <1>5, <1>7, <1>8 DEF With
<1>11. /\ finish' \in [R \union {n} -> Nat] /\ depth' \in [R \union {n} -> Nat]
       /\ pred' \in [R \union {n} -> Names \union {None}]
  <2>1. dur[n] \in Nat /\ \A m \in R : finish[m] \in Nat /\ depth[m] \in Nat
    BY <1>1, <1>8
  <2>2. finish'[n] \in Nat /\ depth'[n] \in Nat
    <3>1. CASE d = None
      BY <1>10, <2>1, <3>1
    <3>2. CASE d # None
      BY <1>9, <1>10, <2>1, <3>2
    <3> QED
      BY <3>1, <3>2
  <2>3. \A m \in R \union {n} : finish'[m] \in Nat /\ depth'[m] \in Nat
    BY <1>10, <2>1, <2>2
  <2>4. \A m \in R \union {n} : pred'[m] \in Names \union {None}
    BY <1>8, <1>9, <1>10
  <2>5. /\ finish' = [m \in R \union {n} |-> finish'[m]]
        /\ depth' = [m \in R \union {n} |-> depth'[m]]
        /\ pred' = [m \in R \union {n} |-> pred'[m]]
    BY <1>7, <1>8 DEF With
  <2> QED
    BY <2>3, <2>4, <2>5
<1>12. Relaxed' = R \union {n} /\ Cardinality(R \union {n}) = k + 1
  <2>1. IsFiniteSet(R)
    BY <1>3, NamesAreFinite
  <2> QED
    BY <1>2, <1>5, <1>10, <2>1, FS_AddElement DEF Relaxed
<1>13. \A x : deps(x)' = deps(x) /\ Before(x)' = Before(x)
  BY <1>1 DEF deps, Before
<1>14. \A e, c \in R : AtLeast(c, e)' <=> AtLeast(c, e)
  BY <1>10 DEF AtLeast
<1>15. ASSUME NEW m \in R
       PROVE  Held(m)' /\ deps(m) \subseteq R
  <2>1. Held(m) /\ deps(m) \subseteq R
    BY <1>2 DEF CPInv
  <2>2. pred[m] # None => pred[m] \in R
    BY <2>1 DEF Held
  <2> QED
    BY <1>1, <1>10, <1>13, <1>14, <2>1, <2>2 DEF Held
<1>16. Held(n)'
  <2>1. CASE d = None
    <3>1. dur[n] \in Nat
      BY <1>1
    <3>2. finish'[n] = dur'[n] /\ depth'[n] = 1
      BY <1>1, <1>10, <2>1, <3>1
    <3> QED
      BY <1>9, <1>10, <1>13, <2>1, <3>2 DEF Held
  <2>2. CASE d # None
    <3>1. d \in R /\ \A e \in deps(n) : AtLeast(d, e)'
      BY <1>5, <1>9, <1>14, <2>2
    <3>2. finish'[n] = finish'[d] + dur'[n] /\ depth'[n] = depth'[d] + 1
      BY <1>1, <1>10, <2>2, <3>1
    <3> QED
      BY <1>9, <1>10, <1>13, <2>2, <3>1, <3>2 DEF Held
  <2> QED
    BY <2>1, <2>2
<1>17. Cardinality(Relaxed)' \in 0..Len(order)' /\ Relaxed' = Before(Cardinality(Relaxed) + 1)'
  <2>1. Cardinality(Relaxed)' = k + 1 /\ Len(order)' = N
    BY <1>1, <1>12, Places
  <2>2. Before(Cardinality(Relaxed) + 1)' = Before((k + 1) + 1)
    BY <1>13, <2>1
  <2>3. k + 1 \in 0..N
    BY <1>3
  <2> QED
    BY <1>5, <1>12, <2>1, <2>2, <2>3
<1>18. \A m \in Relaxed' : deps(m)' \subseteq Relaxed' /\ Held(m)'
  BY <1>5, <1>12, <1>13, <1>15, <1>16
<1> QED
  BY <1>1, <1>11, <1>12, <1>17, <1>18 DEF CPInv

LEMMA EndKeeps == GInv /\ CPInv /\ End => CPInv'
<1> SUFFICES ASSUME GInv, CPInv, End PROVE CPInv'
  OBVIOUS
<1>1. /\ dur \in [Names -> Nat] /\ dur # <<>> /\ Relaxed = Names
      /\ UNCHANGED <<copies, phase, order, dur, finish, depth, pred>>
  BY DEF CPInv, End, gvars, kahn
<1>2. /\ finish \in [Names -> Nat] /\ depth \in [Names -> Nat] /\ Names # {}
      /\ Names \in SUBSET Names
  <2>1. finish \in [Names -> Nat] /\ depth \in [Names -> Nat]
    BY <1>1 DEF CPInv
  <2>2. 1 \in Names
    BY NAssumption DEF Names
  <2> QED
    BY <2>1, <2>2
<1>3. PICK b \in Names : b = Best(Names) /\ \A e \in Names : AtLeast(b, e)
  BY <1>2, BestIsBest
<1>4. path' = <<b>> /\ length' = finish[b] /\ length' \in Nat
  BY <1>2, <1>3 DEF End
<1>5. Along(dur, <<b>>) = dur[b]
  <2>1. <<b>> = <<b>> \o <<>> /\ <<>> \in Seq(Names) /\ Len(<<>>) = 0
    OBVIOUS
  <2>2. Along(dur, <<>>) = 0
    BY <2>1, Running
  <2>3. Along(dur, <<b>> \o <<>>) = dur[b] + 0
    BY <1>1, <2>1, <2>2, AlongFromFront
  <2>4. dur[b] \in Nat
    BY <1>1
  <2> QED
    BY <2>1, <2>3, <2>4
<1>6. Walked'
  <2>1. \A e \in Names : AtLeast(b, e)'
    BY <1>1, <1>3 DEF AtLeast
  <2>2. path' \in Seq(Names) \ {<<>>} /\ Last(path') = b /\ Head(path') = b /\ Len(path') = 1
    BY <1>4 DEF Last
  <2>3. Chain(path)'
    <3>1. 1..(Len(path') - 1) = {}
      BY <2>2
    <3> QED
      BY <3>1 DEF Chain
  <2>4. Total(path)' = dur[b]
    BY <1>1, <1>4, <1>5 DEF Total
  <2>5. dur[b] \in Nat /\ finish[b] \in Nat /\ depth[b] \in Nat
    BY <1>1, <1>2
  <2>6. /\ Total(path)' + finish'[Head(path')] = length' + dur'[Head(path')]
        /\ Len(path') + depth'[Head(path')] = depth'[Last(path')] + 1
    BY <1>1, <1>4, <2>2, <2>4, <2>5
  <2>7. Relaxed' = Names /\ length' = finish'[Last(path')]
    BY <1>1, <1>4, <2>2 DEF Relaxed
  <2> QED
    BY <2>1, <2>2, <2>3, <2>6, <2>7 DEF Walked
<1>7. /\ \A x : deps(x)' = deps(x) /\ Before(x)' = Before(x)
      /\ Relaxed' = Relaxed
  BY <1>1 DEF deps, Before, Relaxed
<1>8. \A m \in Relaxed' : deps(m)' \subseteq Relaxed' /\ Held(m)'
  BY <1>1, <1>7 DEF CPInv, Held, AtLeast
<1> QED
  BY <1>1, <1>4, <1>6, <1>7, <1>8 DEF CPInv

LEMMA WalkKeeps == GInv /\ CPInv /\ Walk => CPInv'
<1> SUFFICES ASSUME GInv, CPInv, Walk PROVE CPInv'
  OBVIOUS
<1>1. /\ UNCHANGED <<copies, phase, order, dur, finish, depth, pred, length>>
      /\ length >= 0 /\ pred[Head(path)] # None
      /\ path' = <<pred[Head(path)]>> \o path
  BY DEF Walk, gvars, kahn
<1>2. /\ Walked /\ dur # <<>> /\ dur \in [Names -> Nat] /\ length \in Nat
      /\ finish \in [Names -> Nat] /\ depth \in [Names -> Nat]
  <2>1. length \in Nat /\ dur # <<>> /\ Walked /\ dur \in [Names -> Nat]
    BY <1>1 DEF CPInv
  <2>2. Relaxed = Names
    BY <2>1 DEF Walked
  <2>3. finish \in [Names -> Nat] /\ depth \in [Names -> Nat]
    BY <2>2 DEF CPInv
  <2> QED
    BY <2>1, <2>3
<1>3. PICK h \in Names : h = Head(path)
  BY <1>2 DEF Walked
<1> DEFINE p == pred[h]
<1>4. /\ p \in deps(h) /\ p \in Names /\ finish[h] = finish[p] + dur[h]
      /\ depth[h] = depth[p] + 1
  <2>1. Held(h)
    BY <1>2, <1>3 DEF CPInv, Walked
  <2> QED
    BY <1>1, <1>3, <2>1 DEF Held, deps
<1>5. PICK s \in Seq(Names), n \in Nat :
         /\ s = path /\ n = Len(s) /\ n >= 1 /\ s[1] = h
         /\ Last(path) = s[n] /\ Chain(s)
  BY <1>2, <1>3 DEF Walked, Last
<1>6. /\ path' = <<p>> \o s /\ path' \in Seq(Names) \ {<<>>} /\ Len(path') = n + 1
      /\ Head(path') = p /\ \A i \in 1..n : path'[i + 1] = s[i]
  BY <1>1, <1>3, <1>4, <1>5
<1>7. Last(path') = Last(path)
  <2>1. n \in 1..n
    BY <1>5
  <2> QED
    BY <1>5, <1>6, <2>1 DEF Last
<1>8. Chain(path)'
  <2> SUFFICES ASSUME NEW i \in 1..(Len(path') - 1)
               PROVE  path'[i] \in deps(path'[i + 1])
    BY <1>1 DEF Chain, deps
  <2>1. i \in 1..n /\ path'[i + 1] = s[i]
    BY <1>5, <1>6
  <2>2. CASE i = 1
    BY <1>4, <1>5, <1>6, <2>1, <2>2
  <2>3. CASE i # 1
    <3>1. i - 1 \in 1..n /\ i - 1 \in 1..(n - 1) /\ (i - 1) + 1 = i
      BY <2>1, <2>3, <1>5
    <3>2. path'[i] = s[i - 1] /\ s[i - 1] \in deps(s[i])
      BY <1>5, <1>6, <3>1 DEF Chain
    <3> QED
      BY <2>1, <3>2
  <2> QED
    BY <2>2, <2>3
<1>9. Total(path)' + finish[p] = length + dur[p]
  <2>1. Along(dur, path') = dur[p] + Along(dur, path) /\ Along(dur, path) \in Nat
    BY <1>2, <1>4, <1>5, <1>6, AlongFromFront
  <2>2. Along(dur, path) + finish[h] = length + dur[h]
    BY <1>2, <1>3 DEF Walked, Total
  <2>3. finish[h] \in Nat /\ finish[p] \in Nat /\ dur[h] \in Nat /\ dur[p] \in Nat
    BY <1>2, <1>4
  <2>4. \A a, b, c, e, l, t \in Nat :
           b = c + e /\ t + b = l + e => (a + t) + c = l + a
    OBVIOUS
  <2>5. length \in Nat /\ Along(dur, path) \in Nat
    BY <1>2, <2>1
  <2>6. PICK a, b, c, e, l, t \in Nat :
           /\ a = dur[p] /\ b = finish[h] /\ c = finish[p] /\ e = dur[h]
           /\ l = length /\ t = Along(dur, path)
    BY <2>3, <2>5
  <2>7. b = c + e /\ t + b = l + e
    BY <1>4, <2>2, <2>6
  <2>8. (a + t) + c = l + a
    BY <2>4, <2>7
  <2> QED
    BY <1>1, <2>1, <2>6, <2>8 DEF Total
<1>10. Len(path') + depth[p] = depth[Last(path)] + 1
  <2>1. n + depth[h] = depth[Last(path)] + 1
    BY <1>2, <1>3, <1>5 DEF Walked
  <2>2. depth[p] \in Nat /\ depth[h] = depth[p] + 1 /\ n \in Nat /\ Len(path') = n + 1
    BY <1>2, <1>4, <1>5, <1>6
  <2>3. (n + 1) + depth[p] = n + (depth[p] + 1)
    BY <2>2
  <2> QED
    BY <2>1, <2>2, <2>3
<1>11. /\ \A x : deps(x)' = deps(x) /\ Before(x)' = Before(x)
       /\ Relaxed' = Relaxed
  BY <1>1 DEF deps, Before, Relaxed
<1>12. \A x, y : AtLeast(x, y)' <=> AtLeast(x, y)
  BY <1>1 DEF AtLeast
<1>13. Walked'
  BY <1>1, <1>2, <1>6, <1>7, <1>8, <1>9, <1>10, <1>11, <1>12 DEF Walked
<1>14. \A m \in Relaxed' : deps(m)' \subseteq Relaxed' /\ Held(m)'
  BY <1>1, <1>11 DEF CPInv, Held, AtLeast
<1> QED
  BY <1>1, <1>2, <1>11, <1>13, <1>14 DEF CPInv

LEMMA MeasureKeeps == GInv /\ CPInv /\ Measure => CPInv'
<1> SUFFICES ASSUME GInv, CPInv, Measure PROVE CPInv'
  OBVIOUS
<1>1. /\ phase = "ok" /\ dur = <<>> /\ dur' \in [Names -> Durations]
      /\ UNCHANGED <<copies, phase, order, finish, depth, pred, path, length>>
  BY DEF Measure, gvars, kahn
<1>2. Unmeasured /\ length' = -1
  BY <1>1 DEF CPInv, Unmeasured
<1>3. dur' \in [Names -> Nat] /\ dur' # <<>>
  BY <1>1, Measured
<1>4. Relaxed = {} /\ Relaxed' = {}
  BY <1>1, <1>2 DEF Relaxed, Unmeasured
<1>5. \A x : Before(x)' = Before(x)
  BY <1>1 DEF Before
<1>6. Cardinality(Relaxed)' \in 0..Len(order)' /\ Relaxed' = Before(Cardinality(Relaxed) + 1)'
  <2>1. Cardinality(Relaxed) \in 0..Len(order) /\ Relaxed = Before(Cardinality(Relaxed) + 1)
    BY DEF CPInv
  <2>2. Cardinality(Relaxed)' = Cardinality(Relaxed)
    BY <1>4
  <2> QED
    BY <1>1, <1>4, <1>5, <2>1, <2>2
<1>7. /\ finish' \in [Relaxed' -> Nat] /\ depth' \in [Relaxed' -> Nat]
      /\ pred' \in [Relaxed' -> Names \union {None}]
  <2>1. /\ finish \in [Relaxed -> Nat] /\ depth \in [Relaxed -> Nat]
        /\ pred \in [Relaxed -> Names \union {None}]
    BY DEF CPInv
  <2> QED
    BY <1>1, <1>4, <2>1
<1> QED
  BY <1>1, <1>2, <1>3, <1>4, <1>6, <1>7 DEF CPInv

\* The graph and its path, from one step to the next.
LEMMA NextKeeps == GInv /\ CPInv /\ [Next]_vars => GInv' /\ CPInv'
<1> SUFFICES ASSUME GInv, CPInv, [Next]_vars PROVE GInv' /\ CPInv'
  OBVIOUS
<1>1. GInv'
  <2>1. [GNext]_gvars
    BY DEF Next, Measure, Relax, End, Walk, vars
  <2> QED
    BY <2>1, NextGInv
<1>2. CASE GNext /\ UNCHANGED cpvars
  <2>1. dur = <<>>
    <3>1. phase # "ok"
      BY <1>2 DEF GNext, Count, Emit, Drained, NextRoot, Look
    <3> QED
      BY <3>1 DEF CPInv
  <2>2. Unmeasured'
    BY <1>2, <2>1 DEF CPInv, Unmeasured, cpvars
  <2>3. GTyped'
    BY <1>1 DEF GInv
  <2> QED
    BY <1>1, <2>2, <2>3, UnmeasuredCPInv, PTL
<1>3. CASE UNCHANGED vars
  <2>1. UNCHANGED <<copies, phase, order, dur, finish, depth, pred, path, length>>
    BY <1>3 DEF vars, gvars, kahn, cpvars
  <2>2. (\A x : deps(x)' = deps(x) /\ Before(x)' = Before(x)) /\ Relaxed' = Relaxed
    BY <2>1 DEF deps, Before, Relaxed
  <2>3. \A x : Held(x)' <=> Held(x)
    BY <2>1, <2>2 DEF Held, AtLeast
  <2>4. Walked' <=> Walked
    BY <2>1, <2>2 DEF Walked, AtLeast, Chain, Total
  <2> QED
    BY <1>1, <2>1, <2>2, <2>3, <2>4 DEF CPInv
<1> QED
  BY <1>1, <1>2, <1>3, MeasureKeeps, RelaxKeeps, EndKeeps, WalkKeeps DEF Next

\* No chain takes longer than the finish of its last action says, and one that
\* takes as long has no more actions than its depth says.
LEMMA ChainsAreBounded ==
    ASSUME CPInv, Relaxed = Names, dur # <<>>,
           NEW s \in Seq(Names), s # <<>>, Chain(s)
    PROVE  /\ Total(s) \in Nat /\ Last(s) \in Names /\ Total(s) <= finish[Last(s)]
           /\ Total(s) = finish[Last(s)] => Len(s) <= depth[Last(s)]
<1>1. /\ dur \in [Names -> Nat] /\ finish \in [Names -> Nat] /\ depth \in [Names -> Nat]
      /\ \A m \in Names : Held(m)
  <2>1. finish \in [Relaxed -> Nat] /\ depth \in [Relaxed -> Nat] /\ dur \in [Names -> Nat]
    BY DEF CPInv
  <2>2. \A m \in Relaxed : Held(m)
    BY DEF CPInv
  <2> QED
    BY <2>1, <2>2
<1>2. PICK n \in Nat : n = Len(s)
  OBVIOUS
<1>3. n >= 1 /\ n \in 1..n /\ Last(s) = s[n] /\ \A i \in 1..n : s[i] \in Names
  BY <1>2 DEF Last
<1>4. PICK T \in [0..n -> Nat] :
         /\ T[0] = 0 /\ \A i \in 1..n : T[i] = T[i - 1] + dur[s[i]]
         /\ Along(dur, s) = T[n]
  <2>1. \A i \in 1..Len(s) : dur[s[i]] \in Nat
    BY <1>1, <1>2, <1>3
  <2> QED
    BY <1>2, <2>1, Running
<1>5. PICK A : A = {i \in 0..n : i = 0 \/
                      /\ T[i] <= finish[s[i]]
                      /\ T[i] = finish[s[i]] => i <= depth[s[i]]}
  OBVIOUS
<1>6. ASSUME NEW i \in 1..n, i - 1 \in A
      PROVE  i \in A
  <2>1. PICK m \in Names : m = s[i]
    BY <1>3
  <2>2. PICK t, u, g, f, e \in Nat :
           /\ t = T[i - 1] /\ u = T[i] /\ g = dur[m] /\ f = finish[m] /\ e = depth[m]
    <3>1. i \in 0..n /\ i - 1 \in 0..n
      BY <1>2
    <3>2. T[i - 1] \in Nat /\ T[i] \in Nat /\ dur[m] \in Nat /\ finish[m] \in Nat /\ depth[m] \in Nat
      BY <1>1, <1>4, <3>1
    <3> QED
      BY <3>2
  <2>3. u = t + g
    BY <1>4, <2>1, <2>2
  <2>4. Held(m)
    BY <1>1
  <2>5. CASE pred[m] = None
    <3>1. f = g /\ e = 1 /\ deps(m) = {}
      BY <2>2, <2>4, <2>5 DEF Held
    <3>2. i = 1
      <4> SUFFICES ASSUME i # 1 PROVE FALSE
        OBVIOUS
      <4>1. i - 1 \in 1..(n - 1) /\ (i - 1) + 1 = i
        BY <1>2
      <4>2. s[i - 1] \in deps(m)
        BY <1>2, <2>1, <4>1 DEF Chain
      <4> QED
        BY <3>1, <4>2
    <3>3. t = 0
      BY <1>4, <2>2, <3>2
    <3>4. u <= f /\ i <= e
      BY <2>2, <2>3, <3>1, <3>2, <3>3
    <3>5. i \in 0..n
      BY <1>2
    <3> QED
      BY <1>5, <2>1, <2>2, <3>4, <3>5
  <2>6. CASE pred[m] # None
    <3>1. PICK p \in Names : p = pred[m] /\ \A d \in deps(m) : AtLeast(p, d)
      BY <2>4, <2>6 DEF Held, deps
    <3>2. PICK h, k \in Nat : h = finish[p] /\ k = depth[p]
      BY <1>1
    <3>3. f = h + g /\ e = k + 1
      BY <2>2, <2>4, <2>6, <3>1, <3>2 DEF Held
    <3>4. t <= h /\ (t = h => i - 1 <= k)
      <4>1. CASE i = 1
        BY <1>4, <2>2, <3>2, <4>1
      <4>2. CASE i # 1
        <5>1. i - 1 \in 1..(n - 1) /\ (i - 1) + 1 = i /\ i - 1 \in 1..n /\ i - 1 # 0
          BY <1>2, <4>2
        <5>2. PICK d \in Names : d = s[i - 1]
          BY <1>3, <5>1
        <5>3. d \in deps(m)
          BY <1>2, <2>1, <5>1, <5>2 DEF Chain
        <5>4. PICK x, y, j \in Nat : x = finish[d] /\ y = depth[d] /\ j = i - 1
          BY <1>1, <5>1
        <5>5. t <= x /\ (t = x => j <= y)
          BY <1>5, <1>6, <2>2, <5>1, <5>2, <5>4
        <5>6. x < h \/ (x = h /\ y <= k)
          BY <3>1, <3>2, <5>3, <5>4 DEF AtLeast
        <5>7. t <= h /\ (t = h => j <= k)
          BY <5>5, <5>6
        <5> QED
          BY <5>4, <5>7
      <4> QED
        BY <4>1, <4>2
    <3>5. u <= f /\ (u = f => i <= e)
      <4>1. i \in Nat
        BY <1>2
      <4>2. \A a, b, c, d, j \in Nat :
               a <= b /\ (a = b => j - 1 <= c)
               => a + d <= b + d /\ (a + d = b + d => j <= c + 1)
        OBVIOUS
      <4>3. t + g <= h + g /\ (t + g = h + g => i <= k + 1)
        BY <3>4, <4>1, <4>2
      <4> QED
        BY <2>3, <3>3, <4>3
    <3>6. i \in 0..n
      BY <1>2
    <3> QED
      BY <1>5, <2>1, <2>2, <3>5, <3>6
  <2> QED
    BY <2>5, <2>6
<1>7. n \in A
  <2>1. 0 \in A /\ n \in 0..n
    BY <1>2, <1>5
  <2> QED
    BY <1>6, <2>1, UpTo
<1>8. Total(s) = T[n] /\ T[n] \in Nat
  <2>1. n \in 0..n
    BY <1>2
  <2> QED
    BY <1>4, <2>1 DEF Total
<1> QED
  BY <1>2, <1>3, <1>5, <1>7, <1>8

\* What the walk knows when it has nowhere to go.
LEMMA PathIsLongest == GInv /\ CPInv => LengthIsTheLongest /\ PathSpansTheGraph
<1> SUFFICES ASSUME GInv, CPInv, Finished PROVE LengthIsTheLongest /\ PathSpansTheGraph
  BY DEF LengthIsTheLongest, PathSpansTheGraph
<1>1. length \in Nat /\ dur # <<>> /\ Walked /\ dur \in [Names -> Nat]
  BY DEF CPInv, Finished
<1>2. /\ Relaxed = Names /\ path \in Seq(Names) /\ path # <<>> /\ Chain(path)
      /\ length = finish[Last(path)] /\ \A n \in Names : AtLeast(Last(path), n)
      /\ Total(path) + finish[Head(path)] = length + dur[Head(path)]
      /\ Len(path) + depth[Head(path)] = depth[Last(path)] + 1
  BY <1>1 DEF Walked
<1>3. finish \in [Names -> Nat] /\ depth \in [Names -> Nat] /\ \A m \in Names : Held(m)
  <2>1. finish \in [Relaxed -> Nat] /\ depth \in [Relaxed -> Nat]
    BY DEF CPInv
  <2>2. \A m \in Relaxed : Held(m)
    BY DEF CPInv
  <2> QED
    BY <1>2, <2>1, <2>2
<1>4. PICK h, z \in Names : h = Head(path) /\ z = Last(path)
  BY <1>2 DEF Last
<1>5. deps(h) = {} /\ finish[h] = dur[h] /\ depth[h] = 1
  <2>1. Held(h) /\ pred[h] = None
    BY <1>3, <1>4 DEF Finished
  <2> QED
    BY <2>1 DEF Held
<1>6. /\ Total(path) \in Nat
      /\ dur[h] \in Nat /\ finish[z] \in Nat /\ depth[z] \in Nat /\ Len(path) \in Nat
  BY <1>1, <1>2, <1>3, <1>4, ChainsAreBounded
<1>7. Total(path) = length /\ Len(path) = depth[z]
  <2>1. Total(path) + dur[h] = length + dur[h]
    BY <1>2, <1>4, <1>5
  <2>2. Len(path) + 1 = depth[z] + 1
    BY <1>2, <1>4, <1>5
  <2> QED
    BY <1>1, <1>6, <2>1, <2>2
<1>8. ASSUME NEW s \in Chains
      PROVE  Total(s) <= length /\ (Total(s) = length => Len(s) <= Len(path))
  <2>1. s \in Seq(Names) /\ s # <<>> /\ Chain(s)
    <3>1. s \in UNION {[1..m -> Names] : m \in 0..N} /\ s # <<>> /\ Chain(s)
      BY DEF Chains, Walks, SeqOf
    <3>2. PICK m \in 0..N : s \in [1..m -> Names]
      BY <3>1
    <3>3. m \in Nat
      BY NAssumption
    <3> QED
      BY <3>1, <3>2, <3>3
  <2>2. PICK y \in Names : y = Last(s)
    BY <1>1, <1>2, <2>1, ChainsAreBounded
  <2>3. /\ Total(s) \in Nat /\ Total(s) <= finish[y]
        /\ Total(s) = finish[y] => Len(s) <= depth[y]
    BY <1>1, <1>2, <2>1, <2>2, ChainsAreBounded
  <2>4. finish[y] < length \/ (finish[y] = length /\ depth[y] <= depth[z])
    BY <1>2, <1>4 DEF AtLeast
  <2>5. finish[y] \in Nat /\ depth[y] \in Nat /\ Len(s) \in Nat
    BY <1>3, <2>1
  <2> QED
    BY <1>1, <1>6, <1>7, <2>3, <2>4, <2>5
<1>9. ASSUME NEW n \in Names, z \in deps(n)
      PROVE  FALSE
  <2>1. Held(n) /\ pred[n] # None
    BY <1>3, <1>9 DEF Held
  <2>2. PICK p \in Names : p = pred[n] /\ AtLeast(p, z)
    BY <1>9, <2>1 DEF Held, deps
  <2>3. finish[n] = finish[p] + dur[n] /\ depth[n] = depth[p] + 1
    BY <2>1, <2>2 DEF Held
  <2>4. AtLeast(z, n)
    BY <1>2, <1>4
  <2>5. /\ finish[n] \in Nat /\ depth[n] \in Nat /\ finish[p] \in Nat /\ depth[p] \in Nat
        /\ dur[n] \in Nat
    BY <1>1, <1>3
  <2> QED
    BY <1>6, <2>2, <2>3, <2>4, <2>5 DEF AtLeast
<1>10. LengthIsTheLongest
  BY <1>2, <1>7, <1>8 DEF LengthIsTheLongest
<1>11. PathSpansTheGraph
  BY <1>4, <1>5, <1>8, <1>9 DEF PathSpansTheGraph
<1> QED
  BY <1>10, <1>11

-----------------------------------------------------------------------------
(* Paths.                                                                  *)

\* What path.Clean has done of a relative path: nothing empty, no ".", and ".."
\* only in front.
Tidy ==
    {x \in Seq(Segments) :
        /\ \A j \in 1..Len(x) : x[j] \notin {"", "."}
        /\ \A j \in 1..(Len(x) - 1) : x[j + 1] = ".." => x[j] = ".."}

LEMMA StaysTidy ==
    ASSUME NEW x \in Tidy, NEW s \in Segments
    PROVE  CleanStep(FALSE, x, s) \in Tidy
<1>0. x \in Seq(Segments)
  BY DEF Tidy
<1>1. PICK n \in Nat : n = Len(x) /\ x \in Seq(Segments)
  BY <1>0
<1>2. CASE s \in {"", "."}
  <2>1. CleanStep(FALSE, x, s) = x
    BY <1>2 DEF CleanStep
  <2> QED
    BY <2>1
<1>3. CASE s = ".." /\ x # <<>> /\ Last(x) # ".."
  <2>1. CleanStep(FALSE, x, s) = Front(x)
    BY <1>3 DEF CleanStep
  <2>2. n >= 1 /\ n - 1 \in Nat
    BY <1>1, <1>3
  <2>3. Front(x) = [j \in 1..(n - 1) |-> x[j]]
    BY <1>1, <2>2 DEF Front
  <2>4. \A j \in 1..(n - 1) : x[j] \in Segments
    BY <1>1
  <2>5. Front(x) \in Seq(Segments) /\ Len(Front(x)) = n - 1 /\ \A j \in 1..(n - 1) : Front(x)[j] = x[j]
    BY <2>2, <2>3, <2>4
  <2>6. \A j \in 1..(n - 1) : Front(x)[j] \notin {"", "."}
    <3>1. \A j \in 1..(n - 1) : j \in 1..n
      BY <2>2
    <3>2. \A j \in 1..n : x[j] \notin {"", "."}
      BY <1>1 DEF Tidy
    <3> QED
      BY <2>5, <3>1, <3>2
  <2>7. \A j \in 1..((n - 1) - 1) : Front(x)[j + 1] = ".." => Front(x)[j] = ".."
    <3>1. \A j \in 1..((n - 1) - 1) : j \in 1..(n - 1) /\ j + 1 \in 1..(n - 1)
      BY <2>2
    <3> QED
      BY <1>1, <2>5, <3>1 DEF Tidy
  <2> QED
    BY <2>1, <2>5, <2>6, <2>7 DEF Tidy
<1>4. CASE s \notin {"", "."} /\ ~(s = ".." /\ x # <<>> /\ Last(x) # "..")
  <2>1. CleanStep(FALSE, x, s) = Append(x, s)
    BY <1>4 DEF CleanStep
  <2>2. PICK y : y = Append(x, s)
    OBVIOUS
  <2>3. /\ y \in Seq(Segments) /\ Len(y) = n + 1 /\ y[n + 1] = s
        /\ \A j \in 1..n : y[j] = x[j]
    BY <1>1, <2>2
  <2>4. \A j \in 1..(n + 1) : y[j] \notin {"", "."}
    <3>1. \A j \in 1..(n + 1) : j \in 1..n \/ j = n + 1
      BY <1>1
    <3>2. \A j \in 1..n : x[j] \notin {"", "."}
      BY <1>1 DEF Tidy
    <3> QED
      BY <1>4, <2>3, <3>1, <3>2
  <2>5. ASSUME NEW j \in 1..n, y[j + 1] = ".." PROVE y[j] = ".."
    <3>1. CASE j = n
      <4>1. s = ".." /\ x # <<>>
        BY <1>1, <2>3, <2>5, <3>1
      <4>2. x[n] = ".."
        BY <1>1, <1>4, <4>1 DEF Last
      <4> QED
        BY <2>3, <3>1, <4>2
    <3>2. CASE j # n
      <4>1. j \in 1..(n - 1) /\ j + 1 \in 1..n
        BY <1>1, <3>2
      <4> QED
        BY <1>1, <2>3, <2>5, <4>1 DEF Tidy
    <3> QED
      BY <3>1, <3>2
  <2>6. Len(y) - 1 = n
    BY <1>1, <2>3
  <2>7. y \in Tidy
    BY <2>3, <2>4, <2>5, <2>6 DEF Tidy
  <2> QED
    BY <2>1, <2>2, <2>7
<1> QED
  BY <1>2, <1>3, <1>4

\* What path.Clean makes of a relative path.
LEMMA CleanIsTidy ==
    ASSUME NEW p \in Seq(Segments), ~Rooted(p)
    PROVE  Clean(p) = <<".">> \/ (Clean(p) \in Tidy /\ Clean(p) # <<>>)
<1>1. PICK n \in Nat : n = Len(p) /\ \A i \in 1..n : p[i] \in Segments
  OBVIOUS
<1> DEFINE Solves(T) ==
      T = [i \in 0..n |-> IF i = 0 THEN <<>> ELSE CleanStep(Rooted(p), T[i - 1], p[i])]
<1>2. PICK F : F = [i \in 1..n |-> [x \in Tidy |-> CleanStep(FALSE, x, p[i])]]
  OBVIOUS
<1>3. F \in [1..n -> [Tidy -> Tidy]]
  BY <1>1, <1>2, StaysTidy
<1>4. <<>> \in Tidy
  <2>1. <<>> \in Seq(Segments) /\ Len(<<>>) = 0
    OBVIOUS
  <2>2. 1..Len(<<>>) = {} /\ 1..(Len(<<>>) - 1) = {}
    BY <2>1
  <2> QED
    BY <2>1, <2>2 DEF Tidy
<1>5. \E T : Solves(T)
  <2>1. Following(n, Tidy, <<>>, F) # {}
    BY <1>3, <1>4, Recursion
  <2>2. PICK T \in [0..n -> Tidy] : T[0] = <<>> /\ \A i \in 1..n : T[i] = F[i][T[i - 1]]
    BY <2>1 DEF Following
  <2>3. \A i \in 1..n : i - 1 \in 0..n /\ T[i - 1] \in Tidy
    BY <2>2
  <2>4. \A i \in 1..n : T[i] = CleanStep(Rooted(p), T[i - 1], p[i])
    <3>1. Rooted(p) = FALSE
      BY DEF Rooted
    <3> QED
      BY <1>2, <2>2, <2>3, <3>1
  <2>5. \A i \in 0..n : T[i] = IF i = 0 THEN <<>> ELSE CleanStep(Rooted(p), T[i - 1], p[i])
    <3>1. \A i \in 0..n : i = 0 \/ i \in 1..n
      OBVIOUS
    <3> QED
      BY <2>2, <2>4, <3>1
  <2>6. T = [i \in 0..n |-> T[i]]
    BY <2>2
  <2> QED
    BY <2>5, <2>6
<1>6. PICK T : Solves(T) /\ Clean(p) = IF T[n] = <<>> THEN <<".">> ELSE T[n]
  <2>1. PICK T : T = CHOOSE S : Solves(S)
    OBVIOUS
  <2>2. Solves(T)
    BY <1>5, <2>1
  <2>3. Clean(p) = IF Rooted(p) THEN <<"">> \o (IF T[n] = <<>> THEN <<"">> ELSE T[n])
                   ELSE IF T[n] = <<>> THEN <<".">> ELSE T[n]
    BY <1>1, <2>1 DEF Clean
  <2> QED
    BY <2>2, <2>3
<1>7. T[0] = <<>> /\ \A i \in 1..n : T[i] = CleanStep(Rooted(p), T[i - 1], p[i])
  <2>1. \A i \in 0..n : T[i] = IF i = 0 THEN <<>> ELSE CleanStep(Rooted(p), T[i - 1], p[i])
    BY <1>6
  <2>2. 0 \in 0..n /\ \A i \in 1..n : i \in 0..n /\ i # 0
    OBVIOUS
  <2> QED
    BY <2>1, <2>2
<1> HIDE DEF Solves
<1>8. T[n] \in Tidy
  <2>1. \A i \in 1..n : T[i - 1] \in Tidy => T[i] = F[i][T[i - 1]]
    <3>1. Rooted(p) = FALSE
      BY DEF Rooted
    <3> QED
      BY <1>2, <1>7, <3>1
  <2>2. n \in 0..n /\ n \in Nat
    BY <1>1
  <2>3. PICK A : A = {i \in 0..n : T[i] \in Tidy}
    OBVIOUS
  <2>4. 0 \in A
    BY <1>4, <1>7, <2>3
  <2>5. ASSUME NEW i \in 1..n, i - 1 \in A PROVE i \in A
    <3>1. T[i - 1] \in Tidy /\ F[i] \in [Tidy -> Tidy] /\ T[i] = F[i][T[i - 1]] /\ i \in 0..n
      BY <1>3, <2>1, <2>3, <2>5
    <3>2. T[i] \in Tidy
      BY <3>1
    <3> QED
      BY <2>3, <3>1, <3>2
  <2>6. n \in A
    BY <2>2, <2>4, <2>5, UpTo
  <2> QED
    BY <2>3, <2>6
<1> QED
  BY <1>6, <1>8

\* The paths with nothing special in them.
Plain ==
    {p \in Seq(Segments) : p # <<>> /\ \A j \in 1..Len(p) : p[j] \notin {"", ".", ".."}}

\* A tidy path that does not start with ".." has none.
LEMMA TidyIsPlain ==
    ASSUME NEW p \in Tidy, p # <<>>, p[1] # ".."
    PROVE  p \in Plain
<1>0. p \in Seq(Segments)
  BY DEF Tidy
<1>1. PICK n \in Nat : n = Len(p)
  BY <1>0
<1>2. PICK A : A = {j \in 0..n : j = 0 \/ p[j] # ".."}
  OBVIOUS
<1>3. 0 \in A
  BY <1>2
<1>4. ASSUME NEW j \in 1..n, j - 1 \in A PROVE j \in A
  <2>1. CASE j = 1
    BY <1>2, <2>1
  <2>2. CASE j # 1
    <3>1. j - 1 \in 1..(n - 1) /\ (j - 1) + 1 = j /\ j - 1 # 0 /\ j \in 0..n
      BY <1>1, <2>2
    <3>2. p[j - 1] # ".."
      BY <1>2, <1>4, <3>1
    <3>3. p[(j - 1) + 1] = ".." => p[j - 1] = ".."
      BY <1>1, <3>1 DEF Tidy
    <3> QED
      BY <1>2, <3>1, <3>2, <3>3
  <2> QED
    BY <2>1, <2>2
<1>5. 0..n \subseteq A
  BY <1>1, <1>3, <1>4, UpTo
<1> QED
  <2> SUFFICES ASSUME NEW j \in 1..n PROVE p[j] \notin {"", ".", ".."}
    BY <1>0, <1>1 DEF Plain
  <2>1. j \in 0..n /\ j # 0
    BY <1>1
  <2>2. p[j] # ".."
    BY <1>2, <1>5, <2>1
  <2>3. p[j] \notin {"", "."}
    BY <1>1 DEF Tidy
  <2> QED
    BY <2>2, <2>3

LEMMA IntoStays ==
    ASSUME NEW x \in Seq(Segments), NEW s \in Segments
    PROVE  Into(x, s) \in Seq(Segments)
<1>1. CASE x = Outside \/ s \in {"", "."}
  BY <1>1 DEF Into
<1>2. CASE x # Outside /\ s = ".."
  <2>1. Into(x, s) = IF x = <<>> THEN Outside ELSE Front(x)
    BY <1>2 DEF Into
  <2>2. Outside \in Seq(Segments)
    <3>1. ".." \in Segments
      BY SegmentsAssumption
    <3>2. <<"..">> \in Seq(Segments)
      BY <3>1
    <3> QED
      BY <3>2 DEF Outside
  <2>3. ASSUME x # <<>> PROVE Front(x) \in Seq(Segments)
    <3>1. PICK n \in Nat : n = Len(x) /\ n >= 1 /\ n - 1 \in Nat
      BY <2>3
    <3>2. \A j \in 1..(n - 1) : x[j] \in Segments
      BY <3>1
    <3> QED
      BY <3>1, <3>2 DEF Front
  <2> QED
    BY <2>1, <2>2, <2>3
<1>3. CASE x # Outside /\ s \notin {"", "."} /\ s # ".."
  <2>1. Into(x, s) = Append(x, s)
    BY <1>3 DEF Into
  <2> QED
    BY <2>1
<1> QED
  BY <1>1, <1>2, <1>3

\* The places a relative path goes through.
LEMMA WherePassesThrough ==
    ASSUME NEW p \in Seq(Segments), ~Rooted(p)
    PROVE  \E T : /\ T[0] = <<>> /\ \A i \in 1..Len(p) : T[i] = Into(T[i - 1], p[i])
                  /\ Where(p) = T[Len(p)]
<1>1. PICK n \in Nat : n = Len(p) /\ \A i \in 1..n : p[i] \in Segments
  OBVIOUS
<1> DEFINE Solves(T) ==
      T = [i \in 0..n |-> IF i = 0 THEN IF Rooted(p) THEN Outside ELSE <<>>
                                   ELSE Into(T[i - 1], p[i])]
<1>2. PICK D : D = Seq(Segments)
  OBVIOUS
<1>3. PICK F : F = [i \in 1..n |-> [x \in D |-> Into(x, p[i])]]
  OBVIOUS
<1>4. F \in [1..n -> [D -> D]]
  BY <1>1, <1>2, <1>3, IntoStays
<1>5. <<>> \in D
  BY <1>2
<1>6. \E T : Solves(T)
  <2>1. Following(n, D, <<>>, F) # {}
    BY <1>1, <1>4, <1>5, Recursion
  <2>2. PICK T \in [0..n -> D] : T[0] = <<>> /\ \A i \in 1..n : T[i] = F[i][T[i - 1]]
    BY <2>1 DEF Following
  <2>3. \A i \in 1..n : i - 1 \in 0..n /\ T[i - 1] \in D
    BY <2>2
  <2>4. \A i \in 1..n : T[i] = Into(T[i - 1], p[i])
    BY <1>3, <2>2, <2>3
  <2>5. \A i \in 0..n : T[i] = IF i = 0 THEN IF Rooted(p) THEN Outside ELSE <<>>
                                        ELSE Into(T[i - 1], p[i])
    <3>1. \A i \in 0..n : i = 0 \/ i \in 1..n
      OBVIOUS
    <3> QED
      BY <2>2, <2>4, <3>1
  <2>6. T = [i \in 0..n |-> T[i]]
    BY <2>2
  <2> QED
    BY <2>5, <2>6
<1>7. PICK T : Solves(T) /\ Where(p) = T[n]
  <2>1. Where(p) = (CHOOSE S : Solves(S))[n]
    BY <1>1 DEF Where
  <2>2. Solves(CHOOSE S : Solves(S))
    BY <1>6
  <2> QED
    BY <2>1, <2>2
<1>8. T[0] = <<>> /\ \A i \in 1..n : T[i] = Into(T[i - 1], p[i])
  <2>1. \A i \in 0..n : T[i] = IF i = 0 THEN IF Rooted(p) THEN Outside ELSE <<>>
                                        ELSE Into(T[i - 1], p[i])
    BY <1>7
  <2>2. 0 \in 0..n /\ \A i \in 1..n : i \in 0..n /\ i # 0
    OBVIOUS
  <2> QED
    BY <2>1, <2>2
<1> HIDE DEF Solves
<1> QED
  BY <1>1, <1>7, <1>8

\* A path with nothing special in it leads where it says.
LEMMA PlainLeadsThere ==
    ASSUME NEW p \in Plain
    PROVE  Where(p) = p /\ p # Outside
<1>0. p \in Seq(Segments) /\ p # <<>>
  BY DEF Plain
<1>1. PICK n \in Nat : n = Len(p) /\ n >= 1 /\ \A i \in 1..n : p[i] \in Segments
  BY <1>0
<1>a. \A i \in 1..n : p[i] \notin {"", "."} /\ p[i] # ".."
  BY <1>1 DEF Plain
<1>2. ~Rooted(p) /\ p[1] # ".." /\ p[1] # ""
  <2>1. 1 \in 1..n
    BY <1>1
  <2> QED
    BY <1>a, <2>1 DEF Rooted
<1>3. PICK T : /\ T[0] = <<>> /\ \A i \in 1..n : T[i] = Into(T[i - 1], p[i])
               /\ Where(p) = T[n]
  BY <1>0, <1>1, <1>2, WherePassesThrough
<1>4. PICK A : A = {i \in 0..n : T[i] \in Seq(Segments) /\ Len(T[i]) = i /\ \A j \in 1..i : T[i][j] = p[j]}
  OBVIOUS
<1>5. 0 \in A
  <2>1. <<>> \in Seq(Segments) /\ Len(<<>>) = 0 /\ 1..0 = {}
    OBVIOUS
  <2>2. T[0] \in Seq(Segments) /\ Len(T[0]) = 0 /\ \A j \in 1..0 : T[0][j] = p[j]
    BY <1>3, <2>1
  <2>3. 0 \in 0..n
    BY <1>1
  <2> QED
    BY <1>4, <2>2, <2>3
<1>b. Outside[1] = ".."
  BY DEF Outside
<1>6. ASSUME NEW i \in 1..n, i - 1 \in A PROVE i \in A
  <2>1. PICK x \in Seq(Segments) :
           x = T[i - 1] /\ Len(x) = i - 1 /\ \A j \in 1..(i - 1) : x[j] = p[j]
    BY <1>4, <1>6
  <2>2. x # Outside
    <3>1. CASE i = 1
      BY <2>1, <3>1 DEF Outside
    <3>2. CASE i # 1
      <4>1. 1 \in 1..(i - 1)
        BY <1>1, <3>2
      <4> QED
        BY <1>2, <1>b, <2>1, <4>1
    <3> QED
      BY <3>1, <3>2
  <2>3. T[i] = Append(x, p[i])
    <3>1. p[i] \notin {"", "."} /\ p[i] # ".."
      BY <1>a
    <3> QED
      BY <1>3, <2>1, <2>2, <3>1 DEF Into
  <2>4. T[i] \in Seq(Segments) /\ Len(T[i]) = i /\ \A j \in 1..i : T[i][j] = p[j]
    <3>1. p[i] \in Segments /\ \A j \in 1..i : j \in 1..(i - 1) \/ j = i
      BY <1>1
    <3> QED
      BY <2>1, <2>3, <3>1
  <2> QED
    BY <1>1, <1>4, <2>4
<1>7. n \in A
  <2>1. n \in 0..n
    BY <1>1
  <2> QED
    BY <1>5, <1>6, <2>1, UpTo
<1>8. Where(p) = p
  <2>1. PICK y \in Seq(Segments) : y = Where(p) /\ Len(y) = n /\ \A j \in 1..n : y[j] = p[j]
    BY <1>3, <1>4, <1>7
  <2> QED
    BY <1>0, <1>1, <2>1
<1>9. p # Outside
  BY <1>2, <1>b
<1> QED
  BY <1>8, <1>9

\* The paths checkPaths accepts: the workspace itself, under one name, or a
\* path with nothing special in it.
LEMMA GoodPaths ==
    ASSUME NEW p \in Seq(Segments) \ {<<>>}, ~BadPath(p)
    PROVE  /\ Where(p) # Outside
           /\ (p = <<".">> /\ Where(p) = <<>>) \/ Where(p) = p
<1>1. p # <<"">> /\ ~Rooted(p) /\ p = Clean(p) /\ p[1] # ".."
  BY DEF BadPath
<1>2. CASE p = <<".">>
  <2>1. PICK T : T[0] = <<>> /\ T[1] = Into(T[0], ".") /\ Where(p) = T[1]
    <3>1. Len(p) = 1 /\ 1 \in 1..1 /\ p[1] = "." /\ 1 - 1 = 0
      BY <1>2
    <3>2. PICK T : /\ T[0] = <<>> /\ \A i \in 1..Len(p) : T[i] = Into(T[i - 1], p[i])
                   /\ Where(p) = T[Len(p)]
      BY <1>1, WherePassesThrough
    <3> QED
      BY <3>1, <3>2
  <2>2. <<>> # Outside
    BY DEF Outside
  <2>3. Where(p) = <<>>
    BY <2>1, <2>2 DEF Into
  <2> QED
    BY <1>2, <2>2, <2>3
<1>3. CASE p # <<".">>
  <2>1. p \in Tidy /\ p # <<>>
    BY <1>1, <1>3, CleanIsTidy
  <2>2. p \in Plain
    BY <1>1, <2>1, TidyIsPlain
  <2> QED
    BY <2>2, PlainLeadsThere
<1> QED
  BY <1>2, <1>3

\* No two of them lead to the same place.
LEMMA OneSpelling ==
    ASSUME NEW p \in Seq(Segments) \ {<<>>}, NEW q \in Seq(Segments) \ {<<>>},
           ~BadPath(p), ~BadPath(q), Where(p) = Where(q)
    PROVE  p = q
BY GoodPaths

-----------------------------------------------------------------------------
(* The load.                                                               *)

\* What the entries of a file that parses are made of.
LEMMA Entries ==
    ASSUME file \in Files, file # <<>>
    PROVE  /\ DOMAIN file = 1..N
           /\ \A i \in 1..N :
                 /\ file[i].name \in 0..N /\ file[i].deps \in Seq(Nat)
                 /\ Paths(file[i]) \subseteq Seq(Segments) \ {<<>>}
                 /\ file[i].command \in BOOLEAN /\ file[i].blankEnv \in BOOLEAN
                 /\ \A d \in Names :
                       Cardinality({j \in DOMAIN file[i].deps : file[i].deps[j] = d}) <= MaxCopies
<1>1. file \in Files \ {<<>>}
  OBVIOUS
<1>2. file = [i \in 1..N |-> file[i]]
  BY <1>1, FilesAssumption
<1>3. ASSUME NEW i \in 1..N
      PROVE  /\ file[i].name \in 0..N /\ file[i].deps \in Seq(Nat)
             /\ Paths(file[i]) \subseteq Seq(Segments) \ {<<>>}
             /\ file[i].command \in BOOLEAN /\ file[i].blankEnv \in BOOLEAN
             /\ \A d \in Names :
                   Cardinality({j \in DOMAIN file[i].deps : file[i].deps[j] = d}) <= MaxCopies
  <2>1. /\ file[i].name \in 0..N /\ file[i].deps \in Seq(Nat)
        /\ \A d \in Names :
              Cardinality({j \in DOMAIN file[i].deps : file[i].deps[j] = d}) <= MaxCopies
        /\ {file[i].inputs, file[i].outputs} \subseteq Seq(Seq(Segments) \ {<<>>})
        /\ {file[i].command, file[i].blankEnv, file[i].extraField} \subseteq BOOLEAN
    BY <1>1, FilesAssumption
  <2>2. PICK X, s, t : X = Seq(Segments) \ {<<>>} /\ s = file[i].inputs /\ t = file[i].outputs
                       /\ s \in Seq(X) /\ t \in Seq(X)
    BY <2>1
  <2>3. ToSet(s) \subseteq X /\ ToSet(t) \subseteq X
    <3>1. \A z \in Seq(X) : \A k \in DOMAIN z : z[k] \in X
      OBVIOUS
    <3> QED
      BY <2>2, <3>1 DEF ToSet
  <2>4. Paths(file[i]) \subseteq X
    BY <2>2, <2>3 DEF Paths
  <2> QED
    BY <2>1, <2>2, <2>4
<1> QED
  BY <1>2, <1>3

\* Validate reports everything it looks for.
LEMMA Reported ==
    ASSUME NEW i
    PROVE  /\ i \in DOMAIN file \ Named => <<i, "name">> \in Problems
           /\ i \in Named =>
                 /\ (\E j \in 1..(i - 1) : file[j].name = file[i].name) => <<i, "twice">> \in Problems
                 /\ ~file[i].command => <<i, "command">> \in Problems
                 /\ file[i].outputs = <<>> => <<i, "outputs">> \in Problems
                 /\ file[i].name \in ToSet(file[i].deps) => <<i, "self">> \in Problems
                 /\ ToSet(file[i].deps) \ (Seen \union {file[i].name}) # {}
                       => <<i, "unknown">> \in Problems
                 /\ (\E p \in Paths(file[i]) : BadPath(p)) => <<i, "path">> \in Problems
                 /\ file[i].blankEnv => <<i, "env">> \in Problems
BY DEF Problems, Report

\* No flaw goes unreported.
LEMMA FlawsAreReported ==
    ASSUME file \in Files, file # <<>>, NEW i \in 1..N, Flawed(i)
    PROVE  \E what : <<i, what>> \in Problems
<1>1. i \in DOMAIN file /\ file[i].name \in 0..N /\ Paths(file[i]) \subseteq Seq(Segments) \ {<<>>}
  BY Entries
<1>2. CASE file[i].name = 0
  <2>1. i \in DOMAIN file \ Named
    BY <1>1, <1>2 DEF Named
  <2> QED
    BY <2>1, Reported
<1>3. CASE file[i].name # 0
  <2>1. i \in Named /\ file[i].name \in Names
    BY <1>1, <1>3, NAssumption DEF Named, Names
  <2>2. CASE ~file[i].command \/ file[i].outputs = <<>> \/ file[i].blankEnv
    BY <2>1, <2>2, Reported
  <2>3. CASE ~ToSet(file[i].deps) \subseteq Seen \ {file[i].name}
    <3>1. PICK d \in ToSet(file[i].deps) : d \notin Seen \/ d = file[i].name
      BY <2>3
    <3>2. CASE d = file[i].name
      BY <2>1, <3>2, Reported
    <3>3. CASE d # file[i].name
      <4>1. ToSet(file[i].deps) \ (Seen \union {file[i].name}) # {}
        BY <3>1, <3>3
      <4> QED
        BY <2>1, <4>1, Reported
    <3> QED
      BY <3>2, <3>3
  <2>4. CASE \E p \in Paths(file[i]) : Where(p) = Outside
    <3>1. PICK p \in Paths(file[i]) : Where(p) = Outside
      BY <2>4
    <3>2. BadPath(p)
      BY <1>1, <3>1, GoodPaths
    <3> QED
      BY <2>1, <3>2, Reported
  <2> QED
    BY <2>1, <2>2, <2>3, <2>4 DEF Flawed
<1> QED
  BY <1>2, <1>3

\* What a file without problems is.
LEMMA NothingReported ==
    ASSUME file \in Files, file # <<>>, Problems = {}
    PROVE  /\ \A i \in 1..N :
                 /\ ~Flawed(i) /\ file[i].name \in Names
                 /\ ToSet(file[i].deps) \subseteq Seen \ {file[i].name}
                 /\ \A p \in Paths(file[i]) : ~BadPath(p)
           /\ \A i, j \in 1..N : file[i].name = file[j].name => i = j
           /\ Seen = Names
<1>1. DOMAIN file = 1..N
  BY Entries
<1>2. ASSUME NEW i \in 1..N PROVE ~Flawed(i)
  BY FlawsAreReported
<1>3. ASSUME NEW i \in 1..N
      PROVE  /\ file[i].name \in Names /\ i \in Named
             /\ ToSet(file[i].deps) \subseteq Seen \ {file[i].name}
             /\ \A p \in Paths(file[i]) : ~BadPath(p)
             /\ \A j \in 1..(i - 1) : file[j].name # file[i].name
  <2>1. file[i].name \in Names /\ ToSet(file[i].deps) \subseteq Seen \ {file[i].name}
    BY <1>2 DEF Flawed
  <2>2. i \in Named
    BY <1>1, Reported
  <2> QED
    BY <2>1, <2>2, Reported
<1>4. ASSUME NEW i \in 1..N, NEW j \in 1..N, file[i].name = file[j].name PROVE i = j
  <2>1. CASE i < j
    <3>1. i \in 1..(j - 1)
      BY <2>1, NAssumption
    <3> QED
      BY <1>3, <1>4, <3>1
  <2>2. CASE j < i
    <3>1. j \in 1..(i - 1)
      BY <2>2, NAssumption
    <3> QED
      BY <1>3, <1>4, <3>1
  <2> QED
    BY <2>1, <2>2, NAssumption
<1>5. Seen = Names
  <2>1. PICK f : f = [i \in Names |-> file[i].name]
    OBVIOUS
  <2>2. f \in Injection(Names, Names)
    <3>1. f \in [Names -> Names]
      BY <1>3, <2>1 DEF Names
    <3>2. IsInjective(f)
      BY <1>4, <2>1 DEF IsInjective, Names
    <3> QED
      BY <3>1, <3>2 DEF Injection
  <2>3. f \in Surjection(Names, Names)
    <3>1. IsFiniteSet(Names)
      BY NamesAreFinite
    <3> QED
      BY <2>2, <3>1, FS_Injection
  <2>4. \A n \in Names : \E i \in Names : file[i].name = n
    BY <2>1, <2>3 DEF Surjection
  <2>5. \A n \in Names : n \in Seen
    BY <1>3, <2>4 DEF Seen, Names
  <2>6. \A i \in Named : i \in 1..N /\ file[i].name \in Names
    BY <1>1, <1>3 DEF Named
  <2>7. Seen \subseteq Names
    BY <2>6 DEF Seen
  <2> QED
    BY <2>5, <2>7
<1> QED
  BY <1>2, <1>3, <1>4, <1>5

\* graph.New then makes a graph of it, the one it describes.
LEMMA NewIsTheGraph ==
    ASSUME file \in Files, file # <<>>, Problems = {}
    PROVE  /\ New \in [Names -> [Names -> 0..MaxCopies]]
           /\ \A n \in Names : New[n][n] = 0
           /\ \A i \in 1..N : {d \in Names : New[file[i].name][d] > 0} = ToSet(file[i].deps)
<1>1. DOMAIN file = 1..N
  BY Entries
<1>2. /\ Seen = Names
      /\ \A i \in 1..N : /\ file[i].name \in Names
                         /\ ToSet(file[i].deps) \subseteq Names \ {file[i].name}
      /\ \A i, j \in 1..N : file[i].name = file[j].name => i = j
  BY NothingReported
<1> DEFINE C(i, d) == {j \in DOMAIN file[i].deps : file[i].deps[j] = d}
<1>3. ASSUME NEW i \in 1..N, NEW d \in Names
      PROVE  /\ Cardinality(C(i, d)) \in 0..MaxCopies
             /\ Cardinality(C(i, d)) > 0 <=> d \in ToSet(file[i].deps)
  <2>1. file[i].deps \in Seq(Nat) /\ Cardinality(C(i, d)) <= MaxCopies
    BY <1>3, Entries
  <2>2. PICK k \in Nat : DOMAIN file[i].deps = 1..k
    BY <2>1
  <2>3. IsFiniteSet(1..k)
    BY <2>2, FS_Interval
  <2>4. C(i, d) \in SUBSET (1..k)
    BY <2>2
  <2>5. IsFiniteSet(C(i, d)) /\ Cardinality(C(i, d)) \in Nat
    <3> HIDE DEF C
    <3> QED
      BY <2>3, <2>4, FS_Subset, FS_CardinalityType
  <2>6. Cardinality(C(i, d)) = 0 <=> C(i, d) = {}
    <3> HIDE DEF C
    <3> QED
      BY <2>5, FS_EmptySet
  <2>7. C(i, d) = {} <=> d \notin ToSet(file[i].deps)
    BY DEF ToSet
  <2>8. Cardinality(C(i, d)) \in 0..MaxCopies
    BY <2>1, <2>5, MaxCopiesAssumption
  <2> HIDE DEF C
  <2> QED
    BY <2>5, <2>6, <2>7, <2>8
<1>4. ASSUME NEW i \in 1..N
      PROVE  New[file[i].name] = [d \in Names |-> Cardinality(C(i, d))]
  <2>1. PICK n \in Names : n = file[i].name
    BY <1>2
  <2>2. PICK w : w = CHOOSE j \in DOMAIN file : file[j].name = n
    OBVIOUS
  <2>3. w = i
    <3>1. \A j \in DOMAIN file : file[j].name = n <=> j = i
      BY <1>1, <1>2, <2>1
    <3>2. i \in DOMAIN file
      BY <1>1
    <3> QED
      BY <2>2, <3>1, <3>2
  <2>4. New[n] = [d \in Names |->
                    Cardinality({j \in DOMAIN file[w].deps : file[w].deps[j] = d})]
    BY <2>2 DEF New
  <2> QED
    BY <2>1, <2>3, <2>4
<1>5. \A n \in Names : \E i \in 1..N : file[i].name = n
  BY <1>1, <1>2 DEF Seen, Named
<1> HIDE DEF C
<1>6. ASSUME NEW n \in Names
      PROVE  New[n] \in [Names -> 0..MaxCopies] /\ New[n][n] = 0
  <2>1. PICK i \in 1..N : file[i].name = n
    BY <1>5
  <2>2. New[n] = [d \in Names |-> Cardinality(C(i, d))]
    BY <1>4, <2>1
  <2>3. New[n] \in [Names -> 0..MaxCopies]
    BY <1>3, <2>2
  <2>4. Cardinality(C(i, n)) \in 0..MaxCopies /\ ~(Cardinality(C(i, n)) > 0)
    BY <1>2, <1>3, <2>1
  <2>5. Cardinality(C(i, n)) = 0
    BY <2>4, MaxCopiesAssumption
  <2> QED
    BY <2>2, <2>3, <2>5
<1>7. New = [n \in Names |-> New[n]]
  BY DEF New
<1>8. New \in [Names -> [Names -> 0..MaxCopies]]
  BY <1>6, <1>7
<1>9. ASSUME NEW i \in 1..N
      PROVE  {d \in Names : New[file[i].name][d] > 0} = ToSet(file[i].deps)
  <2>1. \A d \in Names : New[file[i].name][d] = Cardinality(C(i, d))
    BY <1>4
  <2>2. \A d \in Names : New[file[i].name][d] > 0 <=> d \in ToSet(file[i].deps)
    BY <1>3, <2>1
  <2> QED
    BY <1>2, <2>2
<1> QED
  BY <1>6, <1>8, <1>9

\* What Load does, case by case.
LEMMA Loads ==
    ASSUME Load, outcome = "" => file \in Files
    PROVE  /\ file \in Files
           /\ \/ /\ problems' = {<<0, "parse">>} /\ outcome' = "rejected" /\ UNCHANGED copies
              \/ /\ file # <<>> /\ Problems # {} /\ problems' = Problems
                 /\ outcome' = "rejected" /\ UNCHANGED copies
              \/ /\ file # <<>> /\ Problems = {} /\ outcome' = "loaded" /\ copies' = New
<1>1. file \in Files
  BY DEF Load
<1>2. /\ problems' = IF file = <<>> \/ \E i \in DOMAIN file : file[i].extraField
                     THEN {<<0, "parse">>} ELSE Problems
      /\ problems' # {} => outcome' = "rejected"
      /\ problems' = {} /\ ~(\E i \in DOMAIN file : ~ToSet(file[i].deps) \subseteq Seen)
            => outcome' = "loaded"
      /\ copies' = IF outcome' = "loaded" THEN New ELSE copies
  <2>1. outcome' = IF problems' # {} THEN "rejected"
                   ELSE IF \E i \in DOMAIN file : ~ToSet(file[i].deps) \subseteq Seen
                        THEN "mismatch" ELSE "loaded"
    BY DEF Load
  <2>2. problems' # {} => outcome' = "rejected"
    BY <2>1
  <2>3. problems' = {} /\ ~(\E i \in DOMAIN file : ~ToSet(file[i].deps) \subseteq Seen)
           => outcome' = "loaded"
    BY <2>1
  <2>4. /\ problems' = IF file = <<>> \/ \E i \in DOMAIN file : file[i].extraField
                       THEN {<<0, "parse">>} ELSE Problems
        /\ copies' = IF outcome' = "loaded" THEN New ELSE copies
    BY DEF Load
  <2> QED
    BY <2>2, <2>3, <2>4
<1>3. CASE file = <<>> \/ \E i \in DOMAIN file : file[i].extraField
  <2>1. problems' = {<<0, "parse">>}
    BY <1>2, <1>3
  <2>2. problems' # {}
    BY <2>1
  <2> QED
    BY <1>1, <1>2, <2>1, <2>2
<1>4. CASE ~(file = <<>> \/ \E i \in DOMAIN file : file[i].extraField)
  <2>1. problems' = Problems /\ file # <<>>
    BY <1>2, <1>4
  <2>2. CASE Problems # {}
    BY <1>1, <1>2, <2>1, <2>2
  <2>3. CASE Problems = {}
    <3>1. \A i \in DOMAIN file : ToSet(file[i].deps) \subseteq Seen
      <4>1. DOMAIN file = 1..N
        BY <1>1, <2>1, Entries
      <4>2. \A i \in 1..N : ToSet(file[i].deps) \subseteq Seen \ {file[i].name}
        BY <1>1, <2>1, <2>3, NothingReported
      <4> QED
        BY <4>1, <4>2
    <3>2. outcome' = "loaded" /\ copies' = New
      BY <1>2, <2>1, <2>3, <3>1
    <3> QED
      BY <1>1, <2>1, <2>3, <3>2
  <2> QED
    BY <2>2, <2>3
<1> QED
  BY <1>3, <1>4

\* From the file to the critical path: nothing happens to a graph before its
\* file is loaded.
MInv ==
    /\ GInv /\ CPInv
    /\ outcome = "" => file \in Files
    /\ outcome # "loaded" => GInit /\ CPStart

LEMMA InitMInv == MInit => MInv
<1> SUFFICES ASSUME MInit PROVE MInv
  OBVIOUS
<1>1. GInit
  <2>1. 0 \in 0..MaxCopies
    BY MaxCopiesAssumption
  <2>2. copies \in [Names -> [Names -> 0..MaxCopies]] /\ \A n \in Names : copies[n][n] = 0
    BY <2>1 DEF MInit
  <2> QED
    BY <2>2 DEF MInit, GInit
<1>2. GInv
  BY <1>1, InitGInv
<1>3. CPInv
  BY <1>2, UnmeasuredCPInv DEF MInit, CPStart, Unmeasured, GInv
<1> QED
  BY <1>1, <1>2, <1>3 DEF MInv, MInit

LEMMA LoadKeeps == MInv /\ Load => MInv' /\ (outcome' = "loaded" => GInit')
<1> SUFFICES ASSUME MInv, Load PROVE MInv' /\ (outcome' = "loaded" => GInit')
  OBVIOUS
<1>1. /\ outcome = "" /\ GInit /\ CPStart /\ (outcome = "" => file \in Files)
      /\ UNCHANGED <<phase, kahn, search, cpvars>>
  BY DEF MInv, Load
<1>2. outcome' # "" /\ GInit' /\ CPStart'
  <2>1. GStart' /\ CPStart'
    BY <1>1 DEF GInit, GStart, CPStart, kahn, search, cpvars
  <2>2. CASE UNCHANGED copies /\ outcome' = "rejected"
    BY <1>1, <2>1, <2>2 DEF GInit
  <2>3. CASE file # <<>> /\ Problems = {} /\ outcome' = "loaded" /\ copies' = New
    <3>1. file \in Files
      BY <1>1
    <3>2. New \in [Names -> [Names -> 0..MaxCopies]] /\ \A n \in Names : New[n][n] = 0
      BY <2>3, <3>1, NewIsTheGraph
    <3> QED
      BY <2>1, <2>3, <3>2 DEF GInit
  <2> QED
    BY <1>1, <2>2, <2>3, Loads
<1>3. GInv'
  BY <1>2, InitGInv, PTL
<1>4. CPInv'
  <2>1. GTyped'
    BY <1>3 DEF GInv
  <2>2. Unmeasured'
    BY <1>2 DEF CPStart, Unmeasured
  <2> QED
    BY <2>1, <2>2, UnmeasuredCPInv, PTL
<1> QED
  BY <1>2, <1>3, <1>4 DEF MInv

LEMMA NextMInv == MInv /\ [MNext]_<<vars, mvars>> => MInv'
<1> SUFFICES ASSUME MInv, [MNext]_<<vars, mvars>> PROVE MInv'
  OBVIOUS
<1>1. CASE outcome = "loaded" /\ Next /\ UNCHANGED mvars
  <2>1. GInv' /\ CPInv' /\ outcome' = "loaded"
    BY <1>1, NextKeeps DEF MInv, mvars
  <2> QED
    BY <2>1 DEF MInv
<1>2. CASE UNCHANGED <<vars, mvars>>
  <2>1. GInv' /\ CPInv'
    BY <1>2, NextKeeps DEF MInv
  <2>2. UNCHANGED <<copies, phase, kahn, search, cpvars, outcome, file>>
    BY <1>2 DEF vars, gvars, mvars
  <2>3. (outcome = "" => file \in Files)' /\ (outcome # "loaded" => GInit /\ CPStart)'
    BY <2>2 DEF MInv, GInit, GStart, CPStart, kahn, search, cpvars
  <2> QED
    BY <2>1, <2>3 DEF MInv
<1> QED
  BY <1>1, <1>2, LoadKeeps DEF MNext

LEMMA LoadedInductive == MSpec => []MInv
BY InitMInv, NextMInv, PTL DEF MSpec

-----------------------------------------------------------------------------
LEMMA LoadsSoundly ==
    MInv /\ Load =>
        /\ outcome' # "mismatch"
        /\ outcome' = "loaded" =>
              /\ {i \in DOMAIN file : Flawed(i)} = {} /\ Seen = Names
              /\ \A p, q \in PathsOf(file) : Where(p) = Where(q) => p = q
              /\ GInit'
              /\ \A i \in DOMAIN file :
                    {d \in Names : copies'[file[i].name][d] > 0} = ToSet(file[i].deps)
        /\ outcome' = "rejected" /\ <<0, "parse">> \notin problems' =>
              \A i \in DOMAIN file :
                  Flawed(i) => \E what \in {r[2] : r \in problems'} : <<i, what>> \in problems'
<1> SUFFICES ASSUME MInv, Load
             PROVE  /\ outcome' # "mismatch"
                    /\ outcome' = "loaded" =>
                          /\ {i \in DOMAIN file : Flawed(i)} = {} /\ Seen = Names
                          /\ \A p, q \in PathsOf(file) : Where(p) = Where(q) => p = q
                          /\ GInit'
                          /\ \A i \in DOMAIN file :
                                {d \in Names : copies'[file[i].name][d] > 0} = ToSet(file[i].deps)
                    /\ outcome' = "rejected" /\ <<0, "parse">> \notin problems' =>
                          \A i \in DOMAIN file :
                              Flawed(i) => \E what \in {r[2] : r \in problems'} :
                                              <<i, what>> \in problems'
  OBVIOUS
<1>1. outcome = "" => file \in Files
  BY DEF MInv
<1>2. CASE outcome' = "rejected" /\ problems' = {<<0, "parse">>}
  BY <1>2
<1>3. CASE file # <<>> /\ Problems # {} /\ problems' = Problems /\ outcome' = "rejected"
  <2>1. file \in Files
    BY <1>1, Loads
  <2>2. ASSUME NEW i \in DOMAIN file, Flawed(i)
        PROVE  \E what \in {r[2] : r \in problems'} : <<i, what>> \in problems'
    <3>1. i \in 1..N
      BY <1>3, <2>1, Entries
    <3>2. PICK what : <<i, what>> \in Problems
      BY <1>3, <2>1, <2>2, <3>1, FlawsAreReported
    <3>3. <<i, what>>[2] = what
      OBVIOUS
    <3>4. what \in {r[2] : r \in problems'}
      BY <1>3, <3>2, <3>3
    <3> QED
      BY <1>3, <3>2, <3>4
  <2> QED
    BY <1>3, <2>2
<1>4. CASE file # <<>> /\ Problems = {} /\ outcome' = "loaded" /\ copies' = New
  <2>1. file \in Files
    BY <1>1, Loads
  <2>2. DOMAIN file = 1..N /\ \A i \in 1..N : Paths(file[i]) \subseteq Seq(Segments) \ {<<>>}
    BY <1>4, <2>1, Entries
  <2>3. Seen = Names /\ \A i \in 1..N : ~Flawed(i) /\ \A p \in Paths(file[i]) : ~BadPath(p)
    BY <1>4, <2>1, NothingReported
  <2>4. ASSUME NEW p \in PathsOf(file), NEW q \in PathsOf(file), Where(p) = Where(q)
        PROVE  p = q
    <3>1. \A y \in PathsOf(file) : y \in Seq(Segments) \ {<<>>} /\ ~BadPath(y)
      BY <2>2, <2>3 DEF PathsOf
    <3> QED
      BY <2>4, <3>1, OneSpelling
  <2>5. GInit'
    BY <1>4, LoadKeeps
  <2>6. \A i \in DOMAIN file :
           {d \in Names : copies'[file[i].name][d] > 0} = ToSet(file[i].deps)
    BY <1>4, <2>1, <2>2, NewIsTheGraph
  <2>7. {i \in DOMAIN file : Flawed(i)} = {}
    BY <2>2, <2>3
  <2> QED
    BY <1>4, <2>3, <2>4, <2>5, <2>6, <2>7
<1> QED
  BY <1>1, <1>2, <1>3, <1>4, Loads

\* What load hands to the drivers is a graph they can take, whatever stands in
\* the file, and what it refuses is reported in full (manifest.Parse, Validate
\* and graph.New).
THEOREM LoadTakesOnlyGraphs == MSpec => LoadIsSound
<1>1. MInv /\ [MNext]_<<vars, mvars>> =>
        [Load =>
            /\ outcome' # "mismatch"
            /\ outcome' = "loaded" =>
                  /\ {i \in DOMAIN file : Flawed(i)} = {} /\ Seen = Names
                  /\ \A p, q \in PathsOf(file) : Where(p) = Where(q) => p = q
                  /\ GInit'
                  /\ \A i \in DOMAIN file :
                        {d \in Names : copies'[file[i].name][d] > 0} = ToSet(file[i].deps)
            /\ outcome' = "rejected" /\ <<0, "parse">> \notin problems' =>
                  \A i \in DOMAIN file :
                      Flawed(i) => \E what \in {r[2] : r \in problems'} :
                                      <<i, what>> \in problems'
        ]_<<vars, mvars>>
  BY LoadsSoundly
<1> QED
  BY <1>1, LoadedInductive, PTL DEF MSpec, LoadIsSound

LEMMA GraphHolds == MInv => GInv /\ CPInv
BY DEF MInv

\* The drivers' order of a loaded file runs each action once, after all that it
\* depends on, and so do all its beginnings.
THEOREM LoadedOrderRespectsDependencies == MSpec => []OrderIsTopological
BY GraphHolds, OrdersByDependence, LoadedInductive, PTL

\* A loaded file has an order exactly when no set of its actions waits for
\* itself.
THEOREM LoadedOrderExactlyIfAcyclic == MSpec => []OrderIffAcyclic
BY GraphHolds, OrdersIfAcyclic, LoadedInductive, PTL

\* The order of a loaded file is the first by name, however its entries are
\* listed.
THEOREM LoadedOrderIsDetermined == MSpec => []OrderIsCanonical
BY GraphHolds, OrdersByName, LoadedInductive, PTL

\* A loaded file that has no order is told a real cycle.
THEOREM LoadedCycleIsFound == MSpec => []CycleIsReal
BY GraphHolds, FindsCycle, LoadedInductive, PTL

\* The length of the critical path bounds every build: it is that of a chain of
\* dependent actions, and no chain takes longer (CriticalPath).
THEOREM CriticalPathIsLongest == MSpec => []LengthIsTheLongest
BY GraphHolds, PathIsLongest, LoadedInductive, PTL

\* Actions of zero duration do not cut the path short at either end, nor
\* leave out a step (the tie on depth in better).
THEOREM CriticalPathSpans == MSpec => []PathSpansTheGraph
BY GraphHolds, PathIsLongest, LoadedInductive, PTL

=============================================================================
