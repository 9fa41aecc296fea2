-------------------------- MODULE IncrementalProofs --------------------------
(***************************************************************************)
(* Theorems about one build after another in one workspace, for any        *)
(* number of actions, any files, commands and manifests, and any number of *)
(* builds and troubles.  A step is looked at from two sides: what it does  *)
(* to the action that moves, and what the others see of it (Alone), which  *)
(* is next to nothing where every file has one writer and its readers wait *)
(* for it.                                                                 *)
(***************************************************************************)
EXTENDS Incremental, FiniteSetTheorems, TLAPS

\* Where an action goes over its outputs, where it has a key, and where it is over.
Loops == {"restore", "harvest", "put"}
Keyed == {"hash", "restore", "exec", "harvest", "verify", "put"}
Final == {"built", "failed", "skipped"}
Reading(a) == Range(Reads[manifest[a].cmd])

\* The types the proofs need.
ITyped ==
    /\ manifest \in Manifests /\ option \in Options
    /\ disk = [f \in Files |-> disk[f]]
    /\ phase \in {"on", "off"} /\ quiet \in BOOLEAN /\ settled \in BOOLEAN /\ upgraded \in BOOLEAN
    /\ pc \in [Actions -> Keyed \union Final \union {"wait", "tool"}]
    /\ key = [a \in Actions |-> key[a]] /\ box = [a \in Actions |-> box[a]]
    /\ done = [a \in Actions |-> done[a]]
    /\ tool \in {1, 2} /\ memo \in {0, 1, 2}

\* No build runs when none runs, and an action is worked on after those it waits
\* for.
Disciplined ==
    /\ phase = "off" => exposed = {} /\ \A a \in Actions : pc[a] \in Final \union {"wait"}
    /\ phase = "on" \/ quiet =>
          \A a \in Actions : pc[a] \in Keyed \union {"tool", "built"} =>
              \A d \in manifest[a].deps : pc[d] = "built"
    /\ quiet => exposed = {} /\ ~upgraded
    /\ \A a \in Actions : pc[a] \in {"tool", "hash", "restore", "put"} => option.cache
    /\ (phase = "on" \/ quiet) /\ ~upgraded /\ memo # 0 => memo = tool
    /\ phase = "on" /\ settled /\ memo # 0 => memo = tool

\* The loops over the outputs.
Looping(a) ==
    /\ done[a] \in Seq(Range(done[a]))
    /\ pc[a] \in Loops => Len(done[a]) < Len(Outputs(a))
    /\ pc[a] \notin Loops => done[a] = <<>>

\* The key says what the action works on, as long as nobody interferes.
KeyedRight(a) ==
    (phase = "on" \/ quiet) /\ option.cache /\ pc[a] \in Keyed \union {"built"} =>
        /\ memo # 0 /\ key[a] = KeyOf(a, memo, key[a].in)
        /\ Hashed(a) \subseteq Inputs(a) /\ key[a].in = [f \in Hashed(a) |-> key[a].in[f]]
        /\ pc[a] # "hash" => Hashed(a) = Inputs(a)
        /\ (IF pc[a] = "built" THEN quiet ELSE a \notin exposed) =>
              \A f \in Hashed(a) : key[a].in[f] = disk[f]

\* Nothing the action relies on has changed since it read it.
Sure(a) == quiet \/ (option.cache /\ a \notin exposed /\ ~upgraded)

\* What its command makes of the workspace as it is.
Makes(a, o) ==
    Made(manifest[a].cmd, tool, o,
         [i \in DOMAIN Reads[manifest[a].cmd] |-> disk[Reads[manifest[a].cmd][i]]])

\* The first n outputs are there, and are what the command makes.
MadeUpTo(a, n) ==
    /\ Reading(a) \subseteq Inputs(a)
    /\ \A i \in 1..n : disk[Outputs(a)[i]] = Makes(a, Outputs(a)[i])

\* Keys whose entries nobody vouches for.
Doubtful == suspect \union loose

\* As far as the action has come, all that is there of it is what the command makes.
AsMade(a) ==
    /\ pc[a] = "harvest" =>
          /\ MadeUpTo(a, Len(done[a]))
          /\ \A o \in DOMAIN box[a] : box[a][o] = Makes(a, o)
    /\ pc[a] \in {"verify", "put"} => MadeUpTo(a, Len(Outputs(a)))
    /\ pc[a] = "put" => \A i \in 1..Len(done[a]) : done[a][i] = Makes(a, Outputs(a)[i])
    /\ pc[a] = "restore" /\ key[a] \notin Doubtful /\ done[a] # <<>> /\ quiet =>
          MadeUpTo(a, Len(done[a]))
    /\ pc[a] = "built" /\ key[a] \notin Doubtful /\ quiet => MadeUpTo(a, Len(Outputs(a)))

\* In a sandbox what is in the workspace, the sandbox and the entry to be is what
\* the command makes, as long as nothing it relies on was changed.
Honest(a) == (phase = "on" \/ quiet) /\ option.sandbox /\ Sure(a) => AsMade(a)

\* The inductive invariant.
WInv ==
    /\ ITyped /\ Disciplined /\ StoreIsTrue
    /\ \A a \in Actions : Looping(a) /\ KeyedRight(a) /\ Honest(a)

-----------------------------------------------------------------------------
\* What the assumption says of the manifest that is being built.
LEMMA Declared ==
    ASSUME ITyped, NEW a \in Actions
    PROVE  /\ Outputs(a) \in Seq(Files) /\ Len(Outputs(a)) \in Nat \ {0}
           /\ Range(Outputs(a)) = {Outputs(a)[i] : i \in 1..Len(Outputs(a))}
           /\ Range(Outputs(a)) \subseteq Files /\ Inputs(a) \subseteq Files
           /\ Reading(a) \subseteq Files /\ manifest[a].deps \subseteq 1..(a - 1)
<1>1. /\ manifest[a].deps \subseteq 1..(a - 1) /\ Outputs(a) \in Seq(Files) /\ Outputs(a) # <<>>
      /\ Inputs(a) \union Reading(a) \subseteq Files
  BY ManifestsAssumption DEF ITyped, Outputs, Inputs, Reading
<1>2. Len(Outputs(a)) \in Nat \ {0}
  BY <1>1
<1>3. Range(Outputs(a)) = {Outputs(a)[i] : i \in 1..Len(Outputs(a))}
  BY <1>1 DEF Range
<1>4. Range(Outputs(a)) \subseteq Files
  BY <1>1, <1>3
<1> QED
  BY <1>1, <1>2, <1>3, <1>4

\* The output a loop is at is one of the action's.
LEMMA CurrentIsOutput ==
    ASSUME ITyped, NEW a \in Actions, Looping(a), pc[a] \in Loops
    PROVE  /\ Current(a) \in Range(Outputs(a)) /\ Current(a) \in Files
           /\ Len(done[a]) \in Nat /\ Len(done[a]) + 1 \in 1..Len(Outputs(a))
           /\ Current(a) = Outputs(a)[Len(done[a]) + 1]
<1>1. Len(done[a]) \in Nat
  BY DEF Looping
<1>2. Len(done[a]) + 1 \in 1..Len(Outputs(a))
  BY <1>1, Declared DEF Looping
<1> QED
  BY <1>1, <1>2, Declared DEF Current

\* What is still worked on is no ancestor of what is worked on or built, so it
\* writes none of its files.
LEMMA Separate ==
    ASSUME WellFormed, ITyped, Disciplined, phase = "on" \/ quiet,
           NEW a \in Actions, NEW b \in Actions, a # b,
           pc[a] \in Keyed \union {"tool", "built"}, pc[b] # "built"
    PROVE  /\ Range(Outputs(b)) \cap Inputs(a) = {}
           /\ Range(Outputs(b)) \cap Range(Outputs(a)) = {}
<1>1. Range(Outputs(b)) \cap Range(Outputs(a)) = {}
  BY DEF WellFormed, ITyped, Outputs
<1>2. Range(Outputs(b)) \cap Inputs(a) # {} => b \in Ancestors(manifest, a)
  BY DEF WellFormed, ITyped, Outputs, Inputs
<1>3. PICK C : C = {c \in Actions : pc[c] = "built"}
  OBVIOUS
<1>4. manifest[a].deps \subseteq C /\ \A c \in C : manifest[c].deps \subseteq C
  <2>1. \A c \in Actions : manifest[c].deps \subseteq Actions
    BY Declared, NAssumption DEF Actions
  <2> QED
    BY <1>3, <2>1 DEF Disciplined
<1>5. b \notin Ancestors(manifest, a)
  BY <1>3, <1>4 DEF Ancestors
<1> QED
  BY <1>1, <1>2, <1>5

\* Two actions have different outputs, so different keys.
LEMMA KeysDiffer ==
    ASSUME WellFormed, ITyped, NEW a \in Actions, NEW b \in Actions, a # b,
           NEW s, NEW t, NEW x, NEW y
    PROVE  KeyOf(a, s, x) # KeyOf(b, t, y)
<1>1. Outputs(a)[1] \in Range(Outputs(a)) /\ Outputs(b)[1] \in Range(Outputs(b))
  BY Declared
<1>2. Range(Outputs(b)) \cap Range(Outputs(a)) = {}
  BY DEF WellFormed, ITyped, Outputs
<1>3. Outputs(a) # Outputs(b)
  BY <1>1, <1>2
<1> QED
  BY <1>3 DEF KeyOf

\* What the command makes depends on what it reads.
LEMMA SameMakes ==
    ASSUME NEW a \in Actions, NEW o, UNCHANGED <<manifest, tool>>,
           \A f \in Reading(a) : disk'[f] = disk[f]
    PROVE  Makes(a, o)' = Makes(a, o)
<1>1. PICK R : R = Reads[manifest[a].cmd]
  OBVIOUS
<1>2. \A j \in DOMAIN R : disk'[R[j]] = disk[R[j]]
  BY <1>1 DEF Reading, Range
<1>3. [j \in DOMAIN R |-> disk'[R[j]]] = [j \in DOMAIN R |-> disk[R[j]]]
  BY <1>2
<1> QED
  BY <1>1, <1>3 DEF Makes

\* Longer by one.
LEMMA Longer ==
    ASSUME NEW s, NEW c, s \in Seq(Range(s))
    PROVE  /\ Append(s, c) \in Seq(Range(Append(s, c)))
           /\ Len(Append(s, c)) = Len(s) + 1 /\ Len(s) \in Nat
           /\ \A i \in 1..Len(s) : Append(s, c)[i] = s[i]
           /\ Append(s, c)[Len(s) + 1] = c
<1>1. PICK S : S = Range(s) \union {c}
  OBVIOUS
<1>2. s \in Seq(S) /\ c \in S
  BY <1>1
<1>6. Append(s, c) \in Seq(S)
  BY <1>2
<1>3. PICK t \in Seq(S) : t = Append(s, c)
  BY <1>6
<1>4. /\ Len(t) = Len(s) + 1 /\ Len(s) \in Nat
      /\ \A i \in 1..Len(s) : t[i] = s[i]
      /\ t[Len(s) + 1] = c
  BY <1>2, <1>3
<1>5. t \in Seq(Range(t))
  BY <1>3 DEF Range
<1> QED
  BY <1>3, <1>4, <1>5

\* Before the first output.
LEMMA NothingYet == <<>> \in Seq(Range(<<>>)) /\ Len(<<>>) = 0 /\ DOMAIN <<>> = {}
BY DEF Range

-----------------------------------------------------------------------------
(* What others see of a step.                                              *)

\* Of the actions only b moves, and it writes its own outputs only.
Alone(b) ==
    /\ phase = "on" /\ pc[b] \notin Final
    /\ UNCHANGED <<manifest, tool, phase, option, exposed, upgraded, quiet>>
    /\ memo' = memo \/ memo = 0
    /\ \A a \in Actions \ {b} :
          pc'[a] = pc[a] /\ key'[a] = key[a] /\ box'[a] = box[a] /\ done'[a] = done[a]
    /\ \A f \in Files \ Range(Outputs(b)) : disk'[f] = disk[f]
    /\ pc[b] = "put" \/ Doubtful' = Doubtful
    /\ Doubtful' \ {key[b]} = Doubtful \ {key[b]}

\* What the command makes of the same files is still there.
LEMMA StillMade ==
    ASSUME ITyped, NEW a \in Actions, NEW n \in 0..Len(Outputs(a)), MadeUpTo(a, n),
           UNCHANGED <<manifest, tool>>,
           \A f \in Inputs(a) \union Range(Outputs(a)) : disk'[f] = disk[f]
    PROVE  MadeUpTo(a, n)'
<1>1. \A f \in Reading(a) : disk'[f] = disk[f]
  BY DEF MadeUpTo
<1>2. \A i \in 1..n : Outputs(a)[i] \in Range(Outputs(a))
  BY Declared
<1>3. \A i \in 1..n : Makes(a, Outputs(a)[i])' = Makes(a, Outputs(a)[i])
  <2>1. TAKE i \in 1..n
  <2>2. PICK o : o = Outputs(a)[i]
    OBVIOUS
  <2>3. Makes(a, o)' = Makes(a, o)
    BY <1>1, SameMakes
  <2>4. o' = o
    OBVIOUS
  <2> QED
    BY <2>2, <2>3 DEF Makes, Outputs
<1> QED
  BY <1>1, <1>2, <1>3 DEF MadeUpTo, Outputs, Inputs, Reading

LEMMA Bystanders ==
    ASSUME WellFormed, WInv, NEW b \in Actions, NEW a \in Actions \ {b}, Alone(b)
    PROVE  Looping(a)' /\ KeyedRight(a)' /\ Honest(a)'
<1>1. /\ ITyped /\ Disciplined /\ Looping(a) /\ KeyedRight(a) /\ Honest(a)
      /\ KeyedRight(b) /\ a \in Actions /\ a # b
  BY DEF WInv
<1>2. pc'[a] = pc[a] /\ key'[a] = key[a] /\ box'[a] = box[a] /\ done'[a] = done[a]
  BY DEF Alone
<1>3. Looping(a)'
  BY <1>1, <1>2 DEF Looping, Alone, Outputs
<1>4. pc[a] \in Keyed \union {"built"} =>
         \A f \in Inputs(a) \union Range(Outputs(a)) : f \in Files /\ disk'[f] = disk[f]
  BY <1>1, Separate, Declared DEF Alone, Final
<1>5. KeyedRight(a)'
  BY <1>1, <1>2, <1>4 DEF KeyedRight, Alone, KeyOf, Inputs, Outputs, Hashed
<1>6. option.cache /\ pc[a] \in Keyed \union {"built"} /\ key[a] \notin Doubtful' => key[a] \notin Doubtful
  <2>1. CASE pc[b] = "put"
    <3>1. option.cache /\ pc[a] \in Keyed \union {"built"} => key[a] # key[b]
      BY <1>1, <2>1, KeysDiffer DEF KeyedRight, Keyed, Alone
    <3> QED
      BY <3>1 DEF Alone
  <2> QED
    BY <2>1 DEF Alone
<1>7. ~option.cache => Doubtful' = Doubtful
  BY <1>1 DEF Alone, Disciplined
<1>8. ASSUME NEW n \in 0..Len(Outputs(a)), MadeUpTo(a, n), pc[a] \in Keyed \union {"built"}
      PROVE  MadeUpTo(a, n)'
  BY <1>1, <1>4, <1>8, StillMade DEF Alone
<1>9. ASSUME NEW o, pc[a] \in Keyed, Reading(a) \subseteq Inputs(a)
      PROVE  Makes(a, o)' = Makes(a, o)
  BY <1>4, <1>9, SameMakes DEF Alone
<1>10. Len(Outputs(a)) \in 0..Len(Outputs(a)) /\ (pc[a] \in Loops => Len(done[a]) \in 0..Len(Outputs(a)))
  BY <1>1, Declared DEF Looping
<1>11. Honest(a)'
  <2> SUFFICES ASSUME (phase = "on" \/ quiet)', option'.sandbox, Sure(a)'
               PROVE  AsMade(a)'
    BY DEF Honest
  <2>1. AsMade(a) /\ Outputs(a)' = Outputs(a) /\ quiet' = quiet
    BY <1>1 DEF Alone, Sure, Honest, Outputs
  <2>2. pc[a] = "harvest" => MadeUpTo(a, Len(done[a]))' /\ \A o \in DOMAIN box[a] : box[a][o] = Makes(a, o)'
    <3> SUFFICES ASSUME pc[a] = "harvest"
                 PROVE  MadeUpTo(a, Len(done[a]))' /\ \A o \in DOMAIN box[a] : box[a][o] = Makes(a, o)'
      OBVIOUS
    <3>1. PICK n \in 0..Len(Outputs(a)) : n = Len(done[a])
      BY <1>10 DEF Loops
    <3>2. MadeUpTo(a, n)' /\ Reading(a) \subseteq Inputs(a)
      BY <1>8, <2>1, <3>1 DEF AsMade, Keyed, MadeUpTo
    <3>3. MadeUpTo(a, Len(done[a]))'
      BY <1>2, <3>1, <3>2 DEF MadeUpTo
    <3> QED
      BY <1>9, <2>1, <3>2, <3>3 DEF AsMade, Keyed
  <2>3. pc[a] \in {"verify", "put"} => MadeUpTo(a, Len(Outputs(a)))'
    <3> SUFFICES ASSUME pc[a] \in {"verify", "put"} PROVE MadeUpTo(a, Len(Outputs(a)))'
      OBVIOUS
    <3>1. PICK n \in 0..Len(Outputs(a)) : n = Len(Outputs(a))
      BY <1>10
    <3>2. MadeUpTo(a, n)'
      BY <1>8, <2>1, <3>1 DEF AsMade, Keyed
    <3> QED
      BY <2>1, <3>1, <3>2 DEF MadeUpTo
  <2>4. pc[a] = "put" => \A i \in 1..Len(done[a]) : done[a][i] = Makes(a, Outputs(a)[i])'
    <3> SUFFICES ASSUME pc[a] = "put", NEW i \in 1..Len(done[a])
                 PROVE  done[a][i] = Makes(a, Outputs(a)[i])'
      OBVIOUS
    <3>1. PICK o : o = Outputs(a)[i]
      OBVIOUS
    <3>2. Makes(a, o)' = Makes(a, o)
      BY <1>9, <2>1 DEF AsMade, Keyed, MadeUpTo
    <3> QED
      BY <2>1, <3>1, <3>2 DEF AsMade, Makes
  <2>5. pc[a] = "restore" /\ key[a] \notin Doubtful' /\ done[a] # <<>> /\ quiet =>
           MadeUpTo(a, Len(done[a]))'
    <3> SUFFICES ASSUME pc[a] = "restore", key[a] \notin Doubtful', done[a] # <<>>, quiet
                 PROVE  MadeUpTo(a, Len(done[a]))'
      OBVIOUS
    <3>1. PICK n \in 0..Len(Outputs(a)) : n = Len(done[a])
      BY <1>10 DEF Loops
    <3>2. MadeUpTo(a, n)'
      BY <1>6, <1>7, <1>8, <2>1, <3>1 DEF AsMade, Keyed
    <3> QED
      BY <1>2, <3>1, <3>2 DEF MadeUpTo
  <2>6. pc[a] = "built" /\ key[a] \notin Doubtful' /\ quiet => MadeUpTo(a, Len(Outputs(a)))'
    <3> SUFFICES ASSUME pc[a] = "built", key[a] \notin Doubtful', quiet
                 PROVE  MadeUpTo(a, Len(Outputs(a)))'
      OBVIOUS
    <3>1. PICK n \in 0..Len(Outputs(a)) : n = Len(Outputs(a))
      BY <1>10
    <3>2. MadeUpTo(a, n)'
      BY <1>6, <1>7, <1>8, <2>1, <3>1 DEF AsMade
    <3> QED
      BY <2>1, <3>1, <3>2 DEF MadeUpTo
  <2> QED
    BY <1>2, <2>1, <2>2, <2>3, <2>4, <2>5, <2>6 DEF AsMade, Alone
<1> QED
  BY <1>3, <1>5, <1>11

\* What is left to show of a step, when one action moves.
LEMMA StepKeeps ==
    ASSUME WellFormed, WInv, NEW b \in Actions, Alone(b), ITyped', StoreIsTrue',
           Looping(b)', KeyedRight(b)', Honest(b)',
           pc'[b] \in Keyed \union {"tool", "built"} =>
               pc[b] # "wait" \/ \A d \in manifest[b].deps : pc[d] = "built",
           pc'[b] \in {"tool", "hash", "restore", "put"} => option.cache,
           settled' => settled, memo' = memo \/ memo' = tool
    PROVE  WInv'
<1>1. ITyped /\ Disciplined
  BY DEF WInv
<1>2. \A a \in Actions : manifest[a].deps \subseteq Actions
  BY <1>1, Declared, NAssumption DEF Actions
<1>3. \A a \in Actions : pc'[a] \in Keyed \union {"tool", "built"} =>
         \A d \in manifest[a].deps : pc'[d] = "built"
  <2>1. \A d \in Actions : pc[d] = "built" => pc'[d] = "built"
    BY DEF Alone, Final
  <2>2. \A a \in Actions : pc'[a] \in Keyed \union {"tool", "built"} =>
         \A d \in manifest[a].deps : pc[d] = "built"
    BY <1>1 DEF Disciplined, Alone, ITyped, Final, Keyed
  <2> QED
    BY <1>2, <2>1, <2>2
<1>4. Disciplined'
  BY <1>1, <1>3 DEF Disciplined, Alone, ITyped
<1>5. \A a \in Actions : Looping(a)' /\ KeyedRight(a)' /\ Honest(a)'
  BY Bystanders
<1> QED
  BY <1>4, <1>5 DEF WInv

LEMMA CheckInputsStep ==
    ASSUME WellFormed, WInv, NEW b \in Actions, CheckInputs(b) PROVE Alone(b) /\ WInv'
<1> PICK l \in {"failed", "tool", "exec"} :
        /\ pc' = [pc EXCEPT ![b] = l] /\ (l = "tool" <=> option.cache /\ l # "failed")
  BY DEF CheckInputs, Goto
<1>1. /\ ITyped /\ Disciplined /\ StoreIsTrue /\ Looping(b) /\ phase = "on" /\ pc[b] = "wait"
      /\ UNCHANGED <<world, store, process, key, box, done, truth, progress, bounds>>
      /\ \A d \in manifest[b].deps : pc[d] = "built"
  BY DEF WInv, CheckInputs
<1>2. ITyped' /\ StoreIsTrue'
  BY <1>1 DEF ITyped, StoreIsTrue, world, process, progress, truth, Keyed, Final
<1>3. Alone(b)
  BY <1>1 DEF Alone, ITyped, world, process, progress, truth, Doubtful, Final
<1>4. Looping(b)' /\ KeyedRight(b)' /\ Honest(b)'
  BY <1>1 DEF Looping, Loops, KeyedRight, Keyed, Honest, AsMade, ITyped, world, process, progress
<1> QED
  BY <1>1, <1>2, <1>3, <1>4, StepKeeps DEF process, progress, ITyped

LEMMA SkipStep ==
    ASSUME WellFormed, WInv, NEW b \in Actions, Skip(b) PROVE Alone(b) /\ WInv'
<1>1. /\ ITyped /\ Disciplined /\ StoreIsTrue /\ Looping(b) /\ phase = "on" /\ pc[b] = "wait"
      /\ UNCHANGED <<world, store, process, key, box, done, truth, progress, bounds>>
      /\ pc' = [pc EXCEPT ![b] = "skipped"]
  BY DEF WInv, Skip, Goto
<1>2. ITyped' /\ StoreIsTrue'
  BY <1>1 DEF ITyped, StoreIsTrue, world, process, progress, truth, Keyed, Final
<1>3. Alone(b)
  BY <1>1 DEF Alone, ITyped, world, process, progress, truth, Doubtful, Final
<1>4. Looping(b)' /\ KeyedRight(b)' /\ Honest(b)'
  BY <1>1 DEF Looping, Loops, KeyedRight, Keyed, Honest, AsMade, ITyped, world, process, progress
<1> QED
  BY <1>1, <1>2, <1>3, <1>4, StepKeeps DEF process, progress, ITyped, Keyed

\* A key just begun has hashed nothing.
LEMMA NothingHashed ==
    ASSUME NEW a, NEW t
    PROVE  /\ KeyOf(a, t, <<>>).in = <<>> /\ DOMAIN KeyOf(a, t, <<>>).in = {}
           /\ KeyOf(a, t, <<>>).in = [f \in {} |-> KeyOf(a, t, <<>>).in[f]]
<1>1. KeyOf(a, t, <<>>).in = <<>>
  BY DEF KeyOf
<1>2. <<>> = [f \in {} |-> <<>>[f]] /\ DOMAIN <<>> = {}
  OBVIOUS
<1> QED
  BY <1>1, <1>2

LEMMA DigestToolStep ==
    ASSUME WellFormed, WInv, NEW b \in Actions, DigestTool(b) PROVE Alone(b) /\ WInv'
<1>1. /\ ITyped /\ Disciplined /\ StoreIsTrue /\ Looping(b) /\ pc[b] = "tool"
      /\ UNCHANGED <<world, store, phase, option, box, done, truth, progress, bounds>>
      /\ pc' = [pc EXCEPT ![b] = "hash"]
      /\ memo' = IF memo = 0 THEN tool ELSE memo
      /\ key' = [key EXCEPT ![b] = KeyOf(b, memo', <<>>)]
  BY DEF WInv, DigestTool, Goto
<1>2. phase = "on" /\ option.cache
  BY <1>1 DEF Disciplined, ITyped, Final
<1>3. PICK t : t = memo'
  OBVIOUS
<1>4. t \in {1, 2} /\ key'[b] = KeyOf(b, t, <<>>)
  BY <1>1, <1>3 DEF ITyped
<1>5. ITyped' /\ StoreIsTrue'
  BY <1>1, <1>4 DEF ITyped, StoreIsTrue, world, progress, truth, Keyed, Final
<1>6. Alone(b)
  BY <1>1, <1>2 DEF Alone, ITyped, world, progress, truth, Doubtful, Final
<1>7. KeyedRight(b)'
  <2>1. /\ key'[b].in = <<>> /\ DOMAIN key'[b].in = {}
        /\ key'[b].in = [f \in DOMAIN key'[b].in |-> key'[b].in[f]]
    BY <1>4, NothingHashed
  <2>2. pc'[b] = "hash" /\ memo' # 0
    BY <1>1, <1>3, <1>4 DEF ITyped
  <2>3. KeyOf(b, t, <<>>)' = KeyOf(b, t, <<>>)
    BY <1>1 DEF KeyOf, Outputs, world
  <2>4. KeyOf(b, memo, key[b].in)' = KeyOf(b, t, <<>>)
    BY <1>3, <2>1, <1>1 DEF KeyOf, Outputs, world
  <2> QED
    BY <1>4, <2>1, <2>2, <2>4 DEF KeyedRight, Hashed
<1>8. Looping(b)' /\ Honest(b)'
  BY <1>1 DEF Looping, Loops, Honest, AsMade, ITyped
<1> QED
  BY <1>1, <1>2, <1>5, <1>6, <1>7, <1>8, StepKeeps DEF progress, ITyped

LEMMA HashInputStep ==
    ASSUME WellFormed, WInv, NEW b \in Actions, HashInput(b) PROVE Alone(b) /\ WInv'
<1>1. /\ ITyped /\ Disciplined /\ StoreIsTrue /\ Looping(b) /\ KeyedRight(b) /\ pc[b] = "hash"
      /\ UNCHANGED <<world, store, process, box, done, truth, progress, bounds>>
  BY DEF WInv, HashInput
<1>2. phase = "on" /\ option.cache
  BY <1>1 DEF Disciplined, ITyped, Final
<1>3. PICK f \in Inputs(b) \ Hashed(b) :
          IF disk[f] = Absent
          THEN Goto(b, "failed") /\ UNCHANGED key
          ELSE /\ key' = [key EXCEPT ![b] =
                           KeyOf(b, @.tool, Over([x \in {f} |-> disk[x]], @.in))]
               /\ UNCHANGED pc
  BY DEF HashInput
<1>4. CASE disk[f] = Absent
  <2>1. ITyped' /\ StoreIsTrue'
    BY <1>1, <1>3, <1>4 DEF ITyped, StoreIsTrue, world, process, progress, truth, Keyed, Final, Goto
  <2>2. Alone(b)
    BY <1>1, <1>2, <1>3, <1>4 DEF Alone, ITyped, world, process, progress, truth, Doubtful, Final, Goto
  <2>3. Looping(b)' /\ KeyedRight(b)' /\ Honest(b)'
    BY <1>1, <1>3, <1>4 DEF Looping, Loops, KeyedRight, Keyed, Honest, AsMade, ITyped, Goto
  <2> QED
    BY <1>1, <1>2, <1>3, <1>4, <2>1, <2>2, <2>3, StepKeeps DEF process, progress, ITyped, Keyed, Goto
<1>5. CASE disk[f] # Absent
  <2>1. PICK g : g = Over([x \in {f} |-> disk[x]], key[b].in)
    OBVIOUS
  <2>2. /\ g = [x \in {f} \union Hashed(b) |-> g[x]] /\ g[f] = disk[f]
        /\ \A x \in Hashed(b) : g[x] = key[b].in[x]
    BY <1>3, <2>1 DEF Over, Hashed
  <2>3. pc' = pc /\ key' = [key EXCEPT ![b] = KeyOf(b, key[b].tool, g)]
    BY <1>3, <1>5, <2>1
  <2>4. key[b].tool = memo /\ memo # 0
    BY <1>1, <1>2 DEF KeyedRight, Keyed, KeyOf
  <2>5. key'[b] = KeyOf(b, memo, g) /\ key'[b].in = g
    BY <1>1, <2>3, <2>4 DEF ITyped, KeyOf
  <2>6. ITyped' /\ StoreIsTrue'
    BY <1>1, <2>3 DEF ITyped, StoreIsTrue, world, process, progress, truth
  <2>7. Alone(b)
    BY <1>1, <1>2, <2>3 DEF Alone, ITyped, world, process, progress, truth, Doubtful, Final
  <2>8. KeyedRight(b)'
    <3>1. KeyOf(b, memo, key[b].in)' = KeyOf(b, memo, g)
      BY <1>1, <2>5 DEF KeyOf, Outputs, world, process
    <3>2. Hashed(b)' = {f} \union Hashed(b) /\ g = [x \in Hashed(b)' |-> g[x]]
      BY <2>2, <2>5 DEF Hashed
    <3>3. Hashed(b) \subseteq Inputs(b) /\ (b \notin exposed => \A x \in Hashed(b) : key[b].in[x] = disk[x])
      BY <1>1, <1>2 DEF KeyedRight, Keyed
    <3>4. /\ Hashed(b)' \subseteq Inputs(b)'
          /\ b \notin exposed' => \A x \in Hashed(b)' : key'[b].in[x] = disk'[x]
      BY <1>1, <1>3, <2>2, <2>5, <3>2, <3>3 DEF Inputs, world, truth
    <3> QED
      BY <1>1, <2>3, <2>4, <2>5, <3>1, <3>2, <3>4 DEF KeyedRight, process
  <2>9. Looping(b)' /\ Honest(b)'
    BY <1>1, <2>3 DEF Looping, Loops, Honest, AsMade, ITyped
  <2> QED
    BY <1>1, <1>2, <2>3, <2>6, <2>7, <2>8, <2>9, StepKeeps DEF process, progress
<1> QED
  BY <1>4, <1>5

LEMMA LookupStep ==
    ASSUME WellFormed, WInv, NEW b \in Actions, Lookup(b) PROVE Alone(b) /\ WInv'
<1> PICK l \in {"restore", "exec"} : pc' = [pc EXCEPT ![b] = l]
  BY DEF Lookup, Goto
<1>1. /\ ITyped /\ Disciplined /\ StoreIsTrue /\ Looping(b) /\ KeyedRight(b) /\ pc[b] = "hash"
      /\ Hashed(b) = Inputs(b)
      /\ UNCHANGED <<world, store, process, key, box, done, truth, progress, bounds>>
  BY DEF WInv, Lookup
<1>2. phase = "on" /\ option.cache
  BY <1>1 DEF Disciplined, ITyped, Final
<1>3. ITyped' /\ StoreIsTrue'
  BY <1>1 DEF ITyped, StoreIsTrue, world, process, progress, truth, Keyed, Final
<1>4. Alone(b)
  BY <1>1, <1>2 DEF Alone, ITyped, world, process, progress, truth, Doubtful, Final
<1>5. KeyedRight(b)'
  BY <1>1, <1>2 DEF KeyedRight, Keyed, ITyped, Hashed, Inputs, KeyOf, Outputs, world, process, progress, truth
<1>6. Looping(b)'
  BY <1>1, Declared, NothingYet DEF Looping, Loops, ITyped, Outputs, world
<1>7. Honest(b)'
  BY <1>1 DEF Looping, Loops, Honest, AsMade, ITyped
<1> QED
  BY <1>1, <1>2, <1>3, <1>4, <1>5, <1>6, <1>7, StepKeeps DEF process, progress, ITyped

-----------------------------------------------------------------------------
(* Steps that write.                                                       *)

\* The inputs of an action are not among the files it writes, so its key stays
\* right.
LEMMA OwnKey ==
    ASSUME WellFormed, WInv, NEW b \in Actions, Alone(b), key'[b] = key[b], memo' = memo,
           pc[b] \in Keyed \ {"hash"}
    PROVE  KeyedRight(b)'
<1>1. ITyped /\ Disciplined /\ KeyedRight(b)
  BY DEF WInv
<1>2. \A f \in Inputs(b) : disk'[f] = disk[f]
  <2>1. Range(Outputs(b)) \cap Inputs(b) = {}
    BY <1>1 DEF WellFormed, ITyped, Outputs, Inputs
  <2> QED
    BY <1>1, <2>1, Declared DEF Alone
<1>3. /\ UNCHANGED <<manifest, option, exposed, quiet>> /\ phase = "on" /\ (quiet => exposed = {})
  BY <1>1 DEF Alone, Disciplined
<1>4. option.cache =>
         /\ memo # 0 /\ key[b] = KeyOf(b, memo, key[b].in)
         /\ Hashed(b) = Inputs(b) /\ key[b].in = [f \in Hashed(b) |-> key[b].in[f]]
         /\ b \notin exposed => \A f \in Hashed(b) : key[b].in[f] = disk[f]
  BY <1>1, <1>3 DEF KeyedRight, Keyed
<1>5. Hashed(b)' = Hashed(b) /\ Inputs(b)' = Inputs(b)
  BY <1>3 DEF Hashed, Inputs
<1>6. KeyOf(b, memo, key[b].in)' = KeyOf(b, memo, key[b].in)
  BY <1>3 DEF KeyOf, Outputs
<1> QED
  BY <1>2, <1>3, <1>4, <1>5, <1>6 DEF KeyedRight

\* One more output is what the command makes.
LEMMA OneMore ==
    ASSUME WellFormed, ITyped, NEW b \in Actions, NEW n \in Nat, n + 1 \in 1..Len(Outputs(b)),
           Reading(b) \subseteq Inputs(b),
           \A i \in 1..n : disk[Outputs(b)[i]] = Makes(b, Outputs(b)[i]),
           UNCHANGED <<manifest, tool>>,
           disk' = [disk EXCEPT ![Outputs(b)[n + 1]] = Makes(b, Outputs(b)[n + 1])]
    PROVE  MadeUpTo(b, n + 1)'
<1>1. PICK o : o = Outputs(b)
  OBVIOUS
<1>2. /\ \A i \in 1..Len(o) : o[i] \in Range(o) /\ o[i] \in Files
      /\ Range(o) \cap Inputs(b) = {} /\ Inputs(b) \subseteq Files /\ Len(o) \in Nat
      /\ DOMAIN o = 1..Len(o)
  <2>1. Range(o) \cap Inputs(b) = {}
    BY <1>1 DEF WellFormed, ITyped, Outputs, Inputs
  <2>2. o \in Seq(Files) /\ Inputs(b) \subseteq Files
    BY <1>1, Declared
  <2> QED
    BY <2>1, <2>2 DEF Range
<1>3. \A i, j \in 1..Len(o) : o[i] = o[j] => i = j
  BY <1>1, <1>2 DEF WellFormed, ITyped, Outputs
<1>4. \A f \in Reading(b) : disk'[f] = disk[f]
  BY <1>1, <1>2
<1>5. ASSUME NEW i \in 1..(n + 1) PROVE disk'[o[i]] = Makes(b, o[i])'
  <2>1. i \in 1..Len(o) /\ n + 1 \in 1..Len(o)
    BY <1>1, <1>2
  <2>2. PICK x : x = o[i]
    OBVIOUS
  <2>3. Makes(b, x)' = Makes(b, x)
    BY <1>4, SameMakes
  <2>4. disk'[x] = Makes(b, x)
    <3>1. CASE i = n + 1
      BY <1>1, <1>2, <2>1, <2>2, <3>1 DEF ITyped
    <3>2. CASE i \in 1..n
      <4>1. x # o[n + 1]
        BY <1>3, <2>1, <2>2, <3>2
      <4>2. x \in Files /\ disk[x] = Makes(b, x)
        BY <1>1, <1>2, <2>1, <2>2, <3>2
      <4> QED
        BY <1>1, <4>1, <4>2 DEF ITyped
    <3> QED
      BY <3>1, <3>2
  <2> QED
    BY <2>2, <2>3, <2>4
<1>6. Outputs(b)' = o
  BY <1>1 DEF Outputs
<1> QED
  BY <1>5, <1>6 DEF MadeUpTo, Reading, Inputs

\* A key that says what is there stands for what the command makes of it.
LEMMA MeantIsMade ==
    ASSUME ITyped, NEW b \in Actions, NEW g, NEW k, k = KeyOf(b, tool, g),
           Reading(b) \subseteq DOMAIN g, \A f \in DOMAIN g : g[f] = disk[f]
    PROVE  Meant(k) = [i \in DOMAIN Outputs(b) |-> Makes(b, Outputs(b)[i])]
<1>1. k.cmd = manifest[b].cmd /\ k.tool = tool /\ k.in = g /\ k.out = Outputs(b)
  BY DEF KeyOf
<1>2. PICK R : R = Reads[manifest[b].cmd]
  OBVIOUS
<1>3. \A j \in DOMAIN R : g[R[j]] = disk[R[j]]
  BY <1>2 DEF Reading, Range
<1>4. [j \in DOMAIN R |-> g[R[j]]] = [j \in DOMAIN R |-> disk[R[j]]]
  BY <1>3
<1> QED
  BY <1>1, <1>2, <1>4 DEF Meant, Makes

LEMMA RestoreStep ==
    ASSUME WellFormed, WInv, NEW b \in Actions, Restore(b) PROVE Alone(b) /\ WInv'
<1>1. /\ ITyped /\ Disciplined /\ StoreIsTrue /\ Looping(b) /\ KeyedRight(b) /\ Honest(b)
      /\ pc[b] = "restore"
      /\ UNCHANGED <<manifest, tool, store, process, key, box, truth, quiet, ran, touched,
                     builds>>
  BY DEF WInv, Restore
<1>2. phase = "on" /\ option.cache
  BY <1>1 DEF Disciplined, ITyped, Final
<1>3. /\ Current(b) \in Range(Outputs(b)) /\ Current(b) \in Files
      /\ Len(done[b]) \in Nat /\ Len(done[b]) + 1 \in 1..Len(Outputs(b))
      /\ Current(b) = Outputs(b)[Len(done[b]) + 1]
  BY <1>1, CurrentIsOutput DEF Loops
<1>4. CASE /\ key[b] \in DOMAIN store
           /\ disk' = [disk EXCEPT ![Current(b)] = store[key[b]][Len(done[b]) + 1]]
           /\ StepTo(b, disk'[Current(b)], "built")
           /\ NoFault
  <2>1. PICK n \in Nat : n = Len(done[b])
    BY <1>3
  <2>2. PICK c : c = disk'[Current(b)]
    OBVIOUS
  <2>3. PICK l \in {"restore", "built"}, s \in {<<>>, Append(done[b], c)} :
           /\ pc' = [pc EXCEPT ![b] = l] /\ done' = [done EXCEPT ![b] = s]
           /\ \/ l = "built" /\ s = <<>> /\ n + 1 = Len(Outputs(b))
              \/ l = "restore" /\ s = Append(done[b], c) /\ n + 1 # Len(Outputs(b))
    <3>1. CASE AtLast(b)
      BY <1>4, <2>1, <3>1 DEF StepTo, Goto, AtLast
    <3>2. CASE ~AtLast(b)
      BY <1>1, <1>4, <2>1, <2>2, <3>2 DEF StepTo, Goto, AtLast, ITyped
    <3> QED
      BY <3>1, <3>2
  <2>4. ITyped' /\ StoreIsTrue'
    BY <1>1, <1>3, <1>4, <2>3 DEF ITyped, StoreIsTrue, process, truth, Keyed, Final, NoFault
  <2>5. Alone(b)
    BY <1>1, <1>2, <1>3, <1>4, <2>3 DEF Alone, ITyped, process, truth, Doubtful, Final
  <2>6. KeyedRight(b)'
    BY <1>1, <2>5, OwnKey DEF process, Keyed
  <2>7. Looping(b)'
    <3>1. done'[b] = s /\ pc'[b] = l /\ Outputs(b)' = Outputs(b) /\ done[b] \in Seq(Range(done[b]))
      BY <1>1, <2>3 DEF ITyped, Looping, Outputs
    <3>2. CASE l = "built"
      BY <2>3, <3>1, <3>2, NothingYet DEF Looping, Loops
    <3>3. CASE l = "restore"
      <4>1. s = Append(done[b], c) /\ n + 1 # Len(Outputs(b)) /\ Len(Outputs(b)) \in Nat
        BY <1>1, <2>3, <3>3, Declared
      <4>2. s \in Seq(Range(s)) /\ Len(s) = n + 1
        BY <2>1, <3>1, <4>1, Longer
      <4>3. Len(s) < Len(Outputs(b))
        BY <1>3, <2>1, <4>1, <4>2
      <4> QED
        BY <3>1, <3>3, <4>2, <4>3 DEF Looping, Loops
    <3> QED
      BY <3>2, <3>3
  <2>8. Honest(b)'
    <3> SUFFICES ASSUME option.sandbox, quiet, key[b] \notin Doubtful
                 PROVE  MadeUpTo(b, n + 1)'
      <4>1. Len(s) = n + 1 \/ (l = "built" /\ n + 1 = Len(Outputs(b)))
        BY <1>1, <2>1, <2>3, Longer DEF Looping
      <4>2. pc'[b] = l /\ done'[b] = s /\ key'[b] = key[b] /\ Outputs(b)' = Outputs(b)
        BY <1>1, <2>3 DEF ITyped, Outputs
      <4> QED
        BY <1>1, <2>3, <4>1, <4>2 DEF Honest, AsMade, Doubtful, process, truth
    <3>1. Sure(b) /\ b \notin exposed /\ ~upgraded
      BY <1>1 DEF Sure, Disciplined
    <3>2. PICK g : g = key[b].in
      OBVIOUS
    <3>3. /\ key[b] = KeyOf(b, tool, g) /\ DOMAIN g = Inputs(b) /\ \A f \in DOMAIN g : g[f] = disk[f]
      BY <1>1, <1>2, <3>1, <3>2 DEF KeyedRight, Keyed, Hashed, Disciplined
    <3>4. Reading(b) \subseteq DOMAIN g /\ store[key[b]] = Meant(key[b])
      BY <1>1, <1>4, <3>2, <3>3 DEF StoreIsTrue, Doubtful, KeyOf, Reading
    <3>5. store[key[b]] = [i \in DOMAIN Outputs(b) |-> Makes(b, Outputs(b)[i])]
      BY <1>1, <3>3, <3>4, MeantIsMade
    <3>6. store[key[b]][n + 1] = Makes(b, Outputs(b)[n + 1])
      BY <1>1, <1>3, <2>1, <3>5, Declared
    <3>7. \A i \in 1..n : disk[Outputs(b)[i]] = Makes(b, Outputs(b)[i])
      <4>1. CASE n = 0
        BY <4>1
      <4>2. CASE n # 0
        BY <1>1, <1>2, <2>1, <3>1, <4>2, NothingYet DEF Honest, AsMade, MadeUpTo
      <4> QED
        BY <4>1, <4>2
    <3> QED
      BY <1>1, <1>3, <1>4, <2>1, <3>3, <3>4, <3>6, <3>7, OneMore
  <2> QED
    BY <1>1, <1>2, <1>4, <2>3, <2>4, <2>5, <2>6, <2>7, <2>8, StepKeeps DEF process, NoFault
<1>5. CASE /\ IF key[b] \in DOMAIN store THEN Fault ELSE NoFault
           /\ Break(b, "exec")
           /\ UNCHANGED <<disk, kept>>
  <2>1. pc' = [pc EXCEPT ![b] = "exec"] /\ done' = [done EXCEPT ![b] = <<>>]
        /\ (settled' = FALSE \/ settled' = settled)
    BY <1>5 DEF Break, Goto, Fault, NoFault
  <2>2. ITyped' /\ StoreIsTrue'
    BY <1>1, <1>5, <2>1 DEF ITyped, StoreIsTrue, process, truth, Keyed, Final
  <2>3. Alone(b)
    BY <1>1, <1>2, <1>5, <2>1 DEF Alone, ITyped, process, truth, Doubtful, Final
  <2>4. KeyedRight(b)'
    BY <1>1, <2>3, OwnKey DEF process, Keyed
  <2>5. Looping(b)' /\ Honest(b)'
    BY <1>1, <2>1, NothingYet DEF Looping, Loops, Honest, AsMade, ITyped
  <2> QED
    BY <1>1, <1>2, <2>1, <2>2, <2>3, <2>4, <2>5, StepKeeps DEF process
<1> QED
  BY <1>4, <1>5 DEF Restore

\* The products of a command are what it makes of what is there.
LEMMA ProductsAreMade ==
    ASSUME NEW b \in Actions, NEW O
    PROVE  Products(b, O) = [o \in O |-> Makes(b, o)]
BY DEF Products, Makes

LEMMA ExecStep ==
    ASSUME WellFormed, WInv, NEW b \in Actions, Exec(b) PROVE Alone(b) /\ WInv'
<1>1. /\ ITyped /\ Disciplined /\ StoreIsTrue /\ Looping(b) /\ KeyedRight(b) /\ Honest(b)
      /\ pc[b] = "exec" /\ done[b] = <<>>
      /\ UNCHANGED <<manifest, tool, store, process, key, done, truth, quiet, kept, touched,
                     builds>>
  BY DEF WInv, Exec, Looping, Loops
<1>2. phase = "on"
  BY <1>1 DEF Disciplined, ITyped, Final
<1>3. PICK O \in SUBSET Range(Outputs(b)), zero \in BOOLEAN :
          /\ ~Opens(b) => O = {} /\ ~zero
          /\ IF (Opens(b) /\ zero /\ O = Range(Outputs(b))) \/ ~Opens(b)
             THEN NoFault ELSE Fault
          /\ IF zero THEN Writes(b, O)
             ELSE UNCHANGED box /\ IF option.sandbox THEN UNCHANGED disk
                                   ELSE disk' = Over(Products(b, O), disk)
          /\ Goto(b, IF ~zero THEN "failed"
                     ELSE IF option.sandbox THEN "harvest" ELSE "verify")
  BY DEF Exec
<1>4. settled' = FALSE \/ settled' = settled
  BY <1>3 DEF Fault, NoFault
<1>5. PICK l \in {"failed", "harvest", "verify"} :
          pc' = [pc EXCEPT ![b] = l] /\ (l = "harvest" <=> zero /\ option.sandbox)
          /\ (l = "verify" => ~option.sandbox)
  BY <1>3 DEF Goto
<1>6. IF option.sandbox THEN disk' = disk ELSE disk' = Over(Products(b, O), disk)
  BY <1>3 DEF Writes
<1>7. /\ disk' = [f \in Files |-> disk'[f]]
      /\ \A f \in Files \ Range(Outputs(b)) : disk'[f] = disk[f]
  <2>1. CASE option.sandbox
    BY <1>1, <1>6, <2>1 DEF ITyped
  <2>2. CASE ~option.sandbox
    <3>1. PICK P : P = Products(b, O)
      OBVIOUS
    <3>2. DOMAIN P = O /\ DOMAIN disk = Files /\ O \subseteq Range(Outputs(b)) /\ O \subseteq Files
      BY <1>1, <1>3, <3>1, ProductsAreMade, Declared DEF ITyped
    <3>3. disk' = [x \in Files |-> IF x \in O THEN P[x] ELSE disk[x]]
      BY <1>6, <2>2, <3>1, <3>2 DEF Over
    <3> QED
      BY <3>2, <3>3
  <2> QED
    BY <2>1, <2>2
<1>8. box' = box \/ (option.sandbox /\ box' = [box EXCEPT ![b] = Products(b, O)])
  BY <1>3 DEF Writes
<1>9. ITyped' /\ StoreIsTrue'
  BY <1>1, <1>4, <1>5, <1>7, <1>8 DEF ITyped, StoreIsTrue, process, truth, Keyed, Final
<1>10. Alone(b)
  BY <1>1, <1>2, <1>5, <1>7, <1>8 DEF Alone, ITyped, process, truth, Doubtful, Final
<1>11. KeyedRight(b)'
  BY <1>1, <1>10, OwnKey DEF process, Keyed
<1>12. Looping(b)'
  <2>1. pc'[b] = l /\ done'[b] = <<>> /\ Outputs(b)' = Outputs(b)
    BY <1>1, <1>5 DEF ITyped, Outputs
  <2>2. Len(done'[b]) = 0 /\ done'[b] \in Seq(Range(done'[b]))
    BY <2>1, NothingYet
  <2>3. Len(Outputs(b)) \in Nat \ {0}
    BY <1>1, Declared
  <2> QED
    BY <2>1, <2>2, <2>3 DEF Looping
<1>13. Honest(b)'
  <2>1. pc'[b] = l /\ done'[b] = <<>>
    BY <1>1, <1>5 DEF ITyped
  <2>2. CASE l = "harvest"
    <3>1. zero /\ option.sandbox /\ Opens(b) /\ disk' = disk
      BY <1>3, <1>5, <1>6, <2>2
    <3>2. box'[b] = [o \in O |-> Makes(b, o)]
      BY <1>1, <1>3, <3>1, ProductsAreMade DEF Writes, ITyped
    <3>3. Reading(b) \subseteq Inputs(b) /\ UNCHANGED <<manifest, tool, disk>>
      BY <1>1, <3>1 DEF Opens, Reading
    <3>4. MadeUpTo(b, 0)'
      BY <3>3 DEF MadeUpTo, Reading, Inputs
    <3>5. MadeUpTo(b, Len(done[b]))'
      BY <2>1, <3>4, NothingYet DEF MadeUpTo
    <3>6. \A o \in DOMAIN box'[b] : box'[b][o] = Makes(b, o)'
      BY <3>2, <3>3 DEF Makes
    <3> QED
      BY <2>1, <2>2, <3>5, <3>6 DEF Honest, AsMade
  <2>3. CASE l # "harvest"
    BY <1>1, <1>5, <2>1, <2>3 DEF Honest, AsMade, process
  <2> QED
    BY <2>2, <2>3
<1> QED
  BY <1>1, <1>2, <1>4, <1>5, <1>9, <1>10, <1>11, <1>12, <1>13, StepKeeps DEF process, ITyped

LEMMA HarvestStep ==
    ASSUME WellFormed, WInv, NEW b \in Actions, Harvest(b) PROVE Alone(b) /\ WInv'
<1>1. /\ ITyped /\ Disciplined /\ StoreIsTrue /\ Looping(b) /\ KeyedRight(b) /\ Honest(b)
      /\ pc[b] = "harvest"
      /\ UNCHANGED <<manifest, tool, store, process, key, truth, quiet, kept, ran, touched,
                     builds>>
      /\ box' = IF pc'[b] = "harvest" THEN box ELSE [box EXCEPT ![b] = None]
  BY DEF WInv, Harvest
<1>2. phase = "on"
  BY <1>1 DEF Disciplined, ITyped, Final
<1>3. /\ Current(b) \in Range(Outputs(b)) /\ Current(b) \in Files
      /\ Len(done[b]) \in Nat /\ Len(done[b]) + 1 \in 1..Len(Outputs(b))
      /\ Current(b) = Outputs(b)[Len(done[b]) + 1]
  BY <1>1, CurrentIsOutput DEF Loops
<1>4. CASE /\ Current(b) \in DOMAIN box[b]
           /\ disk' = [disk EXCEPT ![Current(b)] = box[b][Current(b)]]
           /\ StepTo(b, disk'[Current(b)], "verify")
           /\ NoFault
  <2>1. PICK n \in Nat : n = Len(done[b])
    BY <1>3
  <2>2. PICK c : c = disk'[Current(b)]
    OBVIOUS
  <2>3. PICK l \in {"harvest", "verify"}, s \in {<<>>, Append(done[b], c)} :
           /\ pc' = [pc EXCEPT ![b] = l] /\ done' = [done EXCEPT ![b] = s]
           /\ \/ l = "verify" /\ s = <<>> /\ n + 1 = Len(Outputs(b))
              \/ l = "harvest" /\ s = Append(done[b], c) /\ n + 1 # Len(Outputs(b))
    <3>1. CASE AtLast(b)
      BY <1>4, <2>1, <3>1 DEF StepTo, Goto, AtLast
    <3>2. CASE ~AtLast(b)
      BY <1>1, <1>4, <2>1, <2>2, <3>2 DEF StepTo, Goto, AtLast, ITyped
    <3> QED
      BY <3>1, <3>2
  <2>4. ITyped' /\ StoreIsTrue'
    BY <1>1, <1>3, <1>4, <2>3 DEF ITyped, StoreIsTrue, process, truth, Keyed, Final, NoFault
  <2>5. Alone(b)
    BY <1>1, <1>2, <1>3, <1>4, <2>3 DEF Alone, ITyped, process, truth, Doubtful, Final
  <2>6. KeyedRight(b)'
    BY <1>1, <2>5, OwnKey DEF process, Keyed
  <2>7. Looping(b)'
    <3>1. done'[b] = s /\ pc'[b] = l /\ Outputs(b)' = Outputs(b) /\ done[b] \in Seq(Range(done[b]))
      BY <1>1, <2>3 DEF ITyped, Looping, Outputs
    <3>2. CASE l = "verify"
      BY <2>3, <3>1, <3>2, NothingYet DEF Looping, Loops
    <3>3. CASE l = "harvest"
      <4>1. s = Append(done[b], c) /\ n + 1 # Len(Outputs(b)) /\ Len(Outputs(b)) \in Nat
        BY <1>1, <2>3, <3>3, Declared
      <4>2. s \in Seq(Range(s)) /\ Len(s) = n + 1
        BY <2>1, <3>1, <4>1, Longer
      <4>3. Len(s) < Len(Outputs(b))
        BY <1>3, <2>1, <4>1, <4>2
      <4> QED
        BY <3>1, <3>3, <4>2, <4>3 DEF Looping, Loops
    <3> QED
      BY <3>2, <3>3
  <2>8. Honest(b)'
    <3> SUFFICES ASSUME option.sandbox, Sure(b) PROVE AsMade(b)'
      BY <1>1 DEF Honest, Sure, process, truth
    <3>1. /\ MadeUpTo(b, n) /\ \A o \in DOMAIN box[b] : box[b][o] = Makes(b, o)
      BY <1>1, <1>2, <2>1 DEF Honest, AsMade
    <3>2. MadeUpTo(b, n + 1)'
      BY <1>1, <1>3, <1>4, <2>1, <3>1, OneMore DEF MadeUpTo
    <3>3. pc'[b] = l /\ done'[b] = s /\ Outputs(b)' = Outputs(b)
      BY <1>1, <2>3 DEF ITyped, Outputs
    <3>4. CASE l = "verify"
      BY <2>3, <3>2, <3>3, <3>4 DEF AsMade
    <3>5. CASE l = "harvest"
      <4>1. box'[b] = box[b]
        BY <1>1, <3>3, <3>5
      <4>2. Len(s) = n + 1
        BY <1>1, <2>1, <2>3, <3>5, Longer DEF Looping
      <4>3. \A f \in Reading(b) : disk'[f] = disk[f]
        <5>1. Range(Outputs(b)) \cap Inputs(b) = {}
          BY <1>1 DEF WellFormed, ITyped, Outputs, Inputs
        <5>2. Reading(b) \subseteq Inputs(b)
          BY <3>1 DEF MadeUpTo
        <5> QED
          BY <1>1, <1>3, <1>4, <5>1, <5>2
      <4>4. \A o \in DOMAIN box[b] : box[b][o] = Makes(b, o)'
        <5>1. TAKE o \in DOMAIN box[b]
        <5>2. Makes(b, o)' = Makes(b, o)
          BY <1>1, <4>3, SameMakes
        <5> QED
          BY <3>1, <5>2
      <4> QED
        BY <3>2, <3>3, <3>5, <4>1, <4>2, <4>4 DEF AsMade
    <3> QED
      BY <3>4, <3>5
  <2> QED
    BY <1>1, <1>2, <1>4, <2>3, <2>4, <2>5, <2>6, <2>7, <2>8, StepKeeps DEF process, NoFault, ITyped
<1>5. CASE /\ Break(b, "failed") /\ (Fault \/ NoFault)
           /\ disk' = [disk EXCEPT ![Current(b)] = Absent] \/ UNCHANGED disk
  <2>1. /\ pc' = [pc EXCEPT ![b] = "failed"] /\ done' = [done EXCEPT ![b] = <<>>]
        /\ settled' = FALSE \/ settled' = settled
        /\ disk' = [f \in Files |-> disk'[f]]
        /\ \A f \in Files \ Range(Outputs(b)) : disk'[f] = disk[f]
    BY <1>1, <1>3, <1>5 DEF Break, Goto, Fault, NoFault, ITyped
  <2>2. ITyped' /\ StoreIsTrue'
    BY <1>1, <2>1 DEF ITyped, StoreIsTrue, process, truth, Keyed, Final
  <2>3. Alone(b)
    BY <1>1, <1>2, <2>1 DEF Alone, ITyped, process, truth, Doubtful, Final
  <2>4. KeyedRight(b)'
    BY <1>1, <2>3, OwnKey DEF process, Keyed
  <2>5. Looping(b)' /\ Honest(b)'
    BY <1>1, <2>1, NothingYet DEF Looping, Loops, Honest, AsMade, ITyped
  <2> QED
    BY <1>1, <1>2, <2>1, <2>2, <2>3, <2>4, <2>5, StepKeeps DEF process, ITyped, Keyed
<1> QED
  BY <1>4, <1>5 DEF Harvest

LEMMA CheckOutputsStep ==
    ASSUME WellFormed, WInv, NEW b \in Actions, CheckOutputs(b) PROVE Alone(b) /\ WInv'
<1> PICK l \in {"failed", "put", "built"} :
        pc' = [pc EXCEPT ![b] = l] /\ (l = "put" => option.cache) /\ (l = "built" => ~option.cache)
  BY DEF CheckOutputs, Goto
<1>1. /\ ITyped /\ Disciplined /\ StoreIsTrue /\ Looping(b) /\ KeyedRight(b) /\ Honest(b)
      /\ pc[b] = "verify" /\ done[b] = <<>>
      /\ UNCHANGED <<world, store, process, key, box, done, truth, progress, bounds>>
  BY DEF WInv, CheckOutputs, Looping, Loops
<1>2. phase = "on"
  BY <1>1 DEF Disciplined, ITyped, Final
<1>3. ITyped' /\ StoreIsTrue'
  BY <1>1 DEF ITyped, StoreIsTrue, world, process, progress, truth, Keyed, Final
<1>4. Alone(b)
  BY <1>1, <1>2 DEF Alone, ITyped, world, process, progress, truth, Doubtful, Final
<1>5. KeyedRight(b)'
  BY <1>1, <1>4, OwnKey DEF process, Keyed
<1>6. pc'[b] = l /\ done'[b] = <<>> /\ Outputs(b)' = Outputs(b)
  BY <1>1 DEF ITyped, Outputs, world
<1>7. Looping(b)'
  <2>1. Len(done'[b]) = 0 /\ done'[b] \in Seq(Range(done'[b]))
    BY <1>6, NothingYet
  <2>2. Len(Outputs(b)) \in Nat \ {0}
    BY <1>1, Declared
  <2> QED
    BY <1>6, <2>1, <2>2 DEF Looping
<1>8. Honest(b)'
  <2> SUFFICES ASSUME option.sandbox, Sure(b) PROVE AsMade(b)'
    BY <1>1 DEF Honest, Sure, process, truth, progress
  <2>1. MadeUpTo(b, Len(Outputs(b)))
    BY <1>1, <1>2 DEF Honest, AsMade
  <2>2. MadeUpTo(b, Len(Outputs(b)))'
    BY <1>1, <2>1 DEF MadeUpTo, Outputs, Reading, Inputs, Makes, world
  <2>3. \A i \in 1..Len(done'[b]) : FALSE
    BY <1>6, NothingYet
  <2> QED
    BY <1>6, <2>2, <2>3 DEF AsMade
<1> QED
  BY <1>1, <1>2, <1>3, <1>4, <1>5, <1>6, <1>7, <1>8, StepKeeps DEF process, progress

LEMMA PutStep ==
    ASSUME WellFormed, WInv, NEW b \in Actions, Put(b) PROVE Alone(b) /\ WInv'
<1>1. /\ ITyped /\ Disciplined /\ StoreIsTrue /\ Looping(b) /\ KeyedRight(b) /\ Honest(b)
      /\ pc[b] = "put"
      /\ UNCHANGED <<world, process, key, box, exposed, upgraded, quiet, ran, touched,
                     builds>>
  BY DEF WInv, Put
<1>2. phase = "on" /\ option.cache
  BY <1>1 DEF Disciplined, ITyped, Final
<1>3. /\ Current(b) \in Range(Outputs(b)) /\ Current(b) \in Files
      /\ Len(done[b]) \in Nat /\ Len(done[b]) + 1 \in 1..Len(Outputs(b))
      /\ Current(b) = Outputs(b)[Len(done[b]) + 1]
  BY <1>1, CurrentIsOutput DEF Loops
<1>4. settled' = FALSE \/ settled' = settled
  BY DEF Put, Fault, NoFault
<1>5. PICK n \in Nat : n = Len(done[b])
  BY <1>3
<1>6. PICK c : c = disk[Current(b)]
  OBVIOUS
<1>7. PICK l \in {"put", "built"}, s \in {<<>>, Append(done[b], c)} :
         /\ pc' = [pc EXCEPT ![b] = l] /\ done' = [done EXCEPT ![b] = s]
         /\ (l = "built" /\ s = <<>>)
            \/ (l = "put" /\ s = Append(done[b], c) /\ n + 1 # Len(Outputs(b)))
  <2>1. CASE StepTo(b, disk[Current(b)], "built") /\ AtLast(b)
    BY <2>1 DEF StepTo, Goto
  <2>2. CASE StepTo(b, disk[Current(b)], "built") /\ ~AtLast(b)
    BY <1>1, <1>5, <1>6, <2>2 DEF StepTo, Goto, ITyped, AtLast
  <2>3. CASE Break(b, "built")
    BY <2>3 DEF Break, Goto
  <2> QED
    BY <2>1, <2>2, <2>3 DEF Put
<1>8. \/ UNCHANGED <<store, suspect, loose>>
      \/ /\ n + 1 = Len(Outputs(b))
         /\ store' = Over([k \in {key[b]} |-> Append(done[b], c)], store)
         /\ suspect' = With(suspect, key[b], b \in exposed \/ upgraded)
         /\ loose' = With(loose, key[b], ~option.sandbox)
  BY <1>5, <1>6 DEF Put, AtLast
<1>9. ITyped'
  BY <1>1, <1>4, <1>7 DEF ITyped, world, process, Keyed, Final
<1>10. Alone(b)
  <2>1. Doubtful' \ {key[b]} = Doubtful \ {key[b]}
    BY <1>8 DEF Doubtful, With
  <2> QED
    BY <1>1, <1>2, <1>7, <2>1 DEF Alone, ITyped, world, process, Final
<1>11. KeyedRight(b)'
  BY <1>1, <1>10, OwnKey DEF process, Keyed
<1>12. pc'[b] = l /\ done'[b] = s /\ Outputs(b)' = Outputs(b) /\ done[b] \in Seq(Range(done[b]))
  BY <1>1, <1>7 DEF ITyped, Looping, Outputs, world
<1>13. Looping(b)'
  <2>1. CASE l = "built"
    BY <1>7, <1>12, <2>1, NothingYet DEF Looping, Loops
  <2>2. CASE l = "put"
    <3>1. s = Append(done[b], c) /\ n + 1 # Len(Outputs(b)) /\ Len(Outputs(b)) \in Nat
      BY <1>1, <1>7, <2>2, Declared
    <3>2. s \in Seq(Range(s)) /\ Len(s) = n + 1
      BY <1>5, <1>12, <3>1, Longer
    <3>3. Len(s) < Len(Outputs(b))
      BY <1>3, <1>5, <3>1, <3>2
    <3> QED
      BY <1>12, <2>2, <3>2, <3>3 DEF Looping, Loops
  <2> QED
    BY <2>1, <2>2
<1>14. option.sandbox /\ Sure(b) =>
          /\ MadeUpTo(b, Len(Outputs(b)))
          /\ \A i \in 1..n : done[b][i] = Makes(b, Outputs(b)[i])
          /\ c = Makes(b, Outputs(b)[n + 1])
  BY <1>1, <1>2, <1>3, <1>5, <1>6 DEF Honest, AsMade, MadeUpTo
<1>15. PICK t : t = Append(done[b], c)
  OBVIOUS
<1>16. /\ t \in Seq(Range(t)) /\ Len(t) = n + 1
       /\ \A i \in 1..n : t[i] = done[b][i]
       /\ t[n + 1] = c
  BY <1>5, <1>12, <1>15, Longer
<1>17. option.sandbox /\ Sure(b) => \A i \in 1..(n + 1) : t[i] = Makes(b, Outputs(b)[i])
  BY <1>14, <1>16
<1>18. Honest(b)'
  <2> SUFFICES ASSUME option.sandbox, Sure(b) PROVE AsMade(b)'
    BY <1>1 DEF Honest, Sure, process
  <2>1. MadeUpTo(b, Len(Outputs(b)))'
    BY <1>1, <1>14 DEF MadeUpTo, Outputs, Reading, Inputs, Makes, world
  <2>2. \A o : Makes(b, o)' = Makes(b, o)
    BY <1>1 DEF Makes, world
  <2>3. l = "put" => \A i \in 1..Len(s) : s[i] = Makes(b, Outputs(b)[i])
    BY <1>7, <1>15, <1>16, <1>17
  <2> QED
    BY <1>7, <1>12, <2>1, <2>2, <2>3 DEF AsMade
<1>19. StoreIsTrue'
  <2>1. CASE UNCHANGED <<store, suspect, loose>>
    BY <1>1, <2>1 DEF StoreIsTrue
  <2>2. CASE /\ n + 1 = Len(Outputs(b))
             /\ store' = Over([k \in {key[b]} |-> Append(done[b], c)], store)
             /\ suspect' = With(suspect, key[b], b \in exposed \/ upgraded)
             /\ loose' = With(loose, key[b], ~option.sandbox)
    <3>1. DOMAIN store' = DOMAIN store \union {key[b]}
          /\ store'[key[b]] = t /\ \A k \in DOMAIN store \ {key[b]} : store'[k] = store[k]
      BY <1>15, <2>2 DEF Over
    <3>2. ASSUME NEW k \in DOMAIN store' \ (suspect' \union loose'), k # key[b]
          PROVE  Range(Reads[k.cmd]) \subseteq DOMAIN k.in /\ store'[k] = Meant(k)
      BY <1>1, <2>2, <3>1, <3>2 DEF StoreIsTrue, With
    <3>3. ASSUME key[b] \notin suspect' \union loose'
          PROVE  Range(Reads[key[b].cmd]) \subseteq DOMAIN key[b].in /\ t = Meant(key[b])
      <4>1. b \notin exposed /\ ~upgraded /\ option.sandbox /\ Sure(b)
        BY <1>2, <2>2, <3>3 DEF With, Sure
      <4>2. PICK g : g = key[b].in
        OBVIOUS
      <4>3. /\ key[b] = KeyOf(b, tool, g) /\ DOMAIN g = Inputs(b)
            /\ \A f \in DOMAIN g : g[f] = disk[f]
        BY <1>1, <1>2, <4>1, <4>2 DEF KeyedRight, Keyed, Hashed, Disciplined
      <4>4. Reading(b) \subseteq DOMAIN g
        BY <1>14, <4>1, <4>3 DEF MadeUpTo
      <4>5. Meant(key[b]) = [i \in DOMAIN Outputs(b) |-> Makes(b, Outputs(b)[i])]
        BY <1>1, <4>3, <4>4, MeantIsMade
      <4>6. DOMAIN Outputs(b) = 1..(n + 1)
        BY <1>1, <2>2, Declared
      <4>7. t = [i \in 1..(n + 1) |-> Makes(b, Outputs(b)[i])]
        <5>1. t = [i \in 1..Len(t) |-> t[i]]
          BY <1>16
        <5> QED
          BY <1>16, <1>17, <4>1, <5>1
      <4> QED
        BY <4>2, <4>3, <4>4, <4>5, <4>6, <4>7 DEF KeyOf, Reading
    <3> QED
      BY <3>1, <3>2, <3>3 DEF StoreIsTrue, Meant
  <2> QED
    BY <1>8, <2>1, <2>2
<1> QED
  BY <1>1, <1>2, <1>4, <1>9, <1>10, <1>11, <1>13, <1>18, <1>19, StepKeeps DEF process, ITyped

-----------------------------------------------------------------------------
(* Builds and the world.                                                   *)

LEMMA StartBuildStep ==
    ASSUME WellFormed, WInv, StartBuild PROVE WInv'
<1>1. /\ ITyped /\ Disciplined /\ StoreIsTrue /\ phase = "off" /\ phase' = "on"
      /\ option' \in Options /\ memo' = 0 /\ quiet' = TRUE /\ upgraded' = FALSE
      /\ pc' = [a \in Actions |-> "wait"] /\ key' = [a \in Actions |-> None]
      /\ UNCHANGED <<world, store, box, done, exposed, suspect, loose, settled,
                     touched, troubles>>
  BY DEF WInv, StartBuild
<1>2. exposed = {} /\ \A a \in Actions : pc[a] \in Final \union {"wait"}
  BY <1>1 DEF Disciplined
<1>3. ITyped' /\ StoreIsTrue'
  BY <1>1 DEF ITyped, StoreIsTrue, world
<1>4. Disciplined'
  BY <1>1, <1>2 DEF Disciplined, Keyed
<1>5. ASSUME NEW a \in Actions PROVE Looping(a)' /\ KeyedRight(a)' /\ Honest(a)'
  <2>1. Looping(a) /\ pc'[a] = "wait"
    BY <1>1 DEF WInv
  <2> QED
    BY <1>1, <1>2, <2>1 DEF Looping, Loops, Final, KeyedRight, Keyed, Honest, AsMade
<1> QED
  BY <1>3, <1>4, <1>5 DEF WInv

LEMMA EndBuildStep ==
    ASSUME WellFormed, WInv, EndBuild PROVE WInv'
<1>1. /\ ITyped /\ Disciplined /\ StoreIsTrue /\ phase = "on" /\ phase' = "off" /\ Ended
      /\ exposed' = {} /\ settled' \in BOOLEAN
      /\ UNCHANGED <<world, store, option, memo, work, upgraded, suspect, loose, quiet,
                     kept, ran, bounds>>
  BY DEF WInv, EndBuild
<1>2. ITyped' /\ StoreIsTrue'
  BY <1>1 DEF ITyped, StoreIsTrue, world, work
<1>3. Disciplined'
  BY <1>1 DEF Disciplined, Ended, Final, world, work
<1>4. ASSUME NEW a \in Actions PROVE Looping(a)' /\ KeyedRight(a)' /\ Honest(a)'
  <2>1. Looping(a) /\ KeyedRight(a) /\ Honest(a) /\ pc[a] \in Final /\ (quiet => exposed = {})
    BY <1>1 DEF WInv, Ended, Final, Disciplined
  <2>2. Looping(a)'
    BY <1>1, <2>1 DEF Looping, Outputs, world, work
  <2>3. KeyedRight(a)'
    BY <1>1, <2>1 DEF KeyedRight, Final, Keyed, KeyOf, Hashed, Inputs, Outputs, world, work
  <2>4. Honest(a)'
    <3> SUFFICES ASSUME quiet, option.sandbox PROVE AsMade(a)'
      BY <1>1 DEF Honest
    <3>1. AsMade(a)
      BY <1>1, <2>1 DEF Honest, Sure
    <3> QED
      BY <1>1, <2>1, <3>1 DEF AsMade, Final, Doubtful, MadeUpTo, Makes, Outputs, Inputs, Reading,
                              world, work
  <2> QED
    BY <2>2, <2>3, <2>4
<1> QED
  BY <1>2, <1>3, <1>4 DEF WInv

\* A killed build leaves what it had built as it was.
LEMMA KillStep ==
    ASSUME WellFormed, WInv, Kill PROVE WInv'
<1>1. /\ ITyped /\ Disciplined /\ StoreIsTrue /\ phase = "on" /\ phase' = "off"
      /\ settled' = FALSE /\ exposed' = {}
      /\ pc' = [a \in Actions |-> IF pc[a] = "built" THEN "built" ELSE "failed"]
      /\ box' = [a \in Actions |-> None] /\ done' = [a \in Actions |-> <<>>]
      /\ UNCHANGED <<manifest, tool, store, option, memo, key, upgraded, suspect, loose, quiet,
                     kept, ran, touched, builds>>
  BY DEF WInv, Kill, Fault
<1>2. \A a \in Actions : Looping(a) /\ KeyedRight(a) /\ Honest(a)
  BY DEF WInv
<1>3. /\ disk' = [f \in Files |-> disk'[f]]
      /\ \A a \in Actions : pc[a] = "built" =>
            \A f \in Inputs(a) \union Range(Outputs(a)) : disk'[f] = disk[f]
  <2>1. CASE UNCHANGED disk
    BY <1>1, <2>1 DEF ITyped
  <2>2. ASSUME NEW b \in Actions, pc[b] \in {"restore", "harvest"},
               disk' = [disk EXCEPT ![Current(b)] = Absent]
        PROVE  <1>3
    <3>1. Current(b) \in Range(Outputs(b)) /\ Current(b) \in Files
      BY <1>1, <1>2, <2>2, CurrentIsOutput DEF Loops
    <3>2. \A a \in Actions : pc[a] = "built" =>
             Current(b) \notin Inputs(a) \union Range(Outputs(a))
      BY <1>1, <2>2, <3>1, Separate
    <3>3. \A a \in Actions : Inputs(a) \union Range(Outputs(a)) \subseteq Files
      BY <1>1, Declared
    <3> QED
      BY <1>1, <2>2, <3>1, <3>2, <3>3 DEF ITyped
  <2> QED
    BY <2>1, <2>2 DEF Kill
<1>4. ITyped' /\ StoreIsTrue'
  BY <1>1, <1>3 DEF ITyped, StoreIsTrue, Final
<1>5. Disciplined'
  <2>1. \A a \in Actions : manifest[a].deps \subseteq Actions
    BY <1>1, Declared, NAssumption DEF Actions
  <2>2. \A a \in Actions : pc'[a] \in Keyed \union {"tool", "built"} =>
           \A d \in manifest[a].deps : pc'[d] = "built"
    BY <1>1, <2>1 DEF Disciplined, Keyed
  <2> QED
    BY <1>1, <2>2 DEF Disciplined, Final
<1>6. ASSUME NEW a \in Actions PROVE Looping(a)' /\ KeyedRight(a)' /\ Honest(a)'
  <2>1. done'[a] = <<>> /\ pc'[a] \in {"built", "failed"} /\ (pc'[a] = "built" => pc[a] = "built")
    BY <1>1
  <2>2. Looping(a)'
    BY <2>1, NothingYet DEF Looping, Loops
  <2>3. KeyedRight(a)'
    <3> SUFFICES ASSUME quiet, option.cache, pc'[a] = "built" PROVE KeyedRight(a)!2'
      BY <1>1, <2>1 DEF KeyedRight, Keyed
    <3>1. /\ memo # 0 /\ key[a] = KeyOf(a, memo, key[a].in)
          /\ Hashed(a) = Inputs(a) /\ key[a].in = [f \in Hashed(a) |-> key[a].in[f]]
          /\ \A f \in Hashed(a) : key[a].in[f] = disk[f]
      BY <1>2, <2>1 DEF KeyedRight
    <3>2. \A f \in Hashed(a) : key[a].in[f] = disk'[f]
      BY <1>3, <2>1, <3>1
    <3> QED
      BY <1>1, <2>1, <3>1, <3>2 DEF Hashed, Inputs, KeyOf, Outputs
  <2>4. Honest(a)'
    <3> SUFFICES ASSUME quiet, option.sandbox, pc'[a] = "built", key[a] \notin Doubtful
                 PROVE  MadeUpTo(a, Len(Outputs(a)))'
      BY <1>1, <2>1 DEF Honest, AsMade, Doubtful
    <3>1. PICK n \in 0..Len(Outputs(a)) : n = Len(Outputs(a))
      BY <1>1, Declared
    <3>2. MadeUpTo(a, n)
      BY <1>1, <1>2, <2>1, <3>1 DEF Honest, AsMade, Sure
    <3>3. MadeUpTo(a, n)'
      BY <1>1, <1>3, <2>1, <3>2, StillMade
    <3> QED
      BY <1>1, <3>1, <3>3 DEF MadeUpTo, Outputs
  <2> QED
    BY <2>2, <2>3, <2>4
<1> QED
  BY <1>4, <1>5, <1>6 DEF WInv

\* An edit disturbs those who rely on the file, and they are exposed by it.
LEMMA EditStep ==
    ASSUME WellFormed, WInv, Edit PROVE WInv'
<1>1. /\ ITyped /\ Disciplined /\ StoreIsTrue /\ quiet' = FALSE
      /\ UNCHANGED <<manifest, tool, store, process, work, upgraded, suspect, loose, kept,
                     ran, settled, builds>>
  BY DEF WInv, Edit, Change
<1>2. PICK f \in Files : /\ \E c \in (Versions \union {Absent}) \ {disk[f]} : disk' = [disk EXCEPT ![f] = c]
                         /\ exposed' = exposed \union Relying(f)
  BY DEF Edit
<1>3. disk' = [x \in Files |-> disk'[x]] /\ \A x \in Files \ {f} : disk'[x] = disk[x]
  BY <1>1, <1>2 DEF ITyped
<1>4. ITyped' /\ StoreIsTrue'
  BY <1>1, <1>3 DEF ITyped, StoreIsTrue, process, work
<1>5. Disciplined'
  <2>1. phase = "off" => Relying(f) = {}
    BY <1>1 DEF Relying, Disciplined, Final
  <2> QED
    BY <1>1, <1>2, <2>1 DEF Disciplined, process, work
<1>6. ASSUME NEW a \in Actions PROVE Looping(a)' /\ KeyedRight(a)' /\ Honest(a)'
  <2>1. Looping(a) /\ KeyedRight(a) /\ Honest(a)
    BY DEF WInv
  <2>2. Looping(a)'
    BY <1>1, <2>1 DEF Looping, Outputs, work
  <2>3. phase = "on" /\ option.cache /\ pc[a] \in Keyed \union {"built"} =>
           /\ memo # 0 /\ key[a] = KeyOf(a, memo, key[a].in)
           /\ Hashed(a) \subseteq Inputs(a) /\ key[a].in = [x \in Hashed(a) |-> key[a].in[x]]
           /\ pc[a] # "hash" => Hashed(a) = Inputs(a)
           /\ pc[a] # "built" /\ a \notin exposed => \A x \in Hashed(a) : key[a].in[x] = disk[x]
    BY <2>1 DEF KeyedRight
  <2>4. phase = "on" /\ option.cache /\ pc[a] \in Keyed /\ a \notin exposed' => f \notin Hashed(a)
    <3>1. phase = "on" /\ option.cache /\ pc[a] \in Keyed => key[a] # None
      <4>1. \A in : KeyOf(a, memo, in) # None
        BY DEF KeyOf, None
      <4> QED
        BY <2>3, <4>1
    <3> QED
      BY <1>2, <3>1 DEF Relying, Keyed
  <2>5. KeyedRight(a)'
    <3> SUFFICES ASSUME phase = "on", option.cache, pc[a] \in Keyed \union {"built"}
                 PROVE  KeyedRight(a)!2'
      BY <1>1 DEF KeyedRight, process, work
    <3>1. pc[a] # "built" /\ a \notin exposed' => \A x \in Hashed(a) : key[a].in[x] = disk'[x]
      <4>1. Inputs(a) \subseteq Files
        BY <1>1, Declared
      <4> QED
        BY <1>2, <1>3, <2>3, <2>4, <4>1
    <3>2. KeyOf(a, memo, key[a].in)' = KeyOf(a, memo, key[a].in) /\ Hashed(a)' = Hashed(a)
          /\ Inputs(a)' = Inputs(a)
      BY <1>1 DEF KeyOf, Outputs, Hashed, Inputs, process, work
    <3> QED
      BY <1>1, <2>3, <3>1, <3>2 DEF process, work
  <2>6. Honest(a)'
    <3> SUFFICES ASSUME phase = "on", option.sandbox, option.cache, a \notin exposed', ~upgraded
                 PROVE  AsMade(a)'
      BY <1>1 DEF Honest, Sure, process
    <3>1. AsMade(a)
      BY <1>2, <2>1 DEF Honest, Sure
    <3>2. pc[a] \in {"harvest", "verify", "put"} => f \notin Inputs(a) \union Range(Outputs(a))
      BY <1>2, <2>3, <2>4 DEF Keyed, Relying
    <3>3. Inputs(a) \union Range(Outputs(a)) \subseteq Files
      BY <1>1, Declared
    <3>4. UNCHANGED <<manifest, tool, pc, key, box, done>> /\ Outputs(a)' = Outputs(a)
      BY <1>1 DEF work, Outputs
    <3>5. CASE pc[a] = "harvest"
      <4>1. PICK n \in 0..Len(Outputs(a)) : n = Len(done[a])
        BY <1>1, <2>1, <3>5, Declared DEF Looping, Loops
      <4>2. MadeUpTo(a, n)'
        BY <1>1, <1>3, <3>1, <3>2, <3>3, <3>4, <3>5, <4>1, StillMade DEF AsMade
      <4>3. \A o \in DOMAIN box[a] : box[a][o] = Makes(a, o)'
        <5>1. TAKE o \in DOMAIN box[a]
        <5>2. \A x \in Reading(a) : disk'[x] = disk[x]
          BY <1>3, <3>1, <3>2, <3>3, <3>5 DEF AsMade, MadeUpTo
        <5>3. Makes(a, o)' = Makes(a, o)
          BY <3>4, <5>2, SameMakes
        <5> QED
          BY <3>1, <3>5, <5>3 DEF AsMade
      <4>4. MadeUpTo(a, Len(done[a]))'
        BY <3>4, <4>1, <4>2 DEF MadeUpTo
      <4> QED
        BY <3>4, <3>5, <4>3, <4>4 DEF AsMade
    <3>6. CASE pc[a] \in {"verify", "put"}
      <4>1. PICK n \in 0..Len(Outputs(a)) : n = Len(Outputs(a))
        BY <1>1, Declared
      <4>2. MadeUpTo(a, n)'
        BY <1>1, <1>3, <3>1, <3>2, <3>3, <3>4, <3>6, <4>1, StillMade DEF AsMade
      <4>3. MadeUpTo(a, Len(Outputs(a)))'
        BY <3>4, <4>1, <4>2 DEF MadeUpTo
      <4>4. ASSUME pc[a] = "put", NEW i \in 1..Len(done[a])
            PROVE  done[a][i] = Makes(a, Outputs(a)[i])'
        <5>1. PICK o : o = Outputs(a)[i]
          OBVIOUS
        <5>2. \A x \in Reading(a) : disk'[x] = disk[x]
          BY <1>3, <3>1, <3>2, <3>3, <3>6 DEF AsMade, MadeUpTo
        <5>3. Makes(a, o)' = Makes(a, o)
          BY <3>4, <5>2, SameMakes
        <5> QED
          BY <3>1, <3>4, <4>4, <5>1, <5>3 DEF AsMade, Makes
      <4> QED
        BY <3>4, <3>6, <4>3, <4>4 DEF AsMade
    <3>7. CASE pc[a] \notin {"harvest", "verify", "put"}
      BY <1>1, <3>4, <3>7 DEF AsMade
    <3> QED
      BY <3>5, <3>6, <3>7
  <2> QED
    BY <2>2, <2>5, <2>6
<1> QED
  BY <1>4, <1>5, <1>6 DEF WInv

LEMMA UpgradeStep ==
    ASSUME WellFormed, WInv, Upgrade PROVE WInv'
<1>1. /\ ITyped /\ Disciplined /\ StoreIsTrue /\ quiet' = FALSE /\ settled' = FALSE
      /\ tool' = 3 - tool /\ upgraded' = (upgraded \/ (phase = "on" /\ memo # 0))
      /\ UNCHANGED <<manifest, disk, store, process, work, exposed, suspect, loose, kept,
                     ran, touched, builds>>
  BY DEF WInv, Upgrade, Change
<1>2. ITyped' /\ StoreIsTrue'
  <2>1. tool' \in {1, 2}
    BY <1>1 DEF ITyped
  <2>2. upgraded' \in BOOLEAN
    BY <1>1
  <2> QED
    BY <1>1, <2>1, <2>2 DEF ITyped, StoreIsTrue, process, work
<1>3. Disciplined'
  BY <1>1 DEF Disciplined, process, work
<1>4. ASSUME NEW a \in Actions PROVE Looping(a)' /\ KeyedRight(a)' /\ Honest(a)'
  <2>1. Looping(a) /\ KeyedRight(a)
    BY DEF WInv
  <2>2. Looping(a)'
    BY <1>1, <2>1 DEF Looping, Outputs, work
  <2>3. KeyedRight(a)'
    BY <1>1, <2>1 DEF KeyedRight, KeyOf, Hashed, Inputs, Outputs, process, work
  <2>4. Honest(a)'
    BY <1>1, <2>1 DEF Honest, Sure, AsMade, KeyedRight, Keyed, process, work
  <2> QED
    BY <2>2, <2>3, <2>4
<1> QED
  BY <1>2, <1>3, <1>4 DEF WInv

LEMMA RewriteStep ==
    ASSUME WellFormed, WInv, Rewrite PROVE WInv'
<1>1. /\ ITyped /\ Disciplined /\ StoreIsTrue /\ phase = "off" /\ quiet' = FALSE /\ settled' = FALSE
      /\ manifest' \in Manifests
      /\ UNCHANGED <<disk, tool, store, process, work, exposed, upgraded, suspect, loose,
                     kept, ran, touched, builds>>
  BY DEF WInv, Rewrite, Change
<1>2. ITyped' /\ StoreIsTrue'
  BY <1>1 DEF ITyped, StoreIsTrue, process, work
<1>3. Disciplined'
  BY <1>1 DEF Disciplined, process, work
<1>4. ASSUME NEW a \in Actions PROVE Looping(a)' /\ KeyedRight(a)' /\ Honest(a)'
  <2>1. Looping(a) /\ pc[a] \notin Loops
    BY <1>1 DEF WInv, Disciplined, Final, Loops
  <2> QED
    BY <1>1, <2>1 DEF Looping, KeyedRight, Honest, process, work
<1> QED
  BY <1>2, <1>3, <1>4 DEF WInv

LEMMA ForgetStep ==
    ASSUME WellFormed, WInv, Forget PROVE WInv'
<1>1. /\ ITyped /\ Disciplined /\ StoreIsTrue /\ settled' = FALSE
      /\ UNCHANGED <<world, process, work, truth, quiet, kept, ran, touched, builds>>
  BY DEF WInv, Forget, Fault
<1>2. PICK K \in SUBSET DOMAIN store : store' = [j \in K |-> store[j]]
  BY DEF Forget
<1>3. ITyped' /\ StoreIsTrue'
  BY <1>1, <1>2 DEF ITyped, StoreIsTrue, world, process, work, truth
<1>4. Disciplined'
  BY <1>1 DEF Disciplined, world, process, work, truth
<1>5. ASSUME NEW a \in Actions PROVE Looping(a)' /\ KeyedRight(a)' /\ Honest(a)'
  <2>1. Looping(a) /\ KeyedRight(a) /\ Honest(a)
    BY DEF WInv
  <2> QED
    BY <1>1, <2>1 DEF Looping, KeyedRight, Honest, AsMade, Sure, MadeUpTo, Makes, KeyOf, Hashed, Inputs,
                      Outputs, Reading, Doubtful, world, process, work, truth
<1> QED
  BY <1>3, <1>4, <1>5 DEF WInv

LEMMA InitWInv == Init => WInv
<1> SUFFICES ASSUME Init PROVE WInv
  OBVIOUS
<1>1. ITyped
  BY DEF Init, ITyped
<1>2. Disciplined
  BY DEF Init, Disciplined, Keyed
<1>3. StoreIsTrue
  BY NothingYet DEF Init, StoreIsTrue
<1>4. \A a \in Actions : pc[a] = "wait" /\ done[a] = <<>>
  BY DEF Init
<1>5. \A a \in Actions : Looping(a) /\ KeyedRight(a) /\ Honest(a)
  BY <1>4, NothingYet DEF Looping, Loops, KeyedRight, Keyed, Honest, AsMade
<1> QED
  BY <1>1, <1>2, <1>3, <1>5 DEF WInv

LEMMA NextWInv == WellFormed /\ WInv /\ [Next]_vars => WInv'
<1> SUFFICES ASSUME WellFormed, WInv, [Next]_vars PROVE WInv'
  OBVIOUS
<1>1. ASSUME NEW a \in Actions, Step(a) PROVE WInv'
  BY <1>1, CheckInputsStep, SkipStep, DigestToolStep, HashInputStep, LookupStep, RestoreStep,
     ExecStep, HarvestStep, CheckOutputsStep, PutStep DEF Step
<1>2. CASE UNCHANGED vars
  <2>1. /\ ITyped' /\ Disciplined' /\ StoreIsTrue'
    BY <1>2 DEF WInv, ITyped, Disciplined, StoreIsTrue, vars, world, process, work, truth, progress, bounds
  <2>2. ASSUME NEW a \in Actions PROVE Looping(a)' /\ KeyedRight(a)' /\ Honest(a)'
    <3>1. Looping(a) /\ KeyedRight(a) /\ Honest(a)
      BY DEF WInv
    <3>2. Looping(a)'
      BY <1>2, <3>1 DEF Looping, Outputs, vars, world, process, work
    <3>3. KeyedRight(a)'
      BY <1>2, <3>1 DEF KeyedRight, KeyOf, Hashed, Inputs, Outputs, vars, world, process, work, truth, progress
    <3>4. AsMade(a) => AsMade(a)'
      BY <1>2 DEF AsMade, MadeUpTo, Makes, Inputs, Outputs, Reading, Doubtful, vars, world, process, work,
                  truth, progress
    <3>5. Honest(a)'
      BY <1>2, <3>1, <3>4 DEF Honest, Sure, vars, world, process, work, truth, progress
    <3> QED
      BY <3>2, <3>3, <3>5
  <2> QED
    BY <2>1, <2>2 DEF WInv
<1> QED
  BY <1>1, <1>2, StartBuildStep, EndBuildStep, KillStep, EditStep, UpgradeStep, RewriteStep,
     ForgetStep DEF Next

\* Where every file has one writer and its readers wait for it, an action's key
\* and what it leaves agree unless someone interferes.
THEOREM WorkInvariant == WellFormed => (Spec => []WInv)
<1> SUFFICES ASSUME WellFormed PROVE Spec => []WInv
  OBVIOUS
<1>1. WInv /\ [Next]_vars => WInv'
  BY NextWInv
<1> QED
  BY InitWInv, <1>1, PTL DEF Spec

\* Every entry made in a sandbox under undisturbed inputs and tools covers what
\* its command read, and holds what the command makes of it.
THEOREM EntriesAreTrue == WellFormed => (Spec => []StoreIsTrue)
<1>1. WInv => StoreIsTrue
  BY DEF WInv
<1> QED
  BY WorkInvariant, <1>1, PTL

-----------------------------------------------------------------------------
(* A build from scratch.                                                   *)

\* Induction up to n, for the recursive functions over the actions.
LEMMA UpTo ==
    ASSUME NEW n \in Nat, NEW A, 0 \in A, \A i \in 1..n : i - 1 \in A => i \in A
    PROVE  0..n \subseteq A
<1> DEFINE B == {0..i : i \in (0..n) \ A}
<1>1. SUFFICES ASSUME NEW j \in 0..n, j \notin A PROVE FALSE
  OBVIOUS
<1>2. 0..j \in B /\ B \subseteq SUBSET (0..n)
  <2>1. \A i \in 0..n : 0..i \subseteq 0..n
    OBVIOUS
  <2> QED
    BY <1>1, <2>1
<1>3. IsFiniteSet(0..n)
  BY FS_Interval
<1>4. IsWellFoundedOn(StrictSubsetOrdering(0..n), SUBSET (0..n))
  BY <1>3, FS_StrictSubsetOrderingWellFounded, FS_FiniteSubsetsOfFinite
<1>5. \E T \in B : \A U \in B : ~(<<U, T>> \in StrictSubsetOrdering(0..n))
  BY <1>2, <1>4, WFMin
<1>6. PICK i \in (0..n) \ A : \A U \in B : ~(<<U, 0..i>> \in StrictSubsetOrdering(0..n))
  BY <1>5
<1>7. i \in 1..n /\ i - 1 \in (0..n) \ A
  BY <1>6
<1>8. 0..(i - 1) \in B /\ 0..(i - 1) \subseteq 0..i /\ 0..(i - 1) # 0..i
  <2>1. i \in 0..i /\ i \notin 0..(i - 1)
    BY <1>7
  <2>2. 0..(i - 1) \subseteq 0..i
    BY <1>7
  <2> QED
    BY <1>7, <2>1, <2>2
<1>9. <<0..(i - 1), 0..i>> \in StrictSubsetOrdering(0..n)
  <2>1. 0..i \subseteq 0..n /\ 0..(i - 1) \subseteq 0..n
    BY <1>7
  <2> QED
    BY <1>8, <2>1 DEF StrictSubsetOrdering
<1> QED
  BY <1>6, <1>8, <1>9

\* The workspace after action n on the workspace w.
After(n, w) ==
    LET c == manifest[n].cmd
    IN  Over([o \in Range(manifest[n].outputs) |->
                 Made(c, tool, o, [i \in DOMAIN Reads[c] |-> w[Reads[c][i]]])], w)

\* When every action would leave everything as it is, a build does.
LEMMA ScratchStays ==
    ASSUME \A n \in Actions : After(n, disk) = disk
    PROVE  Scratch[N] = disk
<1>1. \E g : g = [n \in 0..N |-> IF n = 0 THEN disk ELSE After(n, g[n - 1])]
  <2>1. PICK g : g = [n \in 0..N |-> disk]
    OBVIOUS
  <2>2. \A n \in 0..N : n # 0 => n \in Actions /\ n - 1 \in 0..N
    BY NAssumption DEF Actions
  <2>3. \A n \in 0..N : n # 0 => After(n, g[n - 1]) = disk
    BY <2>1, <2>2
  <2>4. g = [n \in 0..N |-> IF n = 0 THEN disk ELSE After(n, g[n - 1])]
    BY <2>1, <2>3
  <2> QED
    BY <2>4
<1>2. Scratch = [n \in 0..N |-> IF n = 0 THEN disk ELSE After(n, Scratch[n - 1])]
  BY <1>1 DEF Scratch, After
<1>3. PICK A : A = {n \in 0..N : Scratch[n] = disk}
  OBVIOUS
<1>4. 0 \in A
  BY <1>2, <1>3, NAssumption
<1>5. \A i \in 1..N : i - 1 \in A => i \in A
  BY <1>2, <1>3, NAssumption DEF Actions
<1>6. 0..N \subseteq A
  BY <1>4, <1>5, UpTo, NAssumption
<1> QED
  BY <1>3, <1>6, NAssumption

\* However the workspace and the store came to be as they are, a sandboxed build
\* that built or restored everything leaves what a build from scratch would.
THEOREM RebuildIsClean == WellFormed => (Spec => []BuildIsClean)
<1>1. WInv => BuildIsClean
  <2> SUFFICES ASSUME WInv, quiet, option.sandbox,
                      \A a \in Actions : pc[a] = "built" /\ key[a] \notin suspect \union loose
               PROVE  disk = Scratch[N]
    BY DEF BuildIsClean
  <2>1. ASSUME NEW a \in Actions PROVE After(a, disk) = disk
    <3>1. ITyped /\ MadeUpTo(a, Len(Outputs(a)))
      BY DEF WInv, Honest, AsMade, Sure, Doubtful
    <3>2. \A o \in Range(Outputs(a)) : disk[o] = Makes(a, o)
      BY <3>1, Declared DEF MadeUpTo
    <3>3. PICK P : P = [o \in Range(Outputs(a)) |-> Makes(a, o)]
      OBVIOUS
    <3>4. Over(P, disk) = disk
      <4>1. DOMAIN P \union DOMAIN disk = Files
        BY <3>1, <3>3, Declared DEF ITyped
      <4>2. \A f \in Files : (IF f \in DOMAIN P THEN P[f] ELSE disk[f]) = disk[f]
        BY <3>2, <3>3
      <4> QED
        BY <3>1, <4>1, <4>2 DEF Over, ITyped
    <3>5. After(a, disk) = Over(P, disk)
      BY <3>3 DEF After, Makes, Outputs
    <3> QED
      BY <3>4, <3>5
  <2> QED
    BY <2>1, ScratchStays
<1> QED
  BY WorkInvariant, <1>1, PTL

-----------------------------------------------------------------------------
(* What a quiet build keeps.                                               *)

\* In a quiet build the entry of an action kept is what is in the workspace.
Saved(a) ==
    quiet =>
        /\ a \in kept => pc[a] = "built" /\ option.cache
        /\ a \in kept /\ key[a] \in DOMAIN store =>
              \A i \in 1..Len(Outputs(a)) : store[key[a]][i] = disk[Outputs(a)[i]]
        /\ pc[a] = "restore" /\ key[a] \in DOMAIN store =>
              \A i \in 1..Len(done[a]) : store[key[a]][i] = disk[Outputs(a)[i]]
        /\ pc[a] = "put" =>
              \A i \in 1..Len(done[a]) : done[a][i] = disk[Outputs(a)[i]]

LEMMA StepIsAlone ==
    ASSUME WellFormed, WInv, NEW b \in Actions, Step(b) PROVE Alone(b)
BY CheckInputsStep, SkipStep, DigestToolStep, HashInputStep, LookupStep, RestoreStep,
   ExecStep, HarvestStep, CheckOutputsStep, PutStep DEF Step

\* What a step does to the entries and to what is kept.
LEMMA StepStores ==
    ASSUME NEW b \in Actions, Step(b)
    PROVE  /\ kept' \ {b} = kept \ {b}
           /\ store' = store
              \/ /\ pc[b] = "put" /\ DOMAIN store' = DOMAIN store \union {key[b]}
                 /\ \A k \in DOMAIN store \ {key[b]} : store'[k] = store[k]
           /\ pc[b] \notin {"restore", "put"} => kept' = kept
           /\ manifest' = manifest /\ tool' = tool /\ touched' = touched
           /\ settled' => settled
           /\ ran' = ran \/ (pc[b] = "exec" /\ ran' = ran \union {b})
<1>1. CASE CheckInputs(b) \/ Skip(b) \/ DigestTool(b) \/ HashInput(b) \/ Lookup(b) \/ CheckOutputs(b)
  BY <1>1 DEF CheckInputs, Skip, DigestTool, HashInput, Lookup, CheckOutputs, progress, world
<1>2. CASE Restore(b)
  BY <1>2 DEF Restore, Fault, NoFault
<1>3. CASE Exec(b)
  BY <1>3 DEF Exec, Fault, NoFault
<1>4. CASE Harvest(b)
  BY <1>4 DEF Harvest, Fault, NoFault
<1>5. CASE Put(b)
  <2>1. /\ kept' \in {kept, kept \union {b}} /\ pc[b] = "put" /\ (settled' => settled)
        /\ UNCHANGED <<world, touched, ran>>
    BY <1>5 DEF Put, Fault, NoFault
  <2>2. store' = store \/ store' = Over([k \in {key[b]} |-> Append(done[b], disk[Current(b)])], store)
    BY <1>5 DEF Put
  <2>3. store' = store \/ /\ DOMAIN store' = DOMAIN store \union {key[b]}
                          /\ \A k \in DOMAIN store \ {key[b]} : store'[k] = store[k]
    BY <2>2 DEF Over
  <2> QED
    BY <2>1, <2>3 DEF world
<1> QED
  BY <1>1, <1>2, <1>3, <1>4, <1>5 DEF Step

\* The files and the entry of another action stay as they are.
LEMMA SavedOthers ==
    ASSUME WellFormed, WInv, NEW b \in Actions, Step(b), NEW a \in Actions \ {b}, Saved(a)
    PROVE  Saved(a)'
<1>1. /\ ITyped /\ Disciplined /\ Looping(a) /\ KeyedRight(a) /\ KeyedRight(b) /\ Alone(b)
  BY StepIsAlone DEF WInv
<1> SUFFICES ASSUME quiet PROVE Saved(a)!2'
  BY <1>1 DEF Saved, Alone
<1>2. /\ pc'[a] = pc[a] /\ key'[a] = key[a] /\ done'[a] = done[a] /\ option' = option
      /\ Outputs(a)' = Outputs(a) /\ (a \in kept' <=> a \in kept)
  BY <1>1, StepStores DEF Alone, Outputs
<1>3. pc[a] \in {"built", "restore", "put"} =>
         \A i \in 1..Len(Outputs(a)) : disk'[Outputs(a)[i]] = disk[Outputs(a)[i]]
  <2>1. pc[a] \in {"built", "restore", "put"} => \A f \in Range(Outputs(a)) : f \in Files /\ disk'[f] = disk[f]
    BY <1>1, Separate, Declared DEF Alone, Final, Keyed
  <2> QED
    BY <1>1, <2>1, Declared
<1>4. pc[a] \in {"built", "restore"} /\ option.cache =>
         /\ key[a] \in DOMAIN store' => key[a] \in DOMAIN store
         /\ key[a] \in DOMAIN store => store'[key[a]] = store[key[a]]
  <2>1. CASE store' = store
    BY <2>1
  <2>2. CASE pc[b] = "put"
    <3>1. pc[a] \in {"built", "restore"} /\ option.cache => key[a] # key[b]
      BY <1>1, <2>2, KeysDiffer DEF KeyedRight, Keyed, Alone
    <3> QED
      BY <2>2, <3>1, StepStores
  <2> QED
    BY <2>1, <2>2, StepStores
<1>5. pc[a] \in Loops => \A i \in 1..Len(done[a]) : i \in 1..Len(Outputs(a))
  BY <1>1, Declared DEF Looping
<1>6. pc[a] = "restore" => option.cache
  BY <1>1 DEF Disciplined
<1> QED
  BY <1>2, <1>3, <1>4, <1>5, <1>6 DEF Saved, Loops

\* The next output, and those before it, when one is written.
LEMMA WroteNext ==
    ASSUME WellFormed, ITyped, NEW b \in Actions, NEW n \in Nat, n + 1 \in 1..Len(Outputs(b)), NEW v,
           disk' = [disk EXCEPT ![Outputs(b)[n + 1]] = v]
    PROVE  /\ disk'[Outputs(b)[n + 1]] = v
           /\ \A i \in 1..n : disk'[Outputs(b)[i]] = disk[Outputs(b)[i]]
<1>1. PICK o : o = Outputs(b)
  OBVIOUS
<1>2. o \in Seq(Files) /\ DOMAIN o = 1..Len(o) /\ Len(o) \in Nat
  BY <1>1, Declared
<1>3. \A i, j \in 1..Len(o) : o[i] = o[j] => i = j
  BY <1>1, <1>2 DEF WellFormed, ITyped, Outputs
<1>4. ASSUME NEW i \in 1..n PROVE disk'[o[i]] = disk[o[i]]
  <2>1. i \in 1..Len(o) /\ n + 1 \in 1..Len(o) /\ i # n + 1
    BY <1>1, <1>2
  <2>2. o[i] # o[n + 1] /\ o[i] \in Files
    BY <1>2, <1>3, <2>1
  <2> QED
    BY <1>1, <2>2 DEF ITyped
<1>5. o[n + 1] \in Files
  BY <1>1, <1>2
<1> QED
  BY <1>1, <1>4, <1>5 DEF ITyped

LEMMA SavedOwn ==
    ASSUME WellFormed, WInv, NEW b \in Actions, Step(b), Saved(b)
    PROVE  Saved(b)'
<1>1. /\ ITyped /\ Disciplined /\ Looping(b) /\ KeyedRight(b) /\ Alone(b)
  BY StepIsAlone DEF WInv
<1>2. UNCHANGED <<manifest, option, quiet>> /\ Outputs(b)' = Outputs(b) /\ pc[b] \notin Final
  BY <1>1 DEF Alone, Outputs
<1> SUFFICES ASSUME quiet PROVE Saved(b)!2'
  BY <1>2 DEF Saved
<1>3. b \notin kept
  BY <1>2 DEF Saved, Final
<1>4. CASE CheckInputs(b) \/ Skip(b) \/ DigestTool(b) \/ HashInput(b) \/ Lookup(b) \/ CheckOutputs(b)
  <2>1. done'[b] = done[b] /\ kept' = kept
        /\ (pc'[b] \in {"restore", "put"} => pc[b] \in {"hash", "verify"})
    BY <1>1, <1>4 DEF CheckInputs, Skip, DigestTool, HashInput, Lookup, CheckOutputs, progress, Goto, ITyped
  <2>2. pc'[b] \in {"restore", "put"} => Len(done'[b]) = 0
    BY <1>1, <2>1, NothingYet DEF Looping, Loops
  <2> QED
    BY <1>3, <2>1, <2>2 DEF Saved
<1>5. CASE Exec(b) \/ Harvest(b)
  <2>1. kept' = kept /\ pc'[b] \notin {"restore", "put"}
    BY <1>1, <1>5 DEF Exec, Harvest, StepTo, Break, Goto, ITyped
  <2> QED
    BY <1>3, <2>1
<1>6. CASE Restore(b)
  <2>1. /\ pc[b] = "restore" /\ store' = store /\ key' = key /\ option.cache
        /\ Len(done[b]) \in Nat /\ Len(done[b]) + 1 \in 1..Len(Outputs(b))
        /\ Current(b) = Outputs(b)[Len(done[b]) + 1]
    BY <1>1, <1>6, CurrentIsOutput DEF Restore, Loops, Disciplined
  <2>2. CASE Break(b, "exec") /\ kept' = kept
    BY <1>1, <1>3, <2>1, <2>2 DEF Break, Goto, ITyped
  <2>3. CASE /\ key[b] \in DOMAIN store
             /\ disk' = [disk EXCEPT ![Current(b)] = store[key[b]][Len(done[b]) + 1]]
             /\ StepTo(b, disk'[Current(b)], "built")
             /\ kept' = IF AtLast(b) THEN kept \union {b} ELSE kept
    <3>1. PICK n \in Nat : n = Len(done[b])
      BY <2>1
    <3>2. PICK v : v = store[key[b]][n + 1]
      OBVIOUS
    <3>3. /\ disk'[Outputs(b)[n + 1]] = v
          /\ \A i \in 1..n : disk'[Outputs(b)[i]] = disk[Outputs(b)[i]]
      <4>1. disk' = [disk EXCEPT ![Outputs(b)[n + 1]] = v] /\ n + 1 \in 1..Len(Outputs(b))
        BY <2>1, <2>3, <3>1, <3>2
      <4> QED
        BY <1>1, <4>1, WroteNext
    <3>4. \A i \in 1..(n + 1) : store[key[b]][i] = disk'[Outputs(b)[i]]
      <4>1. \A i \in 1..n : store[key[b]][i] = disk[Outputs(b)[i]]
        BY <2>1, <2>3, <3>1 DEF Saved
      <4> QED
        BY <3>2, <3>3, <4>1
    <3>5. CASE AtLast(b)
      <4>1. pc'[b] = "built" /\ n + 1 = Len(Outputs(b))
        BY <1>1, <2>3, <3>1, <3>5 DEF StepTo, Goto, ITyped, AtLast
      <4> QED
        BY <1>2, <2>1, <3>4, <4>1
    <3>6. CASE ~AtLast(b)
      <4>1. pc'[b] = "restore" /\ kept' = kept /\ done'[b] = Append(done[b], disk'[Current(b)])
        BY <1>1, <2>1, <2>3, <3>6 DEF StepTo, Goto, ITyped
      <4>2. PICK c : c = disk'[Current(b)]
        OBVIOUS
      <4>3. Len(Append(done[b], c)) = n + 1
        BY <1>1, <3>1, Longer DEF Looping
      <4> QED
        BY <1>2, <1>3, <2>1, <3>4, <4>1, <4>2, <4>3
    <3> QED
      BY <3>5, <3>6
  <2> QED
    BY <1>6, <2>2, <2>3 DEF Restore
<1>7. CASE Put(b)
  <2>1. /\ pc[b] = "put" /\ disk' = disk /\ key' = key /\ option.cache
        /\ Len(done[b]) \in Nat /\ Len(done[b]) + 1 \in 1..Len(Outputs(b))
        /\ Current(b) = Outputs(b)[Len(done[b]) + 1]
    BY <1>1, <1>7, CurrentIsOutput DEF Put, Loops, Disciplined, world
  <2>2. PICK n \in Nat : n = Len(done[b])
    BY <2>1
  <2>3. PICK c : c = disk[Current(b)]
    OBVIOUS
  <2>4. PICK t : t = Append(done[b], c)
    OBVIOUS
  <2>5. Len(t) = n + 1 /\ \A i \in 1..(n + 1) : t[i] = disk[Outputs(b)[i]]
    <3>1. Len(t) = n + 1 /\ t[n + 1] = c /\ \A i \in 1..n : t[i] = done[b][i]
      BY <1>1, <2>2, <2>4, Longer DEF Looping
    <3>2. \A i \in 1..n : done[b][i] = disk[Outputs(b)[i]]
      BY <2>1, <2>2 DEF Saved
    <3> QED
      BY <2>1, <2>2, <2>3, <3>1, <3>2
  <2>6. CASE Break(b, "built") /\ kept' = kept
    BY <1>1, <1>3, <2>1, <2>6 DEF Break, Goto, ITyped
  <2>7. CASE StepTo(b, disk[Current(b)], "built") /\ ~AtLast(b) /\ kept' = kept
    <3>1. pc'[b] = "put" /\ done'[b] = t
      BY <1>1, <2>1, <2>3, <2>4, <2>7 DEF StepTo, Goto, ITyped
    <3> QED
      BY <1>2, <1>3, <2>1, <2>5, <2>7, <3>1
  <2>8. CASE /\ StepTo(b, disk[Current(b)], "built") /\ AtLast(b)
             /\ store' = Over([k \in {key[b]} |-> Append(done[b], disk[Current(b)])], store)
    <3>1. pc'[b] = "built" /\ n + 1 = Len(Outputs(b))
      BY <1>1, <2>2, <2>8 DEF StepTo, Goto, ITyped, AtLast
    <3>2. store'[key[b]] = t
      BY <2>3, <2>4, <2>8 DEF Over
    <3> QED
      BY <1>2, <2>1, <2>5, <3>1, <3>2
  <2> QED
    BY <1>7, <2>6, <2>7, <2>8 DEF Put
<1> QED
  BY <1>4, <1>5, <1>6, <1>7 DEF Step

LEMMA SavedNext ==
    ASSUME WellFormed, WInv, [Next]_vars, \A a \in Actions : Saved(a)
    PROVE  \A a \in Actions : Saved(a)'
<1>1. ASSUME NEW b \in Actions, Step(b) PROVE \A a \in Actions : Saved(a)'
  BY <1>1, SavedOwn, SavedOthers
<1>2. CASE StartBuild
  BY <1>2 DEF StartBuild, Saved
<1>3. CASE EndBuild
  BY <1>3 DEF EndBuild, Saved, work, world, Outputs
<1>4. CASE Kill
  <2>1. /\ pc' = [a \in Actions |-> IF pc[a] = "built" THEN "built" ELSE "failed"]
        /\ UNCHANGED <<manifest, store, option, key, quiet, kept>> /\ phase = "on"
    BY <1>4 DEF Kill
  <2>2. ASSUME NEW a \in Actions, quiet, a \in kept, NEW f \in Range(Outputs(a)) PROVE disk'[f] = disk[f]
    <3>1. pc[a] = "built" /\ f \in Files /\ ITyped /\ Disciplined
      BY <2>2, Declared DEF Saved, WInv
    <3>2. ASSUME NEW b \in Actions, pc[b] \in {"restore", "harvest"} PROVE f # Current(b)
      <4>1. Current(b) \in Range(Outputs(b))
        BY <3>1, <3>2, CurrentIsOutput DEF WInv, Loops
      <4> QED
        BY <2>2, <3>1, <3>2, <4>1, Separate
    <3> QED
      BY <1>4, <3>1, <3>2 DEF Kill, ITyped
  <2>3. ASSUME NEW a \in Actions PROVE Saved(a)'
    <3>1. \A i \in 1..Len(Outputs(a)) : Outputs(a)[i] \in Range(Outputs(a))
      BY Declared DEF WInv
    <3> QED
      BY <2>1, <2>2, <3>1 DEF Saved, Outputs
  <2> QED
    BY <2>3
<1>5. CASE Edit \/ Upgrade \/ Rewrite
  BY <1>5 DEF Edit, Upgrade, Rewrite, Change, Saved
<1>6. CASE Forget
  <2>1. PICK K \in SUBSET DOMAIN store : store' = [j \in K |-> store[j]]
    BY <1>6 DEF Forget
  <2>2. UNCHANGED <<world, process, work, quiet, kept>>
    BY <1>6 DEF Forget
  <2> QED
    BY <2>1, <2>2 DEF Saved, world, process, work, Outputs
<1>7. CASE UNCHANGED vars
  BY <1>7 DEF vars, world, process, work, progress, Saved, Outputs
<1> QED
  BY <1>1, <1>2, <1>3, <1>4, <1>5, <1>6, <1>7 DEF Next

-----------------------------------------------------------------------------
(* What a change can reach.                                                *)

\* An input of n is in F or is written by one of C.
Feeding(C, F, n) == Inputs(n) \cap (F \union UNION {Range(Outputs(b)) : b \in C}) # {}
Hereditary(C, F) == \A n \in Actions : Feeding(C \cap 1..(n - 1), F, n) => n \in C

\* The least set with every action that is fed by F or by it: Affected without
\* its recursion.
Reached(F) == {a \in Actions : \A C \in SUBSET Actions : Hereditary(C, F) => a \in C}

LEMMA FeedingGrows ==
    ASSUME NEW C, NEW D, NEW F, NEW G, NEW n, C \subseteq D, F \subseteq G, Feeding(C, F, n)
    PROVE  Feeding(D, G, n)
BY DEF Feeding

\* Whatever feeds an action that is reached is reached, and nothing else is.
LEMMA ReachedIsFed ==
    ASSUME NEW F, NEW n \in Actions
    PROVE  n \in Reached(F) <=> Feeding(Reached(F) \cap 1..(n - 1), F, n)
<1>1. PICK R : R = Reached(F)
  OBVIOUS
<1>2. R \subseteq Actions
  BY <1>1 DEF Reached
<1>3. ASSUME NEW m \in Actions, Feeding(R \cap 1..(m - 1), F, m) PROVE m \in R
  <2> SUFFICES ASSUME NEW C \in SUBSET Actions, Hereditary(C, F) PROVE m \in C
    BY <1>1 DEF Reached
  <2>1. R \subseteq C
    BY <1>1 DEF Reached
  <2>2. Feeding(C \cap 1..(m - 1), F, m)
    BY <1>3, <2>1, FeedingGrows
  <2> QED
    BY <2>2 DEF Hereditary
<1>4. ASSUME n \in R, ~Feeding(R \cap 1..(n - 1), F, n) PROVE FALSE
  <2>1. PICK C : C = R \ {n}
    OBVIOUS
  <2>2. ASSUME NEW m \in Actions, Feeding(C \cap 1..(m - 1), F, m) PROVE m \in C
    <3>1. Feeding(R \cap 1..(m - 1), F, m)
      BY <2>1, <2>2, FeedingGrows
    <3>2. m # n
      BY <1>4, <3>1
    <3> QED
      BY <1>3, <2>1, <3>1, <3>2
  <2>3. Hereditary(C, F) /\ C \in SUBSET Actions /\ n \notin C
    BY <1>2, <2>1, <2>2 DEF Hereditary
  <2> QED
    BY <1>1, <1>4, <2>3 DEF Reached
<1> QED
  BY <1>1, <1>3, <1>4

\* More changes reach more.
LEMMA ReachedGrows ==
    ASSUME NEW F, NEW G, F \subseteq G PROVE Reached(F) \subseteq Reached(G)
<1> SUFFICES ASSUME NEW a \in Reached(F), NEW C \in SUBSET Actions, Hereditary(C, G) PROVE a \in C
  BY DEF Reached
<1>1. Hereditary(C, F)
  BY FeedingGrows DEF Hereditary
<1> QED
  BY <1>1 DEF Reached

\* The recursion of Affected walks over exactly that set.
LEMMA AffectedIsReached == Affected(touched) = Reached(touched)
<1>1. PICK F : F = touched
  OBVIOUS
<1>2. PICK R : R = Reached(F)
  OBVIOUS
<1>3. PICK g : g = [n \in 0..N |-> R \cap 1..n]
  OBVIOUS
<1>4. /\ g[0] = {} /\ g[N] = R
      /\ \A n \in 1..N : g[n] = IF Feeding(g[n - 1], F, n) THEN g[n - 1] \union {n} ELSE g[n - 1]
  <2>1. R \subseteq 1..N /\ N \in Nat
    BY <1>2, NAssumption DEF Reached, Actions
  <2>2. g[0] = {} /\ g[N] = R
    <3>1. 0 \in 0..N /\ N \in 0..N /\ 1..0 = {}
      BY <2>1
    <3>2. g[0] = R \cap 1..0 /\ g[N] = R \cap 1..N
      BY <1>3, <3>1
    <3> QED
      BY <2>1, <3>1, <3>2
  <2>3. ASSUME NEW n \in 1..N
        PROVE  g[n] = IF Feeding(g[n - 1], F, n) THEN g[n - 1] \union {n} ELSE g[n - 1]
    <3>1. g[n] = R \cap 1..n /\ g[n - 1] = R \cap 1..(n - 1)
      BY <1>3, <2>1
    <3>2. n \in R <=> Feeding(R \cap 1..(n - 1), F, n)
      BY <1>2, ReachedIsFed DEF Actions
    <3>3. 1..n = 1..(n - 1) \union {n}
      BY <2>1
    <3> QED
      BY <3>1, <3>2, <3>3
  <2> QED
    BY <2>2, <2>3
<1> DEFINE Solves(r) == r = [n \in 0..N |->
              IF n = 0 THEN {}
              ELSE IF Feeding(r[n - 1], F, n) THEN r[n - 1] \union {n} ELSE r[n - 1]]
<1>5. Solves(g)
  <2>1. \A n \in 0..N : g[n] = IF n = 0 THEN {}
              ELSE IF Feeding(g[n - 1], F, n) THEN g[n - 1] \union {n} ELSE g[n - 1]
    <3>1. \A n \in 0..N : n # 0 => n \in 1..N
      BY NAssumption
    <3> QED
      BY <1>4, <3>1
  <2>2. g = [n \in 0..N |-> g[n]]
    BY <1>3
  <2>3. [n \in 0..N |-> g[n]] = [n \in 0..N |-> IF n = 0 THEN {}
              ELSE IF Feeding(g[n - 1], F, n) THEN g[n - 1] \union {n} ELSE g[n - 1]]
    BY <2>1
  <2> QED
    BY <2>2, <2>3
<1>6. PICK r : Solves(r) /\ Affected(F) = r[N]
  <2>1. Affected(F) = (CHOOSE q : Solves(q))[N]
    BY DEF Affected, Feeding
  <2>2. \E q : Solves(q)
    BY <1>5
  <2>3. Solves(CHOOSE q : Solves(q))
    BY <2>2
  <2> QED
    BY <2>1, <2>3
<1>7. PICK A : A = {n \in 0..N : r[n] = g[n]}
  OBVIOUS
<1>8. 0 \in A /\ \A i \in 1..N : i - 1 \in A => i \in A
  <2>1. r[0] = {} /\ \A n \in 1..N :
           r[n] = IF Feeding(r[n - 1], F, n) THEN r[n - 1] \union {n} ELSE r[n - 1]
    <3>1. \A n \in 0..N : r[n] = IF n = 0 THEN {}
              ELSE IF Feeding(r[n - 1], F, n) THEN r[n - 1] \union {n} ELSE r[n - 1]
      BY <1>6
    <3>2. 0 \in 0..N /\ \A n \in 1..N : n \in 0..N /\ n # 0
      BY NAssumption
    <3> QED
      BY <3>1, <3>2
  <2>2. 0 \in 0..N /\ \A n \in 1..N : n \in 0..N
    BY NAssumption
  <2> HIDE DEF Solves
  <2>3. 0 \in A
    BY <1>4, <1>7, <2>1, <2>2
  <2>4. ASSUME NEW i \in 1..N, i - 1 \in A PROVE i \in A
    <3>1. r[i - 1] = g[i - 1]
      BY <1>7, <2>4
    <3>2. r[i] = g[i]
      BY <1>4, <2>1, <3>1
    <3> QED
      BY <1>7, <2>2, <3>2
  <2> QED
    BY <2>3, <2>4
<1>9. 0..N \subseteq A
  BY <1>8, UpTo, NAssumption
<1> HIDE DEF Solves
<1>10. r[N] = g[N]
  <2>1. N \in 0..N
    BY NAssumption
  <2> QED
    BY <1>7, <1>9, <2>1
<1> QED
  BY <1>1, <1>2, <1>4, <1>6, <1>10

-----------------------------------------------------------------------------
(* What is not reached is not run.                                         *)

\* The key of a, computed from what is there.
Now(a) == KeyOf(a, tool, [f \in Inputs(a) |-> disk[f]])

\* After a build that kept everything, an action that no change reaches is
\* restored from the entry of that build, which writes what is there already.
Sparing(a) ==
    /\ Now(a) \in DOMAIN store
    /\ \A i \in 1..Len(Outputs(a)) :
          Outputs(a)[i] \notin touched => store[Now(a)][i] = disk[Outputs(a)[i]]
    /\ phase = "on" => pc[a] \in Final \union {"wait", "tool", "hash", "restore"}
    /\ phase = "on" /\ pc[a] \in {"hash", "restore"} =>
          \A f \in Hashed(a) : key[a].in[f] = disk[f]
Spared(a) ==
    settled /\ (phase = "off" \/ option.cache) /\ a \notin Reached(touched) => Sparing(a)

\* A build that follows runs the command of nothing else.
RanFew == phase = "on" /\ settled /\ option.cache => ran \subseteq Reached(touched)

\* Nobody writes an input of an action that is not reached, but those that are
\* not reached either.
LEMMA Unreached ==
    ASSUME WellFormed, ITyped, NEW a \in Actions, a \notin Reached(touched)
    PROVE  /\ Inputs(a) \cap touched = {}
           /\ \A b \in Reached(touched) : /\ Range(Outputs(b)) \cap Inputs(a) = {}
                                          /\ Range(Outputs(b)) \cap Range(Outputs(a)) = {}
<1>1. PICK F : F = touched
  OBVIOUS
<1>2. ~Feeding(Reached(F) \cap 1..(a - 1), F, a)
  BY <1>1, ReachedIsFed
<1>3. Inputs(a) \cap F = {}
  BY <1>2 DEF Feeding
<1>4. ASSUME NEW b \in Reached(F)
      PROVE  /\ Range(Outputs(b)) \cap Inputs(a) = {}
             /\ Range(Outputs(b)) \cap Range(Outputs(a)) = {}
  <2>1. b \in Actions \ {a}
    BY <1>1 DEF Reached
  <2>2. Range(Outputs(b)) \cap Range(Outputs(a)) = {}
    BY <2>1 DEF WellFormed, ITyped, Outputs
  <2>3. CASE b \in 1..(a - 1)
    BY <1>2, <2>2, <2>3 DEF Feeding
  <2>4. CASE b \notin 1..(a - 1)
    <3>1. PICK C : C = 1..(a - 1)
      OBVIOUS
    <3>2. C \in SUBSET Actions /\ \A c \in C : 1..(c - 1) \subseteq C
      BY <3>1, NAssumption DEF Actions
    <3>3. manifest[a].deps \subseteq C /\ \A c \in C : manifest[c].deps \subseteq C
      BY <3>1, <3>2, Declared
    <3>4. b \notin Ancestors(manifest, a)
      BY <2>4, <3>1, <3>2, <3>3 DEF Ancestors
    <3> QED
      BY <2>1, <2>2, <3>4 DEF WellFormed, ITyped, Outputs, Inputs
  <2> QED
    BY <2>3, <2>4
<1> QED
  BY <1>1, <1>3, <1>4

\* A complete key is the key of what is there.
LEMMA KeyIsNow ==
    ASSUME WInv, NEW b \in Actions, phase = "on", settled, option.cache, Sparing(b),
           pc[b] \in {"hash", "restore"}, Hashed(b) = Inputs(b)
    PROVE  key[b] = Now(b)
<1>1. /\ memo # 0 /\ key[b] = KeyOf(b, memo, key[b].in)
      /\ key[b].in = [f \in Hashed(b) |-> key[b].in[f]]
  BY DEF WInv, KeyedRight, Keyed
<1>2. memo = tool
  BY <1>1 DEF WInv, Disciplined
<1>3. \A f \in Inputs(b) : key[b].in[f] = disk[f]
  BY DEF Sparing
<1>4. key[b].in = [f \in Inputs(b) |-> disk[f]]
  BY <1>1, <1>3
<1> QED
  BY <1>1, <1>2, <1>4 DEF Now

\* In the build that follows, an action not reached changes no file but what was
\* touched, and stays on the way to its entry.
LEMMA SparedOwn ==
    ASSUME WellFormed, WInv, NEW b \in Actions, Step(b), settled', option.cache,
           b \notin Reached(touched), Spared(b)
    PROVE  /\ pc'[b] \in Final \union {"wait", "tool", "hash", "restore"}
           /\ pc'[b] \in {"hash", "restore"} => \A f \in Hashed(b)' : key'[b].in[f] = disk'[f]
           /\ store' = store /\ ran' = ran
           /\ \A f \in Files \ touched : disk'[f] = disk[f]
<1>1. /\ ITyped /\ Disciplined /\ Looping(b) /\ KeyedRight(b) /\ Alone(b)
      /\ phase = "on" /\ settled
  BY StepIsAlone, StepStores DEF WInv, Alone
<1>2. Sparing(b)
  BY <1>1 DEF Spared
<1>3. pc[b] \in {"wait", "tool", "hash", "restore"} /\ pc[b] \notin Final
  BY <1>1, <1>2 DEF Sparing, Alone
<1>4. store' = store /\ ran' = ran
  BY <1>3, StepStores
<1>5. CASE CheckInputs(b) \/ Skip(b)
  BY <1>1, <1>4, <1>5 DEF CheckInputs, Skip, Goto, ITyped, world, Final
<1>6. CASE DigestTool(b)
  <2>1. PICK t : t = memo'
    OBVIOUS
  <2>2. key'[b] = KeyOf(b, t, <<>>) /\ pc'[b] = "hash" /\ disk' = disk
    BY <1>1, <1>6, <2>1 DEF DigestTool, Goto, ITyped, world
  <2>3. DOMAIN key'[b].in = {}
    BY <2>2, NothingHashed
  <2> QED
    BY <1>4, <2>2, <2>3 DEF Hashed
<1>7. CASE HashInput(b)
  <2>1. PICK f \in Inputs(b) \ Hashed(b) :
          IF disk[f] = Absent
          THEN Goto(b, "failed") /\ UNCHANGED key
          ELSE /\ key' = [key EXCEPT ![b] =
                           KeyOf(b, @.tool, Over([x \in {f} |-> disk[x]], @.in))]
               /\ UNCHANGED pc
    BY <1>7 DEF HashInput
  <2>2. disk' = disk /\ pc[b] = "hash"
    BY <1>7 DEF HashInput, world
  <2>3. CASE disk[f] = Absent
    BY <1>1, <1>4, <2>1, <2>2, <2>3 DEF Goto, ITyped, Final
  <2>4. CASE disk[f] # Absent
    <3>1. PICK g : g = Over([x \in {f} |-> disk[x]], key[b].in)
      OBVIOUS
    <3>2. \A x \in DOMAIN g : g[x] = disk[x]
      BY <1>1, <1>2, <2>2, <3>1 DEF Over, Sparing, Hashed
    <3>3. pc' = pc /\ key'[b] = KeyOf(b, key[b].tool, g)
      BY <1>1, <2>1, <2>4, <3>1 DEF ITyped
    <3>4. key'[b].in = g
      BY <3>3 DEF KeyOf
    <3> QED
      BY <1>4, <2>2, <3>2, <3>3, <3>4 DEF Hashed
  <2> QED
    BY <2>3, <2>4
<1>8. CASE Lookup(b)
  <2>1. /\ pc[b] = "hash" /\ Hashed(b) = Inputs(b) /\ key' = key /\ disk' = disk
        /\ pc' = [pc EXCEPT ![b] = IF key[b] \in DOMAIN store THEN "restore" ELSE "exec"]
    BY <1>8 DEF Lookup, Goto, world
  <2>2. key[b] \in DOMAIN store
    BY <1>1, <1>2, <2>1, KeyIsNow DEF Sparing
  <2>3. pc'[b] = "restore"
    BY <1>1, <2>1, <2>2 DEF ITyped
  <2> QED
    BY <1>1, <1>2, <1>4, <2>1, <2>3 DEF Sparing, Hashed
<1>9. CASE Restore(b)
  <2>1. /\ pc[b] = "restore" /\ key' = key
        /\ Len(done[b]) + 1 \in 1..Len(Outputs(b)) /\ Current(b) \in Files
        /\ Current(b) = Outputs(b)[Len(done[b]) + 1]
    BY <1>1, <1>9, CurrentIsOutput DEF Restore, Loops
  <2>2. Hashed(b) = Inputs(b) /\ key[b] = Now(b) /\ key[b] \in DOMAIN store
    BY <1>1, <1>2, <2>1, KeyIsNow DEF KeyedRight, Keyed, Sparing
  <2>3. /\ disk' = [disk EXCEPT ![Current(b)] = store[key[b]][Len(done[b]) + 1]]
        /\ StepTo(b, disk'[Current(b)], "built")
    BY <1>9, <2>2 DEF Restore, Fault
  <2>4. Current(b) \notin touched => store[key[b]][Len(done[b]) + 1] = disk[Current(b)]
    BY <1>2, <2>1, <2>2 DEF Sparing
  <2>5. \A f \in Files \ touched : disk'[f] = disk[f]
    BY <1>1, <2>1, <2>3, <2>4 DEF ITyped
  <2>6. pc'[b] \in {"built", "restore"}
    BY <1>1, <2>1, <2>3 DEF StepTo, Goto, ITyped
  <2>7. \A f \in Inputs(b) : disk'[f] = disk[f]
    BY <1>1, <2>5, Unreached, Declared
  <2>8. \A f \in Hashed(b) : key[b].in[f] = disk[f]
    BY <1>1, <1>2, <2>1 DEF Sparing
  <2> QED
    BY <1>4, <2>1, <2>2, <2>5, <2>6, <2>7, <2>8 DEF Hashed, Final
<1> QED
  BY <1>3, <1>5, <1>6, <1>7, <1>8, <1>9 DEF Step, Exec, Harvest, CheckOutputs, Put

LEMMA SparedStep ==
    ASSUME WellFormed, WInv, NEW b \in Actions, Step(b), RanFew, \A a \in Actions : Spared(a)
    PROVE  RanFew' /\ \A a \in Actions : Spared(a)'
<1>1. /\ ITyped /\ Disciplined /\ KeyedRight(b) /\ Alone(b) /\ phase = "on"
      /\ UNCHANGED <<manifest, tool, phase, option, touched>> /\ (settled' => settled)
  BY StepIsAlone, StepStores DEF WInv, Alone
<1>2. PICK T : T = Reached(touched)
  OBVIOUS
<1>3. Reached(touched)' = T
  BY <1>1, <1>2 DEF Reached, Hereditary, Feeding, Inputs, Outputs
<1> SUFFICES ASSUME settled', option.cache
             PROVE  ran' \subseteq T /\ \A a \in Actions \ T : Sparing(a)'
  BY <1>1, <1>3 DEF RanFew, Spared
<1>4. settled /\ ran \subseteq T /\ \A a \in Actions \ T : Sparing(a)
  BY <1>1, <1>2 DEF RanFew, Spared
<1>5. b \notin T => /\ pc'[b] \in Final \union {"wait", "tool", "hash", "restore"}
                    /\ pc'[b] \in {"hash", "restore"} => \A f \in Hashed(b)' : key'[b].in[f] = disk'[f]
                    /\ store' = store /\ ran' = ran
                    /\ \A f \in Files \ touched : disk'[f] = disk[f]
  BY <1>2, SparedOwn
<1>6. ran' \subseteq T
  <2>1. ran' = ran \/ (ran' = ran \union {b})
    BY StepStores
  <2> QED
    BY <1>4, <1>5, <2>1
<1>7. ASSUME NEW a \in Actions \ T
      PROVE  /\ \A f \in Inputs(a) : disk'[f] = disk[f]
             /\ \A f \in Range(Outputs(a)) \ touched : disk'[f] = disk[f]
  <2>1. /\ Inputs(a) \subseteq Files /\ Range(Outputs(a)) \subseteq Files /\ Inputs(a) \cap touched = {}
        /\ b \in T => /\ Range(Outputs(b)) \cap Inputs(a) = {}
                      /\ Range(Outputs(b)) \cap Range(Outputs(a)) = {}
    BY <1>1, <1>2, Unreached, Declared
  <2>2. CASE b \in T
    BY <1>1, <2>1, <2>2 DEF Alone
  <2>3. CASE b \notin T
    BY <1>5, <2>1, <2>3
  <2> QED
    BY <2>2, <2>3
<1>8. ASSUME NEW a \in Actions \ T
      PROVE  Now(a) \in DOMAIN store' /\ store'[Now(a)] = store[Now(a)]
  <2>1. Now(a) \in DOMAIN store
    BY <1>4 DEF Sparing
  <2>2. CASE store' = store
    BY <2>1, <2>2
  <2>3. CASE store' # store
    <3>1. b \in T /\ pc[b] = "put" /\ DOMAIN store' = DOMAIN store \union {key[b]}
          /\ \A k \in DOMAIN store \ {key[b]} : store'[k] = store[k]
      BY <1>5, <2>3, StepStores
    <3>2. key[b] = KeyOf(b, memo, key[b].in)
      BY <1>1, <3>1 DEF KeyedRight, Keyed
    <3>3. Now(a) # key[b]
      BY <1>1, <3>1, <3>2, KeysDiffer DEF Now
    <3> QED
      BY <2>1, <3>1, <3>3
  <2> QED
    BY <2>2, <2>3
<1>9. ASSUME NEW a \in Actions \ T PROVE Sparing(a)'
  <2>1. [f \in Inputs(a) |-> disk'[f]] = [f \in Inputs(a) |-> disk[f]]
    BY <1>7
  <2>2. Now(a)' = Now(a) /\ Outputs(a)' = Outputs(a)
    BY <1>1, <2>1 DEF Now, KeyOf, Inputs, Outputs
  <2>3. \A i \in 1..Len(Outputs(a)) :
           Outputs(a)[i] \notin touched => store'[Now(a)][i] = disk'[Outputs(a)[i]]
    <3>1. \A i \in 1..Len(Outputs(a)) : Outputs(a)[i] \in Range(Outputs(a))
      BY <1>1, Declared
    <3> QED
      BY <1>4, <1>7, <1>8, <3>1 DEF Sparing
  <2>4. /\ pc'[a] \in Final \union {"wait", "tool", "hash", "restore"}
        /\ pc'[a] \in {"hash", "restore"} => \A f \in Hashed(a)' : key'[a].in[f] = disk'[f]
    <3>1. CASE a = b
      BY <1>5, <3>1
    <3>2. CASE a # b
      <4>1. pc'[a] = pc[a] /\ Hashed(a)' = Hashed(a) /\ key'[a] = key[a]
        BY <1>1, <3>2 DEF Alone, Hashed
      <4>2. pc[a] \in {"hash", "restore"} => Hashed(a) \subseteq Inputs(a)
        BY <1>1 DEF WInv, KeyedRight, Keyed
      <4> QED
        BY <1>1, <1>4, <1>7, <4>1, <4>2 DEF Sparing
    <3> QED
      BY <3>1, <3>2
  <2> QED
    BY <1>1, <1>8, <2>2, <2>3, <2>4 DEF Sparing
<1> QED
  BY <1>6, <1>9

\* A build that kept everything has an entry for what is there.
LEMMA SettledByEnd ==
    ASSUME WellFormed, WInv, EndBuild, settled', NEW a \in Actions, Saved(a)
    PROVE  Sparing(a)'
<1>1. /\ ITyped /\ Disciplined /\ KeyedRight(a) /\ quiet /\ a \in kept /\ key[a] \in DOMAIN store
      /\ phase' = "off" /\ touched' = {}
      /\ UNCHANGED <<world, store, work>>
  BY DEF WInv, EndBuild
<1>2. pc[a] = "built" /\ option.cache
  BY <1>1 DEF Saved
<1>3. /\ memo # 0 /\ key[a] = KeyOf(a, memo, key[a].in) /\ Hashed(a) = Inputs(a)
      /\ key[a].in = [f \in Hashed(a) |-> key[a].in[f]] /\ \A f \in Hashed(a) : key[a].in[f] = disk[f]
  BY <1>1, <1>2 DEF KeyedRight
<1>4. memo = tool
  BY <1>1, <1>3 DEF Disciplined
<1>5. key[a].in = [f \in Inputs(a) |-> disk[f]]
  BY <1>3
<1>6. key[a] = Now(a)
  BY <1>3, <1>4, <1>5 DEF Now
<1>7. \A i \in 1..Len(Outputs(a)) : store[Now(a)][i] = disk[Outputs(a)[i]]
  BY <1>1, <1>6 DEF Saved
<1>8. Now(a)' = Now(a) /\ Outputs(a)' = Outputs(a)
  BY <1>1 DEF Now, KeyOf, Inputs, Outputs, world
<1> QED
  BY <1>1, <1>6, <1>7, <1>8 DEF Sparing, world, work

\* An edit reaches more, and spares what it does not reach.
LEMMA SparedByEdit ==
    ASSUME WellFormed, WInv, Edit, RanFew, \A a \in Actions : Spared(a)
    PROVE  RanFew' /\ \A a \in Actions : Spared(a)'
<1>1. /\ ITyped /\ Disciplined
      /\ UNCHANGED <<manifest, tool, store, process, work, settled, ran>>
  BY DEF WInv, Edit
<1> SUFFICES ASSUME settled, phase = "off" \/ option.cache
             PROVE  /\ phase = "on" => ran \subseteq Reached(touched)'
                    /\ \A a \in Actions : a \notin Reached(touched)' => Sparing(a)'
  BY <1>1 DEF RanFew, Spared, process
<1>2. PICK f \in Files : touched' = touched \union {f} /\ \A x \in Files \ {f} : disk'[x] = disk[x]
  BY <1>1 DEF Edit, ITyped
<1>3. PICK F, G : F = touched /\ G = touched'
  OBVIOUS
<1>4. Reached(F) \subseteq Reached(G)
  BY <1>2, <1>3, ReachedGrows
<1>5. Reached(touched)' = Reached(G)
  BY <1>1, <1>3 DEF Reached, Hereditary, Feeding, Inputs, Outputs
<1>6. phase = "on" => ran \subseteq Reached(touched)'
  BY <1>3, <1>4, <1>5 DEF RanFew
<1>7. ASSUME NEW a \in Actions, a \notin Reached(G) PROVE Sparing(a)'
  <2>1. Sparing(a)
    BY <1>3, <1>4, <1>7 DEF Spared
  <2>2. f \notin Inputs(a)
    <3>1. ~Feeding(Reached(G) \cap 1..(a - 1), G, a)
      BY <1>7, ReachedIsFed
    <3> QED
      BY <1>2, <1>3, <3>1 DEF Feeding
  <2>3. Inputs(a) \subseteq Files /\ \A i \in 1..Len(Outputs(a)) : Outputs(a)[i] \in Files
    BY <1>1, Declared
  <2>4. [x \in Inputs(a) |-> disk'[x]] = [x \in Inputs(a) |-> disk[x]]
    BY <1>2, <2>2, <2>3
  <2>5. Now(a)' = Now(a) /\ Outputs(a)' = Outputs(a)
    BY <1>1, <2>4 DEF Now, KeyOf, Inputs, Outputs
  <2>6. \A i \in 1..Len(Outputs(a)) :
           Outputs(a)[i] \notin touched' => store[Now(a)][i] = disk'[Outputs(a)[i]]
    BY <1>2, <2>1, <2>3 DEF Sparing
  <2>7. phase = "on" /\ pc[a] \in {"hash", "restore"} => \A x \in Hashed(a) : key[a].in[x] = disk'[x]
    <3>1. phase = "on" /\ pc[a] \in {"hash", "restore"} => Hashed(a) \subseteq Inputs(a)
      BY DEF WInv, KeyedRight, Keyed
    <3> QED
      BY <1>2, <2>1, <2>2, <2>3, <3>1 DEF Sparing
  <2>8. Hashed(a)' = Hashed(a) /\ pc' = pc /\ key' = key /\ phase' = phase /\ store' = store
    BY <1>1 DEF Hashed, work, process
  <2> QED
    BY <2>1, <2>5, <2>6, <2>7, <2>8 DEF Sparing
<1> QED
  BY <1>5, <1>6, <1>7

LEMMA SparedNext ==
    ASSUME WellFormed, WInv, [Next]_vars, RanFew, \A a \in Actions : Saved(a) /\ Spared(a)
    PROVE  RanFew' /\ \A a \in Actions : Spared(a)'
<1>1. CASE StartBuild
  <2>1. /\ phase = "off" /\ phase' = "on" /\ ran' = {}
        /\ pc' = [a \in Actions |-> "wait"]
        /\ UNCHANGED <<world, store, settled, touched>>
    BY <1>1 DEF StartBuild
  <2>2. Reached(touched)' = Reached(touched)
    BY <2>1 DEF Reached, Hereditary, Feeding, Inputs, Outputs, world
  <2>3. ASSUME NEW a \in Actions, Sparing(a) PROVE Sparing(a)'
    <3>1. Now(a)' = Now(a) /\ Outputs(a)' = Outputs(a)
      BY <2>1 DEF Now, KeyOf, Inputs, Outputs, world
    <3> QED
      BY <2>1, <2>3, <3>1 DEF Sparing, world
  <2> QED
    BY <2>1, <2>2, <2>3 DEF RanFew, Spared
<1>2. CASE EndBuild
  <2>1. phase' = "off"
    BY <1>2 DEF EndBuild
  <2> QED
    BY <1>2, <2>1, SettledByEnd DEF RanFew, Spared
<1>3. CASE Kill \/ Upgrade \/ Rewrite \/ Forget
  <2>1. settled' = FALSE
    BY <1>3 DEF Kill, Upgrade, Rewrite, Forget, Fault
  <2> QED
    BY <2>1 DEF RanFew, Spared
<1>4. CASE UNCHANGED vars
  <2>1. UNCHANGED <<world, store, process, work, progress>>
    BY <1>4 DEF vars
  <2>2. Reached(touched)' = Reached(touched)
    BY <2>1 DEF Reached, Hereditary, Feeding, Inputs, Outputs, world, progress
  <2> QED
    BY <2>1, <2>2 DEF RanFew, Spared, Sparing, Now, KeyOf, Inputs, Outputs, Hashed, world, process, work,
                      progress
<1> QED
  BY <1>1, <1>2, <1>3, <1>4, SparedStep, SparedByEdit DEF Next

\* A rebuild runs only what a change since can have reached, whatever was edited
\* while a build ran and in whatever order the actions run.
THEOREM RebuildIsMinimal == WellFormed => (Spec => []OnlyAffectedRuns)
<1> SUFFICES ASSUME WellFormed PROVE Spec => []OnlyAffectedRuns
  OBVIOUS
<1> DEFINE SInv == RanFew /\ \A a \in Actions : Saved(a) /\ Spared(a)
<1>1. Init => SInv
  BY DEF Init, RanFew, Saved, Spared
<1>2. WInv /\ SInv /\ [Next]_vars => SInv'
  BY SavedNext, SparedNext
<1>3. SInv => OnlyAffectedRuns
  BY AffectedIsReached DEF RanFew, OnlyAffectedRuns
<1> HIDE DEF SInv
<1> QED
  BY WorkInvariant, <1>1, <1>2, <1>3, PTL DEF Spec
=============================================================================
