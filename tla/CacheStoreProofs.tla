--------------------------- MODULE CacheStoreProofs --------------------------
(***************************************************************************)
(* Theorems about the local cache, for any number of builders, keys,       *)
(* outputs, crashes, failing writes, damaged files and rewritten outputs,  *)
(* with a collection running beside them or not.                           *)
(*                                                                         *)
(* What a builder restores or records was true when it read it; the        *)
(* invariant says why it still is when it is used, although other builders *)
(* and the collector unlink and replace the same files meanwhile: a blob   *)
(* is filed only under its digest, an entry only with the outputs of one   *)
(* run, and a temporary file belongs to one writer.                        *)
(***************************************************************************)
EXTENDS CacheStore, TLAPS

\* The outputs of one action, all of them.
Full == [1..Outputs -> Digests]

Looking == {"stat", "touch", "restore"}
Before1 == {"lookup", "stat", "touch", "restore", "exec"}
Writing == {"unlink", "rename"}
Recorded == {"prev", "entry", "commit"}
Locations == {"idle"} \union Before1 \union Working

Domains ==
    /\ DOMAIN pc = Builders /\ DOMAIN key = Builders /\ DOMAIN idx = Builders
    /\ DOMAIN want = Builders /\ DOMAIN got = Builders /\ DOMAIN tmp = Builders
    /\ DOMAIN stamp = Builders /\ DOMAIN ws = Builders /\ DOMAIN res = Builders
    /\ DOMAIN report = Builders

Typed(b) ==
    /\ pc[b] \in Locations /\ key[b] \in Keys /\ idx[b] \in 1..Outputs
    /\ want[b] \in Seq(Digests) /\ got[b] \in Seq(Digests)
    /\ tmp[b] \in {0} \union TmpNames /\ stamp[b] \in Times
    /\ ws[b] \in [1..Outputs -> Digests \union {NoFile}]

Numbers == edits \in Nat /\ edits <= MaxEdits /\ damages \in Nat /\ clock \in Times

Fields == Domains /\ Numbers /\ \A b \in Builders : Typed(b)

\* The files: each blob file under a name, each entry under a key.
Files ==
    /\ DOMAIN cas \subseteq Names /\ cas \in [DOMAIN cas -> Blob]
    /\ DOMAIN ac \subseteq Keys /\ ac \in [DOMAIN ac -> Entry]

\* A temporary file is one writer's, and there until its rename.
Temporary ==
    /\ \A b \in Builders : pc[b] \in Writing <=> tmp[b] # 0
    /\ \A b \in Builders : tmp[b] # 0 => tmp[b] \in DOMAIN cas
    /\ \A b, c \in Builders : tmp[b] # 0 /\ tmp[b] = tmp[c] => b = c

\* Where a builder is in its loops, and what it has put behind it.
Local(b) ==
    /\ pc[b] \in {"lookup", "touch", "exec"} \union Recorded => idx[b] = 1
    /\ pc[b] # "idle" => res[b] # "hit"
    /\ pc[b] \in Looking \/ res[b] = "hit" => want[b] \in Full
    /\ pc[b] = "restore" => \A i \in 1..Outputs : i < idx[b] => ws[b][i] = want[b][i]
    /\ res[b] = "hit" => ws[b] = want[b]
    /\ pc[b] \in Before1 => got[b] = <<>>
    /\ pc[b] = "digest" => Len(got[b]) = idx[b] - 1
    /\ pc[b] \in {"blob"} \union Writing => Len(got[b]) = idx[b]
    /\ pc[b] \in Recorded => Len(got[b]) = Outputs
    /\ pc[b] \in Working => ws[b] \in Full

\* What a builder believes of its key is so, unless an output was rewritten.
Faithful(b) ==
    /\ pc[b] \in Looking \/ res[b] = "hit" => want[b] \in Makes[key[b]]
    /\ pc[b] \in Working =>
          /\ ws[b] \in Makes[key[b]]
          /\ \A i \in 1..Outputs : i <= Len(got[b]) => got[b][i] = ws[b][i]

\* A blob about to be renamed holds the bytes of its digest.
Sound(b) ==
    pc[b] \in Writing => cas[tmp[b]].bytes = got[b][idx[b]]

\* There, or unlinked by a writer about to put it there again, or that was.
There(d) ==
    \/ d \in DOMAIN cas
    \/ d \in lost
    \/ \E b \in Builders : pc[b] = "rename" /\ got[b][idx[b]] = d

\* How far a builder has stored its outputs.
Stored(b) ==
    pc[b] \in Working =>
        \A i \in 1..Outputs :
            i < idx[b] \/ pc[b] \in Recorded => There(got[b][i])

CInv ==
    /\ Fields /\ Files /\ Temporary
    /\ \A b \in Builders : Local(b)
    /\ edits = 0 => \A b \in Builders : Faithful(b)
    /\ damages + edits = 0 => \A b \in Builders : Sound(b)
    /\ NothingTorn
    /\ gpc = "idle" =>
          /\ drop = <<>> /\ \A b \in Builders : Stored(b)
          /\ \A k \in fresh \cap DOMAIN ac : \A i \in 1..Outputs : There(ac[k].out[i])

-----------------------------------------------------------------------------
\* An entry's outputs are a list of digests, one per output.
LEMMA FullIsSeq ==
    ASSUME NEW e \in Full
    PROVE  /\ e \in Seq(Digests) /\ Len(e) = Outputs
           /\ Range(e) = {e[i] : i \in 1..Outputs}
<1>1. e \in Seq(Digests) /\ Len(e) = Outputs
  BY OutputsAssumption DEF Full
<1>2. DOMAIN e = 1..Outputs
  BY DEF Full
<1> QED
  BY <1>1, <1>2 DEF Range

\* Two actions' outputs that agree one by one are the same.
LEMMA SameOutputs ==
    ASSUME NEW f \in [1..Outputs -> Digests \union {NoFile}],
           NEW g \in [1..Outputs -> Digests \union {NoFile}],
           \A i \in 1..Outputs : f[i] = g[i]
    PROVE  f = g
<1>1. f = [i \in 1..Outputs |-> f[i]]
  OBVIOUS
<1>2. g = [i \in 1..Outputs |-> g[i]]
  OBVIOUS
<1> QED
  BY <1>1, <1>2, Zenon

\* What a run may produce is an entry's outputs.
LEMMA MakesFull == \A k \in Keys : Makes[k] \subseteq Full
BY MakesAssumption DEF Full

\* One round of a loop over the outputs.
LEMMA AdvanceKeeps ==
    ASSUME Fields, NEW b \in Builders, NEW l, NEW m, Advance(b, l, m)
    PROVE  /\ DOMAIN pc' = Builders /\ DOMAIN idx' = Builders
           /\ idx'[b] \in 1..Outputs
           /\ \/ idx[b] < Outputs /\ pc'[b] = l /\ idx'[b] = idx[b] + 1
              \/ idx[b] = Outputs /\ pc'[b] = m /\ idx'[b] = 1
           /\ \A c \in Builders \ {b} : pc'[c] = pc[c] /\ idx'[c] = idx[c]
<1>1. idx[b] \in 1..Outputs /\ DOMAIN idx = Builders /\ DOMAIN pc = Builders
  BY DEF Fields, Domains, Typed
<1>2. idx' = [idx EXCEPT ![b] = IF idx[b] < Outputs THEN idx[b] + 1 ELSE 1]
  BY DEF Advance
<1>3. pc' = [pc EXCEPT ![b] = IF idx[b] < Outputs THEN l ELSE m]
  BY DEF Advance, Goto
<1>5. CASE idx[b] < Outputs
  BY <1>1, <1>2, <1>3, <1>5, OutputsAssumption
<1>6. CASE ~(idx[b] < Outputs)
  BY <1>1, <1>2, <1>3, <1>6, OutputsAssumption
<1> QED
  BY <1>5, <1>6

\* The invariant holds on whatever directory earlier builds left.
LEMMA InitCInv == Init => CInv
<1> SUFFICES ASSUME Init PROVE CInv
  OBVIOUS
<1>1. clock = 0 /\ 0 \in Times
  BY MaxClockAssumption DEF Init, Times
<1>2. Fields
  BY <1>1, OutputsAssumption, BoundsAssumption DEF Init, Fields, Domains, Typed, Numbers, Locations, NoFile
<1>3. PICK D \in SUBSET Digests : cas = [d \in D |-> [bytes |-> d, at |-> 0]]
  BY DEF Init
<1>4. PICK K \in SUBSET Keys :
          ac \in {f \in [K -> UNION {TrueEntries(k) : k \in K}] :
                     \A k \in K : f[k] \in TrueEntries(k)}
  BY DEF Init
<1>5. DOMAIN cas = D /\ \A d \in D : cas[d] \in Blob /\ cas[d].bytes = d
  BY <1>1, <1>3 DEF Blob
<1>6. DOMAIN ac = K /\ \A k \in K : ac[k] \in Entry /\ ac[k].out \in Makes[k]
  <2>1. DOMAIN ac = K /\ \A k \in K : ac[k] \in TrueEntries(k)
    BY <1>4
  <2> QED
    BY <1>1, <2>1, MakesFull DEF TrueEntries, Entry, Full
<1>7. ac \in [DOMAIN ac -> Entry] /\ cas \in [DOMAIN cas -> Blob]
  BY <1>3, <1>4, <1>5, <1>6
<1>8. Files
  BY <1>5, <1>6, <1>7 DEF Files, Names
<1>9. Temporary
  BY DEF Init, Temporary, Writing
<1>10. \A b \in Builders : Local(b) /\ Faithful(b) /\ Sound(b) /\ Stored(b)
  BY DEF Init, Local, Faithful, Sound, Stored, Looking, Before1, Writing, Recorded, Working
<1>11. NothingTorn /\ fresh = {}
  BY <1>5, <1>6 DEF NothingTorn, Init
<1>12. drop = <<>>
  BY DEF Init, CollectorInit
<1> QED
  BY <1>2, <1>8, <1>9, <1>10, <1>11, <1>12 DEF CInv

-----------------------------------------------------------------------------
Moves(b) == Begin(b) \/ Step(b) \/ PutFails(b) \/ Crash(b) \/ EditOutput(b)

Outside ==
    \/ MaxCollections > 0 /\ Collect /\ UNCHANGED <<local, counts>>
    \/ DamageBlob \/ DamageEntry \/ Tick \/ UNCHANGED vars

Same(c) ==
    /\ pc'[c] = pc[c] /\ key'[c] = key[c] /\ idx'[c] = idx[c] /\ want'[c] = want[c]
    /\ got'[c] = got[c] /\ tmp'[c] = tmp[c] /\ ws'[c] = ws[c] /\ res'[c] = res[c]
    /\ report'[c] = report[c] /\ stamp'[c] = stamp[c]

\* What one builder does is not done to another.
LEMMA OthersSame ==
    ASSUME Fields, NEW b \in Builders, NEW c \in Builders \ {b}, Moves(b)
    PROVE  Same(c)
<1>0. Domains
  BY DEF Fields
<1> USE DEF Domains, Same
<1>1. CASE Begin(b) \/ ReadEntry(b) \/ Touch(b) \/ Exec(b) \/ DigestOutput(b)
  BY <1>0, <1>1 DEF Begin, ReadEntry, Touch, Exec, DigestOutput, Goto, Clear
<1>2. CASE StatBlob(b)
  BY <1>0, <1>2, AdvanceKeeps DEF StatBlob, GiveUpOn, Goto, Clear
<1>3. CASE Restore(b)
  BY <1>0, <1>3, AdvanceKeeps DEF Restore, GiveUpOn, Goto, Clear
<1>4. CASE WriteTmp(b)
  BY <1>0, <1>4, AdvanceKeeps DEF WriteTmp, Goto
<1>5. CASE UnlinkBlob(b) \/ ComparePrevious(b) \/ UnlinkEntry(b)
  BY <1>0, <1>5 DEF UnlinkBlob, ComparePrevious, UnlinkEntry, Goto
<1>6. CASE RenameBlob(b)
  BY <1>0, <1>6, AdvanceKeeps DEF RenameBlob
<1>7. CASE RenameEntry(b) \/ PutFails(b) \/ Crash(b) \/ EditOutput(b)
  BY <1>0, <1>7 DEF RenameEntry, PutFails, Crash, EditOutput, GiveUpOn, Goto, Clear
<1> QED
  BY <1>1, <1>2, <1>3, <1>4, <1>5, <1>6, <1>7 DEF Moves, Step

LEMMA DomainsStep ==
    ASSUME Fields, NEW b \in Builders, Moves(b)
    PROVE  Domains'
<1>0. Domains
  BY DEF Fields
<1> USE DEF Domains
<1>1. CASE Begin(b) \/ ReadEntry(b) \/ Touch(b) \/ Exec(b) \/ DigestOutput(b)
  BY <1>0, <1>1 DEF Begin, ReadEntry, Touch, Exec, DigestOutput, Goto, Clear
<1>2. CASE StatBlob(b)
  BY <1>0, <1>2, AdvanceKeeps DEF StatBlob, GiveUpOn, Goto, Clear
<1>3. CASE Restore(b)
  BY <1>0, <1>3, AdvanceKeeps DEF Restore, GiveUpOn, Goto, Clear
<1>4. CASE WriteTmp(b)
  BY <1>0, <1>4, AdvanceKeeps DEF WriteTmp, Goto
<1>5. CASE UnlinkBlob(b) \/ ComparePrevious(b) \/ UnlinkEntry(b)
  BY <1>0, <1>5 DEF UnlinkBlob, ComparePrevious, UnlinkEntry, Goto
<1>6. CASE RenameBlob(b)
  BY <1>0, <1>6, AdvanceKeeps DEF RenameBlob
<1>7. CASE RenameEntry(b) \/ PutFails(b) \/ Crash(b) \/ EditOutput(b)
  BY <1>0, <1>7 DEF RenameEntry, PutFails, Crash, EditOutput, GiveUpOn, Goto, Clear
<1> QED
  BY <1>1, <1>2, <1>3, <1>4, <1>5, <1>6, <1>7 DEF Moves, Step

\* What happens outside the builders changes none of them.
LEMMA AllSame ==
    ASSUME Outside
    PROVE  /\ UNCHANGED local
           /\ edits' = edits /\ (damages' = damages \/ damages' = damages + 1)
           /\ lost' = lost /\ fresh' = fresh
BY DEF Outside, DamageBlob, DamageEntry, Tick, counts, vars, local

\* The bounds are not reached downwards, nor the clock's upwards.
LEMMA NumbersStep == Numbers /\ [Next]_vars => Numbers'
<1> SUFFICES ASSUME Numbers, [Next]_vars PROVE Numbers'
  OBVIOUS
<1> USE DEF Numbers
<1>1. CASE Outside
  <2>1. clock' = clock \/ (clock < MaxClock /\ clock' = clock + 1)
    BY <1>1 DEF Outside, Collect, StartCollection, ScanEntry, EntriesScanned, ScanBlob,
       BlobsScanned, Sweep, Swept, Evict, Drop, DamageBlob, DamageEntry, Tick, vars, disk
  <2> QED
    BY <1>1, <2>1, AllSame, MaxClockAssumption DEF Times
<1>2. ASSUME NEW b \in Builders, Moves(b)
      PROVE  Numbers'
  <2>1. CASE Begin(b) \/ Step(b)
    BY <2>1 DEF Begin, Step, ReadEntry, StatBlob, Touch, Restore, Exec, DigestOutput, WriteTmp,
       UnlinkBlob, RenameBlob, ComparePrevious, UnlinkEntry, RenameEntry, counts, disk
  <2>2. CASE PutFails(b) \/ Crash(b) \/ EditOutput(b)
    BY <2>2, BoundsAssumption DEF PutFails, Crash, EditOutput, disk
  <2> QED
    BY <1>2, <2>1, <2>2 DEF Moves
<1> QED
  BY <1>1, <1>2 DEF Next, Moves, Outside

\* A builder's variables keep to their domains.
LEMMA TypedStep ==
    ASSUME Fields, Files, NEW b \in Builders, Local(b), Moves(b)
    PROVE  Typed(b)'
<1>0. Domains /\ Typed(b) /\ clock \in Times
  BY DEF Fields, Numbers
<1> USE DEF Domains, Typed
<1>1. CASE Begin(b) \/ Touch(b) \/ UnlinkBlob(b) \/ ComparePrevious(b) \/ UnlinkEntry(b)
  <2>0. 1 \in 1..Outputs /\ <<>> \in Seq(Digests)
    BY OutputsAssumption
  <2>1. CASE Begin(b)
    BY <1>0, <2>0, <2>1 DEF Begin, Goto, Clear, Locations, Before1
  <2>2. CASE Touch(b) \/ UnlinkBlob(b) \/ ComparePrevious(b)
    BY <1>0, <2>2 DEF Touch, UnlinkBlob, ComparePrevious, Goto, Locations, Before1, Working
  <2>3. CASE UnlinkEntry(b)
    BY <1>0, <2>3 DEF UnlinkEntry, Goto, Locations, Working
  <2> QED
    BY <1>1, <2>1, <2>2, <2>3
<1>2. CASE ReadEntry(b)
  <2>1. key[b] \in DOMAIN ac => ac[key[b]].out \in Seq(Digests)
    BY <1>0, FullIsSeq DEF Files, Entry, Full
  <2> QED
    BY <1>0, <1>2, <2>1 DEF ReadEntry, Goto, Locations, Before1
<1>3. CASE StatBlob(b)
  <2>1. CASE Advance(b, "stat", "touch") /\ UNCHANGED <<want, got>>
    BY <1>0, <1>3, <2>1, AdvanceKeeps DEF StatBlob, Locations, Before1
  <2>2. CASE GiveUpOn(b, "exec")
    BY <1>0, <1>3, <2>2, OutputsAssumption
    DEF StatBlob, GiveUpOn, Goto, Clear, Locations, Before1
  <2> QED
    BY <1>3, <2>1, <2>2 DEF StatBlob
<1>4. CASE Restore(b)
  <2>1. CASE Intact(want[b][idx[b]])
    <3>1. want[b] \in Full
      BY <1>4 DEF Restore, Local, Looking
    <3>2. PICK d \in Digests : d = cas[want[b][idx[b]]].bytes
      BY <1>0, <2>1, <3>1 DEF Intact, Full
    <3>3. /\ ws' = [ws EXCEPT ![b][idx[b]] = d]
          /\ Advance(b, "restore", "idle") /\ UNCHANGED <<want, got, key, tmp, stamp>>
      BY <1>4, <2>1, <3>2 DEF Restore
    <3>4. ws'[b] \in [1..Outputs -> Digests \union {NoFile}]
      BY <1>0, <3>3
    <3> QED
      BY <1>0, <3>3, <3>4, AdvanceKeeps DEF Locations, Before1
  <2>2. CASE ~Intact(want[b][idx[b]])
    BY <1>0, <1>4, <2>2, OutputsAssumption
    DEF Restore, GiveUpOn, Goto, Clear, Locations, Before1
  <2> QED
    BY <2>1, <2>2
<1>5. CASE Exec(b)
  <2>1. ws'[b] \in [1..Outputs -> Digests \union {NoFile}]
    BY <1>0, <1>5, MakesFull DEF Exec, Full
  <2> QED
    BY <1>0, <1>5, <2>1 DEF Exec, Goto, Locations, Working
<1>6. CASE DigestOutput(b)
  <2>1. ws[b][idx[b]] \in Digests
    BY <1>0, <1>6 DEF DigestOutput, Local, Working, Full
  <2> QED
    BY <1>0, <1>6, <2>1 DEF DigestOutput, Goto, Locations, Working
<1>7. CASE WriteTmp(b)
  <2>1. CASE got[b][idx[b]] \in DOMAIN cas
    BY <1>0, <1>7, <2>1, AdvanceKeeps DEF WriteTmp, Locations, Working
  <2>2. CASE got[b][idx[b]] \notin DOMAIN cas
    BY <1>0, <1>7, <2>2 DEF WriteTmp, Goto, Locations, Working
  <2> QED
    BY <2>1, <2>2
<1>8. CASE RenameBlob(b)
  BY <1>0, <1>8, AdvanceKeeps DEF RenameBlob, Locations, Working
<1>9. CASE RenameEntry(b) \/ PutFails(b) \/ Crash(b)
  <2>0. 1 \in 1..Outputs /\ <<>> \in Seq(Digests)
    BY OutputsAssumption
  <2>1. CASE RenameEntry(b)
    BY <1>0, <2>0, <2>1 DEF RenameEntry, GiveUpOn, Goto, Clear, Locations
  <2>2. CASE PutFails(b) \/ Crash(b)
    BY <1>0, <2>0, <2>2 DEF PutFails, Crash, GiveUpOn, Goto, Clear, Locations
  <2> QED
    BY <1>9, <2>1, <2>2
<1>10. CASE EditOutput(b)
  BY <1>0, <1>10 DEF EditOutput
<1> QED
  BY <1>1, <1>2, <1>3, <1>4, <1>5, <1>6, <1>7, <1>8, <1>9, <1>10 DEF Moves, Step

LEMMA FieldsStep == CInv /\ [Next]_vars => Fields'
<1> SUFFICES ASSUME CInv, [Next]_vars PROVE Fields'
  OBVIOUS
<1>0. Fields /\ Files /\ Numbers'
  BY NumbersStep DEF CInv, Fields
<1>1. CASE Outside
  BY <1>0, <1>1, AllSame DEF Fields, Domains, Typed, local
<1>2. ASSUME NEW b \in Builders, Moves(b)
      PROVE  Fields'
  <2>1. Typed(b)' /\ Domains'
    BY <1>0, <1>2, TypedStep, DomainsStep DEF CInv
  <2>2. ASSUME NEW c \in Builders \ {b}
        PROVE  Typed(c)'
    BY <1>0, <1>2, OthersSame DEF Fields, Typed, Same
  <2> QED
    BY <1>0, <2>1, <2>2 DEF Fields
<1> QED
  BY <1>1, <1>2 DEF Next, Moves, Outside

-----------------------------------------------------------------------------
\* Removing a file removes nothing else.
LEMMA BlobRemoved ==
    ASSUME Files, NEW x
    PROVE  /\ DOMAIN Without(cas, x) = DOMAIN cas \ {x}
           /\ \A y \in DOMAIN cas \ {x} : Without(cas, x)[y] = cas[y]
           /\ Without(cas, x) \in [DOMAIN cas \ {x} -> Blob]
<1>1. cas \in [DOMAIN cas -> Blob]
  BY DEF Files
<1> QED
  BY <1>1 DEF Without, Restrict

LEMMA EntryRemoved ==
    ASSUME Files, NEW x
    PROVE  /\ DOMAIN Without(ac, x) = DOMAIN ac \ {x}
           /\ \A y \in DOMAIN ac \ {x} : Without(ac, x)[y] = ac[y]
           /\ Without(ac, x) \in [DOMAIN ac \ {x} -> Entry]
<1>1. ac \in [DOMAIN ac -> Entry]
  BY DEF Files
<1> QED
  BY <1>1 DEF Without, Restrict

\* A refreshed entry is the same entry.
LEMMA TouchedKeeps ==
    ASSUME Files, clock \in Times, NEW k
    PROVE  /\ DOMAIN Touched(k) = DOMAIN ac /\ Touched(k) \in [DOMAIN ac -> Entry]
           /\ \A j \in DOMAIN ac : /\ Touched(k)[j].out = ac[j].out
                                   /\ Touched(k)[j].readable = ac[j].readable
<1>0. ac \in [DOMAIN ac -> Entry]
  BY DEF Files
<1>1. CASE k \in DOMAIN ac /\ ac[k].at < clock
  <2>1. Touched(k) = [ac EXCEPT ![k].at = clock]
    BY <1>1 DEF Touched
  <2> QED
    BY <1>0, <1>1, <2>1 DEF Entry
<1>2. CASE ~(k \in DOMAIN ac /\ ac[k].at < clock)
  <2>1. Touched(k) = ac
    BY <1>2 DEF Touched
  <2> QED
    BY <1>0, <2>1
<1> QED
  BY <1>1, <1>2

\* A collection only removes files, and no temporary one.
Shrinks ==
    /\ DOMAIN cas' \subseteq DOMAIN cas /\ DOMAIN cas \ DOMAIN cas' \subseteq Digests
    /\ cas' \in [DOMAIN cas' -> Blob] /\ \A x \in DOMAIN cas' : cas'[x] = cas[x]
    /\ DOMAIN ac' \subseteq DOMAIN ac
    /\ ac' \in [DOMAIN ac' -> Entry] /\ \A x \in DOMAIN ac' : ac'[x] = ac[x]

LEMMA CollectShrinks ==
    ASSUME Files, Collect
    PROVE  Shrinks
<1>0. cas \in [DOMAIN cas -> Blob] /\ ac \in [DOMAIN ac -> Entry]
  BY DEF Files
<1> USE DEF Shrinks
<1>1. ASSUME cas' = cas, ac' = ac
      PROVE  Shrinks
  BY <1>0, <1>1
<1>2. ASSUME NEW d, RemoveBlob(d), ac' = ac
      PROVE  Shrinks
  <2>1. cas' = cas \/ (d \in Digests /\ cas' = Without(cas, d))
    BY <1>2 DEF RemoveBlob
  <2>2. CASE d \in Digests /\ cas' = Without(cas, d)
    BY <1>0, <1>2, <2>2, BlobRemoved
  <2> QED
    BY <1>0, <1>2, <2>1, <2>2
<1>3. CASE Sweep
  BY <1>2, <1>3 DEF Sweep
<1>4. CASE Drop
  <2> PICK d : d = Head(drop)
    OBVIOUS
  <2>1. ac' = ac /\ (cas' = cas \/ RemoveBlob(d))
    BY <1>4 DEF Drop
  <2> QED
    BY <1>1, <1>2, <2>1
<1>5. CASE Evict
  <2> PICK k : k = Head(queue)
    OBVIOUS
  <2>1. cas' = cas /\ (ac' = ac \/ ac' = Without(ac, k))
    BY <1>5 DEF Evict
  <2>2. CASE ac' = Without(ac, k)
    BY <1>0, <2>1, <2>2, EntryRemoved
  <2> QED
    BY <1>0, <2>1, <2>2
<1>6. CASE StartCollection \/ ScanEntry \/ EntriesScanned \/ ScanBlob \/ BlobsScanned \/ Swept
  BY <1>1, <1>6 DEF StartCollection, ScanEntry, EntriesScanned, ScanBlob, BlobsScanned, Swept, disk
<1> QED
  BY <1>3, <1>4, <1>5, <1>6 DEF Collect

\* The steps that leave the directory alone.
Quiet(b) ==
    \/ Begin(b) \/ ReadEntry(b) \/ StatBlob(b) \/ Restore(b) \/ Exec(b)
    \/ DigestOutput(b) \/ Crash(b) \/ EditOutput(b)

LEMMA QuietDisk ==
    ASSUME NEW b \in Builders, Quiet(b)
    PROVE  cas' = cas /\ ac' = ac /\ gpc' = gpc
BY DEF Quiet, Begin, ReadEntry, StatBlob, Restore, Exec, DigestOutput, Crash, EditOutput, disk, gvars

\* Writing a temporary file: a new name, the bytes the output has now.
LEMMA TmpWritten ==
    ASSUME CInv, NEW b \in Builders, WriteTmp(b), got[b][idx[b]] \notin DOMAIN cas
    PROVE  \E t \in TmpNames \ DOMAIN cas :
              /\ DOMAIN cas' = DOMAIN cas \union {t} /\ cas' \in [DOMAIN cas' -> Blob]
              /\ cas'[t].bytes = ws[b][idx[b]]
              /\ \A x \in DOMAIN cas : cas'[x] = cas[x]
              /\ tmp'[b] = t /\ pc'[b] = "unlink" /\ idx'[b] = idx[b]
<1>0. Typed(b) /\ Domains /\ clock \in Times /\ cas \in [DOMAIN cas -> Blob] /\ Local(b)
  BY DEF CInv, Fields, Files, Numbers
<1>1. ws[b] \in Full /\ idx[b] \in 1..Outputs
  BY <1>0 DEF WriteTmp, Local, Typed, Working
<1>2. PICK v \in Digests : v = ws[b][idx[b]]
  BY <1>1 DEF Full
<1>3. PICK t \in TmpNames \ DOMAIN cas :
           /\ cas' = [x \in DOMAIN cas \union {t} |->
                        IF x = t THEN [bytes |-> v, at |-> clock] ELSE cas[x]]
           /\ tmp' = [tmp EXCEPT ![b] = t] /\ Goto(b, "unlink") /\ idx' = idx
  BY <1>2 DEF WriteTmp
<1>4. tmp'[b] = t /\ pc'[b] = "unlink" /\ idx'[b] = idx[b]
  BY <1>0, <1>3 DEF Goto, Domains
<1>5. DOMAIN cas' = DOMAIN cas \union {t} /\ cas'[t].bytes = v
      /\ \A x \in DOMAIN cas : cas'[x] = cas[x]
  BY <1>3
<1>6. cas' \in [DOMAIN cas' -> Blob]
  BY <1>0, <1>3 DEF Blob
<1> QED
  BY <1>2, <1>4, <1>5, <1>6

\* The rename: the blob gets the temporary file's bytes.
LEMMA BlobRenamed ==
    ASSUME CInv, NEW b \in Builders, RenameBlob(b)
    PROVE  /\ got[b][idx[b]] \in Digests /\ tmp[b] \in TmpNames /\ tmp[b] \in DOMAIN cas
           /\ DOMAIN cas' = (DOMAIN cas \ {tmp[b]}) \union {got[b][idx[b]]}
           /\ cas' \in [DOMAIN cas' -> Blob]
           /\ cas'[got[b][idx[b]]] = cas[tmp[b]]
           /\ \A x \in DOMAIN cas' \ {got[b][idx[b]]} : cas'[x] = cas[x]
           /\ tmp'[b] = 0 /\ lost' = lost \ {got[b][idx[b]]}
<1>0. Typed(b) /\ Domains /\ cas \in [DOMAIN cas -> Blob] /\ Local(b) /\ Temporary
  BY DEF CInv, Fields, Files
<1>1. tmp[b] \in TmpNames /\ tmp[b] \in DOMAIN cas
  BY <1>0 DEF RenameBlob, Temporary, Typed, Writing
<1>2. PICK d \in Digests : d = got[b][idx[b]]
  <2>1. Len(got[b]) = idx[b] /\ got[b] \in Seq(Digests) /\ idx[b] \in 1..Outputs
    BY <1>0 DEF RenameBlob, Local, Typed, Writing
  <2> QED
    BY <2>1, OutputsAssumption
<1>3. cas' = [x \in (DOMAIN cas \ {tmp[b]}) \union {d} |-> IF x = d THEN cas[tmp[b]] ELSE cas[x]]
      /\ lost' = lost \ {d} /\ tmp'[b] = 0
  BY <1>0, <1>2 DEF RenameBlob, Domains
<1>4. cas' \in [DOMAIN cas' -> Blob]
  BY <1>0, <1>1, <1>3
<1> QED
  BY <1>1, <1>2, <1>3, <1>4

\* A digest is being stored: it is one.
LEMMA StoringDigest ==
    ASSUME CInv, NEW b \in Builders, pc[b] \in {"blob"} \union Writing
    PROVE  got[b][idx[b]] \in Digests /\ idx[b] \in 1..Outputs
<1>1. Len(got[b]) = idx[b] /\ got[b] \in Seq(Digests) /\ idx[b] \in 1..Outputs
  BY DEF CInv, Fields, Typed, Local
<1> QED
  BY <1>1, OutputsAssumption

\* What is recorded has been stored for every output.
LEMMA RecordedFull ==
    ASSUME CInv, NEW b \in Builders, pc[b] \in Recorded
    PROVE  got[b] \in Full
<1>1. Len(got[b]) = Outputs /\ got[b] \in Seq(Digests)
  BY DEF CInv, Fields, Typed, Local
<1> QED
  BY <1>1 DEF Full

\* The entry's rename.
LEMMA EntryRenamed ==
    ASSUME CInv, NEW b \in Builders, RenameEntry(b)
    PROVE  /\ key[b] \in Keys
           /\ DOMAIN ac' = DOMAIN ac \union {key[b]} /\ ac' \in [DOMAIN ac' -> Entry]
           /\ ac'[key[b]].out = got[b] /\ got[b] \in Full
           /\ \A x \in DOMAIN ac \ {key[b]} : ac'[x] = ac[x]
<1>0. Typed(b) /\ ac \in [DOMAIN ac -> Entry]
  BY DEF CInv, Fields, Files
<1>1. PICK k \in Keys : k = key[b]
  BY <1>0 DEF Typed
<1>2. PICK g \in Full : g = got[b]
  BY RecordedFull DEF RenameEntry, Recorded
<1>3. PICK a \in Times : a = stamp[b]
  BY <1>0 DEF Typed
<1>4. ac' = [x \in DOMAIN ac \union {k} |->
               IF x = k THEN [out |-> g, at |-> a, readable |-> TRUE] ELSE ac[x]]
  BY <1>1, <1>2, <1>3 DEF RenameEntry
<1>5. [out |-> g, at |-> a, readable |-> TRUE] \in Entry
  BY DEF Entry, Full
<1>6. ac' \in [DOMAIN ac' -> Entry]
  BY <1>0, <1>4, <1>5
<1>7. ac'[k].out = g
  BY <1>4
<1> QED
  BY <1>1, <1>2, <1>4, <1>6, <1>7

\* The directory holds blob files under names and entries under keys.
LEMMA FilesStep == CInv /\ [Next]_vars => Files'
<1> SUFFICES ASSUME CInv, [Next]_vars PROVE Files'
  OBVIOUS
<1>0. Files /\ clock \in Times
  BY DEF CInv, Fields, Numbers
<1> USE DEF Files
<1>1. ASSUME NEW b \in Builders, Moves(b)
      PROVE  Files'
  <2>1. CASE Quiet(b)
    BY <1>0, <2>1, QuietDisk
  <2>2. CASE Touch(b) \/ ComparePrevious(b)
    <3>1. cas' = cas /\ (ac' = ac \/ ac' = Touched(key[b]))
      BY <2>2 DEF Touch, ComparePrevious
    <3> QED
      BY <1>0, <3>1, TouchedKeeps
  <2>3. CASE WriteTmp(b)
    <3>1. CASE got[b][idx[b]] \in DOMAIN cas
      BY <1>0, <2>3, <3>1 DEF WriteTmp
    <3>2. CASE got[b][idx[b]] \notin DOMAIN cas
      <4>1. ac' = ac
        BY <2>3 DEF WriteTmp
      <4> QED
        BY <1>0, <2>3, <3>2, <4>1, TmpWritten DEF Names
    <3> QED
      BY <3>1, <3>2
  <2>4. CASE UnlinkBlob(b) \/ PutFails(b)
    <3>1. PICK x : ac' = ac /\ cas' = Without(cas, x)
      BY <2>4 DEF UnlinkBlob, PutFails
    <3> QED
      BY <1>0, <3>1, BlobRemoved
  <2>5. CASE RenameBlob(b)
    <3>1. ac' = ac
      BY <2>5 DEF RenameBlob
    <3>2. PICK d \in Digests :
             DOMAIN cas' = (DOMAIN cas \ {tmp[b]}) \union {d} /\ cas' \in [DOMAIN cas' -> Blob]
      BY <2>5, BlobRenamed
    <3> QED
      BY <1>0, <3>1, <3>2 DEF Names
  <2>6. CASE UnlinkEntry(b)
    <3>1. PICK k : cas' = cas /\ ac' = Without(ac, k)
      BY <2>6 DEF UnlinkEntry
    <3> QED
      BY <1>0, <3>1, EntryRemoved
  <2>7. CASE RenameEntry(b)
    <3>1. cas' = cas
      BY <2>7 DEF RenameEntry
    <3> QED
      BY <1>0, <2>7, <3>1, EntryRenamed
  <2> QED
    BY <1>1, <2>1, <2>2, <2>3, <2>4, <2>5, <2>6, <2>7 DEF Moves, Step, Quiet
<1>2. CASE Collect
  BY <1>0, <1>2, CollectShrinks DEF Shrinks
<1>3. CASE DamageBlob
  <2>1. ac' = ac
    BY <1>3 DEF DamageBlob
  <2>2. PICK d \in DOMAIN cas : cas' = [cas EXCEPT ![d].bytes = Junk]
    BY <1>3 DEF DamageBlob
  <2> QED
    BY <1>0, <2>1, <2>2 DEF Blob
<1>4. CASE DamageEntry
  <2>1. cas' = cas
    BY <1>4 DEF DamageEntry
  <2>2. PICK k \in DOMAIN ac : ac' = [ac EXCEPT ![k].readable = FALSE]
    BY <1>4 DEF DamageEntry
  <2> QED
    BY <1>0, <2>1, <2>2 DEF Entry
<1>5. CASE Tick \/ UNCHANGED vars
  BY <1>0, <1>5 DEF Tick, vars, disk
<1> QED
  BY <1>1, <1>2, <1>3, <1>4, <1>5 DEF Next, Moves

-----------------------------------------------------------------------------
\* A builder has a temporary file exactly while it is writing one; a new one
\* had no file of that name.
LEMMA OwnTemporary ==
    ASSUME CInv, Fields', NEW b \in Builders, Moves(b)
    PROVE  /\ pc'[b] \in Writing <=> tmp'[b] # 0
           /\ \/ tmp'[b] = 0
              \/ tmp'[b] = tmp[b] /\ cas' = cas
              \/ tmp'[b] = tmp[b] /\ UnlinkBlob(b)
              \/ WriteTmp(b) /\ tmp'[b] \in (TmpNames \ DOMAIN cas) \cap DOMAIN cas'
<1>0. /\ Domains /\ Typed(b) /\ Fields /\ (pc[b] \in Writing <=> tmp[b] # 0)
      /\ 0 \notin TmpNames
  BY NamesAssumption DEF CInv, Temporary, Fields
<1> USE DEF Writing, Domains
<1>1. CASE Begin(b) \/ ReadEntry(b) \/ Exec(b) \/ DigestOutput(b)
  BY <1>0, <1>1 DEF Begin, ReadEntry, Exec, DigestOutput, Goto
<1>2. CASE Touch(b) \/ ComparePrevious(b) \/ UnlinkEntry(b) \/ RenameEntry(b)
  BY <1>0, <1>2 DEF Touch, ComparePrevious, UnlinkEntry, RenameEntry, GiveUpOn, Goto
<1>3. CASE StatBlob(b)
  BY <1>0, <1>3, AdvanceKeeps DEF StatBlob, GiveUpOn, Goto
<1>4. CASE Restore(b)
  BY <1>0, <1>4, AdvanceKeeps DEF Restore, GiveUpOn, Goto
<1>5. CASE WriteTmp(b)
  <2>1. CASE got[b][idx[b]] \in DOMAIN cas
    BY <1>0, <1>5, <2>1, AdvanceKeeps DEF WriteTmp
  <2>2. CASE got[b][idx[b]] \notin DOMAIN cas
    <3>1. PICK t \in TmpNames \ DOMAIN cas :
             DOMAIN cas' = DOMAIN cas \union {t} /\ tmp'[b] = t /\ pc'[b] = "unlink"
      BY <1>5, <2>2, TmpWritten
    <3> QED
      BY <1>0, <1>5, <3>1
  <2> QED
    BY <2>1, <2>2
<1>6. CASE UnlinkBlob(b)
  BY <1>0, <1>6 DEF UnlinkBlob, Goto
<1>7. CASE RenameBlob(b)
  BY <1>0, <1>7, AdvanceKeeps DEF RenameBlob
<1>8. CASE PutFails(b) \/ Crash(b)
  BY <1>0, <1>8 DEF PutFails, Crash, GiveUpOn, Goto
<1>9. CASE EditOutput(b)
  BY <1>0, <1>9 DEF EditOutput, disk
<1> QED
  BY <1>1, <1>2, <1>3, <1>4, <1>5, <1>6, <1>7, <1>8, <1>9 DEF Moves, Step

\* No builder touches another's temporary file.
LEMMA TemporariesKept ==
    ASSUME CInv, NEW b \in Builders, Moves(b), NEW x \in DOMAIN cas \cap TmpNames,
           x # tmp[b] \/ UnlinkBlob(b)
    PROVE  x \in DOMAIN cas' /\ cas'[x] = cas[x]
<1>0. Files /\ x \notin Digests
  BY NamesAssumption DEF CInv
<1>1. CASE Quiet(b) \/ Touch(b) \/ ComparePrevious(b) \/ UnlinkEntry(b) \/ RenameEntry(b)
  BY <1>1, QuietDisk DEF Touch, ComparePrevious, UnlinkEntry, RenameEntry
<1>2. CASE WriteTmp(b)
  <2>1. CASE got[b][idx[b]] \in DOMAIN cas
    BY <1>2, <2>1 DEF WriteTmp
  <2>2. CASE got[b][idx[b]] \notin DOMAIN cas
    BY <1>2, <2>2, TmpWritten
  <2> QED
    BY <2>1, <2>2
<1>3. CASE UnlinkBlob(b)
  <2>1. PICK d \in Digests : d = got[b][idx[b]]
    BY <1>3, StoringDigest DEF UnlinkBlob, Writing
  <2>2. cas' = Without(cas, d)
    BY <1>3, <2>1 DEF UnlinkBlob
  <2> QED
    BY <1>0, <2>2, BlobRemoved
<1>4. CASE RenameBlob(b)
  <2>1. PICK d \in Digests :
           /\ DOMAIN cas' = (DOMAIN cas \ {tmp[b]}) \union {d}
           /\ \A y \in DOMAIN cas' \ {d} : cas'[y] = cas[y]
    BY <1>4, BlobRenamed
  <2>2. x # tmp[b]
    BY <1>4 DEF RenameBlob, UnlinkBlob
  <2> QED
    BY <1>0, <2>1, <2>2
<1>5. CASE PutFails(b)
  <2>1. PICK t : t = tmp[b]
    OBVIOUS
  <2>2. cas' = Without(cas, t)
    BY <1>5, <2>1 DEF PutFails
  <2>3. CASE x # tmp[b]
    BY <1>0, <2>1, <2>2, <2>3, BlobRemoved
  <2>4. CASE UnlinkBlob(b)
    BY <1>3, <2>4
  <2> QED
    BY <2>3, <2>4
<1> QED
  BY <1>1, <1>2, <1>3, <1>4, <1>5 DEF Moves, Step, Quiet

\* A temporary file stays its writer's until its rename.
LEMMA TemporaryStep == CInv /\ [Next]_vars => Temporary'
<1> SUFFICES ASSUME CInv, [Next]_vars PROVE Temporary'
  OBVIOUS
<1>0. Temporary /\ Fields /\ Files /\ Fields' /\ Files'
  BY FieldsStep, FilesStep DEF CInv
<1>1. ASSUME NEW b \in Builders, Moves(b)
      PROVE  Temporary'
  <2>1. \A c \in Builders \ {b} : pc'[c] = pc[c] /\ tmp'[c] = tmp[c]
    BY <1>0, <1>1, OthersSame DEF Same
  <2>2. pc'[b] \in Writing <=> tmp'[b] # 0
    BY <1>0, <1>1, OwnTemporary
  <2>3. ASSUME NEW c \in Builders \ {b}, tmp[c] # 0
        PROVE  tmp'[c] \in DOMAIN cas'
    <3>1. PICK t : t = tmp[c]
      OBVIOUS
    <3>2. t \in DOMAIN cas /\ t # tmp[b] /\ t \in TmpNames
      BY <1>0, <2>3, <3>1 DEF Temporary, Fields, Typed
    <3> QED
      BY <1>1, <2>1, <3>1, <3>2, TemporariesKept
  <2>4. tmp'[b] # 0 => tmp'[b] \in DOMAIN cas'
    <3>1. CASE tmp'[b] = tmp[b] /\ UnlinkBlob(b) /\ tmp[b] # 0
      <4>1. PICK t : t = tmp[b]
        OBVIOUS
      <4>2. t \in DOMAIN cas /\ t \in TmpNames
        BY <1>0, <3>1, <4>1 DEF Temporary, Fields, Typed
      <4> QED
        BY <1>1, <3>1, <4>1, <4>2, TemporariesKept
    <3>2. CASE tmp'[b] = tmp[b] /\ cas' = cas
      BY <1>0, <3>2 DEF Temporary
    <3> QED
      BY <1>0, <1>1, <3>1, <3>2, OwnTemporary
  <2>5. ASSUME NEW c \in Builders \ {b}, tmp'[b] # 0
        PROVE  tmp'[b] # tmp'[c]
    <3>1. CASE tmp'[b] = tmp[b]
      BY <1>0, <2>1, <2>5, <3>1 DEF Temporary
    <3>2. CASE tmp'[b] \notin DOMAIN cas
      BY <1>0, <2>1, <2>5, <3>2 DEF Temporary
    <3> QED
      BY <1>0, <1>1, <2>5, <3>1, <3>2, OwnTemporary
  <2> QED
    BY <1>0, <2>1, <2>2, <2>3, <2>4, <2>5 DEF Temporary
<1>2. CASE Outside
  <2>1. pc' = pc /\ tmp' = tmp
    BY <1>2, AllSame DEF local
  <2>2. ASSUME NEW c \in Builders, tmp[c] # 0
        PROVE  tmp[c] \in DOMAIN cas'
    <3>1. tmp[c] \in DOMAIN cas /\ tmp[c] \notin Digests
      BY <1>0, <2>2, NamesAssumption DEF Temporary, Fields, Typed
    <3>2. CASE Collect
      BY <1>0, <3>1, <3>2, CollectShrinks DEF Shrinks
    <3>3. CASE DamageBlob
      BY <3>1, <3>3 DEF DamageBlob
    <3>4. CASE DamageEntry \/ Tick \/ UNCHANGED vars
      BY <3>1, <3>4 DEF DamageEntry, Tick, vars, disk
    <3> QED
      BY <1>2, <3>2, <3>3, <3>4 DEF Outside
  <2> QED
    BY <1>0, <2>1, <2>2 DEF Temporary
<1> QED
  BY <1>1, <1>2 DEF Next, Moves, Outside

-----------------------------------------------------------------------------
\* Where a builder is in its loops agrees with what it has in hand.
LEMMA LocalStep ==
    ASSUME CInv, Fields', NEW b \in Builders, Moves(b)
    PROVE  Local(b)'
<1>0. /\ Domains /\ Domains' /\ Typed(b) /\ Typed(b)' /\ Local(b) /\ Fields /\ Files
      /\ Outputs \in Nat \ {0}
  BY OutputsAssumption DEF CInv, Fields
<1> USE DEF Looking, Before1, Writing, Recorded, Working
<1>1. CASE Begin(b)
  BY <1>0, <1>1 DEF Begin, Goto, Clear, Local, Domains
<1>2. CASE ReadEntry(b)
  <2>1. CASE key[b] \in DOMAIN ac /\ ac[key[b]].readable
    <3>1. ac[key[b]].out \in Full
      BY <1>0, <2>1 DEF Files, Entry, Full
    <3>2. pc'[b] = "stat" /\ want'[b] = ac[key[b]].out /\ idx' = idx /\ res' = res /\ got' = got
      BY <1>0, <1>2, <2>1 DEF ReadEntry, Goto, Domains
    <3> QED
      BY <1>0, <1>2, <3>1, <3>2 DEF ReadEntry, Local
  <2>2. CASE ~(key[b] \in DOMAIN ac /\ ac[key[b]].readable)
    <3>1. pc'[b] = "exec" /\ want' = want /\ idx' = idx /\ res' = res /\ got' = got
      BY <1>0, <1>2, <2>2 DEF ReadEntry, Goto, Domains
    <3> QED
      BY <1>0, <1>2, <3>1 DEF ReadEntry, Local
  <2> QED
    BY <2>1, <2>2
<1>3. CASE StatBlob(b)
  <2>1. CASE Advance(b, "stat", "touch") /\ UNCHANGED <<want, got>>
    BY <1>0, <1>3, <2>1, AdvanceKeeps DEF StatBlob, Local
  <2>2. CASE GiveUpOn(b, "exec")
    BY <1>0, <1>3, <2>2 DEF StatBlob, GiveUpOn, Goto, Clear, Local, Domains
  <2> QED
    BY <1>3, <2>1, <2>2 DEF StatBlob
<1>4. CASE Touch(b)
  BY <1>0, <1>4 DEF Touch, Goto, Local, Domains
<1>5. CASE Restore(b)
  <2>1. CASE Intact(want[b][idx[b]])
    <3>0. /\ want[b] \in Full /\ got[b] = <<>> /\ res[b] # "hit" /\ pc[b] = "restore"
          /\ \A i \in 1..Outputs : i < idx[b] => ws[b][i] = want[b][i]
      BY <1>0, <1>5 DEF Restore, Local
    <3>1. PICK d \in Digests : d = want[b][idx[b]]
      BY <1>0, <3>0 DEF Full, Typed
    <3>2. ws' = [ws EXCEPT ![b][idx[b]] = d]
      BY <1>5, <2>1, <3>1 DEF Restore, Intact
    <3>3. /\ res' = (IF idx[b] = Outputs THEN [res EXCEPT ![b] = "hit"] ELSE res)
          /\ want' = want /\ got' = got /\ Advance(b, "restore", "idle")
      BY <1>5, <2>1 DEF Restore
    <3>4. \A i \in 1..Outputs : i <= idx[b] => ws'[b][i] = want[b][i]
      BY <1>0, <3>0, <3>1, <3>2 DEF Typed, Domains
    <3>5. CASE idx[b] = Outputs
      <4>1. pc'[b] = "idle" /\ res'[b] = "hit" /\ idx'[b] = 1
        BY <1>0, <3>3, <3>5, AdvanceKeeps DEF Domains
      <4>2. ws'[b] = want[b]
        <5>1. \A i \in 1..Outputs : ws'[b][i] = want[b][i]
          BY <1>0, <3>4, <3>5
        <5>2. ws'[b] \in [1..Outputs -> Digests \union {NoFile}] /\ want[b] \in [1..Outputs -> Digests]
          BY <1>0, <3>0 DEF Typed, Full
        <5>3. PICK f, g : f = ws'[b] /\ g = want[b]
          OBVIOUS
        <5>4. f = g
          <6>1. f \in [1..Outputs -> Digests \union {NoFile}]
            BY <5>2, <5>3
          <6>2. g \in [1..Outputs -> Digests \union {NoFile}]
            BY <5>2, <5>3
          <6>3. \A i \in 1..Outputs : f[i] = g[i]
            BY <5>1, <5>3
          <6> QED
            BY <6>1, <6>2, <6>3, SameOutputs
        <5> QED
          BY <5>3, <5>4
      <4> QED
        BY <3>0, <3>3, <4>1, <4>2 DEF Local
    <3>6. CASE idx[b] # Outputs
      <4>1. pc'[b] = "restore" /\ res'[b] = res[b] /\ idx'[b] = idx[b] + 1
        BY <1>0, <3>3, <3>6, AdvanceKeeps DEF Domains
      <4>2. \A i \in 1..Outputs : i < idx'[b] => i <= idx[b]
        BY <1>0, <4>1 DEF Typed
      <4> QED
        BY <1>0, <3>0, <3>3, <3>4, <4>1, <4>2 DEF Local
    <3> QED
      BY <3>5, <3>6
  <2>2. CASE ~Intact(want[b][idx[b]])
    BY <1>0, <1>5, <2>2 DEF Restore, GiveUpOn, Goto, Clear, Local, Domains
  <2> QED
    BY <2>1, <2>2
<1>6. CASE Exec(b)
  <2>1. CASE pc'[b] = "digest"
    <3>1. ws'[b] \in Full /\ res' = res
      <4>1. \E o \in Makes[key[b]] : ws' = [ws EXCEPT ![b] = o]
        BY <1>0, <1>6, <2>1 DEF Exec, Goto, Domains
      <4>2. res' = res
        BY <1>0, <1>6, <2>1 DEF Exec, Goto, Domains
      <4> QED
        BY <1>0, <4>1, <4>2, MakesFull DEF Domains, Typed
    <3>2. idx'[b] = 1 /\ got'[b] = <<>> /\ res'[b] # "hit"
      BY <1>0, <1>6, <3>1 DEF Exec, Local
    <3>3. Len(<<>>) = 0
      OBVIOUS
    <3> QED
      BY <2>1, <3>1, <3>2, <3>3 DEF Local
  <2>2. CASE pc'[b] # "digest"
    BY <1>0, <1>6, <2>2 DEF Exec, Goto, Local, Domains
  <2> QED
    BY <2>1, <2>2
<1>7. CASE DigestOutput(b)
  <2>1. Len(got[b]) = idx[b] - 1 /\ ws[b] \in Full /\ res[b] # "hit"
    BY <1>0, <1>7 DEF DigestOutput, Local
  <2>2. PICK d \in Digests : d = ws[b][idx[b]]
    BY <1>0, <2>1 DEF Full, Typed
  <2>3. got'[b] = Append(got[b], d) /\ pc'[b] = "blob"
    BY <1>0, <1>7, <2>2 DEF DigestOutput, Domains, Goto
  <2>4. Len(got'[b]) = idx[b]
    BY <1>0, <2>1, <2>3 DEF Typed
  <2> QED
    BY <1>7, <2>1, <2>3, <2>4 DEF DigestOutput, Local
<1>8. CASE WriteTmp(b)
  <2>1. CASE got[b][idx[b]] \in DOMAIN cas
    BY <1>0, <1>8, <2>1, AdvanceKeeps DEF WriteTmp, Local, Typed
  <2>2. CASE got[b][idx[b]] \notin DOMAIN cas
    BY <1>0, <1>8, <2>2 DEF WriteTmp, Goto, Local, Domains
  <2> QED
    BY <2>1, <2>2
<1>9. CASE UnlinkBlob(b) \/ ComparePrevious(b) \/ UnlinkEntry(b)
  BY <1>0, <1>9 DEF UnlinkBlob, ComparePrevious, UnlinkEntry, Goto, Local, Domains
<1>10. CASE RenameBlob(b)
  BY <1>0, <1>10, AdvanceKeeps DEF RenameBlob, Local, Typed
<1>11. CASE RenameEntry(b) \/ PutFails(b) \/ Crash(b)
  BY <1>0, <1>11 DEF RenameEntry, PutFails, Crash, GiveUpOn, Goto, Clear, Local, Domains
<1>12. CASE EditOutput(b)
  <2>1. pc'[b] \in {"digest", "blob"} /\ ws[b] \in Full /\ res[b] # "hit"
    BY <1>0, <1>12 DEF EditOutput, Local
  <2>2. PICK d \in Digests : ws' = [ws EXCEPT ![b][idx[b]] = d]
    BY <1>12 DEF EditOutput
  <2>3. ws'[b] \in Full
    BY <1>0, <2>1, <2>2 DEF Full, Domains
  <2> QED
    BY <1>0, <1>12, <2>1, <2>3 DEF EditOutput, Local
<1> QED
  BY <1>1, <1>2, <1>3, <1>4, <1>5, <1>6, <1>7, <1>8, <1>9, <1>10, <1>11, <1>12 DEF Moves, Step

\* With no output rewritten, what it has in hand is what one run produced.
LEMMA FaithfulStep ==
    ASSUME CInv, Fields', NEW b \in Builders, Moves(b), edits' = 0
    PROVE  Faithful(b)'
<1>0. /\ Domains /\ Domains' /\ Typed(b) /\ Typed(b)' /\ Local(b) /\ Fields
      /\ Outputs \in Nat \ {0}
  BY OutputsAssumption DEF CInv, Fields
<1>00. edits = 0
  BY <1>0 DEF CInv, Numbers, Fields, Moves, Step, Begin, ReadEntry, StatBlob, Touch, Restore,
     Exec, DigestOutput, WriteTmp, UnlinkBlob, RenameBlob, ComparePrevious, UnlinkEntry,
     RenameEntry, PutFails, Crash, EditOutput, counts
<1>000. Faithful(b) /\ NothingTorn
  BY <1>00 DEF CInv
<1> USE DEF Looking, Working
<1>1. CASE Begin(b)
  BY <1>0, <1>1 DEF Begin, Goto, Clear, Faithful, Domains
<1>2. CASE ReadEntry(b)
  <2>1. CASE key[b] \in DOMAIN ac /\ ac[key[b]].readable
    <3>1. ac[key[b]].out \in Makes[key[b]]
      BY <1>00, <1>000, <2>1 DEF NothingTorn
    <3>2. pc'[b] = "stat" /\ want'[b] = ac[key[b]].out /\ key' = key
      BY <1>0, <1>2, <2>1 DEF ReadEntry, Goto, Domains
    <3> QED
      BY <3>1, <3>2 DEF Faithful
  <2>2. CASE ~(key[b] \in DOMAIN ac /\ ac[key[b]].readable)
    <3>1. pc'[b] = "exec" /\ res' = res /\ pc[b] # "idle"
      BY <1>0, <1>2, <2>2 DEF ReadEntry, Goto, Domains
    <3> QED
      BY <1>0, <3>1 DEF Faithful, Local
  <2> QED
    BY <2>1, <2>2
<1>3. CASE StatBlob(b)
  <2>1. CASE Advance(b, "stat", "touch") /\ UNCHANGED <<want, got>>
    BY <1>0, <1>000, <1>3, <2>1, AdvanceKeeps DEF StatBlob, Faithful
  <2>2. CASE GiveUpOn(b, "exec")
    BY <1>0, <1>3, <2>2 DEF StatBlob, GiveUpOn, Goto, Clear, Faithful, Domains, Local
  <2> QED
    BY <1>3, <2>1, <2>2 DEF StatBlob
<1>4. CASE Touch(b)
  BY <1>0, <1>000, <1>4 DEF Touch, Goto, Faithful, Domains
<1>5. CASE Restore(b)
  <2>1. CASE Intact(want[b][idx[b]])
    <3>1. want'[b] \in Makes[key'[b]]
      BY <1>000, <1>5, <2>1 DEF Restore, Faithful
    <3>2. pc'[b] \notin Working
      BY <1>0, <1>5, <2>1, AdvanceKeeps DEF Restore
    <3> QED
      BY <3>1, <3>2 DEF Faithful
  <2>2. CASE ~Intact(want[b][idx[b]])
    BY <1>0, <1>5, <2>2 DEF Restore, GiveUpOn, Goto, Clear, Faithful, Domains, Local
  <2> QED
    BY <2>1, <2>2
<1>6. CASE Exec(b)
  <2>1. CASE pc'[b] = "digest"
    <3>1. \E o \in Makes[key[b]] : ws' = [ws EXCEPT ![b] = o]
      BY <1>0, <1>6, <2>1 DEF Exec, Goto, Domains
    <3>2. ws'[b] \in Makes[key'[b]]
      BY <1>0, <1>6, <3>1 DEF Exec, Domains
    <3>3. got'[b] = <<>> /\ res' = res /\ res[b] # "hit"
      BY <1>0, <1>6, <2>1 DEF Exec, Goto, Domains, Local, Before1
    <3>4. Len(<<>>) = 0
      OBVIOUS
    <3> QED
      BY <1>0, <2>1, <3>2, <3>3, <3>4 DEF Faithful
  <2>2. CASE pc'[b] # "digest"
    BY <1>0, <1>6, <2>2 DEF Exec, Goto, Faithful, Domains
  <2> QED
    BY <2>1, <2>2
<1>7. CASE DigestOutput(b)
  <2>1. /\ Len(got[b]) = idx[b] - 1 /\ ws[b] \in Full /\ res[b] # "hit" /\ ws[b] \in Makes[key[b]]
        /\ \A i \in 1..Outputs : i <= Len(got[b]) => got[b][i] = ws[b][i]
    BY <1>0, <1>000, <1>7 DEF DigestOutput, Local, Faithful
  <2>2. PICK d \in Digests : d = ws[b][idx[b]]
    BY <1>0, <2>1 DEF Full, Typed
  <2>3. /\ got'[b] = Append(got[b], d) /\ pc'[b] = "blob" /\ ws' = ws /\ key' = key /\ res' = res
    BY <1>0, <1>7, <2>2 DEF DigestOutput, Domains, Goto
  <2>4. Len(got'[b]) = idx[b] /\ \A i \in 1..Outputs : i <= idx[b] => got'[b][i] = ws[b][i]
    BY <1>0, <2>1, <2>2, <2>3 DEF Typed
  <2> QED
    BY <2>1, <2>3, <2>4 DEF Faithful
<1>8. CASE WriteTmp(b)
  <2>1. pc[b] \in Working /\ ws' = ws /\ got' = got /\ key' = key /\ res' = res
    BY <1>8 DEF WriteTmp
  <2>2. pc'[b] \notin Looking
    <3>1. CASE got[b][idx[b]] \in DOMAIN cas
      BY <1>0, <1>8, <3>1, AdvanceKeeps DEF WriteTmp
    <3>2. CASE got[b][idx[b]] \notin DOMAIN cas
      BY <1>0, <1>8, <3>2 DEF WriteTmp, Goto, Domains
    <3> QED
      BY <3>1, <3>2
  <2> QED
    BY <1>0, <1>000, <2>1, <2>2 DEF Faithful, Local
<1>9. CASE UnlinkBlob(b) \/ ComparePrevious(b) \/ UnlinkEntry(b) \/ RenameBlob(b)
  <2>1. pc[b] \in Working /\ ws' = ws /\ got' = got /\ key' = key /\ res' = res
    BY <1>9 DEF UnlinkBlob, ComparePrevious, UnlinkEntry, RenameBlob
  <2>2. pc'[b] \notin Looking
    BY <1>0, <1>9, AdvanceKeeps DEF UnlinkBlob, ComparePrevious, UnlinkEntry, RenameBlob, Goto, Domains
  <2> QED
    BY <1>0, <1>000, <2>1, <2>2 DEF Faithful, Local
<1>10. CASE RenameEntry(b) \/ PutFails(b) \/ Crash(b)
  BY <1>0, <1>10 DEF RenameEntry, PutFails, Crash, GiveUpOn, Goto, Clear, Faithful, Domains
<1>11. CASE EditOutput(b)
  BY <1>0, <1>00, <1>11 DEF EditOutput, Fields, Numbers
<1> QED
  BY <1>1, <1>2, <1>3, <1>4, <1>5, <1>6, <1>7, <1>8, <1>9, <1>10, <1>11 DEF Moves, Step

-----------------------------------------------------------------------------
\* What has not happened by now had not happened before.
LEMMA StillClean ==
    ASSUME CInv, [Next]_vars
    PROVE  /\ edits' = 0 => edits = 0
           /\ damages' + edits' = 0 => damages + edits = 0 /\ damages' = 0 /\ edits' = 0
           /\ DamageBlob => damages' # 0
           /\ \A b \in Builders : EditOutput(b) => edits' # 0
<1>0. Numbers /\ Numbers'
  BY NumbersStep DEF CInv, Fields
<1>1. CASE Outside
  BY <1>0, <1>1, AllSame DEF Numbers, DamageBlob, EditOutput
<1>2. ASSUME NEW b \in Builders, Moves(b)
      PROVE  damages' = damages /\ (edits' = edits \/ edits' = edits + 1)
  <2>1. CASE Begin(b) \/ Step(b)
    BY <2>1 DEF Begin, Step, ReadEntry, StatBlob, Touch, Restore, Exec, DigestOutput, WriteTmp,
       UnlinkBlob, RenameBlob, ComparePrevious, UnlinkEntry, RenameEntry, counts
  <2>2. CASE PutFails(b) \/ Crash(b) \/ EditOutput(b)
    BY <2>2 DEF PutFails, Crash, EditOutput
  <2> QED
    BY <1>2, <2>1, <2>2 DEF Moves
<1>3. CASE \E b \in Builders : Moves(b)
  BY <1>0, <1>2, <1>3 DEF Numbers, DamageBlob, EditOutput
<1> QED
  BY <1>1, <1>3 DEF Next, Moves, Outside

\* What a temporary file holds is what its writer digested.
LEMMA SoundStep ==
    ASSUME CInv, [Next]_vars, damages' + edits' = 0, NEW c \in Builders
    PROVE  Sound(c)'
<1>0. /\ Fields /\ Fields' /\ Files /\ Temporary /\ Temporary' /\ Sound(c) /\ Faithful(c)
      /\ edits' = 0 /\ edits = 0
  BY FieldsStep, FilesStep, TemporaryStep, StillClean DEF CInv
<1>1. CASE pc[c] \in Writing /\ pc'[c] = pc[c] /\ Same(c)
  <2>1. PICK t \in TmpNames : t = tmp[c] /\ t \in DOMAIN cas /\ t \notin Digests
    BY <1>0, <1>1, NamesAssumption DEF Temporary, Fields, Typed
  <2>2. cas'[t] = cas[t]
    <3>1. ASSUME NEW b \in Builders, Moves(b)
          PROVE  cas'[t] = cas[t]
      <4>1. CASE t # tmp[b]
        BY <2>1, <3>1, <4>1, TemporariesKept
      <4>2. CASE t = tmp[b]
        <5>1. b = c
          BY <1>0, <1>1, <2>1, <4>2 DEF Temporary
        <5>2. t \in DOMAIN cas' /\ tmp'[b] # 0
          BY <1>0, <1>1, <2>1, <5>1 DEF Temporary, Same
        <5>3. CASE cas' = cas \/ UnlinkBlob(b)
          BY <2>1, <3>1, <5>3, TemporariesKept
        <5> QED
          BY <1>0, <1>1, <2>1, <3>1, <5>1, <5>2, <5>3, OwnTemporary DEF Same
      <4> QED
        BY <4>1, <4>2
    <3>2. CASE Outside
      <4>1. t \in DOMAIN cas'
        BY <1>0, <1>1, <2>1 DEF Temporary, Same
      <4>2. CASE Collect
        BY <1>0, <4>1, <4>2, CollectShrinks DEF Shrinks
      <4>3. CASE DamageEntry \/ Tick \/ UNCHANGED vars
        BY <4>3 DEF DamageEntry, Tick, vars, disk
      <4> QED
        BY <1>0, <3>2, <4>2, <4>3, StillClean DEF Outside
    <3> QED
      BY <3>1, <3>2 DEF Next, Moves, Outside
  <2> QED
    BY <1>0, <1>1, <2>1, <2>2 DEF Sound, Same
<1>2. CASE Outside
  BY <1>1, <1>2, AllSame DEF local, Same, Sound
<1>3. ASSUME NEW b \in Builders, Moves(b), c # b
      PROVE  Sound(c)'
  BY <1>0, <1>1, <1>3, OthersSame DEF Same, Sound
<1>4. ASSUME Moves(c)
      PROVE  Sound(c)'
  <2>0. Domains /\ Typed(c) /\ Local(c)
    BY <1>0 DEF Fields, CInv
  <2> USE DEF Writing
  <2>1. CASE Begin(c) \/ ReadEntry(c) \/ Exec(c) \/ DigestOutput(c) \/ Touch(c)
    BY <2>0, <2>1 DEF Begin, ReadEntry, Exec, DigestOutput, Touch, Goto, Domains, Sound
  <2>2. CASE ComparePrevious(c) \/ UnlinkEntry(c) \/ RenameEntry(c) \/ PutFails(c) \/ Crash(c)
    BY <2>0, <2>2 DEF ComparePrevious, UnlinkEntry, RenameEntry, PutFails, Crash, GiveUpOn, Goto,
       Domains, Sound
  <2>3. CASE StatBlob(c) \/ Restore(c)
    BY <1>0, <2>0, <2>3, AdvanceKeeps DEF StatBlob, Restore, GiveUpOn, Goto, Domains, Sound
  <2>4. CASE RenameBlob(c)
    BY <1>0, <2>4, AdvanceKeeps DEF RenameBlob, Sound
  <2>5. CASE WriteTmp(c)
    <3>1. CASE got[c][idx[c]] \in DOMAIN cas
      BY <1>0, <2>5, <3>1, AdvanceKeeps DEF WriteTmp, Sound
    <3>2. CASE got[c][idx[c]] \notin DOMAIN cas
      <4>1. tmp'[c] \in DOMAIN cas' /\ cas'[tmp'[c]].bytes = ws[c][idx[c]] /\ idx'[c] = idx[c]
        BY <2>5, <3>2, TmpWritten
      <4>2. got' = got
        BY <2>5 DEF WriteTmp
      <4>3. got[c][idx[c]] = ws[c][idx[c]]
        BY <1>0, <2>0, <2>5 DEF WriteTmp, Faithful, Working, Local, Typed
      <4> QED
        BY <4>1, <4>2, <4>3 DEF Sound
    <3> QED
      BY <3>1, <3>2
  <2>6. CASE UnlinkBlob(c)
    <3>1. PICK t \in TmpNames : t = tmp[c] /\ t \in DOMAIN cas
      BY <1>0, <2>6 DEF Temporary, Fields, Typed, UnlinkBlob
    <3>2. cas'[t] = cas[t]
      BY <1>4, <2>6, <3>1, TemporariesKept
    <3>3. tmp' = tmp /\ got' = got /\ idx' = idx
      BY <2>6 DEF UnlinkBlob
    <3> QED
      BY <1>0, <2>6, <3>1, <3>2, <3>3 DEF Sound, UnlinkBlob
  <2>7. CASE EditOutput(c)
    BY <1>0, <2>7, StillClean
  <2> QED
    BY <1>4, <2>1, <2>2, <2>3, <2>4, <2>5, <2>6, <2>7 DEF Moves, Step
<1> QED
  BY <1>2, <1>3, <1>4 DEF Next, Moves, Outside

\* With no damage and no rewritten output, a digest is filed only with its bytes.
LEMMA BlobsStayTrue ==
    ASSUME CInv, [Next]_vars, damages' + edits' = 0, NEW d \in DOMAIN cas' \cap Digests
    PROVE  cas'[d].bytes = d
<1>0. /\ Files /\ (\A x \in DOMAIN cas \cap Digests : cas[x].bytes = x)
      /\ damages + edits = 0 /\ damages' = 0 /\ edits' = 0 /\ d \notin TmpNames
  BY StillClean, NamesAssumption DEF CInv, NothingTorn
<1>1. ASSUME NEW b \in Builders, Moves(b)
      PROVE  cas'[d].bytes = d
  <2>1. CASE Quiet(b) \/ Touch(b) \/ ComparePrevious(b) \/ UnlinkEntry(b) \/ RenameEntry(b)
    BY <1>0, <2>1, QuietDisk DEF Touch, ComparePrevious, UnlinkEntry, RenameEntry
  <2>2. CASE WriteTmp(b)
    <3>1. CASE got[b][idx[b]] \in DOMAIN cas
      BY <1>0, <2>2, <3>1 DEF WriteTmp
    <3>2. CASE got[b][idx[b]] \notin DOMAIN cas
      BY <1>0, <2>2, <3>2, TmpWritten
    <3> QED
      BY <3>1, <3>2
  <2>3. CASE UnlinkBlob(b) \/ PutFails(b)
    <3>1. PICK x : cas' = Without(cas, x)
      BY <2>3 DEF UnlinkBlob, PutFails
    <3> QED
      BY <1>0, <3>1, BlobRemoved
  <2>4. CASE RenameBlob(b)
    <3>1. Sound(b) /\ pc[b] \in Writing
      BY <1>0, <2>4 DEF CInv, RenameBlob, Writing
    <3>2. PICK e \in Digests :
             /\ e = got[b][idx[b]] /\ DOMAIN cas' = (DOMAIN cas \ {tmp[b]}) \union {e}
             /\ cas'[e] = cas[tmp[b]]
             /\ \A x \in DOMAIN cas' \ {e} : cas'[x] = cas[x]
      BY <2>4, BlobRenamed
    <3> QED
      BY <1>0, <3>1, <3>2 DEF Sound
  <2> QED
    BY <1>1, <2>1, <2>2, <2>3, <2>4 DEF Moves, Step, Quiet
<1>2. CASE Collect
  BY <1>0, <1>2, CollectShrinks DEF Shrinks
<1>3. CASE DamageEntry \/ Tick \/ UNCHANGED vars
  BY <1>0, <1>3 DEF DamageEntry, Tick, vars, disk
<1> QED
  BY <1>0, <1>1, <1>2, <1>3, StillClean DEF Next, Moves

\* An entry names what it named, or a builder has just written it.
LEMMA EntrySource ==
    ASSUME CInv, [Next]_vars, NEW k \in DOMAIN ac'
    PROVE  \/ k \in DOMAIN ac /\ ac'[k].out = ac[k].out
           \/ \E b \in Builders :
                 RenameEntry(b) /\ k = key[b] /\ ac'[k].out = got[b] /\ got[b] \in Full
<1>0. Files /\ clock \in Times
  BY DEF CInv, Fields, Numbers
<1>1. ASSUME NEW b \in Builders, Moves(b), ~RenameEntry(b)
      PROVE  k \in DOMAIN ac /\ ac'[k].out = ac[k].out
  <2>1. CASE Quiet(b) \/ WriteTmp(b) \/ UnlinkBlob(b) \/ RenameBlob(b) \/ PutFails(b)
    BY <1>0, <2>1, QuietDisk DEF WriteTmp, UnlinkBlob, RenameBlob, PutFails
  <2>2. CASE Touch(b) \/ ComparePrevious(b)
    <3>1. PICK j : ac' = ac \/ ac' = Touched(j)
      BY <2>2 DEF Touch, ComparePrevious
    <3> QED
      BY <1>0, <3>1, TouchedKeeps
  <2>3. CASE UnlinkEntry(b)
    <3>1. PICK x : ac' = Without(ac, x)
      BY <2>3 DEF UnlinkEntry
    <3> QED
      BY <1>0, <3>1, EntryRemoved
  <2> QED
    BY <1>1, <2>1, <2>2, <2>3 DEF Moves, Step, Quiet
<1>2. ASSUME NEW b \in Builders, RenameEntry(b)
      PROVE  \/ k \in DOMAIN ac /\ ac'[k].out = ac[k].out
             \/ k = key[b] /\ ac'[k].out = got[b] /\ got[b] \in Full
  <2>1. PICK j : j = key[b]
    OBVIOUS
  <2>2. /\ DOMAIN ac' = DOMAIN ac \union {j} /\ ac'[j].out = got[b] /\ got[b] \in Full
        /\ \A x \in DOMAIN ac \ {j} : ac'[x] = ac[x]
    BY <1>2, <2>1, EntryRenamed
  <2> QED
    BY <2>1, <2>2
<1>3. CASE Collect
  BY <1>0, <1>3, CollectShrinks DEF Shrinks
<1>4. CASE DamageEntry
  <2>1. PICK j \in DOMAIN ac : ac' = [ac EXCEPT ![j].readable = FALSE]
    BY <1>4 DEF DamageEntry
  <2> QED
    BY <1>0, <2>1 DEF Files, Entry
<1>5. CASE DamageBlob \/ Tick \/ UNCHANGED vars
  BY <1>0, <1>5 DEF DamageBlob, Tick, vars, disk
<1> QED
  BY <1>1, <1>2, <1>3, <1>4, <1>5 DEF Next, Moves

\* With no rewritten output, an entry names what one run produced.
LEMMA EntriesStayTrue ==
    ASSUME CInv, [Next]_vars, edits' = 0, NEW k \in DOMAIN ac'
    PROVE  ac'[k].out \in Makes[k]
<1>0. edits = 0 /\ \A j \in DOMAIN ac : ac[j].out \in Makes[j]
  BY StillClean DEF CInv, NothingTorn
<1>1. ASSUME NEW b \in Builders, RenameEntry(b), k = key[b], ac'[k].out = got[b], got[b] \in Full
      PROVE  ac'[k].out \in Makes[k]
  <2>1. Faithful(b) /\ Typed(b) /\ Local(b) /\ pc[b] = "commit" /\ Outputs \in Nat
    BY <1>0, <1>1, OutputsAssumption DEF CInv, RenameEntry, Fields
  <2>2. PICK f : f = got[b]
    OBVIOUS
  <2>3. PICK g : g = ws[b]
    OBVIOUS
  <2>4. f \in [1..Outputs -> Digests \union {NoFile}]
    BY <1>1, <2>2 DEF Full
  <2>5. g \in [1..Outputs -> Digests \union {NoFile}] /\ g \in Makes[key[b]]
    BY <2>1, <2>3 DEF Typed, Faithful, Working
  <2>6. \A i \in 1..Outputs : f[i] = g[i]
    BY <2>1, <2>2, <2>3 DEF Faithful, Working, Local, Recorded
  <2>7. f = g
    BY <2>4, <2>5, <2>6, SameOutputs
  <2> QED
    BY <1>1, <2>2, <2>5, <2>7
<1> QED
  BY <1>0, <1>1, EntrySource

-----------------------------------------------------------------------------
\* While no collection has started, a step is none of a collection's.
LEMMA CollectorIdle ==
    ASSUME CInv, [Next]_vars, gpc' = "idle"
    PROVE  gpc = "idle" /\ drop' = <<>> /\ ~Collect
<1>1. gpc = "idle" => drop = <<>>
  BY DEF CInv
<1>2. ~Collect
  BY <1>1 DEF Collect, StartCollection, ScanEntry, EntriesScanned, ScanBlob, BlobsScanned, Sweep,
     Swept, Evict, Drop
<1>3. gpc' = gpc /\ drop' = drop
  <2>1. ASSUME NEW b \in Builders, Moves(b)
        PROVE  gpc' = gpc /\ drop' = drop
    BY <2>1 DEF Moves, Begin, Step, ReadEntry, StatBlob, Touch, Restore, Exec, DigestOutput, WriteTmp,
       UnlinkBlob, RenameBlob, ComparePrevious, UnlinkEntry, RenameEntry, PutFails, Crash,
       EditOutput, gvars
  <2> QED
    BY <1>2, <2>1 DEF Next, Moves, DamageBlob, DamageEntry, Tick, vars, gvars
<1> QED
  BY <1>1, <1>2, <1>3

\* A stored blob stays, unless a writer has unlinked it to put it there again.
LEMMA ThereKept ==
    ASSUME CInv, [Next]_vars, gpc' = "idle", NEW d \in Digests, There(d)
    PROVE  There(d)'
<1>0. /\ Fields /\ Files /\ Fields' /\ ~Collect
      /\ d \notin TmpNames /\ d # 0
  BY FieldsStep, CollectorIdle, NamesAssumption DEF CInv
<1>1. ASSUME NEW b \in Builders, Moves(b)
      PROVE  There(d)'
  <2>0. /\ Domains /\ Typed(b)
        /\ \A c \in Builders \ {b} : pc'[c] = pc[c] /\ got'[c] = got[c] /\ idx'[c] = idx[c]
    BY <1>0, <1>1, OthersSame DEF Same, Fields
  <2>1. CASE (Quiet(b) /\ ~Crash(b)) \/ Touch(b) \/ ComparePrevious(b) \/ UnlinkEntry(b) \/ RenameEntry(b)
    <3>1. pc[b] # "rename" /\ lost' = lost
      BY <2>1 DEF Quiet, Begin, ReadEntry, StatBlob, Restore, Exec, DigestOutput, EditOutput, Touch,
         ComparePrevious, UnlinkEntry, RenameEntry, counts
    <3>2. cas' = cas
      BY <2>1, QuietDisk DEF Touch, ComparePrevious, UnlinkEntry, RenameEntry
    <3> QED
      BY <2>0, <3>1, <3>2 DEF There
  <2>2. CASE WriteTmp(b)
    <3>1. pc[b] # "rename" /\ lost' = lost
      BY <2>2 DEF WriteTmp, counts
    <3>2. DOMAIN cas \subseteq DOMAIN cas'
      <4>1. CASE got[b][idx[b]] \in DOMAIN cas
        BY <2>2, <4>1 DEF WriteTmp
      <4>2. CASE got[b][idx[b]] \notin DOMAIN cas
        BY <2>2, <4>2, TmpWritten
      <4> QED
        BY <4>1, <4>2
    <3> QED
      BY <2>0, <3>1, <3>2 DEF There
  <2>3. CASE UnlinkBlob(b)
    <3>1. PICK e : e = got[b][idx[b]]
      OBVIOUS
    <3>2. cas' = Without(cas, e) /\ lost' = lost /\ got' = got /\ idx' = idx /\ pc'[b] = "rename"
          /\ pc[b] # "rename"
      BY <2>0, <2>3, <3>1 DEF UnlinkBlob, counts, Goto, Domains
    <3>3. DOMAIN cas' = DOMAIN cas \ {e}
      BY <1>0, <3>2, BlobRemoved
    <3> QED
      BY <2>0, <3>1, <3>2, <3>3 DEF There
  <2>4. CASE RenameBlob(b)
    <3>1. PICK e \in Digests :
             /\ e = got[b][idx[b]] /\ DOMAIN cas' = (DOMAIN cas \ {tmp[b]}) \union {e}
             /\ tmp[b] \in TmpNames /\ lost' = lost \ {e}
      BY <2>4, BlobRenamed
    <3> QED
      BY <1>0, <2>0, <3>1 DEF There
  <2>5. CASE PutFails(b) \/ Crash(b)
    <3>1. DOMAIN cas \ {tmp[b]} \subseteq DOMAIN cas'
      <4>1. PICK t : t = tmp[b]
        OBVIOUS
      <4>2. cas' = cas \/ cas' = Without(cas, t)
        BY <2>5, <4>1 DEF PutFails, Crash, disk
      <4> QED
        BY <1>0, <4>1, <4>2, BlobRemoved
    <3>2. lost' = lost \union Abandoned(b)
      BY <2>5 DEF PutFails, Crash
    <3>3. d # tmp[b]
      BY <1>0, <2>0 DEF Typed
    <3> QED
      BY <2>0, <3>1, <3>2, <3>3 DEF There, Abandoned
  <2> QED
    BY <1>1, <2>1, <2>2, <2>3, <2>4, <2>5 DEF Moves, Step, Quiet
<1>2. CASE Outside
  <2>1. DOMAIN cas' = DOMAIN cas
    BY <1>0, <1>2 DEF Outside, DamageBlob, DamageEntry, Tick, vars, disk
  <2>2. lost' = lost /\ pc' = pc /\ got' = got /\ idx' = idx
    BY <1>2, AllSame DEF local
  <2> QED
    BY <2>1, <2>2 DEF There
<1> QED
  BY <1>1, <1>2 DEF Next, Moves, Outside

\* What a builder has stored so far stays stored.
LEMMA StoredStep ==
    ASSUME CInv, [Next]_vars, gpc' = "idle", NEW c \in Builders
    PROVE  Stored(c)'
<1>0. /\ Fields /\ Fields' /\ Files /\ gpc = "idle" /\ Stored(c) /\ Local(c) /\ Typed(c) /\ Domains
      /\ Typed(c)' /\ Outputs \in Nat \ {0}
  BY FieldsStep, CollectorIdle, OutputsAssumption DEF CInv, Fields
<1>1. ASSUME pc[c] \in Working, NEW i \in 1..Outputs, i < idx[c] \/ pc[c] \in Recorded
      PROVE  i <= Len(got[c]) /\ \E d \in Digests : d = got[c][i] /\ There(d)'
  <2>1. i <= Len(got[c]) /\ got[c] \in Seq(Digests)
    BY <1>0, <1>1 DEF Local, Typed, Working, Writing, Recorded
  <2>2. PICK d \in Digests : d = got[c][i]
    BY <2>1
  <2>3. There(d)
    BY <1>0, <1>1, <2>2 DEF Stored
  <2>4. There(d)'
    BY <2>3, ThereKept
  <2> QED
    BY <2>1, <2>2, <2>4 DEF There
<1>2. ASSUME NEW d \in Digests, There(d)', NEW i \in 1..Outputs, got'[c][i] = d
      PROVE  There(got[c][i])'
  BY <1>2 DEF There
<1>3. CASE Same(c)
  BY <1>0, <1>1, <1>3 DEF Stored, Same
<1>4. ASSUME Moves(c)
      PROVE  Stored(c)'
  <2> USE DEF Working, Recorded
  <2>1. CASE Begin(c) \/ ReadEntry(c) \/ Touch(c) \/ RenameEntry(c) \/ PutFails(c) \/ Crash(c)
    BY <1>0, <2>1 DEF Begin, ReadEntry, Touch, RenameEntry, PutFails, Crash, GiveUpOn, Goto,
       Domains, Stored
  <2>2. CASE StatBlob(c) \/ Restore(c)
    BY <1>0, <2>2, AdvanceKeeps DEF StatBlob, Restore, GiveUpOn, Goto, Domains, Stored
  <2>3. CASE Exec(c)
    <3>1. idx'[c] = 1 /\ pc'[c] \notin Recorded
      BY <1>0, <2>3 DEF Exec, Goto, Domains, Local
    <3> QED
      BY <1>0, <3>1 DEF Stored
  <2>4. CASE DigestOutput(c)
    <3>1. Len(got[c]) = idx[c] - 1 /\ ws[c] \in Full
      BY <1>0, <2>4 DEF DigestOutput, Local
    <3>2. PICK v \in Digests : v = ws[c][idx[c]]
      BY <1>0, <3>1 DEF Full, Typed
    <3>3. got'[c] = Append(got[c], v) /\ pc'[c] = "blob" /\ idx' = idx
      BY <1>0, <2>4, <3>2 DEF DigestOutput, Goto, Domains
    <3>4. ASSUME NEW i \in 1..Outputs, i < idx[c]
          PROVE  There(got[c][i])'
      <4>1. PICK d \in Digests : d = got[c][i] /\ There(d)'
        BY <1>1, <2>4, <3>4 DEF DigestOutput
      <4>2. got'[c][i] = d
        BY <1>0, <3>1, <3>3, <3>4, <4>1 DEF Typed
      <4> QED
        BY <1>2, <4>1, <4>2
    <3> QED
      BY <3>3, <3>4 DEF Stored
  <2>5. CASE WriteTmp(c) \/ UnlinkBlob(c) \/ RenameBlob(c)
    <3>1. got' = got /\ pc[c] \in {"blob"} \union Writing
      BY <2>5 DEF WriteTmp, UnlinkBlob, RenameBlob, Writing
    <3>2. PICK e \in Digests : e = got[c][idx[c]]
      BY <3>1, StoringDigest
    <3>3. \/ idx'[c] = idx[c] /\ pc'[c] \notin Recorded
          \/ e \in DOMAIN cas' /\ ((idx'[c] = idx[c] + 1 /\ pc'[c] \notin Recorded) \/ idx[c] = Outputs)
      <4>1. CASE WriteTmp(c) /\ e \in DOMAIN cas
        BY <1>0, <3>2, <4>1, AdvanceKeeps DEF WriteTmp
      <4>2. CASE WriteTmp(c) /\ e \notin DOMAIN cas
        BY <1>0, <3>2, <4>2, TmpWritten
      <4>3. CASE UnlinkBlob(c)
        BY <1>0, <4>3 DEF UnlinkBlob, Goto, Domains
      <4>4. CASE RenameBlob(c)
        <5>1. DOMAIN cas' = (DOMAIN cas \ {tmp[c]}) \union {got[c][idx[c]]}
          BY <4>4, BlobRenamed
        <5> QED
          BY <1>0, <3>2, <4>4, <5>1, AdvanceKeeps DEF RenameBlob
      <4> QED
        BY <2>5, <4>1, <4>2, <4>3, <4>4
    <3>4. ASSUME NEW i \in 1..Outputs, i < idx'[c] \/ pc'[c] \in Recorded
          PROVE  There(got[c][i])'
      <4>1. CASE i < idx[c]
        <5>1. PICK d \in Digests : d = got[c][i] /\ There(d)'
          BY <1>1, <3>1, <4>1 DEF Writing
        <5> QED
          BY <1>2, <3>1, <5>1
      <4>2. CASE ~(i < idx[c])
        <5>1. i = idx[c] /\ e \in DOMAIN cas'
          BY <1>0, <3>3, <3>4, <4>2 DEF Typed
        <5>2. There(e)'
          BY <5>1 DEF There
        <5> QED
          BY <1>2, <3>1, <3>2, <5>1, <5>2
      <4> QED
        BY <4>1, <4>2
    <3> QED
      BY <3>4 DEF Stored
  <2>6. CASE ComparePrevious(c) \/ UnlinkEntry(c) \/ EditOutput(c)
    <3>1. pc[c] \in Working /\ got' = got /\ idx' = idx /\ (pc'[c] \in Recorded => pc[c] \in Recorded)
      BY <1>0, <2>6 DEF ComparePrevious, UnlinkEntry, EditOutput, Goto, Domains
    <3>2. ASSUME NEW i \in 1..Outputs, i < idx[c] \/ pc[c] \in Recorded
          PROVE  There(got[c][i])'
      <4>1. PICK d \in Digests : d = got[c][i] /\ There(d)'
        BY <1>1, <3>1, <3>2
      <4> QED
        BY <1>2, <3>1, <4>1
    <3> QED
      BY <3>1, <3>2 DEF Stored
  <2> QED
    BY <1>4, <2>1, <2>2, <2>3, <2>4, <2>5, <2>6 DEF Moves, Step
<1>5. ASSUME NEW b \in Builders, Moves(b), b # c
      PROVE  Same(c)
  BY <1>0, <1>5, OthersSame
<1>6. CASE Outside
  BY <1>3, <1>6, AllSame DEF local, Same
<1>7. ASSUME NEW b \in Builders, Moves(b)
      PROVE  Stored(c)'
  BY <1>3, <1>4, <1>5, <1>7
<1>8. Outside \/ \E b \in Builders : Moves(b)
  BY DEF Next, Moves, Outside
<1> QED
  BY <1>3, <1>6, <1>7, <1>8

\* What an entry these builders wrote names stays stored.
LEMMA FreshStep ==
    ASSUME CInv, [Next]_vars, gpc' = "idle", NEW k \in fresh' \cap DOMAIN ac', NEW i \in 1..Outputs
    PROVE  There(ac[k].out[i])'
<1>0. /\ Files /\ gpc = "idle" /\ \A b \in Builders : Stored(b)
      /\ \A j \in fresh \cap DOMAIN ac : \A n \in 1..Outputs : There(ac[j].out[n])
  BY CollectorIdle DEF CInv
<1>1. PICK d : d = ac'[k].out[i]
  OBVIOUS
<1>2. CASE \E b \in Builders :
              RenameEntry(b) /\ k = key[b] /\ ac'[k].out = got[b] /\ got[b] \in Full
  <2>1. PICK b \in Builders :
           RenameEntry(b) /\ k = key[b] /\ ac'[k].out = got[b] /\ got[b] \in Full
    BY <1>2
  <2>2. d \in Digests /\ d = got[b][i]
    BY <1>1, <2>1 DEF Full
  <2>3. There(d)
    BY <1>0, <2>1, <2>2 DEF Stored, RenameEntry, Working, Recorded
  <2> QED
    BY <1>1, <2>2, <2>3, ThereKept DEF There
<1>3. CASE /\ k \in DOMAIN ac /\ ac'[k].out = ac[k].out
           /\ ~\E b \in Builders : RenameEntry(b) /\ k = key[b]
  <2>1. k \in fresh
    <3>1. ASSUME NEW b \in Builders, Moves(b)
          PROVE  fresh' = fresh \/ (RenameEntry(b) /\ fresh' = fresh \union {key[b]})
      BY <3>1 DEF Moves, Begin, Step, ReadEntry, StatBlob, Touch, Restore, Exec, DigestOutput, WriteTmp,
         UnlinkBlob, RenameBlob, ComparePrevious, UnlinkEntry, RenameEntry, PutFails, Crash,
         EditOutput, counts
    <3>2. CASE Outside
      BY <3>2, AllSame
    <3>3. Outside \/ \E b \in Builders : Moves(b)
      BY DEF Next, Moves, Outside
    <3> QED
      BY <1>3, <3>1, <3>2, <3>3
  <2>2. d \in Digests /\ d = ac[k].out[i]
    BY <1>0, <1>1, <1>3 DEF Files, Entry
  <2>3. There(d)
    BY <1>0, <1>3, <2>1, <2>2 DEF There
  <2> QED
    BY <1>1, <2>2, <2>3, ThereKept DEF There
<1>4. ASSUME NEW b \in Builders, RenameEntry(b), k = key[b]
      PROVE  ac'[k].out = got[b] /\ got[b] \in Full
  BY <1>4, EntryRenamed
<1> QED
  BY <1>2, <1>3, <1>4, EntrySource

-----------------------------------------------------------------------------
LEMMA NextCInv == CInv /\ [Next]_vars => CInv'
<1> SUFFICES ASSUME CInv, [Next]_vars PROVE CInv'
  OBVIOUS
<1>1. Fields' /\ Files' /\ Temporary'
  BY FieldsStep, FilesStep, TemporaryStep
<1>2. Outside \/ \E b \in Builders : Moves(b)
  BY DEF Next, Moves, Outside
<1>3. ASSUME NEW c \in Builders
      PROVE  Local(c)' /\ (edits' = 0 => Faithful(c)')
  <2>1. Local(c) /\ (edits = 0 => Faithful(c)) /\ Fields /\ (edits' = 0 => edits = 0)
    BY StillClean DEF CInv
  <2>2. CASE Same(c)
    BY <2>1, <2>2 DEF Local, Faithful, Same
  <2>3. CASE Outside
    BY <2>2, <2>3, AllSame DEF Same, local
  <2>4. ASSUME NEW b \in Builders, Moves(b), b # c
        PROVE  Same(c)
    BY <2>1, <2>4, OthersSame
  <2>5. CASE Moves(c)
    BY <1>1, <2>5, LocalStep, FaithfulStep
  <2> QED
    BY <1>2, <2>2, <2>3, <2>4, <2>5
<1>4. damages' + edits' = 0 => \A c \in Builders : Sound(c)'
  BY SoundStep
<1>5. NothingTorn'
  BY BlobsStayTrue, EntriesStayTrue DEF NothingTorn
<1>6. gpc' = "idle" =>
        /\ drop' = <<>> /\ \A c \in Builders : Stored(c)'
        /\ \A k \in fresh' \cap DOMAIN ac' : \A i \in 1..Outputs : There(ac[k].out[i])'
  BY CollectorIdle, StoredStep, FreshStep
<1> QED
  BY <1>1, <1>3, <1>4, <1>5, <1>6 DEF CInv

\* Whatever interleaves with it, a builder knows what it believes: a key's entry
\* and outputs are those of one run, a temporary file is its own, a blob is
\* stored before the entry that names it is.
THEOREM StoreInvariant == Spec => []CInv
BY InitCInv, NextCInv, PTL DEF Spec

\* No truncated or mixed blob under a digest, no entry of two runs' outputs: for
\* any number of builders, crashes, failed writes and collections.
THEOREM NothingIsTorn == Spec => []NothingTorn
<1>1. CInv => NothingTorn
  BY DEF CInv
<1> QED
  BY <1>1, StoreInvariant, PTL

\* What a hit leaves in the workspace is what the entry promised, output by
\* output, even when blobs were damaged or outputs rewritten.
THEOREM HitIsAsNamed == Spec => []HitIsWhatTheEntryNamed
<1>1. CInv => HitIsWhatTheEntryNamed
  BY DEF CInv, Local, HitIsWhatTheEntryNamed
<1> QED
  BY <1>1, StoreInvariant, PTL

\* An action restored instead of run has the outputs of one run of its command.
THEOREM HitsAreTrue == Spec => []HitIsTrue
<1>1. CInv => HitIsTrue
  BY DEF CInv, Local, Faithful, HitIsTrue
<1> QED
  BY <1>1, StoreInvariant, PTL

\* Put records no entry before its blobs, and nothing else a build does removes
\* one: an entry dangles only by a writer's unlink before its rename.
THEOREM DanglingIsExplained == Spec => []DanglingExplained
<1>1. CInv => DanglingExplained
  <2> SUFFICES ASSUME CInv, gpc = "idle", NEW k \in fresh \cap DOMAIN ac,
                      NEW d \in Range(ac[k].out) \ DOMAIN cas
               PROVE  \/ d \in lost
                      \/ \E b \in Builders : pc[b] = "rename" /\ got[b][idx[b]] = d
    BY DEF DanglingExplained
  <2>1. ac[k].out \in Full
    BY DEF CInv, Files, Entry, Full
  <2>2. PICK i \in 1..Outputs : d = ac[k].out[i]
    BY <2>1, FullIsSeq
  <2>3. There(ac[k].out[i])
    BY DEF CInv
  <2> QED
    BY <2>2, <2>3 DEF There
<1> QED
  BY <1>1, StoreInvariant, PTL

-----------------------------------------------------------------------------
(* The store is the abstract cache: each of its file operations is one of  *)
(* the abstract cache's answers, or invisible to the runner.  What is      *)
(* recorded is taken to be every run's outputs from the start, so this     *)
(* needs the outputs to stay as the run left them (MaxEdits = 0).          *)

Asked == {"lookup"} \union Looking

\* What the abstract cache sees of a builder.
Seen ==
    \A b \in Builders :
        /\ pc[b] = "idle" => phase[b] = "idle"
        /\ pc[b] \in Asked => phase[b] = "asked"
        /\ pc[b] = "exec" => phase[b] = "running"
        /\ pc[b] \in Working => phase[b] = "made"
        /\ outputs[b] \in Promise!Contents
        /\ \A k \in Keys : ws[b] \in Makes[k] => outputs[b] = ws[b]
        /\ b \in cached <=> res[b] = "hit"

LEMMA SeenNow == Seen
<1> SUFFICES ASSUME NEW b \in Builders
             PROVE  /\ pc[b] = "idle" => phase[b] = "idle"
                    /\ pc[b] \in Asked => phase[b] = "asked"
                    /\ pc[b] = "exec" => phase[b] = "running"
                    /\ pc[b] \in Working => phase[b] = "made"
                    /\ outputs[b] \in Promise!Contents
                    /\ \A k \in Keys : ws[b] \in Makes[k] => outputs[b] = ws[b]
                    /\ b \in cached <=> res[b] = "hit"
  BY DEF Seen
<1>1. /\ pc[b] = "idle" => phase[b] = "idle"
      /\ pc[b] \in Asked => phase[b] = "asked"
      /\ pc[b] = "exec" => phase[b] = "running"
      /\ pc[b] \in Working => phase[b] = "made"
  BY DEF phase, Asked, Looking, Working
<1>2. outputs[b] \in Promise!Contents
  BY DEF outputs, OneRun, Promise!Contents, Promise!Mixed
<1>3. ASSUME NEW k \in Keys, ws[b] \in Makes[k]
      PROVE  outputs[b] = ws[b]
  <2>1. <<k, ws[b]>> \in OneRun /\ <<k, ws[b]>>[2] = ws[b]
    BY <1>3 DEF OneRun
  <2> QED
    BY <2>1 DEF outputs
<1> QED
  BY <1>1, <1>2, <1>3 DEF cached

LEMMA StepRefines ==
    MaxEdits = 0 /\ CInv /\ CInv' /\ [Next]_vars => [Promise!Next]_(Promise!vars)
<1> SUFFICES ASSUME MaxEdits = 0, CInv, CInv', [Next]_vars
             PROVE  [Promise!Next]_(Promise!vars)
  OBVIOUS
<1> USE DEF Promise!vars
<1>s. Seen /\ Seen'
  BY SeenNow, PTL
<1>0. Fields /\ Fields' /\ Domains /\ OneRun' = OneRun
  BY DEF CInv, Fields, OneRun
<1>1. ASSUME UNCHANGED <<phase, key, outputs, cached>>
      PROVE  [Promise!Next]_(Promise!vars)
  BY <1>0, <1>1
<1>2. CASE Outside
  <2>1. UNCHANGED <<phase, key, outputs, cached>>
    BY <1>0, <1>2, AllSame DEF local, phase, outputs, cached
  <2> QED
    BY <1>1, <2>1
<1>3. ASSUME NEW b \in Builders, Moves(b)
      PROVE  [Promise!Next]_(Promise!vars)
  <2>0. Typed(b) /\ Typed(b)' /\ Domains' /\ Local(b) /\ Local(b)' /\ edits = 0 /\ Faithful(b)
    BY DEF CInv, Fields, Numbers
  <2>1. ASSUME NEW c \in Builders \ {b}
        PROVE  /\ phase'[c] = phase[c] /\ outputs'[c] = outputs[c]
               /\ (c \in cached') <=> (c \in cached)
    <3>1. pc'[c] = pc[c] /\ ws'[c] = ws[c] /\ res'[c] = res[c]
      BY <1>0, <1>3, OthersSame DEF Same
    <3> QED
      BY <1>0, <3>1 DEF phase, outputs, cached
  <2>2. \A p : phase'[b] = p => phase' = [phase EXCEPT ![b] = p]
    BY <2>1 DEF phase
  <2>3. \A o : outputs'[b] = o => outputs' = [outputs EXCEPT ![b] = o]
    BY <2>1 DEF outputs
  <2>4. outputs'[b] = outputs[b] => outputs' = outputs
    BY <2>1 DEF outputs
  <2>5. ws'[b] = ws[b] => outputs' = outputs
    BY <1>0, <2>4 DEF outputs
  <2>6. ((res'[b] = "hit") <=> (res[b] = "hit")) => cached' = cached
    BY <2>1 DEF cached
  <2>7. pc[b] # "idle" => b \notin cached
    BY <2>0 DEF cached, Local
  <2>8. ASSUME phase'[b] = phase[b], key' = key, ws'[b] = ws[b], res'[b] = res[b]
        PROVE  [Promise!Next]_(Promise!vars)
    <3>1. phase' = phase
      BY <2>1, <2>8 DEF phase
    <3> QED
      BY <1>1, <2>5, <2>6, <2>8, <3>1
  <2>9. CASE Begin(b)
    <3>1. phase[b] = "idle" /\ phase' = [phase EXCEPT ![b] = "asked"]
      <4>1. pc[b] = "idle" /\ pc'[b] = "lookup"
        BY <1>0, <2>9 DEF Begin, Goto, Domains
      <4>2. phase'[b] = "asked"
        BY <1>s, <4>1 DEF Seen, Asked
      <4> QED
        BY <1>s, <2>2, <4>1, <4>2 DEF Seen
    <3>2. outputs' = outputs
      BY <2>5, <2>9 DEF Begin
    <3>3. cached' = cached \ {b}
      <4>1. res'[b] # "hit"
        BY <1>0, <2>9 DEF Begin, Domains
      <4> QED
        BY <2>1, <4>1 DEF cached
    <3>4. \E k \in Keys : key' = [key EXCEPT ![b] = k]
      BY <2>9 DEF Begin
    <3>5. Promise!Ask(b)
      BY <1>0, <3>1, <3>2, <3>3, <3>4 DEF Promise!Ask, Promise!Move
    <3> QED
      BY <3>5 DEF Promise!Next
  <2>10. ASSUME pc[b] \in Asked, pc'[b] = "exec", key' = key, ws' = ws, res' = res
         PROVE  [Promise!Next]_(Promise!vars)
    <3>1. phase[b] = "asked" /\ phase'[b] = "running"
      BY <1>s, <2>10 DEF Seen
    <3>2. phase' = [phase EXCEPT ![b] = "running"]
      BY <2>2, <3>1
    <3>3. Promise!Miss(b)
      BY <1>0, <2>5, <2>6, <2>10, <3>1, <3>2 DEF Promise!Miss, Promise!Move
    <3> QED
      BY <3>3 DEF Promise!Next, Promise!Answer
  <2>11. ASSUME pc[b] \in Asked, pc'[b] \in Asked, key' = key, ws' = ws, res' = res
         PROVE  [Promise!Next]_(Promise!vars)
    <3>1. phase[b] = "asked" /\ phase'[b] = "asked"
      BY <1>s, <2>11 DEF Seen
    <3> QED
      BY <2>8, <2>11, <3>1
  <2>12. CASE ReadEntry(b) \/ Touch(b)
    <3>1. pc[b] \in Asked /\ pc'[b] \in Asked \union {"exec"} /\ key' = key /\ ws' = ws /\ res' = res
      BY <1>0, <2>12 DEF ReadEntry, Touch, Goto, Asked, Looking, Domains
    <3> QED
      BY <2>10, <2>11, <3>1
  <2>13. CASE StatBlob(b)
    <3>1. pc[b] \in Asked /\ key' = key /\ ws' = ws /\ res' = res
      BY <2>13 DEF StatBlob, Asked, Looking
    <3>2. pc'[b] \in Asked \union {"exec"}
      <4>1. CASE Advance(b, "stat", "touch")
        BY <1>0, <4>1, AdvanceKeeps DEF Asked, Looking
      <4>2. CASE GiveUpOn(b, "exec")
        BY <1>0, <4>2 DEF GiveUpOn, Goto, Domains
      <4> QED
        BY <2>13, <4>1, <4>2 DEF StatBlob
    <3> QED
      BY <2>10, <2>11, <3>1, <3>2
  <2>14. CASE Restore(b)
    <3>0. pc[b] \in Asked /\ key' = key /\ phase[b] = "asked" /\ b \notin cached
      <4>1. pc[b] = "restore" /\ key' = key
        BY <2>14 DEF Restore
      <4> QED
        BY <1>s, <2>7, <4>1 DEF Seen, Asked, Looking
    <3>1. CASE ~Intact(want[b][idx[b]])
      <4>1. pc'[b] = "exec" /\ ws' = ws /\ res' = res
        BY <1>0, <2>14, <3>1 DEF Restore, GiveUpOn, Goto, Domains
      <4> QED
        BY <2>10, <3>0, <4>1
    <3>2. CASE Intact(want[b][idx[b]])
      <4>1. /\ Advance(b, "restore", "idle") /\ want' = want
            /\ res' = IF idx[b] = Outputs THEN [res EXCEPT ![b] = "hit"] ELSE res
        BY <2>14, <3>2 DEF Restore
      <4>2. CASE idx[b] = Outputs
        <5>1. pc'[b] = "idle" /\ res'[b] = "hit"
          BY <1>0, <4>1, <4>2, AdvanceKeeps, OutputsAssumption DEF Domains
        <5>2. ws'[b] = want[b] /\ want[b] \in Makes[key[b]] /\ key[b] \in Keys
          BY <2>0, <2>14, <4>1, <5>1 DEF Local, Faithful, Looking, Restore, Typed
        <5>3. outputs'[b] = want[b]
          BY <1>s, <5>2 DEF Seen
        <5>4. outputs' = [outputs EXCEPT ![b] = want[b]]
          BY <2>3, <5>3
        <5>5. phase'[b] = "idle"
          BY <1>s, <5>1 DEF Seen
        <5>6. phase' = [phase EXCEPT ![b] = "idle"]
          BY <2>2, <5>5
        <5>7. <<key[b], want[b]>> \in OneRun /\ <<key[b], want[b]>>[1] = key[b]
              /\ <<key[b], want[b]>>[2] = want[b]
          BY <5>2 DEF OneRun
        <5>8. cached' = cached \union {b}
          BY <2>1, <5>1 DEF cached
        <5>9. Promise!Hit(b)
          BY <1>0, <3>0, <5>4, <5>6, <5>7, <5>8 DEF Promise!Hit, Promise!Move
        <5> QED
          BY <5>9 DEF Promise!Next, Promise!Answer
      <4>3. CASE idx[b] # Outputs
        <5>1. pc'[b] = "restore" /\ res' = res
          BY <1>0, <4>1, <4>3, AdvanceKeeps
        <5>2. phase'[b] = "asked"
          BY <1>s, <5>1 DEF Seen, Asked, Looking
        <5>3. phase' = phase
          BY <2>1, <3>0, <5>2 DEF phase
        <5>4. \E o \in Promise!Contents : outputs' = [outputs EXCEPT ![b] = o]
          BY <1>s, <2>3 DEF Seen, Promise!Contents
        <5>5. Promise!Restoring(b)
          BY <1>0, <2>6, <3>0, <5>1, <5>3, <5>4 DEF Promise!Restoring, Promise!Scribble
        <5> QED
          BY <5>5 DEF Promise!Next
      <4> QED
        BY <4>2, <4>3
    <3> QED
      BY <3>1, <3>2
  <2>15. CASE Exec(b)
    <3>0. pc[b] = "exec" /\ key' = key /\ phase[b] = "running"
      BY <1>s, <2>15 DEF Exec, Seen
    <3>1. CASE pc'[b] = "digest"
      <4>1. res' = res /\ \E o \in Makes[key[b]] : ws' = [ws EXCEPT ![b] = o]
        BY <1>0, <2>15, <3>1 DEF Exec, Goto, Domains
      <4>2. PICK o \in Makes[key[b]] : ws'[b] = o /\ key[b] \in Keys
        BY <1>0, <2>0, <4>1 DEF Domains, Typed
      <4>3. outputs' = [outputs EXCEPT ![b] = o]
        BY <1>s, <2>3, <4>2 DEF Seen
      <4>4. phase'[b] = "made"
        BY <1>s, <3>1 DEF Seen, Working
      <4>5. phase' = [phase EXCEPT ![b] = "made"]
        BY <2>2, <4>4
      <4>6. Promise!Run(b)
        BY <1>0, <2>6, <3>0, <4>1, <4>3, <4>5 DEF Promise!Run, Promise!Move
      <4> QED
        BY <4>6 DEF Promise!Next, Promise!Finish
    <3>2. CASE pc'[b] # "digest"
      <4>1. pc'[b] = "idle" /\ ws' = ws /\ res'[b] # "hit"
        BY <1>0, <2>15, <3>2 DEF Exec, Goto, Domains
      <4>2. phase'[b] = "idle"
        BY <1>s, <4>1 DEF Seen
      <4>3. phase' = [phase EXCEPT ![b] = "idle"] /\ cached' = cached
        BY <2>2, <2>6, <2>7, <3>0, <4>1, <4>2 DEF cached
      <4>4. Promise!Fail(b)
        BY <1>0, <2>5, <3>0, <4>1, <4>3 DEF Promise!Fail, Promise!Move
      <4> QED
        BY <4>4 DEF Promise!Next, Promise!Finish
    <3> QED
      BY <3>1, <3>2
  <2>16. CASE \/ DigestOutput(b) \/ WriteTmp(b) \/ UnlinkBlob(b) \/ RenameBlob(b)
              \/ ComparePrevious(b) \/ UnlinkEntry(b)
    <3>1. pc[b] \in Working /\ key' = key /\ ws' = ws /\ res' = res
      BY <2>16 DEF DigestOutput, WriteTmp, UnlinkBlob, RenameBlob, ComparePrevious, UnlinkEntry, Working
    <3>2. pc'[b] \in Working
      <4>1. CASE WriteTmp(b)
        BY <1>0, <4>1, AdvanceKeeps DEF WriteTmp, Goto, Domains, Working
      <4>2. CASE RenameBlob(b)
        BY <1>0, <4>2, AdvanceKeeps DEF RenameBlob, Working
      <4>3. CASE DigestOutput(b) \/ UnlinkBlob(b) \/ ComparePrevious(b) \/ UnlinkEntry(b)
        BY <1>0, <4>3 DEF DigestOutput, UnlinkBlob, ComparePrevious, UnlinkEntry, Goto, Domains, Working
      <4> QED
        BY <2>16, <4>1, <4>2, <4>3
    <3>3. phase[b] = "made" /\ phase'[b] = "made"
      BY <1>s, <3>1, <3>2 DEF Seen
    <3> QED
      BY <2>8, <3>1, <3>3
  <2>17. CASE RenameEntry(b) \/ PutFails(b) \/ Crash(b)
    <3>1. /\ pc[b] # "idle" /\ pc'[b] = "idle" /\ key' = key /\ ws' = ws /\ res'[b] # "hit"
          /\ Crash(b) \/ pc[b] \in Working
      BY <1>0, <2>17 DEF RenameEntry, PutFails, Crash, GiveUpOn, Goto, Domains, Working
    <3>2. /\ phase'[b] = "idle" /\ phase[b] # "idle" /\ (pc[b] \in Working => phase[b] = "made")
      <4>1. phase'[b] = "idle"
        BY <1>s, <3>1 DEF Seen
      <4>2. pc[b] \in Working => phase[b] = "made"
        BY <1>s DEF Seen
      <4>3. phase[b] # "idle"
        BY <3>1 DEF phase
      <4> QED
        BY <4>1, <4>2, <4>3
    <3>3. phase' = [phase EXCEPT ![b] = "idle"]
      BY <2>2, <3>2
    <3>4. cached' = cached /\ outputs' = outputs
      BY <2>5, <2>6, <2>7, <3>1 DEF cached
    <3>5. CASE Crash(b)
      <4>1. Promise!Killed(b)
        BY <1>0, <3>1, <3>2, <3>3, <3>4 DEF Promise!Killed
      <4> QED
        BY <4>1 DEF Promise!Next, Promise!Answer
    <3>6. CASE pc[b] \in Working
      <4>1. Promise!Done(b)
        BY <1>0, <3>1, <3>2, <3>3, <3>4, <3>6 DEF Promise!Done, Promise!Move
      <4> QED
        BY <4>1 DEF Promise!Next, Promise!Finish
    <3> QED
      BY <3>1, <3>5, <3>6
  <2>18. ~EditOutput(b)
    BY <2>0 DEF EditOutput
  <2> QED
    BY <1>3, <2>9, <2>12, <2>13, <2>14, <2>15, <2>16, <2>17, <2>18 DEF Moves, Step
<1>4. Outside \/ \E b \in Builders : Moves(b)
  BY DEF Next, Moves, Outside
<1> QED
  BY <1>2, <1>3, <1>4

\* To its runner the store is a cache: one answer to each lookup, a hit only
\* with the outputs of one run, and never an answer made of two runs, one file
\* operation at a time and whoever else uses the directory.
THEOREM StoreIsACache == MaxEdits = 0 => (Spec => ImplementsCacheSafety)
<1> SUFFICES ASSUME MaxEdits = 0 PROVE Spec => ImplementsCacheSafety
  OBVIOUS
<1>1. Init => Promise!Init
  <2> SUFFICES ASSUME Init PROVE Promise!Init
    OBVIOUS
  <2>1. phase = [b \in Builders |-> "idle"] /\ cached = {}
    BY DEF Init, phase, cached
  <2>2. OneRun \subseteq {<<k, o>> : k \in Keys, o \in UNION {Makes[j] : j \in Keys}}
    BY DEF OneRun
  <2> QED
    BY <2>1, <2>2 DEF Init, Promise!Init
<1>2. CInv /\ CInv' /\ [Next]_vars => [Promise!Next]_(Promise!vars)
  BY StepRefines
<1> QED
  BY <1>1, <1>2, StoreInvariant, PTL DEF Spec, ImplementsCacheSafety, Promise!Safety

-----------------------------------------------------------------------------
\* About to unlink the entry it replaces: what it saw of it is still so.
Reported ==
    \A b \in Builders :
        pc[b] = "entry" /\ Restorable(key[b]) /\ ac[key[b]].out # got[b] => report[b] # {}

\* From outside, an entry may become unrestorable, never restorable.
LEMMA RestorableFromOutside ==
    ASSUME CInv, Outside, NEW k, Restorable(k)'
    PROVE  Restorable(k) /\ ac'[k].out = ac[k].out
<1>0. Files
  BY DEF CInv
<1>1. CASE Collect
  BY <1>0, <1>1, CollectShrinks DEF Shrinks, Restorable
<1>2. CASE DamageBlob
  <2>1. DOMAIN cas' = DOMAIN cas /\ ac' = ac
    BY <1>2 DEF DamageBlob
  <2> QED
    BY <2>1 DEF Restorable
<1>3. CASE DamageEntry
  <2>1. PICK j \in DOMAIN ac : ac' = [ac EXCEPT ![j].readable = FALSE] /\ cas' = cas
    BY <1>3 DEF DamageEntry
  <2>2. DOMAIN ac' = DOMAIN ac /\ k # j /\ ac'[k] = ac[k]
    BY <1>0, <2>1 DEF Files, Entry, Restorable
  <2> QED
    BY <2>1, <2>2 DEF Restorable
<1>4. CASE Tick \/ UNCHANGED vars
  BY <1>4 DEF Tick, vars, disk, Restorable
<1> QED
  BY <1>1, <1>2, <1>3, <1>4 DEF Outside

LEMMA ReportedStep ==
    ASSUME \A b, c \in Builders : b = c, CInv, CInv', Reported, [Next]_vars
    PROVE  Reported'
<1> SUFFICES ASSUME NEW b \in Builders, pc'[b] = "entry", Restorable(key[b])',
                    ac'[key'[b]].out # got'[b]
             PROVE  report'[b] # {}
  BY DEF Reported
<1>0. Fields /\ Domains /\ Files /\ Files' /\ Local(b) /\ clock \in Times
  BY DEF CInv, Fields, Numbers
<1>1. CASE Outside
  <2>1. pc' = pc /\ key' = key /\ got' = got /\ report' = report
    BY <1>1, AllSame DEF local
  <2>2. PICK k : k = key[b]
    OBVIOUS
  <2>3. Restorable(k)'
    BY <2>1, <2>2 DEF Restorable
  <2>4. Restorable(k) /\ ac'[k].out = ac[k].out
    BY <1>1, <2>3, RestorableFromOutside
  <2> QED
    BY <2>1, <2>2, <2>4 DEF Reported
<1>2. CASE Moves(b)
  <2>1. CASE ComparePrevious(b)
    <3>1. PICK k : k = key[b] /\ k = key'[b]
      BY <2>1 DEF ComparePrevious
    <3>2. PICK g \in Full : g = got[b] /\ g = got'[b]
      BY <2>1, RecordedFull DEF ComparePrevious, Recorded
    <3>3. cas' = cas /\ ac' = (IF Restorable(k) THEN Touched(k) ELSE ac)
          /\ report'[b] = Differs(k, g)
      BY <1>0, <2>1, <3>1, <3>2 DEF ComparePrevious, Domains
    <3>4. Restorable(k)'
      BY <3>1 DEF Restorable
    <3>5. Restorable(k) /\ ac'[k].out = ac[k].out
      <4>1. CASE Restorable(k)
        BY <1>0, <3>3, <4>1, TouchedKeeps DEF Restorable
      <4>2. CASE ~Restorable(k)
        BY <3>3, <3>4, <4>2 DEF Restorable
      <4> QED
        BY <4>1, <4>2
    <3>6. PICK f \in Full : f = ac[k].out
      BY <1>0, <3>5 DEF Restorable, Files, Entry, Full
    <3>7. f # g
      BY <3>1, <3>2, <3>5, <3>6
    <3>8. \E i \in 1..Outputs : f[i] # g[i]
      <4> SUFFICES ASSUME \A i \in 1..Outputs : f[i] = g[i] PROVE f = g
        BY <3>7
      <4>1. f \in [1..Outputs -> Digests \union {NoFile}] /\ g \in [1..Outputs -> Digests \union {NoFile}]
        BY DEF Full
      <4> QED
        BY <4>1, SameOutputs
    <3> QED
      BY <3>3, <3>5, <3>6, <3>8 DEF Differs
  <2>2. CASE Begin(b) \/ ReadEntry(b) \/ Touch(b) \/ Exec(b) \/ DigestOutput(b)
    BY <1>0, <2>2 DEF Begin, ReadEntry, Touch, Exec, DigestOutput, Goto, Domains
  <2>3. CASE StatBlob(b) \/ Restore(b)
    BY <1>0, <2>3, AdvanceKeeps DEF StatBlob, Restore, GiveUpOn, Goto, Domains
  <2>4. CASE WriteTmp(b)
    <3>1. CASE got[b][idx[b]] \in DOMAIN cas
      BY <1>0, <2>4, <3>1, AdvanceKeeps DEF WriteTmp
    <3>2. CASE got[b][idx[b]] \notin DOMAIN cas
      BY <1>0, <2>4, <3>2 DEF WriteTmp, Goto, Domains
    <3> QED
      BY <3>1, <3>2
  <2>5. CASE RenameBlob(b)
    BY <1>0, <2>5, AdvanceKeeps DEF RenameBlob
  <2>6. CASE UnlinkBlob(b) \/ UnlinkEntry(b) \/ RenameEntry(b) \/ PutFails(b) \/ Crash(b)
    BY <1>0, <2>6 DEF UnlinkBlob, UnlinkEntry, RenameEntry, PutFails, Crash, GiveUpOn, Goto, Domains
  <2>7. CASE EditOutput(b)
    BY <1>0, <2>7 DEF EditOutput
  <2> QED
    BY <1>2, <2>1, <2>2, <2>3, <2>4, <2>5, <2>6, <2>7 DEF Moves, Step
<1>3. Outside \/ \E c \in Builders : Moves(c)
  BY DEF Next, Moves, Outside
<1> QED
  BY <1>1, <1>2, <1>3

\* A builder alone never replaces an entry it could have restored by one with
\* other contents without reporting the action nondeterministic, whatever a
\* collection and damage do to the entry between its look and its write.
THEOREM AloneItReports ==
    (\A b, c \in Builders : b = c) => (Spec => OverwritesAreReported)
<1> SUFFICES ASSUME \A b, c \in Builders : b = c PROVE Spec => OverwritesAreReported
  OBVIOUS
<1>1. Init => Reported
  BY DEF Init, Reported
<1>2. CInv /\ CInv' /\ Reported /\ [Next]_vars => Reported'
  BY ReportedStep
<1>3. CInv /\ Reported /\ [Next]_vars =>
        [\A b \in Builders :
            pc[b] = "entry" /\ pc'[b] = "commit" /\ Restorable(key[b])
            /\ ac[key[b]].out # got[b] => report[b] # {}]_vars
  BY DEF Reported
<1> QED
  BY <1>1, <1>2, <1>3, StoreInvariant, PTL DEF Spec, OverwritesAreReported
=============================================================================
