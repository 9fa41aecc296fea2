------------------------------ MODULE CacheStore -----------------------------
(***************************************************************************)
(* Builds using one cache directory, internal/cache/store.go as            *)
(* Runner.Run drives it (internal/runner/runner.go).                       *)
(*                                                                         *)
(* A builder looks its action's key up and restores the outputs, or runs   *)
(* the command and stores them: blobs first, each written to a temporary   *)
(* file and renamed over its digest, then the entry in the same way.  The  *)
(* builders are separate processes, or goroutines of one; they share the   *)
(* directory with each other and with a collector (module Collector) and   *)
(* take no lock, so a step is one file operation.  A builder may be killed *)
(* between any two of them, and any write may fail.                        *)
(***************************************************************************)
EXTENDS Collector

CONSTANTS
    Builders,         \* who runs actions against this directory
    Makes,            \* [Keys -> SUBSET outputs]: what a run of the command
                      \* under this key may produce, one digest per output
    MaxRuns,          \* bound on the runs of each builder
    MaxCrashes,       \* bound on the builders killed or failing to write
    MaxDamages,       \* bound on the files damaged on the disk
    MaxEdits,         \* bound on the outputs rewritten while they are stored
    MaxCollections    \* 1 if a collection runs at the same time, else 0

ASSUME MakesAssumption == Makes \in [Keys -> SUBSET [1..Outputs -> Digests]]
ASSUME BoundsAssumption ==
    {MaxRuns, MaxCrashes, MaxDamages, MaxEdits, MaxCollections} \subseteq Nat

VARIABLES
    pc,               \* where each builder is
    key,              \* the key of the action it runs
    idx,              \* the output it is at
    want,             \* the entry it has looked up: the digests to restore
    got,              \* the digests of the outputs it has stored so far
    tmp,              \* the temporary file it is writing, or 0
    stamp,            \* when it wrote its temporary entry file
    ws,               \* its workspace: the bytes of each output, or NoFile
    res,              \* what became of its last run
    report,           \* PutResult.Nondeterministic of its last run
    runs, crashes, damages, edits,      \* how often each has happened
    lost,             \* digests unlinked by a writer that never got to its
                      \* rename, and not written since
    fresh             \* keys whose entry one of these builders has written

NoFile == -2

local == <<pc, key, idx, want, got, tmp, stamp, ws, res, report>>
counts == <<runs, crashes, damages, edits, lost, fresh>>
vars == <<disk, gvars, local, counts>>

Working == {"digest", "blob", "unlink", "rename", "prev", "entry", "commit"}

-----------------------------------------------------------------------------
TrueEntries(k) ==
    [out: Makes[k], at: {0}, readable: {TRUE}]

\* Whatever earlier builds and collections left: intact blobs, and entries
\* whose blobs may be gone.
Init ==
    /\ clock = 0
    /\ \E D \in SUBSET Digests : cas = [d \in D |-> [bytes |-> d, at |-> 0]]
    /\ \E K \in SUBSET Keys :
          ac \in {f \in [K -> UNION {TrueEntries(k) : k \in K}] :
                     \A k \in K : f[k] \in TrueEntries(k)}
    /\ CollectorInit
    /\ pc = [b \in Builders |-> "idle"]
    /\ key \in [Builders -> Keys]
    /\ idx = [b \in Builders |-> 1]
    /\ want = [b \in Builders |-> <<>>]
    /\ got = [b \in Builders |-> <<>>]
    /\ tmp = [b \in Builders |-> 0]
    /\ stamp = [b \in Builders |-> 0]
    /\ ws = [b \in Builders |-> [i \in 1..Outputs |-> NoFile]]
    /\ res = [b \in Builders |-> "none"]
    /\ report = [b \in Builders |-> {}]
    /\ runs = [b \in Builders |-> 0]
    /\ crashes = 0 /\ damages = 0 /\ edits = 0
    /\ lost = {} /\ fresh = {}

Goto(b, l) == pc' = [pc EXCEPT ![b] = l]

\* The loops over the outputs: the next output at l, or after the last one, m.
Advance(b, l, m) ==
    /\ idx' = [idx EXCEPT ![b] = IF @ < Outputs THEN @ + 1 ELSE 1]
    /\ Goto(b, IF idx[b] < Outputs THEN l ELSE m)

\* Whatever the builder was at is over.
Clear(b) ==
    /\ idx' = [idx EXCEPT ![b] = 1]
    /\ want' = [want EXCEPT ![b] = <<>>] /\ got' = [got EXCEPT ![b] = <<>>]
GiveUpOn(b, l) == Goto(b, l) /\ Clear(b)

\* Runner.Run: the key has been computed.
Begin(b) ==
    /\ pc[b] = "idle" /\ runs[b] < MaxRuns
    /\ Goto(b, "lookup") /\ Clear(b)
    /\ \E k \in Keys : key' = [key EXCEPT ![b] = k]
    /\ runs' = [runs EXCEPT ![b] = @ + 1]
    /\ res' = [res EXCEPT ![b] = "none"]
    /\ report' = [report EXCEPT ![b] = {}]
    /\ UNCHANGED <<disk, gvars, tmp, stamp, ws, crashes, damages,
                   edits, lost, fresh>>

\* Lookup reads the entry; a missing or damaged one is a miss.
ReadEntry(b) ==
    /\ pc[b] = "lookup"
    /\ IF key[b] \in DOMAIN ac /\ ac[key[b]].readable
       THEN want' = [want EXCEPT ![b] = ac[key[b]].out] /\ Goto(b, "stat")
       ELSE UNCHANGED want /\ Goto(b, "exec")
    /\ UNCHANGED <<disk, gvars, key, idx, got, tmp, stamp, ws, res, report, counts>>

\* It stats every blob; an entry with one missing is a miss.
StatBlob(b) ==
    /\ pc[b] = "stat"
    /\ IF want[b][idx[b]] \in DOMAIN cas THEN Advance(b, "stat", "touch") /\ UNCHANGED <<want, got>>
       ELSE GiveUpOn(b, "exec")
    /\ UNCHANGED <<disk, gvars, key, tmp, stamp, ws, res, report, counts>>

\* touchEntry, on whatever file has the entry's name by now; a tick of the
\* clock is more than touchGranularity.
Touched(k) ==
    IF k \in DOMAIN ac /\ ac[k].at < clock
    THEN [ac EXCEPT ![k].at = clock] ELSE ac

Touch(b) ==
    /\ pc[b] = "touch"
    /\ ac' = Touched(key[b])
    /\ Goto(b, "restore")
    /\ UNCHANGED <<cas, clock, gvars, key, idx, want, got, tmp, stamp, ws, res,
                   report, counts>>

IntactUnverified(d) == d \in DOMAIN cas     \* slip: the digest is not checked

\* The blob is there and hashes to the digest it is filed under.
Intact(d) == d \in DOMAIN cas /\ cas[d].bytes = d

RestorePartial(b) ==          \* slip: an output that fails is passed over
    /\ pc[b] = "restore"
    /\ Advance(b, "restore", "idle")
    /\ IF Intact(want[b][idx[b]])
       THEN ws' = [ws EXCEPT ![b][idx[b]] = cas[want[b][idx[b]]].bytes]
       ELSE UNCHANGED ws
    /\ res' = IF idx[b] = Outputs THEN [res EXCEPT ![b] = "hit"] ELSE res
    /\ UNCHANGED <<disk, gvars, key, want, got, tmp, stamp, report, counts>>

\* Restore writes one output after another; when a blob has gone or does not
\* hash to its digest the action is run instead, over what is restored already.
Restore(b) ==
    /\ pc[b] = "restore"
    /\ IF Intact(want[b][idx[b]])
       THEN /\ ws' = [ws EXCEPT ![b][idx[b]] = cas[want[b][idx[b]]].bytes]
            /\ res' = IF idx[b] = Outputs THEN [res EXCEPT ![b] = "hit"] ELSE res
            /\ Advance(b, "restore", "idle") /\ UNCHANGED <<want, got>>
       ELSE GiveUpOn(b, "exec") /\ UNCHANGED <<ws, res>>
    /\ UNCHANGED <<disk, gvars, key, tmp, stamp, report, counts>>

\* The command runs in this builder's own workspace; it fails, or produces
\* every declared output.
Exec(b) ==
    /\ pc[b] = "exec"
    /\ \/ /\ \E o \in Makes[key[b]] : ws' = [ws EXCEPT ![b] = o]
          /\ Goto(b, "digest") /\ UNCHANGED res
       \/ /\ res' = [res EXCEPT ![b] = "failed"]
          /\ Goto(b, "idle") /\ UNCHANGED ws
    /\ UNCHANGED <<disk, gvars, key, idx, want, got, tmp, stamp, report, counts>>

\* Put digests an output ...
DigestOutput(b) ==
    /\ pc[b] = "digest"
    /\ got' = [got EXCEPT ![b] = Append(@, ws[b][idx[b]])]
    /\ Goto(b, "blob")
    /\ UNCHANGED <<disk, gvars, key, idx, want, tmp, stamp, ws, res, report, counts>>

WriteInPlace(b) ==            \* slip: no temporary file
    /\ pc[b] = "blob"
    /\ IF got[b][idx[b]] \in DOMAIN cas
       THEN Advance(b, "digest", "prev") /\ UNCHANGED <<cas, tmp>>
       ELSE /\ cas' = [x \in DOMAIN cas \union {got[b][idx[b]]} |->
                          IF x = got[b][idx[b]]
                          THEN [bytes |-> Junk, at |-> clock] ELSE cas[x]]
            /\ tmp' = [tmp EXCEPT ![b] = got[b][idx[b]]]
            /\ Goto(b, "unlink") /\ UNCHANGED idx
    /\ UNCHANGED <<ac, clock, gvars, key, want, got, stamp, ws, res, report, counts>>

\* ... and leaves a blob that exists alone; otherwise it reads the output again
\* and writes what it reads to a temporary file.
WriteTmp(b) ==
    /\ pc[b] = "blob"
    /\ IF got[b][idx[b]] \in DOMAIN cas
       THEN Advance(b, "digest", "prev") /\ UNCHANGED <<cas, tmp>>
       ELSE \E t \in TmpNames \ DOMAIN cas :
              /\ cas' = [x \in DOMAIN cas \union {t} |->
                            IF x = t THEN [bytes |-> ws[b][idx[b]], at |-> clock]
                            ELSE cas[x]]
              /\ tmp' = [tmp EXCEPT ![b] = t]
              /\ Goto(b, "unlink") /\ UNCHANGED idx
    /\ UNCHANGED <<ac, clock, gvars, key, want, got, stamp, ws, res, report, counts>>

\* writeAtomic removes the destination, which another writer may have put
\* there since ...
UnlinkBlob(b) ==
    /\ pc[b] = "unlink"
    /\ cas' = Without(cas, got[b][idx[b]])
    /\ Goto(b, "rename")
    /\ UNCHANGED <<ac, clock, gvars, key, idx, want, got, tmp, stamp, ws, res,
                   report, counts>>

\* ... and renames the temporary file over its name.
RenameBlob(b) ==
    /\ pc[b] = "rename"
    /\ LET d == got[b][idx[b]]
       IN  /\ cas' = [x \in (DOMAIN cas \ {tmp[b]}) \union {d} |->
                         IF x = d THEN cas[tmp[b]] ELSE cas[x]]
           /\ lost' = lost \ {d}
    /\ tmp' = [tmp EXCEPT ![b] = 0]
    /\ Advance(b, "digest", "prev")
    /\ UNCHANGED <<ac, clock, gvars, key, want, got, stamp, ws, res, report, runs,
                   crashes, damages, edits, fresh>>

NoComparison(k, o) == {}      \* slip: the previous entry is not looked at

\* The outputs whose digest differs from the previous entry's, when Lookup
\* still finds that entry restorable.
Differs(k, o) ==
    IF Restorable(k) THEN {i \in 1..Outputs : ac[k].out[i] # o[i]} ELSE {}

\* Put looks the previous entry up, which touches it, before replacing it.
ComparePrevious(b) ==
    /\ pc[b] = "prev"
    /\ report' = [report EXCEPT ![b] = Differs(key[b], got[b])]
    /\ ac' = IF Restorable(key[b]) THEN Touched(key[b]) ELSE ac
    /\ Goto(b, "entry")
    /\ UNCHANGED <<cas, clock, gvars, key, idx, want, got, tmp, stamp, ws, res,
                   counts>>

\* The entry is written in the same way as a blob.
UnlinkEntry(b) ==
    /\ pc[b] = "entry"
    /\ ac' = Without(ac, key[b])
    /\ stamp' = [stamp EXCEPT ![b] = clock]
    /\ Goto(b, "commit")
    /\ UNCHANGED <<cas, clock, gvars, key, idx, want, got, tmp, ws, res, report,
                   counts>>

RenameEntry(b) ==
    /\ pc[b] = "commit"
    /\ ac' = [x \in DOMAIN ac \union {key[b]} |->
                 IF x = key[b]
                 THEN [out |-> got[b], at |-> stamp[b], readable |-> TRUE]
                 ELSE ac[x]]
    /\ res' = [res EXCEPT ![b] = "ran"]
    /\ GiveUpOn(b, "idle")
    /\ fresh' = fresh \union {key[b]}
    /\ UNCHANGED <<cas, clock, gvars, key, tmp, stamp, ws, report,
                   runs, crashes, damages, edits, lost>>

\* What a writer leaves unlinked when it does not get to its rename.
Abandoned(b) == IF pc[b] = "rename" THEN {got[b][idx[b]]} ELSE {}

PutGoesOn(b) ==               \* slip: an error of putBlob is not returned
    /\ pc[b] \in {"blob", "unlink"} /\ crashes < MaxCrashes
    /\ cas' = Without(cas, tmp[b])
    /\ tmp' = [tmp EXCEPT ![b] = 0]
    /\ Advance(b, "digest", "prev")
    /\ crashes' = crashes + 1
    /\ UNCHANGED <<ac, clock, gvars, key, want, got, stamp, ws, res, report, runs,
                   damages, edits, lost, fresh>>

\* A write fails: the temporary file is removed and the build goes on.
PutFails(b) ==
    /\ pc[b] \in Working /\ crashes < MaxCrashes
    /\ cas' = Without(cas, tmp[b])
    /\ tmp' = [tmp EXCEPT ![b] = 0]
    /\ res' = [res EXCEPT ![b] = "ran"]
    /\ GiveUpOn(b, "idle")
    /\ crashes' = crashes + 1 /\ lost' = lost \union Abandoned(b)
    /\ UNCHANGED <<ac, clock, gvars, key, stamp, ws, report, runs,
                   damages, edits, fresh>>

\* The process is killed: nothing is cleaned up.
Crash(b) ==
    /\ pc[b] # "idle" /\ crashes < MaxCrashes
    /\ tmp' = [tmp EXCEPT ![b] = 0]
    /\ res' = [res EXCEPT ![b] = "none"]
    /\ GiveUpOn(b, "idle")
    /\ crashes' = crashes + 1 /\ lost' = lost \union Abandoned(b)
    /\ UNCHANGED <<disk, gvars, key, stamp, ws, report, runs, damages,
                   edits, fresh>>

-----------------------------------------------------------------------------
(* What happens to the files from outside.                                 *)

DamageBlob ==
    /\ damages < MaxDamages
    /\ \E d \in DOMAIN cas : cas' = [cas EXCEPT ![d].bytes = Junk]
    /\ damages' = damages + 1
    /\ UNCHANGED <<ac, clock, gvars, local, runs, crashes, edits, lost, fresh>>

DamageEntry ==
    /\ damages < MaxDamages
    /\ \E k \in DOMAIN ac : ac' = [ac EXCEPT ![k].readable = FALSE]
    /\ damages' = damages + 1
    /\ UNCHANGED <<cas, clock, gvars, local, runs, crashes, edits, lost, fresh>>

\* Another action, or the user, rewrites an output while it is being stored.
EditOutput(b) ==
    /\ pc[b] \in {"digest", "blob"} /\ edits < MaxEdits
    /\ \E d \in Digests : ws' = [ws EXCEPT ![b][idx[b]] = d]
    /\ edits' = edits + 1
    /\ UNCHANGED <<disk, gvars, pc, key, idx, want, got, tmp, stamp, res, report,
                   runs, crashes, damages, lost, fresh>>

Tick ==
    /\ clock < MaxClock
    /\ clock' = clock + 1
    /\ UNCHANGED <<cas, ac, gvars, local, counts>>

Step(b) ==
    \/ ReadEntry(b) \/ StatBlob(b) \/ Touch(b) \/ Restore(b) \/ Exec(b)
    \/ DigestOutput(b) \/ WriteTmp(b) \/ UnlinkBlob(b) \/ RenameBlob(b)
    \/ ComparePrevious(b) \/ UnlinkEntry(b) \/ RenameEntry(b)

Next ==
    \/ \E b \in Builders :
          Begin(b) \/ Step(b) \/ PutFails(b) \/ Crash(b) \/ EditOutput(b)
    \/ MaxCollections > 0 /\ Collect /\ UNCHANGED <<local, counts>>
    \/ DamageBlob \/ DamageEntry \/ Tick

Spec == Init /\ [][Next]_vars

-----------------------------------------------------------------------------
\* A hit is true: when an action is restored instead of run, every output in
\* the workspace is one that a single run of the command produced, whatever
\* other builders, a collector, crashes, failed writes and damage did.
HitIsTrue ==
    edits = 0 => \A b \in Builders :
        pc[b] = "idle" /\ res[b] = "hit" => ws[b] \in Makes[key[b]]

\* A key with the outputs of one run of its command.
OneRun == {r \in Keys \X UNION {Makes[k] : k \in Keys} : r[2] \in Makes[r[1]]}

\* What its runner sees of a builder: how far its action is, the outputs in its
\* workspace when they are those of one run, and whether they were restored.
phase == [b \in Builders |->
    CASE pc[b] = "idle" -> "idle"
      [] pc[b] \in {"lookup", "stat", "touch", "restore"} -> "asked"
      [] pc[b] = "exec" -> "running"
      [] OTHER -> "made"]
outputs == [b \in Builders |->
    IF \E r \in OneRun : r[2] = ws[b] THEN ws[b] ELSE <<>>]
cached == {b \in Builders : res[b] = "hit"}

\* The store is a cache to its runner, one file operation at a time and whoever
\* else uses the directory: what it answers and what it restores is what the
\* abstract cache may (its answers are actions here, so this is about safety).
Promise == INSTANCE CacheSpec WITH ws <- outputs, recorded <- OneRun
ImplementsCacheSafety == Promise!Safety

\* Even when an output was rewritten under Put's hands, so that a blob's bytes
\* are not its digest's, what a hit leaves is what the entry promised.
HitIsWhatTheEntryNamed ==
    \A b \in Builders :
        pc[b] = "idle" /\ res[b] = "hit" => ws[b] = want[b]

\* An interrupted, failed or concurrent write never leaves a truncated or mixed
\* blob under a digest, nor an entry that names outputs of different runs.
NothingTorn ==
    /\ damages + edits = 0 =>
          \A d \in DOMAIN cas \cap Digests : cas[d].bytes = d
    /\ edits = 0 => \A k \in DOMAIN ac : ac[k].out \in Makes[k]

\* An entry a builder has written dangles only by a writer of the same blob that
\* is, or stopped, between its unlink and its rename: Put never records an entry
\* before its blobs, and nothing else a build does removes one.
DanglingExplained ==
    gpc = "idle" =>
        \A k \in fresh \cap DOMAIN ac : \A d \in Range(ac[k].out) \ DOMAIN cas :
            \/ d \in lost
            \/ \E b \in Builders : pc[b] = "rename" /\ got[b][idx[b]] = d

\* With one builder, an entry that could have been restored is never silently
\* replaced by one with other contents: Put reports the action nondeterministic.
OverwritesAreReported ==
    [][\A b \in Builders :
          pc[b] = "entry" /\ pc'[b] = "commit" /\ Restorable(key[b])
          /\ ac[key[b]].out # got[b] => report[b] # {}]_vars
=============================================================================
