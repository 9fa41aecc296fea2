------------------------------ MODULE Collector ------------------------------
(***************************************************************************)
(* The cache directory and its garbage collector, internal/cache/gc.go.    *)
(*                                                                         *)
(* The directory holds blobs filed under their digests (cas) and one entry *)
(* per key naming the blobs of an action's outputs (ac).  A collection     *)
(* walks both, removes blobs no entry names, and then evicts whole         *)
(* entries, least recently used first, until the blobs fit the budget.     *)
(* It takes no lock, so a step is one file operation.                      *)
(*                                                                         *)
(* Keys, digests and the names of temporary files are numbers, in the      *)
(* order of the file names.  Module CacheStore adds the builds that use    *)
(* the directory at the same time.                                         *)
(***************************************************************************)
EXTENDS Integers, Sequences, FiniteSets, FiniteSetsExt, Functions, SequencesExt

CONSTANTS
    Keys,             \* action cache keys
    Digests,          \* digests, standing also for the contents they name
    TmpNames,         \* names CreateTemp gives files in the blob directory
    Outputs,          \* how many outputs an action declares
    MaxClock,         \* bound on the modification times
    CollectorOptions  \* the GCOptions a collection may be given

ASSUME NamesAssumption ==
    /\ Keys \subseteq Nat /\ Digests \subseteq Nat /\ TmpNames \subseteq Nat
    /\ IsFiniteSet(Keys) /\ IsFiniteSet(Digests) /\ IsFiniteSet(TmpNames)
    /\ Digests \cap TmpNames = {} /\ 0 \notin Digests \union TmpNames
ASSUME OutputsAssumption == Outputs \in Nat \ {0}
ASSUME MaxClockAssumption == MaxClock \in Nat
ASSUME OptionsAssumption ==
    CollectorOptions \subseteq [MaxBytes: Nat, MinAge: Nat, DryRun: BOOLEAN]

Names == Digests \union TmpNames
Times == 0..MaxClock

\* The bytes of a damaged file; no digest names them.
Junk == -1

Blob == [bytes: Digests \union {Junk}, at: Times]
Entry == [out: [1..Outputs -> Digests], at: Times, readable: BOOLEAN]

\* Every file has the same size, so sizes are counted in files.
Size(S) == Cardinality(S)

VARIABLES
    cas,              \* blob files: a function from some of Names to Blob
    ac,               \* entry files: a function from some of Keys to Entry
    clock,            \* the time files are stamped with
    opts,             \* the options of this collection
    now,              \* the time it started
    gpc,              \* where the collector is
    todo,             \* names it has still to look at, or to sweep
    entries,          \* entries it has read
    blobs,            \* modification times of the blobs it has seen
    refs,             \* how often the entries read name each digest
    queue,            \* entries to evict, least recently used first
    drop,             \* digests of the entry being evicted still to look at
    after             \* GCResult.BytesAfter

disk == <<cas, ac, clock>>
gvars == <<opts, now, gpc, todo, entries, blobs, refs, queue, drop, after>>

Without(f, x) == Restrict(f, DOMAIN f \ {x})

-----------------------------------------------------------------------------
CollectorInit ==
    /\ opts \in CollectorOptions
    /\ now = 0
    /\ gpc = "idle" /\ todo = {}
    /\ entries = <<>> /\ blobs = <<>>
    /\ refs = [d \in Names |-> 0]
    /\ queue = <<>> /\ drop = <<>> /\ after = 0

StartCollection ==
    /\ gpc = "idle"
    /\ gpc' = "entries" /\ todo' = Keys
    /\ now' = clock
    /\ UNCHANGED <<disk, opts, entries, blobs, refs, queue, drop, after>>

\* The walk over the entries, in the order of their names; one that cannot be
\* read or parsed is passed over.
ScanEntry ==
    /\ gpc = "entries" /\ todo # {}
    /\ LET k == Min(todo)
       IN  /\ entries' = IF k \in DOMAIN ac /\ ac[k].readable
                         THEN [x \in DOMAIN entries \union {k} |->
                                  IF x = k THEN ac[k] ELSE entries[x]]
                         ELSE entries
           /\ todo' = todo \ {k}
    /\ UNCHANGED <<disk, opts, now, gpc, blobs, refs, queue, drop, after>>

EntriesScanned ==
    /\ gpc = "entries" /\ todo = {}
    /\ gpc' = "blobs" /\ todo' = Names
    /\ UNCHANGED <<disk, opts, now, entries, blobs, refs, queue, drop, after>>

\* The walk over the blobs takes every file two levels down for a blob, a
\* writer's temporary file too.
ScanBlob ==
    /\ gpc = "blobs" /\ todo # {}
    /\ LET d == Min(todo)
       IN  /\ blobs' = IF d \in DOMAIN cas
                       THEN [x \in DOMAIN blobs \union {d} |->
                                IF x = d THEN cas[d].at ELSE blobs[x]]
                       ELSE blobs
           /\ todo' = todo \ {d}
    /\ UNCHANGED <<disk, opts, now, gpc, entries, refs, queue, drop, after>>

CountOnce(d) ==               \* slip: two outputs with one digest count once
    Cardinality({k \in DOMAIN entries : d \in Range(entries[k].out)})

\* How often the entries name d: twice if two outputs are the same bytes.
CountRefs(d) ==
    Cardinality({ko \in (DOMAIN entries) \X (1..Outputs) :
                    entries[ko[1]].out[ko[2]] = d})

BlobsScanned ==
    /\ gpc = "blobs" /\ todo = {}
    /\ refs' = [d \in Names |-> CountRefs(d)]
    /\ todo' = {d \in DOMAIN blobs : CountRefs(d) = 0}
    /\ after' = Size(DOMAIN blobs)
    /\ gpc' = "sweep"
    /\ UNCHANGED <<disk, opts, now, entries, blobs, queue, drop>>

Young(at) == opts.MinAge > 0 /\ now - at < opts.MinAge

RemoveBlobUncounted(d) ==         \* slip: the bytes freed are not subtracted
    /\ IF Young(blobs[d]) THEN UNCHANGED <<cas, blobs>>
       ELSE /\ cas' = IF ~opts.DryRun /\ d \in Digests THEN Without(cas, d) ELSE cas
            /\ blobs' = Without(blobs, d)
    /\ UNCHANGED after

\* remove: a young blob is left alone; a name that is not a digest is refused
\* by blobPath, so the file stays, but is counted all the same.
RemoveBlob(d) ==
    IF Young(blobs[d]) THEN UNCHANGED <<cas, blobs, after>>
    ELSE /\ cas' = IF ~opts.DryRun /\ d \in Digests THEN Without(cas, d) ELSE cas
         /\ blobs' = Without(blobs, d)
         /\ after' = after - 1

\* Phase one, over a Go map and so in any order.
Sweep ==
    /\ gpc = "sweep"
    /\ \E d \in todo :
         /\ RemoveBlob(d)
         /\ todo' = todo \ {d}
    /\ UNCHANGED <<ac, clock, opts, now, gpc, entries, refs, queue, drop>>

OldestLast(k, l) ==           \* slip: most recently used first
    \/ entries[k].at > entries[l].at
    \/ entries[k].at = entries[l].at /\ k < l

\* Least recently used first, then by key.
Before(k, l) ==
    \/ entries[k].at < entries[l].at
    \/ entries[k].at = entries[l].at /\ k < l

\* The entries in that order.
ByLastUse(S) ==
    CHOOSE q \in [1..Cardinality(S) -> S] :
        \A i, j \in 1..Cardinality(S) : i < j => Before(q[i], q[j])

Swept ==
    /\ gpc = "sweep" /\ todo = {}
    /\ IF opts.MaxBytes <= 0 \/ after <= opts.MaxBytes
       THEN gpc' = "done" /\ UNCHANGED queue
       ELSE /\ gpc' = "evict"
            /\ queue' = ByLastUse(DOMAIN entries)
    /\ UNCHANGED <<disk, opts, now, todo, entries, blobs, refs, drop, after>>

EvictButLast ==               \* slip: the loop ends one entry early
    /\ gpc = "evict" /\ drop = <<>>
    /\ IF Len(queue) <= 1 \/ after <= opts.MaxBytes
       THEN gpc' = "done" /\ UNCHANGED <<ac, queue, drop>>
       ELSE /\ queue' = Tail(queue)
            /\ IF Young(entries[Head(queue)].at) THEN UNCHANGED <<ac, drop>>
               ELSE /\ ac' = IF opts.DryRun THEN ac ELSE Without(ac, Head(queue))
                    /\ drop' = entries[Head(queue)].out
            /\ UNCHANGED gpc
    /\ UNCHANGED <<cas, clock, opts, now, todo, entries, blobs, refs, after>>

\* Phase two: the next entry goes before any of its blobs.
Evict ==
    /\ gpc = "evict" /\ drop = <<>>
    /\ IF queue = <<>> \/ after <= opts.MaxBytes
       THEN gpc' = "done" /\ UNCHANGED <<ac, queue, drop>>
       ELSE /\ queue' = Tail(queue)
            /\ IF Young(entries[Head(queue)].at) THEN UNCHANGED <<ac, drop>>
               ELSE /\ ac' = IF opts.DryRun THEN ac ELSE Without(ac, Head(queue))
                    /\ drop' = entries[Head(queue)].out
            /\ UNCHANGED gpc
    /\ UNCHANGED <<cas, clock, opts, now, todo, entries, blobs, refs, after>>

DropAlways ==                 \* slip: another entry's blob goes too
    /\ drop # <<>>
    /\ refs' = [refs EXCEPT ![Head(drop)] = @ - 1]
    /\ IF Head(drop) \notin DOMAIN blobs THEN UNCHANGED <<cas, blobs, after>>
       ELSE RemoveBlob(Head(drop))
    /\ drop' = Tail(drop)
    /\ UNCHANGED <<ac, clock, opts, now, gpc, todo, entries, queue>>

DropLate ==                   \* slip: the count is tested before it goes down
    /\ drop # <<>>
    /\ refs' = [refs EXCEPT ![Head(drop)] = @ - 1]
    /\ IF refs[Head(drop)] > 0 \/ Head(drop) \notin DOMAIN blobs
       THEN UNCHANGED <<cas, blobs, after>>
       ELSE RemoveBlob(Head(drop))
    /\ drop' = Tail(drop)
    /\ UNCHANGED <<ac, clock, opts, now, gpc, todo, entries, queue>>

\* A blob goes with the last entry that names it.
Drop ==
    /\ drop # <<>>
    /\ refs' = [refs EXCEPT ![Head(drop)] = @ - 1]
    /\ IF refs'[Head(drop)] > 0 \/ Head(drop) \notin DOMAIN blobs
       THEN UNCHANGED <<cas, blobs, after>>
       ELSE RemoveBlob(Head(drop))
    /\ drop' = Tail(drop)
    /\ UNCHANGED <<ac, clock, opts, now, gpc, todo, entries, queue>>

Collect ==
    \/ StartCollection \/ ScanEntry \/ EntriesScanned \/ ScanBlob
    \/ BlobsScanned \/ Sweep \/ Swept \/ Evict \/ Drop

-----------------------------------------------------------------------------
(* A collection with the directory to itself, from any state of it.        *)

\* Some of a set, each with a value: the partial functions.
PartialFunctions(S, T) == UNION {[D -> T] : D \in SUBSET S}

GCInit ==
    /\ clock = MaxClock
    /\ cas \in {f \in PartialFunctions(Names, Blob) :
                   \A d \in DOMAIN f : d \in Digests => f[d].bytes = d}
    /\ ac \in PartialFunctions(Keys, Entry)
    /\ CollectorInit

GCSpec == GCInit /\ [][Collect]_<<disk, gvars>>

\* Every variable keeps to its domain; no reference count, nor BytesAfter, ever
\* goes below zero.
GCTypeOK ==
    /\ DOMAIN cas \subseteq Names /\ Range(cas) \subseteq Blob
    /\ DOMAIN ac \subseteq Keys /\ Range(ac) \subseteq Entry
    /\ clock \in Times /\ now \in Times /\ opts \in CollectorOptions
    /\ gpc \in {"idle", "entries", "blobs", "sweep", "evict", "done"}
    /\ todo \subseteq Names \union Keys
    /\ DOMAIN entries \subseteq Keys /\ Range(entries) \subseteq Entry
    /\ DOMAIN blobs \subseteq Names /\ Range(blobs) \subseteq Times
    /\ refs \in [Names -> Nat]
    /\ ToSet(queue) \subseteq Keys /\ ToSet(drop) \subseteq Digests
    /\ after \in Nat

Restorable(k) ==
    k \in DOMAIN ac /\ ac[k].readable /\ Range(ac[k].out) \subseteq DOMAIN cas

\* At every single step, so wherever a collection is interrupted, an entry that
\* could be restored and is still there can still be restored: shared blobs
\* outlive all but the last of their entries, and entries go before blobs.
EntriesStayRestorable ==
    [][\A k \in Keys : Restorable(k) /\ k \in DOMAIN ac' => Restorable(k)']_disk

\* When it is done over budget, nothing old enough was left to evict.
BudgetMet ==
    gpc = "done" /\ ~opts.DryRun /\ opts.MaxBytes > 0 /\ after > opts.MaxBytes =>
        \A k \in DOMAIN ac : ac[k].readable => Young(ac[k].at)

\* No entry is evicted while one used less recently stays, unless that one is
\* protected by its age.
OldestGoesFirst ==
    ~opts.DryRun =>
        \A k, l \in DOMAIN entries :
            k \notin DOMAIN ac /\ l \in DOMAIN ac /\ ~Young(ac[l].at) =>
                entries[k].at <= entries[l].at

\* An unprotected blob survives only if a surviving entry names it: what
\* eviction makes unreachable does not stay behind as garbage.
GarbageGone ==
    gpc = "done" /\ ~opts.DryRun =>
        \A d \in DOMAIN cas \cap Digests :
            \/ Young(cas[d].at)
            \/ \E k \in DOMAIN ac : ac[k].readable /\ d \in Range(ac[k].out)

\* "The reported figure must match what is actually on disk."
ReportMatchesDisk ==
    gpc = "done" /\ ~opts.DryRun => after = Size(DOMAIN cas)
=============================================================================
