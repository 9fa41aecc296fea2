------------------------------ MODULE Incremental ----------------------------
(***************************************************************************)
(* One build after another in one workspace: Runner.Run for every action   *)
(* (internal/runner/runner.go, sandbox.go) with the key it computes        *)
(* (internal/cache/key.go, internal/digest/digest.go), as cmd/buildforge   *)
(* sets it up for each build.                                              *)
(*                                                                         *)
(* Files, the tool and the manifest may be changed at any moment, also     *)
(* while a build runs.  A digest stands for the contents it is of.  What a *)
(* command produces is a term: the command, the tool that ran it and what  *)
(* it read.  The drivers appear as their promise (BuildSpec): an action    *)
(* starts when its dependencies are built, and any number run at a time.   *)
(* The store is its promise too (CacheSpec): what module CacheStore shows  *)
(* of its steps is not repeated here.                                      *)
(***************************************************************************)
EXTENDS Integers, Sequences, FiniteSets, Functions

CONSTANTS
    N,                \* number of actions of a manifest
    Files,            \* the files of the workspace
    Sources,          \* those that are nobody's output
    Manifests,        \* the manifests there may be
    Reads,            \* Reads[c]: the files command c really opens
    Options,          \* the flags a build may be given
    MaxBuilds,        \* bound on the builds
    MaxTroubles       \* bound on what is changed from outside or goes wrong

Actions == 1..N

ASSUME NAssumption == N \in Nat \ {0}
ASSUME SourcesAssumption == Sources \subseteq Files
ASSUME BoundsAssumption == {MaxBuilds, MaxTroubles} \subseteq Nat
\* Dependencies come first in a manifest here, since only their order matters;
\* every action has an output.
ASSUME ManifestsAssumption ==
    \A m \in Manifests : \A a \in Actions :
        /\ m[a].deps \subseteq 1..(a - 1) /\ m[a].outputs \in Seq(Files) \ {<<>>}
        /\ m[a].inputs \union Range(Reads[m[a].cmd]) \subseteq Files
ASSUME OptionsAssumption == Options \subseteq [sandbox: BOOLEAN, cache: BOOLEAN]

\* What a must wait for: the least set of actions with its dependencies and theirs.
Ancestors(m, a) ==
    {b \in Actions : \A C \in SUBSET Actions :
        m[a].deps \subseteq C /\ (\A c \in C : m[c].deps \subseteq C) => b \in C}

\* Every file has one writer, named once, and who declares it as input waits for
\* the writer.  Validate does not look at this, and nothing holds without it.
WellFormed ==
    \A m \in Manifests : \A a \in Actions :
        /\ \A i, j \in DOMAIN m[a].outputs : m[a].outputs[i] = m[a].outputs[j] => i = j
        /\ Range(m[a].outputs) \cap m[a].inputs = {}
        /\ \A b \in Actions \ {a} :
              /\ Range(m[b].outputs) \cap Range(m[a].outputs) = {}
              /\ Range(m[b].outputs) \cap m[a].inputs # {} => b \in Ancestors(m, a)

VARIABLES
    manifest,         \* the build file
    disk,             \* disk[f]: the contents of f in the workspace
    tool,             \* the installed version of the tool
    store,            \* the entries: a key's outputs
    phase,            \* whether a build process runs: "off" or "on"
    option,           \* its flags
    memo,             \* its ToolCache, 0 while it holds nothing
    pc,               \* where each action is, after a build its outcome
    key,              \* its key, as far as it is computed
    box,              \* what its command left in the sandbox
    done,             \* outputs restored, harvested or digested so far
    builds, troubles,
    exposed,          \* actions whose key no longer says what they work on
    upgraded,         \* the tool changed after this process had digested it
    suspect,          \* keys stored by an exposed action
    loose,            \* keys stored without a sandbox
    quiet,            \* nothing was changed since the build started
    kept,             \* actions of this build whose outputs are in the store
    ran,              \* actions of this build whose command was run
    settled,          \* the last build built and kept everything
    touched           \* the files changed since

world == <<manifest, disk, tool>>
process == <<phase, option, memo>>
work == <<pc, key, box, done>>
truth == <<exposed, upgraded, suspect, loose>>
progress == <<quiet, kept, ran, settled, touched>>
bounds == <<builds, troubles>>
vars == <<world, store, process, work, truth, progress, bounds>>

Absent == <<>>
None == <<>>
Versions == {<<1>>, <<2>>}

Inputs(a) == manifest[a].inputs
Outputs(a) == manifest[a].outputs
Present(F) == \A f \in F : disk[f] # Absent

\* f, and g where f says nothing.
Over(f, g) == [x \in DOMAIN f \union DOMAIN g |-> IF x \in DOMAIN f THEN f[x] ELSE g[x]]

\* What command c makes of o with tool t, where contents are those it read.
Made(c, t, o, contents) == <<c, t, o>> \o contents

-----------------------------------------------------------------------------
Init ==
    /\ manifest \in Manifests
    /\ disk = [f \in Files |-> IF f \in Sources THEN <<1>> ELSE Absent]
    /\ tool = 1
    /\ store = <<>>
    /\ phase = "off" /\ option \in Options /\ memo = 0
    /\ pc = [a \in Actions |-> "wait"] /\ key = [a \in Actions |-> None]
    /\ box = [a \in Actions |-> None] /\ done = [a \in Actions |-> <<>>]
    /\ builds = 0 /\ troubles = 0
    /\ exposed = {} /\ upgraded = FALSE /\ suspect = {} /\ loose = {}
    /\ quiet = FALSE /\ kept = {} /\ ran = {} /\ settled = FALSE /\ touched = {}

Goto(a, l) == pc' = [pc EXCEPT ![a] = l]

\* After a fault an incremental build may have to do more.
Trouble == troubles < MaxTroubles /\ troubles' = troubles + 1
Fault == Trouble /\ settled' = FALSE
NoFault == UNCHANGED <<troubles, settled>>

StartBuildKeepingTools ==     \* slip: tool digests outlive the process
    /\ phase = "off" /\ builds < MaxBuilds
    /\ phase' = "on" /\ option' \in Options /\ UNCHANGED memo
    /\ pc' = [a \in Actions |-> "wait"] /\ key' = [a \in Actions |-> None]
    /\ quiet' = TRUE /\ kept' = {} /\ ran' = {} /\ upgraded' = FALSE
    /\ builds' = builds + 1
    /\ UNCHANGED <<world, store, box, done, exposed, suspect, loose, settled,
                   touched, troubles>>

\* build: a process, a tool cache of its own, the flags.
StartBuild ==
    /\ phase = "off" /\ builds < MaxBuilds
    /\ phase' = "on" /\ option' \in Options /\ memo' = 0
    /\ pc' = [a \in Actions |-> "wait"] /\ key' = [a \in Actions |-> None]
    /\ quiet' = TRUE /\ kept' = {} /\ ran' = {} /\ upgraded' = FALSE
    /\ builds' = builds + 1
    /\ UNCHANGED <<world, store, box, done, exposed, suspect, loose, settled,
                   touched, troubles>>

\* Run begins: the declared inputs must be there.
CheckInputs(a) ==
    /\ phase = "on" /\ pc[a] = "wait"
    /\ \A d \in manifest[a].deps : pc[d] = "built"
    /\ Goto(a, IF ~Present(Inputs(a)) THEN "failed"
               ELSE IF option.cache THEN "tool" ELSE "exec")
    /\ UNCHANGED <<world, store, process, key, box, done, truth, progress, bounds>>

\* Given up on: a dependency was not built, or the build fails fast.
Skip(a) ==
    /\ phase = "on" /\ pc[a] = "wait"
    /\ \E c \in Actions : pc[c] \in {"failed", "skipped"}
    /\ Goto(a, "skipped")
    /\ UNCHANGED <<world, store, process, key, box, done, truth, progress, bounds>>

-----------------------------------------------------------------------------
(* The key.                                                                *)

KeyOf(a, t, in) == [cmd |-> manifest[a].cmd, tool |-> t, in |-> in, out |-> Outputs(a)]

\* The command, the tool and the outputs go into the key.  The tool is
\* digested once per process.
DigestTool(a) ==
    /\ pc[a] = "tool"
    /\ memo' = IF memo = 0 THEN tool ELSE memo
    /\ key' = [key EXCEPT ![a] = KeyOf(a, memo', <<>>)]
    /\ Goto(a, "hash")
    /\ UNCHANGED <<world, store, phase, option, box, done, truth, progress, bounds>>

Hashed(a) == DOMAIN key[a].in

\* digest.Files: the pool digests the inputs in any order; one that has gone
\* fails the action.
HashInput(a) ==
    /\ pc[a] = "hash"
    /\ \E f \in Inputs(a) \ Hashed(a) :
          IF disk[f] = Absent
          THEN Goto(a, "failed") /\ UNCHANGED key
          ELSE /\ key' = [key EXCEPT ![a] =
                           KeyOf(a, @.tool, Over([x \in {f} |-> disk[x]], @.in))]
               /\ UNCHANGED pc
    /\ UNCHANGED <<world, store, process, box, done, truth, progress, bounds>>

-----------------------------------------------------------------------------
(* Restoring.                                                              *)

LookupForNew(a) ==            \* slip: what the workspace has is not restored
    /\ pc[a] = "hash" /\ Hashed(a) = Inputs(a)
    /\ Goto(a, IF key[a] \in DOMAIN store /\ ~Present(Range(Outputs(a)))
               THEN "restore" ELSE "exec")
    /\ UNCHANGED <<world, store, process, key, box, done, truth, progress, bounds>>

\* The complete key is looked up.
Lookup(a) ==
    /\ pc[a] = "hash" /\ Hashed(a) = Inputs(a)
    /\ Goto(a, IF key[a] \in DOMAIN store THEN "restore" ELSE "exec")
    /\ UNCHANGED <<world, store, process, key, box, done, truth, progress, bounds>>

\* The loops over the outputs, of which done[a] are behind.
Current(a) == Outputs(a)[Len(done[a]) + 1]
AtLast(a) == Len(done[a]) + 1 = Len(Outputs(a))
StepTo(a, c, l) ==
    /\ done' = [done EXCEPT ![a] = IF AtLast(a) THEN <<>> ELSE Append(@, c)]
    /\ Goto(a, IF AtLast(a) THEN l ELSE pc[a])
Break(a, l) == done' = [done EXCEPT ![a] = <<>>] /\ Goto(a, l)

RestoreOnly(a) ==             \* slip: a restore that fails is taken for a hit
    /\ pc[a] = "restore"
    /\ \/ /\ key[a] \in DOMAIN store
          /\ disk' = [disk EXCEPT ![Current(a)] = store[key[a]][Len(done[a]) + 1]]
          /\ StepTo(a, disk'[Current(a)], "built")
          /\ NoFault
       \/ /\ IF key[a] \in DOMAIN store THEN Fault ELSE NoFault
          /\ Break(a, "built")
          /\ UNCHANGED disk
    /\ UNCHANGED <<manifest, tool, store, process, key, box, truth, quiet, kept, ran,
                   touched, builds>>

\* The entry's outputs are written one after another; when one cannot be, the
\* command is run after all.
Restore(a) ==
    /\ pc[a] = "restore"
    /\ \/ /\ key[a] \in DOMAIN store
          /\ disk' = [disk EXCEPT ![Current(a)] = store[key[a]][Len(done[a]) + 1]]
          /\ StepTo(a, disk'[Current(a)], "built")
          /\ kept' = IF AtLast(a) THEN kept \union {a} ELSE kept
          /\ NoFault
       \/ /\ IF key[a] \in DOMAIN store THEN Fault ELSE NoFault
          /\ Break(a, "exec")
          /\ UNCHANGED <<disk, kept>>
    /\ UNCHANGED <<manifest, tool, store, process, key, box, truth, quiet, ran, touched,
                   builds>>

-----------------------------------------------------------------------------
(* Running.                                                                *)

\* What the command can open: in the sandbox there are links to the declared
\* inputs, and nothing else.
Opens(a) ==
    LET files == Range(Reads[manifest[a].cmd])
    IN  Present(files) /\ (option.sandbox => files \subseteq Inputs(a))

\* The outputs O, as the command writes them now.
Products(a, O) ==
    LET reads == Reads[manifest[a].cmd]
    IN  [o \in O |-> Made(manifest[a].cmd, tool, o,
                          [i \in DOMAIN reads |-> disk[reads[i]]])]

\* The command writes O, into the sandbox or straight into the workspace.
Writes(a, O) ==
    IF option.sandbox
    THEN box' = [box EXCEPT ![a] = Products(a, O)] /\ UNCHANGED disk
    ELSE disk' = Over(Products(a, O), disk) /\ UNCHANGED box

\* newSandbox or prepareOutputDirs, then the command, which needs every file it
\* opens.  It may fail on the way, or exit with zero and have left outputs out.
Exec(a) ==
    /\ pc[a] = "exec"
    /\ \E O \in SUBSET Range(Outputs(a)), zero \in BOOLEAN :
          /\ ~Opens(a) => O = {} /\ ~zero
          /\ IF (Opens(a) /\ zero /\ O = Range(Outputs(a))) \/ ~Opens(a)
             THEN NoFault ELSE Fault
          /\ IF zero THEN Writes(a, O)
             ELSE UNCHANGED box /\ IF option.sandbox THEN UNCHANGED disk
                                   ELSE disk' = Over(Products(a, O), disk)
          /\ Goto(a, IF ~zero THEN "failed"
                     ELSE IF option.sandbox THEN "harvest" ELSE "verify")
    /\ ran' = ran \union {a}
    /\ UNCHANGED <<manifest, tool, store, process, key, done, truth, quiet, kept, touched,
                   builds>>

\* Each declared output replaces the one in the workspace.  The old one is gone
\* when the move fails.
Harvest(a) ==
    /\ pc[a] = "harvest"
    /\ \/ /\ Current(a) \in DOMAIN box[a]
          /\ disk' = [disk EXCEPT ![Current(a)] = box[a][Current(a)]]
          /\ StepTo(a, disk'[Current(a)], "verify")
          /\ NoFault
       \/ /\ Current(a) \in DOMAIN box[a] /\ Fault
          /\ disk' = [disk EXCEPT ![Current(a)] = Absent]
          /\ Break(a, "failed")
       \/ /\ Current(a) \notin DOMAIN box[a] /\ NoFault
          /\ Break(a, "failed") /\ UNCHANGED disk
    /\ box' = IF pc'[a] = "harvest" THEN box ELSE [box EXCEPT ![a] = None]
    /\ UNCHANGED <<manifest, tool, store, process, key, truth, quiet, kept, ran, touched,
                   builds>>

\* checkOutputs.
CheckOutputs(a) ==
    /\ pc[a] = "verify"
    /\ Goto(a, IF ~Present(Range(Outputs(a))) THEN "failed"
               ELSE IF option.cache THEN "put" ELSE "built")
    /\ UNCHANGED <<world, store, process, key, box, done, truth, progress, bounds>>

With(K, k, b) == IF b THEN K \union {k} ELSE K \ {k}

\* Put digests the outputs in the workspace one by one and records the entry;
\* when it fails the action is built all the same.
Put(a) ==
    /\ pc[a] = "put"
    /\ \/ /\ Present({Current(a)})
          /\ StepTo(a, disk[Current(a)], "built")
          /\ IF ~AtLast(a) THEN UNCHANGED <<store, suspect, loose, kept>>
             ELSE /\ store' = Over([k \in {key[a]} |-> Append(done[a], disk[Current(a)])], store)
                  /\ suspect' = With(suspect, key[a], a \in exposed \/ upgraded)
                  /\ loose' = With(loose, key[a], ~option.sandbox)
                  /\ kept' = kept \union {a}
          /\ NoFault
       \/ /\ IF Present({Current(a)}) THEN Fault ELSE NoFault
          /\ Break(a, "built")
          /\ UNCHANGED <<store, suspect, loose, kept>>
    /\ UNCHANGED <<world, process, key, box, exposed, upgraded, quiet, ran, touched,
                   builds>>

Ended == \A a \in Actions : pc[a] \in {"built", "failed", "skipped"}

EndBuild ==
    /\ phase = "on" /\ Ended
    /\ phase' = "off"
    /\ exposed' = {}
    /\ settled' = (quiet /\ \A a \in Actions : a \in kept /\ key[a] \in DOMAIN store)
    /\ touched' = {}
    /\ UNCHANGED <<world, store, option, memo, work, upgraded, suspect, loose, quiet,
                   kept, ran, bounds>>

\* The process is killed, perhaps while it replaces an output, which it unlinks
\* first.  Its sandboxes stay behind under names nobody uses.
Kill ==
    /\ phase = "on" /\ Fault
    /\ phase' = "off"
    /\ \/ UNCHANGED disk
       \/ \E a \in Actions : pc[a] \in {"restore", "harvest"}
                             /\ disk' = [disk EXCEPT ![Current(a)] = Absent]
    /\ pc' = [a \in Actions |-> IF pc[a] = "built" THEN "built" ELSE "failed"]
    /\ box' = [a \in Actions |-> None] /\ done' = [a \in Actions |-> <<>>]
    /\ exposed' = {}
    /\ UNCHANGED <<manifest, tool, store, option, memo, key, upgraded, suspect, loose, quiet,
                   kept, ran, touched, builds>>

-----------------------------------------------------------------------------
(* The world.                                                              *)

Change == Trouble /\ quiet' = FALSE

\* The actions that rely on f being what it was.
Relying(f) ==
    {a \in Actions :
        \/ pc[a] \in {"hash", "restore", "exec", "harvest", "verify", "put"}
           /\ key[a] # None /\ f \in Hashed(a)
        \/ pc[a] \in {"harvest", "verify", "put"} /\ f \in Range(Outputs(a))}

\* Someone edits, writes back or deletes a file, a source or an output.
Edit ==
    /\ Change
    /\ \E f \in Files : \E c \in (Versions \union {Absent}) \ {disk[f]} :
          /\ disk' = [disk EXCEPT ![f] = c]
          /\ exposed' = exposed \union Relying(f)
          /\ touched' = IF settled THEN touched \union {f} ELSE touched
    /\ UNCHANGED <<manifest, tool, store, process, work, upgraded, suspect, loose, kept,
                   ran, settled, builds>>

\* The tool is upgraded, or downgraded.
Upgrade ==
    /\ Change
    /\ tool' = 3 - tool
    /\ upgraded' = (upgraded \/ (phase = "on" /\ memo # 0))
    /\ settled' = FALSE
    /\ UNCHANGED <<manifest, disk, store, process, work, exposed, suspect, loose, kept,
                   ran, touched, builds>>

\* The build file is rewritten; a build has read it before it starts.
Rewrite ==
    /\ Change /\ phase = "off"
    /\ manifest' \in Manifests \ {manifest}
    /\ settled' = FALSE
    /\ UNCHANGED <<disk, tool, store, process, work, exposed, upgraded, suspect, loose,
                   kept, ran, touched, builds>>

\* A collection, or damage, loses an entry.
Forget ==
    /\ Fault
    /\ \E k \in DOMAIN store : store' = [j \in DOMAIN store \ {k} |-> store[j]]
    /\ UNCHANGED <<world, process, work, truth, quiet, kept, ran, touched, builds>>

-----------------------------------------------------------------------------
Step(a) ==
    \/ CheckInputs(a) \/ Skip(a) \/ DigestTool(a) \/ HashInput(a) \/ Lookup(a)
    \/ Restore(a) \/ Exec(a) \/ Harvest(a) \/ CheckOutputs(a) \/ Put(a)

Next ==
    \/ StartBuild \/ EndBuild \/ Kill
    \/ \E a \in Actions : Step(a)
    \/ Edit \/ Upgrade \/ Rewrite \/ Forget

Spec == Init /\ [][Next]_vars

-----------------------------------------------------------------------------
\* The outputs of the run a key stands for.
Meant(k) ==
    [i \in DOMAIN k.out |->
        Made(k.cmd, k.tool, k.out[i],
             [j \in DOMAIN Reads[k.cmd] |-> k.in[Reads[k.cmd][j]]])]

\* An entry made in a sandbox covers everything its command read, and holds
\* what the command makes of it, unless a file was changed under the action or
\* the tool after the process had digested it.  It does not matter what was in
\* the workspace before, what failed or was killed, or what the command left
\* out.
StoreIsTrue ==
    \A k \in DOMAIN store \ (suspect \union loose) :
        /\ Range(Reads[k.cmd]) \subseteq DOMAIN k.in
        /\ store[k] = Meant(k)

\* The workspace after a build from scratch of the first n actions.
Scratch[n \in 0..N] ==
    IF n = 0 THEN disk
    ELSE LET c == manifest[n].cmd
             from == Scratch[n - 1]
         IN  Over([o \in Range(manifest[n].outputs) |->
                      Made(c, tool, o, [i \in DOMAIN Reads[c] |-> from[Reads[c][i]]])], from)

\* An incremental build is a clean build: when every action of a sandboxed
\* build is built or restored, all outputs are those a build from scratch would
\* make now, whatever earlier builds, edits and failures left in the workspace
\* and the store.  Left out are builds that were disturbed while they ran, and
\* those that used an entry that need not be true to its key: one stored by an
\* action whose files or tool changed under it, or without a sandbox.
BuildIsClean ==
    phase = "off" /\ quiet /\ option.sandbox
    /\ (\A a \in Actions : pc[a] = "built" /\ key[a] \notin suspect \union loose)
    => disk = Scratch[N]

\* The actions a change of the files F can reach.
Affected(F) ==
    LET Reach[n \in 0..N] ==
            IF n = 0 THEN {}
            ELSE LET before == Reach[n - 1]
                     files == F \union UNION {Range(Outputs(b)) : b \in before}
                 IN  IF Inputs(n) \cap files # {} THEN before \union {n} ELSE before
    IN  Reach[N]

\* A rebuild runs only what an edit can have reached: after a build that built
\* and kept everything, a command runs again only if one of its inputs, or of
\* those of the actions it depends on, was changed since.
OnlyAffectedRuns ==
    phase = "on" /\ settled /\ option.cache => ran \subseteq Affected(touched)

\* "An action reads an undeclared file: build fails in the sandbox."
UndeclaredReadFails ==
    phase = "on" /\ option.sandbox =>
        \A a \in Actions : pc[a] = "built" =>
            Range(Reads[manifest[a].cmd]) \subseteq Inputs(a)
=============================================================================
