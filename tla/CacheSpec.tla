------------------------------ MODULE CacheSpec ------------------------------
(***************************************************************************)
(* What a runner may expect of its cache: the interface Cache of           *)
(* internal/runner/runner.go, which the local store and the tiered cache   *)
(* both satisfy, and the rules its two callers, tryRestore and Run, rely   *)
(* on.  A cache may forget, be damaged or be out of reach; it answers a    *)
(* lookup all the same, and what it restores is what some run recorded.    *)
(***************************************************************************)
CONSTANTS
    Builders,         \* who runs actions
    Keys,             \* the cache keys
    Makes             \* Makes[k]: the outputs a run under k may produce

VARIABLES
    phase,            \* where each builder is with its action
    key,              \* the key of that action
    ws,               \* the outputs in its workspace
    recorded,         \* every <<key, outputs>> a run has handed to Put
    cached            \* who was given its last outputs instead of running

vars == <<phase, key, ws, recorded, cached>>

\* Outputs that are not those of one run, and all there may be.
Mixed == <<>>
Contents == {Mixed} \union UNION {Makes[k] : k \in Keys}

Phases == {"idle", "asked", "running", "made"}

Init ==
    /\ phase = [b \in Builders |-> "idle"]
    /\ key \in [Builders -> Keys]
    /\ recorded \subseteq {<<k, o>> : k \in Keys, o \in UNION {Makes[j] : j \in Keys}}
    /\ cached = {}

Move(b, from, to) == phase[b] = from /\ phase' = [phase EXCEPT ![b] = to]

\* The runner has computed a key and looks it up.
Ask(b) ==
    /\ Move(b, "idle", "asked")
    /\ \E k \in Keys : key' = [key EXCEPT ![b] = k]
    /\ cached' = cached \ {b}
    /\ UNCHANGED <<ws, recorded>>

\* A hit: the outputs in the workspace are those of one recorded run.
Hit(b) ==
    /\ Move(b, "asked", "idle")
    /\ \E r \in recorded : r[1] = key[b] /\ ws' = [ws EXCEPT ![b] = r[2]]
    /\ cached' = cached \union {b}
    /\ UNCHANGED <<key, recorded>>

\* A restore may overwrite some of the outputs before it fails.
Scribble(b) == \E o \in Contents : ws' = [ws EXCEPT ![b] = o]

Restoring(b) == phase[b] = "asked" /\ Scribble(b) /\ UNCHANGED <<phase, key, recorded, cached>>

\* A miss, whatever the reason, a restore that fails included: the only other
\* answer there is.
Miss(b) ==
    /\ Move(b, "asked", "running")
    /\ UNCHANGED ws \/ Scribble(b)
    /\ UNCHANGED <<key, recorded, cached>>

Run(b) ==
    /\ Move(b, "running", "made")
    /\ \E o \in Makes[key[b]] : ws' = [ws EXCEPT ![b] = o]
    /\ UNCHANGED <<key, recorded, cached>>

\* The command fails; that, and never the cache, fails the action.
Fail(b) ==
    /\ Move(b, "running", "idle")
    /\ UNCHANGED ws \/ Scribble(b)
    /\ UNCHANGED <<key, recorded, cached>>

\* Put takes effect, and may do so without the runner learning of it.
Record(b) ==
    /\ phase[b] = "made"
    /\ recorded' = recorded \union {<<key[b], ws[b]>>}
    /\ UNCHANGED <<phase, key, ws, cached>>

Done(b) == Move(b, "made", "idle") /\ UNCHANGED <<key, ws, recorded, cached>>

Killed(b) ==
    /\ phase[b] # "idle"
    /\ phase' = [phase EXCEPT ![b] = "idle"]
    /\ UNCHANGED <<key, ws, recorded, cached>>

Answer(b) == Hit(b) \/ Miss(b) \/ Killed(b)
Finish(b) == Run(b) \/ Fail(b) \/ Done(b) \/ Killed(b)

Next ==
    \E b \in Builders :
        \/ Ask(b) \/ Restoring(b) \/ Record(b) \/ Answer(b) \/ Finish(b)

Safety == Init /\ [][Next]_vars

\* Every lookup is answered and every action ends, whatever becomes of the
\* cache.
Spec ==
    Safety /\ \A b \in Builders : WF_vars(Answer(b)) /\ WF_vars(Finish(b))
=============================================================================
