------------------------------- MODULE Manifest ------------------------------
(***************************************************************************)
(* Loading a manifest (internal/manifest/manifest.go, graph.New, and load  *)
(* in cmd/buildforge/main.go), and what follows: the order of the graph it *)
(* describes (GraphOrder) and its critical path (CriticalPath).            *)
(*                                                                         *)
(* An entry of the file has the name 0 when its name is empty.  A path is  *)
(* the sequence of what stands between its slashes: "/a" is <<"", "a">>,   *)
(* "a//b" is <<"a", "", "b">> and the empty path is <<"">>.                *)
(***************************************************************************)
EXTENDS CriticalPath

CONSTANTS
    Files,            \* the manifests that may be written
    Segments          \* what may stand between the slashes of a path

ASSUME SegmentsAssumption == {"", ".", ".."} \subseteq Segments
\* A file is empty or has N entries, and its names are counted from 1.
ASSUME FilesAssumption ==
    \A f \in Files \ {<<>>} :
        /\ f = [i \in 1..N |-> f[i]]
        /\ \A i \in 1..N :
              /\ f[i].name \in 0..N /\ f[i].deps \in Seq(Nat)
              /\ \A d \in Names :
                    Cardinality({j \in DOMAIN f[i].deps : f[i].deps[j] = d}) <= MaxCopies
              /\ {f[i].inputs, f[i].outputs} \subseteq Seq(Seq(Segments) \ {<<>>})
              /\ {f[i].command, f[i].blankEnv, f[i].extraField} \subseteq BOOLEAN

VARIABLES
    file,             \* the file, until it has been read
    outcome,          \* "", "loaded", "rejected", or "mismatch"
    problems          \* what Validate reports

mvars == <<file, outcome, problems>>

-----------------------------------------------------------------------------
(* Paths.                                                                  *)

Rooted(p) == p[1] = "" /\ Len(p) > 1

\* One segment of path.Clean: "." and empty ones go, ".." undoes what is before
\* it, and nothing at the root.
CleanStep(rooted, done, s) ==
    CASE s \in {"", "."} -> done
      [] s = ".." /\ done # <<>> /\ Last(done) # ".." -> Front(done)
      [] s = ".." /\ done = <<>> /\ rooted -> done
      [] OTHER -> Append(done, s)

Clean(p) ==
    LET Done[i \in 0..Len(p)] ==
            IF i = 0 THEN <<>> ELSE CleanStep(Rooted(p), Done[i - 1], p[i])
        c == Done[Len(p)]
    IN  IF Rooted(p) THEN <<"">> \o (IF c = <<>> THEN <<"">> ELSE c)
        ELSE IF c = <<>> THEN <<".">> ELSE c

BadByPrefix(p) ==                        \* slip: the canonical form is not asked for
    p = <<"">> \/ Rooted(p) \/ p[1] = ".."

\* checkPaths refuses a path that is empty, absolute, not canonical or that
\* escapes.
BadPath(p) == p = <<"">> \/ Rooted(p) \/ p # Clean(p) \/ p[1] = ".."

-----------------------------------------------------------------------------
(* Validate.                                                               *)

Named == {i \in DOMAIN file : file[i].name # 0}
Seen == {file[i].name : i \in Named}

Paths(e) == ToSet(e.inputs) \union ToSet(e.outputs)

Report(I, what) == {<<i, what>> : i \in I}

\* An entry without a name is reported by its index, and for nothing else.
Problems ==
    Report(DOMAIN file \ Named, "name")
    \union Report({i \in Named : \E j \in 1..(i - 1) : file[j].name = file[i].name}, "twice")
    \union Report({i \in Named : ~file[i].command}, "command")
    \union Report({i \in Named : file[i].outputs = <<>>}, "outputs")
    \union Report({i \in Named : file[i].name \in ToSet(file[i].deps)}, "self")
    \union Report({i \in Named : ToSet(file[i].deps) \ (Seen \union {file[i].name}) # {}},
                  "unknown")
    \union Report({i \in Named : \E p \in Paths(file[i]) : BadPath(p)}, "path")
    \union Report({i \in Named : file[i].blankEnv}, "env")

-----------------------------------------------------------------------------
\* graph.New: each action with the dependencies it lists, as often as it does.
New ==
    [n \in Names |->
        LET e == file[CHOOSE i \in DOMAIN file : file[i].name = n]
        IN  [d \in Names |-> Cardinality({i \in DOMAIN e.deps : e.deps[i] = d})]]

MInit ==
    /\ file \in Files /\ outcome = "" /\ problems = {}
    /\ copies = [n \in Names |-> [d \in Names |-> 0]] /\ GStart
    /\ CPStart

\* load: a field the parser does not know ends it at once; otherwise all
\* problems are reported, and without one the graph is built.
Load ==
    /\ outcome = ""
    /\ problems' = IF file = <<>> \/ \E i \in DOMAIN file : file[i].extraField
                   THEN {<<0, "parse">>} ELSE Problems
    /\ outcome' = IF problems' # {} THEN "rejected"
                  ELSE IF \E i \in DOMAIN file : ~ToSet(file[i].deps) \subseteq Seen
                       THEN "mismatch" ELSE "loaded"
    /\ copies' = IF outcome' = "loaded" THEN New ELSE copies
    /\ file' = <<>>
    /\ UNCHANGED <<phase, kahn, search, cpvars>>

MNext ==
    \/ Load
    \/ outcome = "loaded" /\ Next /\ UNCHANGED mvars

MSpec == MInit /\ [][MNext]_<<vars, mvars>>

-----------------------------------------------------------------------------
\* Where a path leads from the workspace: a place below it, or outside.
Outside == <<"..">>
Into(at, s) ==
    CASE at = Outside -> Outside
      [] at # Outside /\ s \in {"", "."} -> at
      [] at # Outside /\ s = ".." -> IF at = <<>> THEN Outside ELSE Front(at)
      [] OTHER -> Append(at, s)
Where(p) ==
    LET At[i \in 0..Len(p)] ==
            IF i = 0 THEN IF Rooted(p) THEN Outside ELSE <<>> ELSE Into(At[i - 1], p[i])
    IN  At[Len(p)]

\* What an entry must not be, whatever the others are.
Flawed(i) ==
    \/ file[i].name \notin Names
    \/ ~file[i].command \/ file[i].outputs = <<>> \/ file[i].blankEnv
    \/ ~ToSet(file[i].deps) \subseteq Seen \ {file[i].name}
    \/ \E p \in Paths(file[i]) : Where(p) = Outside

PathsOf(f) == UNION {Paths(f[i]) : i \in DOMAIN f}

\* What load hands to the drivers is a graph they can take: every action is
\* there once, no dependency is unknown or its own, no path leaves the
\* workspace, and a file has one spelling, so that a key never takes one file
\* for two.  What it refuses has a flaw, and every flawed entry is reported in
\* the one run.
LoadIsSound ==
    [][Load =>
        /\ outcome' # "mismatch"
        /\ outcome' = "loaded" =>
              /\ {i \in DOMAIN file : Flawed(i)} = {} /\ Seen = Names
              /\ \A p, q \in PathsOf(file) : Where(p) = Where(q) => p = q
              /\ GInit'
              /\ \A i \in DOMAIN file :
                    {d \in Names : copies'[file[i].name][d] > 0} = ToSet(file[i].deps)
        /\ outcome' = "rejected" /\ <<0, "parse">> \notin problems' =>
              \A i \in DOMAIN file :
                  Flawed(i) => \E what \in {r[2] : r \in problems'} : <<i, what>> \in problems'
      ]_<<vars, mvars>>
=============================================================================
