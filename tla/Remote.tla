-------------------------------- MODULE Remote -------------------------------
(***************************************************************************)
(* Machines that share a cache server: Tiered (internal/remote/tiered.go), *)
(* its Client (client.go) and the Server (server.go), with the store       *)
(* operations they use (internal/cache/store.go).                          *)
(*                                                                         *)
(* Each builder is a machine with a store of its own.  A request is served *)
(* in one step of the server's store, some time after it was sent, or      *)
(* never; its answer may be lost; the client gives up after its timeout,   *)
(* and an upload it gave up on may still arrive later.  A restart of the   *)
(* server loses what is in flight and nothing else, so it is no action of  *)
(* its own.  The steps inside a store are those of module CacheStore; here *)
(* an operation of one store is one step, and it may fail.                 *)
(***************************************************************************)
EXTENDS Integers, Sequences, FiniteSets, Functions

CONSTANTS
    Builders,         \* the machines
    Server,           \* the server's store
    Keys,             \* cache keys
    Digests,          \* digests of output contents
    Outputs,          \* outputs of an action
    Makes,            \* Makes[k]: what a run under key k may produce
    MaxRuns,          \* bound on the actions all machines run
    MaxFaults         \* bound on what goes wrong, timeouts not counted

ASSUME ServerAssumption == Server \notin Builders
ASSUME DigestsAssumption == Digests \subseteq Nat
ASSUME OutputsAssumption == Outputs \in Nat \ {0}
ASSUME MakesAssumption == Makes \in [Keys -> SUBSET [1..Outputs -> Digests]]
ASSUME BoundsAssumption == {MaxRuns, MaxFaults} \subseteq Nat

VARIABLES
    blobs,            \* blobs[s]: the digests store s has a file for
    bad,              \* those whose bytes are not the digest's
    entry,            \* entry[s][k]: the outputs store s records, or None
    pc,               \* where each builder is
    key,              \* the key of its action
    want,             \* the entry it fetches, restores or uploads
    idx,              \* the output it is at
    req,              \* its request in flight, or None
    ans,              \* the answer on its way back, or None
    ws,               \* the outputs in its workspace, or None when they are
                      \* not those of one run
    cached,           \* who restored its last outputs
    stats,            \* what its call has added to the Stats of its Tiered
    happened,         \* what has really happened to that call (see Mark)
    late,             \* uploads the client has given up on
    runs, faults,
    harmed,           \* harmed[s]: blobs damaged in s itself, on its disk
    gone,             \* gone[s]: blobs deleted from s and not written since
    recorded          \* every <<key, outputs>> a Put has stored

Stores == Builders \union {Server}
None == <<>>

stores == <<blobs, bad, entry>>
loop == <<want, idx>>
control == <<pc, key, loop>>
network == <<req, ans, late>>
history == <<harmed, gone, recorded>>
outputs == <<ws, cached>>
accounts == <<stats, happened>>
vars == <<stores, control, network, outputs, accounts, runs, faults, history>>

Counters == {"LocalHits", "RemoteHits", "Misses", "Uploads", "Errors"}
NoCounts == [c \in Counters |-> 0]

-----------------------------------------------------------------------------
Init ==
    /\ blobs = [s \in Stores |-> {}] /\ bad = [s \in Stores |-> {}]
    /\ entry = [s \in Stores |-> [k \in Keys |-> None]]
    /\ pc = [b \in Builders |-> "idle"]
    /\ key \in [Builders -> Keys]
    /\ want = [b \in Builders |-> None] /\ idx = [b \in Builders |-> 1]
    /\ req = [b \in Builders |-> None] /\ ans = [b \in Builders |-> None]
    /\ late = {}
    /\ ws = [b \in Builders |-> None]
    /\ cached = {}
    /\ stats = [b \in Builders |-> NoCounts]
    /\ happened = [b \in Builders |-> {}]
    /\ runs = 0 /\ faults = 0
    /\ harmed = [s \in Stores |-> {}] /\ gone = [s \in Stores |-> {}]
    /\ recorded = {}

Fault == faults < MaxFaults /\ faults' = faults + 1

Goto(b, l) == pc' = [pc EXCEPT ![b] = l]

\* A loop over the outputs of e starts at l; or, over nothing, is left for l.
Loop(b, l, e) ==
    /\ Goto(b, l)
    /\ want' = [want EXCEPT ![b] = e] /\ idx' = [idx EXCEPT ![b] = 1]
Leave(b, l) == Loop(b, l, None)

\* A counter of Stats goes up.
Count(b, c) == stats' = [stats EXCEPT ![b][c] = @ + 1]

\* Not in the code: what became of the call, to hold against what it counts.  The
\* server had the entry ("given") or did not have it ("absent"); it took the entry
\* of a Put ("stored"); a request was given up ("late"); an entry that was handed
\* out could not be restored ("handed"); the local half of a Put failed
\* ("unsaved").
Mark(b, what) == happened' = [happened EXCEPT ![b] = @ \union {what}]

\* The runner goes on; the next call is looked at by itself.
Close(b) ==
    /\ stats' = [stats EXCEPT ![b] = NoCounts]
    /\ happened' = [happened EXCEPT ![b] = {}]

\* A blob is in the file its digest names, with the right bytes.
ReadBlob(s, d) == d \in blobs[s] \ bad[s]

HasBlob(s, d) == d \in blobs[s]

Blobs(e) == Range(e)

\* Store.Lookup: an entry is usable if every blob it names has a file.
Usable(s, k) == entry[s][k] # None /\ \A d \in Blobs(entry[s][k]) : HasBlob(s, d)

\* Files for the blobs D are written; one that is there is left as it is.
Keep(s, D) ==
    /\ blobs' = [blobs EXCEPT ![s] = @ \union D]
    /\ gone' = [gone EXCEPT ![s] = @ \ D]

Trusted(d, bytes) == TRUE     \* slip: the name is taken for the contents

\* Bytes that came over the network are digested before they are believed.
Verified(d, bytes) == bytes = <<d>>

\* Store.WriteBlob.
WriteBlob(s, d, bytes) ==
    /\ Verified(d, bytes)
    /\ Keep(s, {d})
    /\ bad' = IF bytes = <<d>> \/ HasBlob(s, d) THEN bad
              ELSE [bad EXCEPT ![s] = @ \union {d}]

\* Sends a request; the client waits for its answer at l.
Send(b, l, r) ==
    /\ Goto(b, l)
    /\ req' = [req EXCEPT ![b] = r]
    /\ ans' = [ans EXCEPT ![b] = None]

Get(op, name) == [op |-> op, name |-> name, body |-> None]
PutReq(op, name, body) == [op |-> op, name |-> name, body |-> body]

\* The request is over, however it ended.
Settled(b) ==
    /\ req' = [req EXCEPT ![b] = None]
    /\ ans' = [ans EXCEPT ![b] = None]

-----------------------------------------------------------------------------
(* Lookup.                                                                 *)

Begin(b) ==
    /\ pc[b] = "idle" /\ runs < MaxRuns
    /\ \E k \in Keys : key' = [key EXCEPT ![b] = k]
    /\ Goto(b, "lookup")
    /\ runs' = runs + 1
    /\ cached' = cached \ {b}
    /\ UNCHANGED <<stores, loop, network, ws, accounts, faults, history>>

\* The local store answers ...
LocalHit(b) ==
    /\ pc[b] = "lookup" /\ Usable(b, key[b])
    /\ Loop(b, "restore", entry[b][key[b]])
    /\ Count(b, "LocalHits")
    /\ UNCHANGED <<stores, key, network, outputs, happened, runs, faults, history>>

\* ... or the server is asked for the entry.
AskServer(b) ==
    /\ pc[b] = "lookup" /\ ~Usable(b, key[b])
    /\ Send(b, "getEntry", Get("getEntry", key[b]))
    /\ UNCHANGED <<stores, key, loop, late, outputs, accounts, runs, faults, history>>

\* A miss, or an error that is treated as one: run the action instead.
Fallback(b, counter) == Leave(b, "exec") /\ Count(b, counter)

AnyMiss(b) == "Misses"         \* slip: an error is counted as a miss

\* Without an entry of this key in the answer: only a 404 is a miss.
NoEntry(b) == IF ans[b].code = "404" THEN "Misses" ELSE "Errors"

GotEntry(b) ==
    /\ pc[b] = "getEntry" /\ ans[b] # None
    /\ IF ans[b].code = "200" /\ ans[b].body # None
       THEN Loop(b, "fetch", ans[b].body) /\ UNCHANGED stats
       ELSE Fallback(b, NoEntry(b))
    /\ Settled(b)
    /\ UNCHANGED <<stores, key, late, outputs, happened, runs, faults, history>>

\* The loop over the entry's outputs: the next one, or after the last m.
Advance(b, l, m) ==
    /\ idx' = [idx EXCEPT ![b] = IF @ < Outputs THEN @ + 1 ELSE 1]
    /\ Goto(b, IF idx[b] < Outputs THEN l ELSE m)
    /\ UNCHANGED want

\* A blob the local store has is not fetched.
Fetch(b) ==
    /\ pc[b] = "fetch"
    /\ LET d == want[b][idx[b]]
       IN  IF HasBlob(b, d)
           THEN Advance(b, "fetch", "install") /\ UNCHANGED <<req, ans>>
           ELSE Send(b, "getBlob", Get("getBlob", d)) /\ UNCHANGED loop
    /\ UNCHANGED <<stores, key, late, outputs, accounts, runs, faults, history>>

\* The bytes are checked against the digest asked for and stored; anything
\* else, a full disk included, ends the download.
GotBlob(b) ==
    /\ pc[b] = "getBlob" /\ ans[b] # None
    /\ LET d == want[b][idx[b]]
           genuine == ans[b].code = "200" /\ Verified(d, ans[b].body)
       IN  \/ /\ genuine
              /\ WriteBlob(b, d, ans[b].body)
              /\ Advance(b, "fetch", "install")
              /\ UNCHANGED <<stats, faults>>
           \/ /\ IF genuine THEN Fault ELSE UNCHANGED faults
              /\ Fallback(b, "Errors")
              /\ UNCHANGED <<blobs, bad, gone>>
    /\ Settled(b)
    /\ UNCHANGED <<entry, key, late, outputs, happened, runs, harmed, recorded>>

\* With every blob here the entry is recorded locally.
Install(b) ==
    /\ pc[b] = "install"
    /\ \/ /\ entry' = [entry EXCEPT ![b][key[b]] = want[b]]
          /\ Count(b, "RemoteHits")
          /\ Goto(b, "restore") /\ UNCHANGED <<loop, faults>>
       \/ Fault /\ Fallback(b, "Errors") /\ UNCHANGED entry
    /\ UNCHANGED <<blobs, bad, key, network, outputs, happened, runs, history>>

\* The outputs are written if every blob still hashes to its digest; otherwise
\* some of them may be overwritten, and the action is run.
Restore(b) ==
    /\ pc[b] = "restore"
    /\ IF \A d \in Blobs(want[b]) : ReadBlob(b, d)
       THEN /\ Leave(b, "idle") /\ Close(b)
            /\ ws' = [ws EXCEPT ![b] = want[b]] /\ cached' = cached \union {b}
       ELSE /\ Leave(b, "exec") /\ Mark(b, "handed") /\ UNCHANGED stats
            /\ ws' = [ws EXCEPT ![b] = None] /\ UNCHANGED cached
    /\ UNCHANGED <<stores, key, network, runs, faults, history>>

-----------------------------------------------------------------------------
(* Run and Put.                                                            *)

\* The command fails, or produces every declared output.
Exec(b) ==
    /\ pc[b] = "exec"
    /\ \/ \E o \in Makes[key[b]] : ws' = [ws EXCEPT ![b] = o] /\ Goto(b, "put")
       \/ ws' = [ws EXCEPT ![b] = None] /\ Goto(b, "idle")
    /\ Close(b)
    /\ UNCHANGED <<stores, key, loop, network, cached, runs, faults, history>>

\* The local Put.  When it fails nothing is uploaded and nothing counted: its
\* error goes to the runner, which drops it.
PutLocal(b) ==
    /\ pc[b] = "put"
    /\ \/ /\ Keep(b, Blobs(ws[b]))
          /\ entry' = [entry EXCEPT ![b][key[b]] = ws[b]]
          /\ recorded' = recorded \union {<<key[b], ws[b]>>}
          /\ Loop(b, "push", ws[b]) /\ UNCHANGED <<happened, faults>>
       \/ /\ Fault
          /\ \E D \in SUBSET Blobs(ws[b]) : Keep(b, D)
          /\ Mark(b, "unsaved")
          /\ Leave(b, "returned")
          /\ UNCHANGED <<entry, recorded>>
    /\ UNCHANGED <<bad, key, network, outputs, stats, runs, harmed>>

\* The upload is over, with the entry on the server or without.
Uploaded(b, counter) == Leave(b, "returned") /\ Count(b, counter)

\* The next output's blob is read back, verified and sent.
Push(b) ==
    /\ pc[b] = "push"
    /\ LET d == want[b][idx[b]]
       IN  IF ReadBlob(b, d)
           THEN /\ Send(b, "putBlob", PutReq("putBlob", d, <<d>>))
                /\ UNCHANGED <<loop, stats>>
           ELSE Uploaded(b, "Errors") /\ UNCHANGED <<req, ans>>
    /\ UNCHANGED <<stores, key, late, outputs, happened, runs, faults, history>>

PutBlobUnchecked(b) ==        \* slip: the status of the answer is not looked at
    /\ pc[b] = "putBlob" /\ ans[b] # None
    /\ Advance(b, "push", "pushEntry")
    /\ Settled(b)
    /\ UNCHANGED <<stores, key, late, outputs, accounts, runs, faults, history>>

\* Only a blob the server has taken lets the upload go on ...
PutBlobAnswered(b) ==
    /\ pc[b] = "putBlob" /\ ans[b] # None
    /\ IF ans[b].code = "201"
       THEN Advance(b, "push", "pushEntry") /\ UNCHANGED stats
       ELSE Uploaded(b, "Errors")
    /\ Settled(b)
    /\ UNCHANGED <<stores, key, late, outputs, happened, runs, faults, history>>

\* ... and the entry is sent after the last one.
PushEntry(b) ==
    /\ pc[b] = "pushEntry"
    /\ Send(b, "putEntry", PutReq("putEntry", key[b], want[b]))
    /\ UNCHANGED <<stores, key, loop, late, outputs, accounts, runs, faults, history>>

PutEntryAnswered(b) ==
    /\ pc[b] = "putEntry" /\ ans[b] # None
    /\ Uploaded(b, IF ans[b].code = "201" THEN "Uploads" ELSE "Errors")
    /\ Settled(b)
    /\ UNCHANGED <<stores, key, late, outputs, happened, runs, faults, history>>

Uploads == {"putBlob", "putEntry"}

\* An upload that has not been served may be lost with its client's interest
\* in it, or be served later.
Forsake(b) ==
    /\ \/ UNCHANGED late
       \/ /\ ans[b] = None /\ req[b] # None /\ req[b].op \in Uploads
          /\ late' = late \union {req[b]}
    /\ Settled(b)

TimeoutUnsettled(b) ==        \* slip: a late answer can reach the next request
    /\ req[b] # None
    /\ IF req[b].op \in Uploads THEN Uploaded(b, "Errors") ELSE Fallback(b, "Errors")
    /\ Mark(b, "late")
    /\ UNCHANGED <<stores, key, network, outputs, runs, faults, history>>

NoTimeout(b) == FALSE /\ UNCHANGED vars     \* slip: a client that waits for ever

\* The client's timeout, a refused connection, or an answer that was lost.
Timeout(b) ==
    /\ req[b] # None
    /\ IF req[b].op \in Uploads THEN Uploaded(b, "Errors") ELSE Fallback(b, "Errors")
    /\ Mark(b, "late")
    /\ Forsake(b)
    /\ UNCHANGED <<stores, key, outputs, runs, faults, history>>

\* Put has returned to its runner, and the action is done.
Return(b) ==
    /\ pc[b] = "returned"
    /\ Goto(b, "idle")
    /\ Close(b)
    /\ UNCHANGED <<stores, key, loop, network, outputs, runs, faults, history>>

\* The process is killed at any moment, and its counters with it.
Kill(b) ==
    /\ pc[b] # "idle" /\ Fault
    /\ Leave(b, "idle")
    /\ Close(b)
    /\ Forsake(b)
    /\ UNCHANGED <<stores, key, outputs, runs, history>>

-----------------------------------------------------------------------------
(* The server.                                                             *)

Answer(code, body) == [code |-> code, body |-> body]

\* GET /ac and GET /cas.
ServeGet(b) ==
    /\ req[b] # None /\ ans[b] = None
    /\ LET n == req[b].name
           found(body) == Answer("200", body)
       IN  ans' = [ans EXCEPT ![b] =
             IF req[b].op = "getEntry"
             THEN IF Usable(Server, n) THEN found(entry[Server][n])
                                       ELSE Answer("404", None)
             ELSE IF ReadBlob(Server, n) THEN found(<<n>>) ELSE Answer("404", None)]
    /\ req[b].op \in {"getEntry", "getBlob"}
    /\ IF req[b].op = "getEntry"
       THEN Mark(b, IF Usable(Server, req[b].name) THEN "given" ELSE "absent")
       ELSE UNCHANGED happened
    /\ UNCHANGED <<stores, control, req, late, outputs, stats, runs, faults, history>>

\* PUT /cas takes a body that hashes to its name, PUT /ac an entry of its key.
Acceptable(r) ==
    \/ r.op = "putBlob" /\ Verified(r.name, r.body)
    \/ r.op = "putEntry" /\ r.body # None

Accept(r) ==
    /\ Acceptable(r)
    /\ \/ r.op = "putBlob" /\ WriteBlob(Server, r.name, r.body) /\ UNCHANGED entry
       \/ /\ r.op = "putEntry"
          /\ entry' = [entry EXCEPT ![Server][r.name] = r.body]
          /\ UNCHANGED <<blobs, bad, gone>>

ServePut(b) ==
    /\ req[b] # None /\ ans[b] = None
    /\ Accept(req[b])
    /\ ans' = [ans EXCEPT ![b] = Answer("201", None)]
    /\ IF req[b].op = "putEntry" THEN Mark(b, "stored") ELSE UNCHANGED happened
    /\ UNCHANGED <<control, req, late, outputs, stats, runs, faults, harmed, recorded>>

\* Anything else is refused, and so is what the server cannot write.
RefusePut(b) ==
    /\ req[b] # None /\ ans[b] = None /\ req[b].op \in Uploads
    /\ IF Acceptable(req[b]) THEN Fault ELSE UNCHANGED faults
    /\ ans' = [ans EXCEPT ![b] = Answer("400", None)]
    /\ UNCHANGED <<stores, control, req, late, outputs, accounts, runs, history>>

\* An upload arrives after its client has given up.
ServeLate ==
    /\ \E r \in late : Accept(r) /\ late' = late \ {r}
    /\ UNCHANGED <<control, req, ans, outputs, accounts, runs, faults, harmed, recorded>>

-----------------------------------------------------------------------------
(* What goes wrong.                                                        *)

\* A body is damaged on its way, or the answer comes from something that is no
\* server.  A damaged entry that still reads as an entry of this key is left
\* out: nothing in the protocol would tell it from a true one.
Garble(b) ==
    /\ Fault
    /\ \/ /\ ans[b] # None /\ ans[b].body # None
          /\ ans' = [ans EXCEPT ![b] = Answer(@.code, None)] /\ UNCHANGED req
       \/ /\ ans[b] = None /\ req[b] # None /\ req[b].body # None
          /\ req' = [req EXCEPT ![b] = PutReq(@.op, @.name, None)] /\ UNCHANGED ans
    /\ UNCHANGED <<stores, control, late, outputs, accounts, runs, history>>

\* A disk damages a blob.
Damage(s) ==
    /\ Fault
    /\ \E d \in blobs[s] \ bad[s] :
          /\ bad' = [bad EXCEPT ![s] = @ \union {d}]
          /\ harmed' = [harmed EXCEPT ![s] = @ \union {d}]
    /\ UNCHANGED <<blobs, entry, control, network, outputs, accounts, runs, gone,
                   recorded>>

\* A collection of a store deletes a blob under the requests being served.
Remove(s) ==
    /\ Fault
    /\ \E d \in blobs[s] :
          /\ blobs' = [blobs EXCEPT ![s] = @ \ {d}]
          /\ bad' = [bad EXCEPT ![s] = @ \ {d}]
          /\ harmed' = [harmed EXCEPT ![s] = @ \ {d}]
          /\ gone' = [gone EXCEPT ![s] = @ \union {d}]
    /\ UNCHANGED <<entry, control, network, outputs, accounts, runs, recorded>>

-----------------------------------------------------------------------------
\* What a machine does by itself, its timeouts included.
Step(b) ==
    \/ LocalHit(b) \/ AskServer(b) \/ GotEntry(b) \/ Fetch(b) \/ GotBlob(b)
    \/ Install(b) \/ Restore(b) \/ Exec(b) \/ PutLocal(b) \/ Push(b) \/ PushEntry(b)
    \/ PutBlobAnswered(b) \/ PutEntryAnswered(b) \/ Return(b) \/ Timeout(b)

Next ==
    \/ \E b \in Builders :
          \/ Begin(b) \/ Step(b) \/ Kill(b)
          \/ ServeGet(b) \/ ServePut(b) \/ RefusePut(b) \/ Garble(b)
    \/ ServeLate
    \/ \E s \in Stores : Damage(s) \/ Remove(s)

Spec == Init /\ [][Next]_vars

\* Only the machines are fair, and commands end; the server owes nothing.
FairSpec == Spec /\ \A b \in Builders : WF_vars(Step(b))

-----------------------------------------------------------------------------
\* Every variable keeps to its domain.
TypeOK ==
    /\ blobs \in [Stores -> SUBSET Digests]
    /\ \A s \in Stores : bad[s] \subseteq blobs[s] /\ harmed[s] \subseteq blobs[s]
    /\ stats \in [Builders -> [Counters -> 0..1]]
    /\ \A b \in Builders : (req[b] # None) =
          (pc[b] \in {"getEntry", "getBlob", "putBlob", "putEntry"})

\* No store, the server's least of all, lists an action whose outputs are not
\* all there, except for blobs that were deleted from it afterwards: not when
\* requests are lost, answered after the client has given up or served late,
\* not when a machine is killed half way through an upload.
EntriesAreBacked ==
    \A s \in Stores, k \in Keys :
        Blobs(entry[s][k]) \subseteq blobs[s] \union gone[s]

\* Damaged bytes stay where they were damaged: no upload and no download ever
\* copies them into another store.
DamageDoesNotSpread == \A s \in Stores : bad[s] \subseteq harmed[s]

\* Stats says what happened.  A Lookup or a Put that is over has moved one counter,
\* but for a Put that fails in the local store, which moves none
\* (tiered.go:122-125).  A hit is counted exactly when the runner is handed an
\* entry, by who had it and even if its restore fails; a miss exactly when the
\* server said that it has no entry, an upload exactly when it said that it took
\* one; and no error is counted while nothing has gone wrong anywhere and no
\* request of the call was given up.
StatsAreTrue ==
    \A b \in Builders :
        LET s == stats[b]
            did(what) == what \in happened[b]
            over == pc[b] \in {"restore", "exec", "returned"}
            handed == pc[b] = "restore" \/ did("handed")
        IN  /\ s["LocalHits"] + s["RemoteHits"] + s["Misses"] + s["Uploads"] + s["Errors"]
                  = IF over /\ ~did("unsaved") THEN 1 ELSE 0
            /\ s["LocalHits"] = 1 <=> handed /\ ~did("given")
            /\ s["RemoteHits"] = 1 <=> handed /\ did("given")
            /\ s["Misses"] = 1 <=> pc[b] = "exec" /\ did("absent") /\ ~did("late")
            /\ s["Uploads"] = 1 <=> pc[b] = "returned" /\ did("stored") /\ ~did("late")
            /\ s["Errors"] = 1 => faults > 0 \/ did("late")

\* What its runner knows of a builder at l.
Phase(l) ==
    CASE l \in {"returned", "idle"} -> "idle"
      [] l \in {"lookup", "getEntry", "fetch", "getBlob", "install", "restore"} -> "asked"
      [] l = "exec" -> "running"
      [] OTHER -> "made"

phase == [b \in Builders |-> Phase(pc[b])]

\* The tiered cache is a cache to its runner: every lookup is a hit, with the
\* outputs of one recorded run, or a miss, and ends; the remote cache never
\* fails a build and never holds one up for ever.
Promise == INSTANCE CacheSpec WITH phase <- phase
ImplementsCacheSpec == Promise!Spec
=============================================================================
