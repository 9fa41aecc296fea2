---------------------------- MODULE RemoteProofs -----------------------------
(***************************************************************************)
(* Theorems about the shared cache, for any number of machines, actions,   *)
(* outputs and faults.                                                     *)
(*                                                                         *)
(* That the entry is sent last is not enough for EntriesAreBacked: the     *)
(* invariant follows the blobs of one entry through the loop that uploads  *)
(* them, the answers it waits for, and the requests that outlive it.       *)
(***************************************************************************)
EXTENDS Remote, TLAPS

\* The outputs of an action, and what an entry may be.
Full == [1..Outputs -> Digests]
Entries == Full \union {None}

\* Every blob a store has ever had.
Backed(s) == blobs[s] \union gone[s]

Fields ==
    /\ blobs \in [Stores -> SUBSET Digests] /\ gone \in [Stores -> SUBSET Digests]
    /\ DOMAIN bad = Stores /\ DOMAIN harmed = Stores
    /\ entry \in [Stores -> [Keys -> Entries]]
    /\ key \in [Builders -> Keys]
    /\ want \in [Builders -> Entries] /\ idx \in [Builders -> 1..Outputs]
    /\ DOMAIN pc = Builders /\ DOMAIN ws = Builders
    /\ DOMAIN req = Builders /\ DOMAIN ans = Builders

\* The loops: what is behind is where it has to be.
Loops(b) ==
    /\ pc[b] \in {"fetch", "getBlob"} =>
          want[b] \in Full /\ \A j \in 1..(idx[b] - 1) : want[b][j] \in Backed(b)
    /\ pc[b] = "install" =>
          want[b] \in Full /\ \A j \in 1..Outputs : want[b][j] \in Backed(b)
    /\ pc[b] = "put" => ws[b] \in Full
    /\ pc[b] \in {"push", "putBlob"} =>
          want[b] \in Full /\ \A j \in 1..(idx[b] - 1) : want[b][j] \in Backed(Server)
    /\ pc[b] \in {"pushEntry", "putEntry"} =>
          want[b] \in Full /\ \A j \in 1..Outputs : want[b][j] \in Backed(Server)

\* A request is about what its builder is at.
Asked(b) ==
    req[b] # None =>
        /\ req[b].op \in {"getEntry", "getBlob"} \union Uploads
        /\ pc[b] = req[b].op
        /\ req[b].op \in {"getEntry", "putEntry"} => req[b].name = key[b]
        /\ req[b].op = "putBlob" => req[b].name = want[b][idx[b]]
        /\ req[b].op = "putEntry" => req[b].body \in {None, want[b]}

\* An answer is to that request.
Answered(b) ==
    ans[b] # None =>
        /\ pc[b] = "getEntry" /\ ans[b].code = "200" => ans[b].body \in Entries
        /\ pc[b] = "putBlob" /\ ans[b].code = "201" => want[b][idx[b]] \in Backed(Server)

Local(b) == Loops(b) /\ Asked(b) /\ Answered(b)

\* An upload that outlived its client is as good as one that did not.
LateUploads ==
    \A r \in late :
        /\ r.op = "putBlob" => r.name \in Digests
        /\ r.op = "putEntry" =>
              /\ r.name \in Keys
              /\ r.body # None =>
                    r.body \in Full /\ \A j \in 1..Outputs : r.body[j] \in Backed(Server)

RInv ==
    /\ Fields /\ (\A b \in Builders : Local(b)) /\ LateUploads
    /\ EntriesAreBacked /\ DamageDoesNotSpread

-----------------------------------------------------------------------------
\* The blobs of an entry are its outputs.
LEMMA BlobsOfEntry ==
    /\ \A e \in Full : Blobs(e) = {e[j] : j \in 1..Outputs} /\ Blobs(e) \subseteq Digests
    /\ Blobs(None) = {}
<1>1. Blobs(None) = {}
  BY DEF Blobs, Range, None
<1>2. ASSUME NEW e \in Full
      PROVE  Blobs(e) = {e[j] : j \in 1..Outputs} /\ Blobs(e) \subseteq Digests
  BY <1>2 DEF Full, Blobs, Range
<1> QED
  BY <1>1, <1>2

\* The invariant holds before anything has run.
LEMMA InitRInv == Init => RInv
<1> SUFFICES ASSUME Init PROVE RInv
  OBVIOUS
<1> USE DEF Init
<1>1. Fields
  BY OutputsAssumption DEF Fields, Entries
<1>2. \A b \in Builders : Local(b)
  BY DEF Local, Loops, Asked, Answered
<1>3. LateUploads /\ DamageDoesNotSpread
  BY DEF LateUploads, DamageDoesNotSpread
<1>4. EntriesAreBacked
  BY BlobsOfEntry DEF EntriesAreBacked, Stores
<1> QED
  BY <1>1, <1>2, <1>3, <1>4 DEF RInv

-----------------------------------------------------------------------------
\* What a builder, or the network on its behalf, does.
Does(b) ==
    \/ Begin(b) \/ Step(b) \/ Kill(b)
    \/ ServeGet(b) \/ ServePut(b) \/ RefusePut(b) \/ Garble(b)

Grows ==
    /\ \A s \in Stores : Backed(s) \subseteq Backed(s)'
    /\ blobs' \in [Stores -> SUBSET Digests] /\ gone' \in [Stores -> SUBSET Digests]

Same(c) ==
    /\ pc'[c] = pc[c] /\ key'[c] = key[c] /\ want'[c] = want[c] /\ idx'[c] = idx[c]
    /\ req'[c] = req[c] /\ ans'[c] = ans[c] /\ ws'[c] = ws[c]

\* Bytes that pass the check are the digest's, so nothing bad is written.
LEMMA WriteBlobIsKeep ==
    ASSUME NEW s, NEW d, NEW bytes, WriteBlob(s, d, bytes)
    PROVE  Keep(s, {d}) /\ bad' = bad
BY DEF WriteBlob, Verified

\* A store that keeps blobs forgets none, and has those.
LEMMA KeepGrows ==
    ASSUME Fields, NEW s \in Stores, NEW D \in SUBSET Digests, Keep(s, D)
    PROVE  Grows /\ D \subseteq Backed(s)'
BY DEF Fields, Keep, Grows, Backed

\* An upload that is taken adds to the server's store and to nothing else.
LEMMA AcceptKeeps ==
    ASSUME Fields, NEW r, r.op = "putBlob" => r.name \in Digests, Accept(r)
    PROVE  /\ Grows
           /\ bad' = bad
           /\ r.op = "putBlob" => r.name \in Backed(Server)' /\ entry' = entry
           /\ r.op # "putBlob" =>
                 /\ r.op = "putEntry" /\ r.body # None
                 /\ entry' = [entry EXCEPT ![Server][r.name] = r.body]
<1>1. Server \in Stores
  BY DEF Stores
<1>2. CASE r.op = "putBlob"
  <2>1. WriteBlob(Server, r.name, r.body) /\ entry' = entry
    BY <1>2 DEF Accept
  <2>2. Keep(Server, {r.name}) /\ bad' = bad
    BY <2>1, WriteBlobIsKeep
  <2>3. {r.name} \in SUBSET Digests
    BY <1>2
  <2> QED
    BY <1>1, <1>2, <2>1, <2>2, <2>3, KeepGrows
<1>3. CASE r.op # "putBlob"
  BY <1>3 DEF Accept, Acceptable, Grows, Backed, Fields
<1> QED
  BY <1>2, <1>3

\* What a request is about is in its domain.
LEMMA RequestTyped ==
    ASSUME RInv, NEW b \in Builders, req[b] # None
    PROVE  /\ req[b].op \in {"getEntry", "getBlob"} \union Uploads
           /\ req[b].op = "putBlob" => req[b].name \in Digests
           /\ req[b].op \in {"getEntry", "putEntry"} => req[b].name \in Keys
           /\ req[b].op = "putEntry" /\ req[b].body # None =>
                 /\ req[b].body \in Full
                 /\ \A j \in 1..Outputs : req[b].body[j] \in Backed(Server)
<1>1. Asked(b) /\ Loops(b) /\ Fields
  BY DEF RInv, Local
<1>2. CASE req[b].op = "putBlob"
  <2>1. want[b] \in Full /\ idx[b] \in 1..Outputs
    BY <1>1, <1>2 DEF Asked, Loops, Fields
  <2> QED
    BY <1>1, <1>2, <2>1 DEF Asked, Full, Uploads
<1>3. CASE req[b].op # "putBlob"
  BY <1>1, <1>3 DEF Asked, Loops, Fields, Uploads
<1> QED
  BY <1>2, <1>3

\* A builder waits for an answer only while it has a request.
LEMMA Waiting ==
    ASSUME RInv, NEW b \in Builders
    PROVE  pc[b] \notin {"getEntry", "getBlob"} \union Uploads => req[b] = None
BY DEF RInv, Local, Asked

\* The outputs a builder is at are digests.
LEMMA WantTyped ==
    ASSUME RInv, NEW b \in Builders, pc[b] \in {"fetch", "getBlob", "push", "putBlob"}
    PROVE  want[b] \in Full /\ idx[b] \in 1..Outputs /\ want[b][idx[b]] \in Digests
<1>1. want[b] \in Full /\ idx[b] \in 1..Outputs
  BY DEF RInv, Local, Loops, Fields
<1> QED
  BY <1>1 DEF Full

\* No step makes a store forget that it had a blob.
LEMMA GrowsStep == RInv /\ Next => Grows
<1> SUFFICES ASSUME RInv, Next PROVE Grows
  OBVIOUS
<1>0. Fields
  BY DEF RInv
<1>1. ASSUME blobs' = blobs, gone' = gone
      PROVE  Grows
  BY <1>0, <1>1 DEF Grows, Backed, Fields
<1>2. ASSUME NEW b \in Builders, Does(b)
      PROVE  Grows
  <2>0. b \in Stores
    BY DEF Stores
  <2>1. CASE GotBlob(b)
    <3>1. CASE WriteBlob(b, want[b][idx[b]], ans[b].body)
      <4>1. PICK d \in Digests : d = want[b][idx[b]]
        BY <2>1, WantTyped DEF GotBlob
      <4>2. PICK bytes : bytes = ans[b].body
        OBVIOUS
      <4>3. Keep(b, {d})
        BY <3>1, <4>1, <4>2, WriteBlobIsKeep
      <4>4. {d} \in SUBSET Digests
        BY <4>1
      <4> QED
        BY <1>0, <2>0, <4>3, <4>4, KeepGrows
    <3>2. CASE ~WriteBlob(b, want[b][idx[b]], ans[b].body)
      BY <1>1, <2>1, <3>2 DEF GotBlob
    <3> QED
      BY <3>1, <3>2
  <2>2. CASE PutLocal(b)
    <3>1. Blobs(ws[b]) \subseteq Digests
      BY <2>2, BlobsOfEntry DEF PutLocal, RInv, Local, Loops
    <3>2. PICK D \in SUBSET Blobs(ws[b]) : Keep(b, D)
      BY <2>2 DEF PutLocal
    <3> QED
      BY <1>0, <2>0, <3>1, <3>2, KeepGrows
  <2>3. CASE ServePut(b)
    <3>1. req[b] # None /\ Accept(req[b])
      BY <2>3 DEF ServePut
    <3>2. PICK r : r = req[b]
      OBVIOUS
    <3>3. r.op = "putBlob" => r.name \in Digests
      BY <3>1, <3>2, RequestTyped
    <3> QED
      BY <1>0, <3>1, <3>2, <3>3, AcceptKeeps
  <2>4. CASE Begin(b) \/ LocalHit(b) \/ AskServer(b) \/ GotEntry(b) \/ Fetch(b) \/ Install(b)
    BY <1>1, <2>4 DEF Begin, LocalHit, AskServer, GotEntry, Fetch, Install, stores, history
  <2>5. CASE Restore(b) \/ Exec(b) \/ Push(b) \/ PushEntry(b) \/ PutBlobAnswered(b)
             \/ PutEntryAnswered(b) \/ Return(b) \/ Timeout(b) \/ Kill(b)
    BY <1>1, <2>5 DEF Restore, Exec, Push, PushEntry, PutBlobAnswered, PutEntryAnswered,
                      Return, Timeout, Kill, stores, history
  <2>6. CASE ServeGet(b) \/ RefusePut(b) \/ Garble(b)
    BY <1>1, <2>6 DEF ServeGet, RefusePut, Garble, stores, history
  <2> QED
    BY <1>2, <2>1, <2>2, <2>3, <2>4, <2>5, <2>6 DEF Does, Step
<1>3. CASE ServeLate
  <2>1. PICK r \in late : Accept(r)
    BY <1>3 DEF ServeLate
  <2> QED
    BY <1>0, <2>1, AcceptKeeps DEF RInv, LateUploads
<1>4. ASSUME NEW s \in Stores, Damage(s)
      PROVE  Grows
  BY <1>1, <1>4 DEF Damage
<1>5. ASSUME NEW s \in Stores, Remove(s)
      PROVE  Grows
  BY <1>0, <1>5 DEF Remove, Grows, Backed, Fields
<1> QED
  BY <1>2, <1>3, <1>4, <1>5 DEF Next, Does

-----------------------------------------------------------------------------
\* A builder that does nothing keeps its part of the invariant: the stores it
\* relies on only grow.
LEMMA SameLocal ==
    ASSUME RInv, Grows, NEW c \in Builders, Same(c)
    PROVE  Local(c)'
<1>1. Local(c) /\ c \in Stores /\ Server \in Stores
  BY DEF RInv, Stores
<1>2. \A x : (x \in Backed(c) => x \in Backed(c)') /\ (x \in Backed(Server) => x \in Backed(Server)')
  BY <1>1 DEF Grows
<1>3. Loops(c)'
  BY <1>1, <1>2 DEF Local, Loops, Same
<1>4. Asked(c)'
  BY <1>1 DEF Local, Asked, Same
<1>5. Answered(c)'
  BY <1>1, <1>2 DEF Local, Answered, Same
<1> QED
  BY <1>3, <1>4, <1>5 DEF Local

\* What one builder does is not done to another.
LEMMA OthersSame ==
    ASSUME Fields, NEW b \in Builders, NEW c \in Builders \ {b}, Does(b)
    PROVE  Same(c)
<1> USE DEF Fields, Same
<1>1. CASE Begin(b) \/ LocalHit(b) \/ AskServer(b)
  BY <1>1 DEF Begin, LocalHit, AskServer, Goto, Loop, Send, network, loop, outputs
<1>2. CASE GotEntry(b)
  BY <1>2 DEF GotEntry, Fallback, Leave, Loop, Goto, Settled, outputs
<1>3. CASE Fetch(b) \/ GotBlob(b)
  BY <1>3 DEF Fetch, GotBlob, Advance, Goto, Send, Settled, Fallback, Leave, Loop, loop, outputs
<1>4. CASE Install(b) \/ Restore(b) \/ Exec(b)
  BY <1>4 DEF Install, Restore, Exec, Fallback, Leave, Loop, Goto, network, outputs, loop
<1>5. CASE PutLocal(b) \/ Push(b)
  BY <1>5 DEF PutLocal, Push, Uploaded, Leave, Loop, Goto, Send, network, outputs, loop
<1>6. CASE PushEntry(b) \/ PutBlobAnswered(b) \/ PutEntryAnswered(b)
  BY <1>6 DEF PushEntry, PutBlobAnswered, PutEntryAnswered, Advance, Uploaded, Leave, Loop,
              Goto, Send, Settled, outputs, loop
<1>7. CASE Return(b) \/ Timeout(b) \/ Kill(b)
  BY <1>7 DEF Return, Timeout, Kill, Uploaded, Fallback, Leave, Loop, Goto, Forsake, Settled,
              loop, network, outputs
<1>8. CASE ServeGet(b) \/ ServePut(b)
  BY <1>8 DEF ServeGet, ServePut, control, loop, outputs
<1>9. CASE RefusePut(b) \/ Garble(b)
  BY <1>9 DEF RefusePut, Garble, control, loop, outputs
<1> QED
  BY <1>1, <1>2, <1>3, <1>4, <1>5, <1>6, <1>7, <1>8, <1>9 DEF Does, Step

\* One round of a loop over the outputs.
LEMMA AdvanceKeeps ==
    ASSUME Fields, NEW b \in Builders, NEW l, NEW m, Advance(b, l, m)
    PROVE  /\ DOMAIN pc' = Builders /\ idx' \in [Builders -> 1..Outputs] /\ want' = want
           /\ \/ idx[b] < Outputs /\ pc'[b] = l /\ idx'[b] = idx[b] + 1
              \/ idx[b] = Outputs /\ pc'[b] = m
<1>1. idx[b] \in 1..Outputs /\ idx \in [Builders -> 1..Outputs] /\ DOMAIN pc = Builders
  BY DEF Fields
<1>2. idx' = [idx EXCEPT ![b] = IF idx[b] < Outputs THEN idx[b] + 1 ELSE 1] /\ want' = want
  BY DEF Advance
<1>3. idx' \in [Builders -> 1..Outputs]
  BY <1>1, <1>2, OutputsAssumption
<1>4. DOMAIN pc' = Builders /\ pc'[b] = IF idx[b] < Outputs THEN l ELSE m
  BY <1>1 DEF Advance, Goto
<1>5. CASE idx[b] < Outputs
  BY <1>1, <1>2, <1>3, <1>4, <1>5
<1>6. CASE ~(idx[b] < Outputs)
  BY <1>1, <1>2, <1>3, <1>4, <1>6, OutputsAssumption
<1> QED
  BY <1>5, <1>6

\* A builder with no request and no loop has nothing to keep.
LEMMA NoLoop ==
    ASSUME NEW b \in Builders, req'[b] = None,
           pc'[b] \in {"idle", "lookup", "restore", "exec", "returned"}
    PROVE  Local(b)'
BY DEF Local, Loops, Asked, Answered

\* The loop that downloads: what is behind has been in the local store.
LEMMA FetchLocal ==
    ASSUME RInv, NEW b \in Builders, Grows, GotEntry(b) \/ Fetch(b) \/ GotBlob(b) \/ Install(b)
    PROVE  Local(b)'
<1>0. Fields /\ Local(b) /\ b \in Stores
  BY DEF RInv, Stores
<1>1. \A x \in Backed(b) : x \in Backed(b)'
  BY <1>0 DEF Grows
<1>2. CASE GotEntry(b)
  <2>1. CASE ans[b].code = "200" /\ ans[b].body # None
    <3>1. ans[b].body \in Full
      BY <1>0, <1>2, <2>1 DEF GotEntry, Local, Answered, Entries
    <3>2. /\ pc'[b] = "fetch" /\ want'[b] = ans[b].body /\ idx'[b] = 1
          /\ req'[b] = None /\ ans'[b] = None
      BY <1>0, <1>2, <2>1 DEF GotEntry, Loop, Goto, Settled, Fields
    <3> QED
      BY <3>1, <3>2 DEF Local, Loops, Asked, Answered
  <2>2. CASE ~(ans[b].code = "200" /\ ans[b].body # None)
    <3>1. pc'[b] = "exec" /\ req'[b] = None
      BY <1>0, <1>2, <2>2 DEF GotEntry, Fallback, Leave, Loop, Goto, Settled, Fields
    <3> QED
      BY <3>1, NoLoop
  <2> QED
    BY <2>1, <2>2
<1>3. CASE Fetch(b)
  <2>1. want[b] \in Full /\ idx[b] \in 1..Outputs /\ want[b][idx[b]] \in Digests
    BY <1>3, WantTyped DEF Fetch
  <2>2. CASE HasBlob(b, want[b][idx[b]])
    <3>1. Advance(b, "fetch", "install") /\ req' = req /\ pc[b] = "fetch"
      BY <1>3, <2>2 DEF Fetch
    <3>2. req'[b] = None
      BY <3>1, Waiting DEF Uploads
    <3>3. want[b][idx[b]] \in Backed(b)
      BY <2>2 DEF HasBlob, Backed
    <3>4. Loops(b)'
      <4>1. \A j \in 1..idx[b] : want[b][j] \in Backed(b)'
        BY <1>0, <1>1, <2>1, <3>1, <3>3 DEF Local, Loops
      <4>2. want' = want
        BY <3>1 DEF Advance
      <4> QED
        BY <1>0, <2>1, <3>1, <4>1, <4>2, AdvanceKeeps DEF Loops
    <3>5. pc'[b] \in {"fetch", "install"}
      BY <1>0, <3>1, AdvanceKeeps
    <3> QED
      BY <3>2, <3>4, <3>5 DEF Local, Asked, Answered
  <2>3. CASE ~HasBlob(b, want[b][idx[b]])
    <3>1. /\ pc[b] = "fetch" /\ pc'[b] = "getBlob" /\ want' = want /\ idx' = idx
          /\ ans'[b] = None /\ req'[b] = Get("getBlob", want[b][idx[b]])
      BY <1>0, <1>3, <2>3 DEF Fetch, Send, Goto, loop, Fields
    <3>2. req'[b].op = "getBlob"
      BY <3>1 DEF Get
    <3> QED
      BY <1>0, <1>1, <2>1, <3>1, <3>2 DEF Local, Loops, Asked, Answered
  <2> QED
    BY <2>2, <2>3
<1>4. CASE GotBlob(b)
  <2>1. want[b] \in Full /\ idx[b] \in 1..Outputs /\ want[b][idx[b]] \in Digests
    BY <1>4, WantTyped DEF GotBlob
  <2>2. req'[b] = None /\ ans'[b] = None
    BY <1>0, <1>4 DEF GotBlob, Settled, Fields
  <2>3. CASE /\ WriteBlob(b, want[b][idx[b]], ans[b].body)
             /\ Advance(b, "fetch", "install")
    <3>1. PICK d \in Digests : d = want[b][idx[b]]
      BY <2>1
    <3>2. PICK bytes : bytes = ans[b].body
      OBVIOUS
    <3>3. Keep(b, {d})
      BY <2>3, <3>1, <3>2, WriteBlobIsKeep
    <3>4. {d} \in SUBSET Digests
      OBVIOUS
    <3>5. d \in Backed(b)'
      BY <1>0, <3>3, <3>4, KeepGrows
    <3>6. \A j \in 1..idx[b] : want[b][j] \in Backed(b)'
      BY <1>0, <1>1, <1>4, <2>1, <3>1, <3>5 DEF GotBlob, Local, Loops
    <3>7. pc'[b] \in {"fetch", "install"} /\ want' = want
      BY <1>0, <2>3, AdvanceKeeps
    <3>8. Loops(b)'
      BY <1>0, <2>1, <2>3, <3>6, <3>7, AdvanceKeeps DEF Loops
    <3> QED
      BY <2>2, <3>7, <3>8 DEF Local, Asked, Answered
  <2>4. CASE \E c \in Counters : Fallback(b, c)
    <3>1. pc'[b] = "exec"
      BY <1>0, <2>4 DEF Fallback, Leave, Loop, Goto, Fields
    <3> QED
      BY <2>2, <3>1, NoLoop
  <2> QED
    BY <1>4, <2>3, <2>4 DEF GotBlob, Counters
<1>5. CASE Install(b)
  <2>1. pc'[b] \in {"restore", "exec"} /\ req' = req /\ pc[b] = "install"
    BY <1>0, <1>5 DEF Install, Fallback, Leave, Loop, Goto, network, Fields
  <2>2. req[b] = None
    BY <2>1, Waiting DEF Uploads
  <2> QED
    BY <2>1, <2>2, NoLoop
<1> QED
  BY <1>2, <1>3, <1>4, <1>5

\* The loop that uploads: what is behind has been in the server's store, and
\* after the last output every blob of the entry has.
LEMMA PushLocal ==
    ASSUME RInv, NEW b \in Builders, Grows,
           Exec(b) \/ PutLocal(b) \/ Push(b) \/ PutBlobAnswered(b) \/ PushEntry(b)
    PROVE  Local(b)'
<1>0. Fields /\ Local(b) /\ Server \in Stores
  BY DEF RInv, Stores
<1>1. \A x \in Backed(Server) : x \in Backed(Server)'
  BY <1>0 DEF Grows
<1>2. CASE Exec(b)
  <2>1. pc[b] = "exec" /\ req' = req
    BY <1>2 DEF Exec, network
  <2>2. req'[b] = None
    BY <2>1, Waiting DEF Uploads
  <2>3. CASE \E o \in Makes[key[b]] : ws' = [ws EXCEPT ![b] = o] /\ Goto(b, "put")
    <3>1. PICK o \in Makes[key[b]] : ws' = [ws EXCEPT ![b] = o] /\ Goto(b, "put")
      BY <2>3
    <3>2. o \in Full /\ ws'[b] = o /\ pc'[b] = "put"
      BY <1>0, <3>1, MakesAssumption DEF Full, Fields, Goto
    <3> QED
      BY <2>2, <3>2 DEF Local, Loops, Asked, Answered
  <2>4. CASE Goto(b, "idle")
    <3>1. pc'[b] = "idle"
      BY <1>0, <2>4 DEF Goto, Fields
    <3> QED
      BY <2>2, <3>1, NoLoop
  <2> QED
    BY <1>2, <2>3, <2>4 DEF Exec
<1>3. CASE PutLocal(b)
  <2>1. ws[b] \in Full /\ req' = req /\ pc[b] = "put"
    BY <1>0, <1>3 DEF PutLocal, network, Local, Loops
  <2>2. req'[b] = None
    BY <2>1, Waiting DEF Uploads
  <2>3. \/ pc'[b] = "push" /\ want'[b] = ws[b] /\ idx'[b] = 1
        \/ pc'[b] = "returned"
    BY <1>0, <1>3 DEF PutLocal, Leave, Loop, Goto, Fields
  <2> QED
    BY <2>1, <2>2, <2>3 DEF Local, Loops, Asked, Answered
<1>4. CASE Push(b)
  <2>1. /\ want[b] \in Full /\ idx[b] \in 1..Outputs /\ want[b][idx[b]] \in Digests
        /\ pc[b] = "push"
    BY <1>4, WantTyped DEF Push
  <2>2. CASE ReadBlob(b, want[b][idx[b]])
    <3>1. PICK d : d = want[b][idx[b]]
      OBVIOUS
    <3>2. /\ pc'[b] = "putBlob" /\ want' = want /\ idx' = idx
          /\ ans'[b] = None /\ req'[b] = PutReq("putBlob", d, <<d>>)
      BY <1>0, <1>4, <2>2, <3>1 DEF Push, Send, Goto, loop, Fields
    <3>3. req'[b].op = "putBlob" /\ req'[b].name = d
      BY <3>2 DEF PutReq
    <3> QED
      BY <1>0, <1>1, <2>1, <3>1, <3>2, <3>3 DEF Local, Loops, Asked, Answered, Uploads
  <2>3. CASE (\E c \in Counters : Uploaded(b, c)) /\ req' = req
    <3>1. pc'[b] = "returned"
      BY <1>0, <2>3 DEF Uploaded, Leave, Loop, Goto, Fields
    <3>2. req'[b] = None
      BY <2>1, <2>3, Waiting DEF Uploads
    <3> QED
      BY <3>1, <3>2, NoLoop
  <2> QED
    BY <1>4, <2>2, <2>3 DEF Push, Counters
<1>5. CASE PutBlobAnswered(b)
  <2>1. /\ want[b] \in Full /\ idx[b] \in 1..Outputs /\ want[b][idx[b]] \in Digests
        /\ pc[b] = "putBlob" /\ ans[b] # None
    BY <1>5, WantTyped DEF PutBlobAnswered
  <2>2. req'[b] = None /\ ans'[b] = None
    BY <1>0, <1>5 DEF PutBlobAnswered, Settled, Fields
  <2>3. CASE ans[b].code = "201" /\ Advance(b, "push", "pushEntry")
    <3>1. want[b][idx[b]] \in Backed(Server)
      BY <1>0, <2>1, <2>3 DEF Local, Answered
    <3>2. \A j \in 1..idx[b] : want[b][j] \in Backed(Server)'
      BY <1>0, <1>1, <2>1, <3>1 DEF Local, Loops
    <3>3. pc'[b] \in {"push", "pushEntry"} /\ want' = want
      BY <1>0, <2>3, AdvanceKeeps
    <3>4. Loops(b)'
      BY <1>0, <2>1, <2>3, <3>2, <3>3, AdvanceKeeps DEF Loops
    <3> QED
      BY <2>2, <3>3, <3>4 DEF Local, Asked, Answered
  <2>4. CASE \E c \in Counters : Uploaded(b, c)
    <3>1. pc'[b] = "returned"
      BY <1>0, <2>4 DEF Uploaded, Leave, Loop, Goto, Fields
    <3> QED
      BY <2>2, <3>1, NoLoop
  <2> QED
    BY <1>5, <2>3, <2>4 DEF PutBlobAnswered, Counters
<1>6. CASE PushEntry(b)
  <2>1. PICK k : k = key[b]
    OBVIOUS
  <2>2. PICK e : e = want[b]
    OBVIOUS
  <2>3. /\ pc[b] = "pushEntry" /\ pc'[b] = "putEntry"
        /\ want' = want /\ idx' = idx /\ key' = key
        /\ ans'[b] = None /\ req'[b] = PutReq("putEntry", k, e)
    BY <1>0, <1>6, <2>1, <2>2 DEF PushEntry, Send, Goto, loop, Fields
  <2>4. req'[b].op = "putEntry" /\ req'[b].name = k /\ req'[b].body = e
    BY <2>3 DEF PutReq
  <2> QED
    BY <1>0, <1>1, <2>1, <2>2, <2>3, <2>4 DEF Local, Loops, Asked, Answered, Uploads
<1> QED
  BY <1>2, <1>3, <1>4, <1>5, <1>6

-----------------------------------------------------------------------------
\* What the network and the server do to a builder's request keeps its part:
\* an upload is answered with 201 when the server has it.
LEMMA ServedLocal ==
    ASSUME RInv, NEW b \in Builders, Grows,
           ServeGet(b) \/ ServePut(b) \/ RefusePut(b) \/ Garble(b)
    PROVE  Local(b)'
<1>0. Fields /\ Local(b) /\ b \in Stores /\ Server \in Stores
  BY DEF RInv, Stores
<1>1. \A x : (x \in Backed(b) => x \in Backed(b)') /\ (x \in Backed(Server) => x \in Backed(Server)')
  BY <1>0 DEF Grows
<1>2. pc' = pc /\ want' = want /\ idx' = idx /\ ws' = ws /\ key' = key
  BY DEF ServeGet, ServePut, RefusePut, Garble, control, loop, outputs
<1>3. Loops(b)'
  BY <1>0, <1>1, <1>2 DEF Local, Loops
<1>4. CASE ServeGet(b)
  <2>1. req' = req /\ req[b] # None /\ req[b].op \in {"getEntry", "getBlob"}
    BY <1>4 DEF ServeGet
  <2>2. Asked(b)'
    BY <1>0, <1>2, <2>1 DEF Local, Asked
  <2>3. pc[b] = req[b].op
    BY <1>0, <2>1 DEF Local, Asked
  <2>4. CASE req[b].op = "getEntry"
    <3>1. req[b].name \in Keys
      BY <2>1, <2>4, RequestTyped
    <3>2. entry[Server][req[b].name] \in Entries /\ None \in Entries
      BY <1>0, <3>1 DEF Fields, Entries
    <3>3. \E c \in {"200", "404"}, e \in Entries : ans'[b] = Answer(c, e)
      BY <1>0, <1>4, <2>4, <3>2 DEF ServeGet, Fields
    <3>4. PICK c \in {"200", "404"}, e \in Entries : ans'[b] = Answer(c, e)
      BY <3>3
    <3>5. ans'[b].body \in Entries
      BY <3>4 DEF Answer
    <3> QED
      BY <1>2, <1>3, <2>2, <2>3, <2>4, <3>5 DEF Local, Answered
  <2>5. CASE req[b].op = "getBlob"
    BY <1>2, <1>3, <2>2, <2>3, <2>5 DEF Local, Answered
  <2> QED
    BY <2>1, <2>4, <2>5
<1>5. CASE ServePut(b)
  <2>1. req' = req /\ req[b] # None /\ Accept(req[b])
    BY <1>5 DEF ServePut
  <2>2. Asked(b)'
    BY <1>0, <1>2, <2>1 DEF Local, Asked
  <2>3. pc[b] = req[b].op
    BY <1>0, <2>1 DEF Local, Asked
  <2>4. CASE req[b].op = "putBlob"
    <3>1. req[b].name = want[b][idx[b]] /\ req[b].name \in Digests
      BY <1>0, <2>1, <2>4, RequestTyped DEF Local, Asked
    <3>2. PICK r : r = req[b]
      OBVIOUS
    <3>3. r.name \in Backed(Server)'
      BY <1>0, <2>1, <2>4, <3>1, <3>2, AcceptKeeps
    <3> QED
      BY <1>2, <1>3, <2>2, <2>3, <2>4, <3>1, <3>2, <3>3 DEF Local, Answered
  <2>5. CASE req[b].op = "putEntry"
    BY <1>2, <1>3, <2>2, <2>3, <2>5 DEF Local, Answered
  <2> QED
    BY <2>1, <2>4, <2>5 DEF Accept, Acceptable
<1>6. CASE RefusePut(b)
  <2>1. req' = req /\ req[b] # None /\ req[b].op \in Uploads
    BY <1>6 DEF RefusePut
  <2>2. Asked(b)' /\ pc[b] = req[b].op
    BY <1>0, <1>2, <2>1 DEF Local, Asked
  <2>3. ans'[b] = Answer("400", None)
    BY <1>0, <1>6 DEF RefusePut, Fields
  <2>4. ans'[b].code = "400"
    BY <2>3 DEF Answer
  <2> QED
    BY <1>2, <1>3, <2>1, <2>2, <2>4 DEF Local, Answered, Uploads
<1>7. CASE Garble(b)
  <2>1. CASE ans[b] # None /\ ans' = [ans EXCEPT ![b] = Answer(@.code, None)] /\ req' = req
    <3>1. PICK c : c = ans[b].code
      OBVIOUS
    <3>2. ans'[b] = Answer(c, None)
      BY <1>0, <2>1, <3>1 DEF Fields
    <3>3. ans'[b].code = c /\ ans'[b].body = None
      BY <3>2 DEF Answer
    <3>4. Asked(b)'
      BY <1>0, <1>2, <2>1 DEF Local, Asked
    <3>5. Answered(b)'
      BY <1>0, <1>1, <1>2, <2>1, <3>1, <3>3 DEF Local, Answered, Entries
    <3> QED
      BY <1>3, <3>4, <3>5 DEF Local
  <2>2. CASE req[b] # None /\ req' = [req EXCEPT ![b] = PutReq(@.op, @.name, None)] /\ ans' = ans
    <3>1. PICK o, n : o = req[b].op /\ n = req[b].name
      OBVIOUS
    <3>2. req'[b] = PutReq(o, n, None)
      BY <1>0, <2>2, <3>1 DEF Fields
    <3>3. req'[b].op = o /\ req'[b].name = n /\ req'[b].body = None
      BY <3>2 DEF PutReq
    <3>4. Asked(b)'
      BY <1>0, <1>2, <2>2, <3>1, <3>3 DEF Local, Asked
    <3>5. Answered(b)'
      BY <1>0, <1>1, <1>2, <2>2 DEF Local, Answered
    <3> QED
      BY <1>3, <3>4, <3>5 DEF Local
  <2> QED
    BY <1>7, <2>1, <2>2 DEF Garble
<1> QED
  BY <1>4, <1>5, <1>6, <1>7

\* The builder that acts keeps its part: each round of a loop adds the blob the
\* loop is about.
LEMMA ActorLocal ==
    ASSUME RInv, NEW b \in Builders, Does(b), Grows
    PROVE  Local(b)'
<1>0. Fields
  BY DEF RInv
<1>1. CASE Begin(b) \/ LocalHit(b)
  <2>1. pc[b] \in {"idle", "lookup"} /\ pc'[b] \in {"lookup", "restore"} /\ req' = req
    BY <1>0, <1>1 DEF Begin, LocalHit, Loop, Goto, network, Fields
  <2>2. req[b] = None
    BY <2>1, Waiting DEF Uploads
  <2> QED
    BY <2>1, <2>2, NoLoop
<1>2. CASE AskServer(b)
  <2>1. PICK k : k = key[b]
    OBVIOUS
  <2>2. /\ pc'[b] = "getEntry" /\ ans'[b] = None /\ key' = key
        /\ req'[b] = Get("getEntry", k)
    BY <1>0, <1>2, <2>1 DEF AskServer, Send, Goto, Fields
  <2>3. req'[b].op = "getEntry" /\ req'[b].name = k
    BY <2>2 DEF Get
  <2> QED
    BY <2>1, <2>2, <2>3 DEF Local, Loops, Asked, Answered
<1>3. CASE Restore(b)
  <2>1. pc[b] = "restore" /\ pc'[b] \in {"idle", "exec"} /\ req' = req
    BY <1>0, <1>3 DEF Restore, Leave, Loop, Goto, network, Fields
  <2>2. req[b] = None
    BY <2>1, Waiting DEF Uploads
  <2> QED
    BY <2>1, <2>2, NoLoop
<1>4. CASE PutEntryAnswered(b) \/ Timeout(b) \/ Kill(b)
  <2>1. pc'[b] \in {"idle", "exec", "returned"} /\ req'[b] = None
    BY <1>0, <1>4 DEF PutEntryAnswered, Timeout, Kill, Forsake, Settled, Uploaded, Fallback,
                      Leave, Loop, Goto, Fields
  <2> QED
    BY <2>1, NoLoop
<1>5. CASE Return(b)
  <2>1. pc[b] = "returned" /\ pc'[b] = "idle" /\ req' = req
    BY <1>0, <1>5 DEF Return, Goto, network, Fields
  <2> QED
    BY <2>1, NoLoop, Waiting DEF Uploads
<1> QED
  BY <1>1, <1>2, <1>3, <1>4, <1>5, FetchLocal, PushLocal, ServedLocal DEF Does, Step

-----------------------------------------------------------------------------
\* Each part of the invariant after a step.

\* A loop over an entry, or over nothing.
LEMMA LoopTyped ==
    ASSUME Fields, NEW b \in Builders, NEW l, NEW e \in Entries, Loop(b, l, e)
    PROVE  /\ want' \in [Builders -> Entries] /\ idx' \in [Builders -> 1..Outputs]
           /\ DOMAIN pc' = Builders
BY OutputsAssumption DEF Fields, Loop, Goto

\* What a step leaves of the builders' variables.
Moves ==
    /\ key' \in [Builders -> Keys]
    /\ want' \in [Builders -> Entries] /\ idx' \in [Builders -> 1..Outputs]
    /\ DOMAIN pc' = Builders /\ DOMAIN ws' = Builders
    /\ DOMAIN req' = Builders /\ DOMAIN ans' = Builders

\* Where the builders are, and what they are at, keeps to its domain.
LEMMA MovesStep == RInv /\ Next => Moves
<1> SUFFICES ASSUME RInv, Next PROVE Moves
  OBVIOUS
<1>0. Fields /\ None \in Entries
  BY DEF RInv, Entries
<1>1. ASSUME NEW b \in Builders, NEW l, Leave(b, l)
      PROVE  /\ want' \in [Builders -> Entries] /\ idx' \in [Builders -> 1..Outputs]
             /\ DOMAIN pc' = Builders
  BY <1>0, <1>1, LoopTyped DEF Leave
<1>2. ASSUME NEW b \in Builders, Does(b)
      PROVE  Moves
  <2>0. key[b] \in Keys /\ Local(b)
    BY <1>0 DEF Fields, RInv
  <2>1. CASE Begin(b)
    BY <1>0, <2>1 DEF Begin, Moves, Fields, Goto, loop, network
  <2>2. CASE LocalHit(b)
    <3>1. PICK e \in Entries : e = entry[b][key[b]]
      BY <1>0, <2>0 DEF Fields, Stores
    <3>2. Loop(b, "restore", e)
      BY <2>2, <3>1 DEF LocalHit
    <3> QED
      BY <1>0, <2>2, <3>2, LoopTyped DEF LocalHit, Moves, Fields, network, outputs
  <2>3. CASE AskServer(b) \/ PushEntry(b)
    BY <1>0, <2>3 DEF AskServer, PushEntry, Send, Goto, Moves, Fields, loop, outputs
  <2>4. CASE GotEntry(b)
    <3>1. key' = key /\ ws' = ws /\ DOMAIN req' = Builders /\ DOMAIN ans' = Builders
      BY <1>0, <2>4 DEF GotEntry, Settled, Fields, outputs
    <3>2. CASE ans[b].code = "200" /\ ans[b].body # None
      <4>1. PICK e \in Entries : e = ans[b].body
        BY <2>0, <2>4, <3>2 DEF GotEntry, Local, Answered
      <4>2. Loop(b, "fetch", e)
        BY <2>4, <3>2, <4>1 DEF GotEntry
      <4> QED
        BY <1>0, <3>1, <4>2, LoopTyped DEF Moves, Fields
    <3>3. CASE ~(ans[b].code = "200" /\ ans[b].body # None)
      <4>1. Leave(b, "exec")
        BY <2>4, <3>3 DEF GotEntry, Fallback
      <4> QED
        BY <1>0, <1>1, <3>1, <4>1 DEF Moves, Fields
    <3> QED
      BY <3>2, <3>3
  <2>5. CASE Fetch(b)
    <3>1. key' = key /\ ws' = ws
      BY <2>5 DEF Fetch, outputs
    <3>2. CASE Advance(b, "fetch", "install") /\ req' = req /\ ans' = ans
      BY <1>0, <3>1, <3>2, AdvanceKeeps DEF Moves, Fields
    <3>3. CASE Send(b, "getBlob", Get("getBlob", want[b][idx[b]])) /\ UNCHANGED loop
      BY <1>0, <3>1, <3>3 DEF Send, Goto, Moves, Fields, loop
    <3> QED
      BY <2>5, <3>2, <3>3 DEF Fetch
  <2>6. CASE GotBlob(b)
    <3>1. key' = key /\ ws' = ws /\ DOMAIN req' = Builders /\ DOMAIN ans' = Builders
      BY <1>0, <2>6 DEF GotBlob, Settled, Fields, outputs
    <3>2. Advance(b, "fetch", "install") \/ Leave(b, "exec")
      BY <2>6 DEF GotBlob, Fallback
    <3> QED
      BY <1>0, <1>1, <3>1, <3>2, AdvanceKeeps DEF Moves, Fields
  <2>7. CASE Install(b)
    <3>1. key' = key /\ ws' = ws /\ req' = req /\ ans' = ans
      BY <2>7 DEF Install, network, outputs
    <3>2. (Goto(b, "restore") /\ UNCHANGED loop) \/ Leave(b, "exec")
      BY <2>7 DEF Install, Fallback
    <3> QED
      BY <1>0, <1>1, <3>1, <3>2 DEF Moves, Fields, Goto, loop
  <2>8. CASE Restore(b)
    <3>1. key' = key /\ DOMAIN ws' = Builders /\ req' = req /\ ans' = ans
      BY <1>0, <2>8 DEF Restore, network, Fields
    <3>2. Leave(b, "idle") \/ Leave(b, "exec")
      BY <2>8 DEF Restore
    <3> QED
      BY <1>0, <1>1, <3>1, <3>2 DEF Moves, Fields
  <2>9. CASE Exec(b)
    BY <1>0, <2>9 DEF Exec, Goto, Moves, Fields, loop, network
  <2>10. CASE PutLocal(b)
    <3>1. key' = key /\ ws' = ws /\ req' = req /\ ans' = ans
      BY <2>10 DEF PutLocal, network, outputs
    <3>2. ws[b] \in Entries
      BY <2>0, <2>10 DEF PutLocal, Local, Loops, Entries
    <3>3. PICK e \in Entries : e = ws[b]
      BY <3>2
    <3>4. Loop(b, "push", e) \/ Leave(b, "returned")
      BY <2>10, <3>3 DEF PutLocal
    <3> QED
      BY <1>0, <1>1, <3>1, <3>4, LoopTyped DEF Moves, Fields
  <2>11. CASE Push(b)
    <3>1. key' = key /\ ws' = ws
      BY <2>11 DEF Push, outputs
    <3>2. CASE UNCHANGED loop /\ Send(b, "putBlob", PutReq("putBlob", want[b][idx[b]], <<want[b][idx[b]]>>))
      BY <1>0, <3>1, <3>2 DEF Send, Goto, Moves, Fields, loop
    <3>3. CASE Leave(b, "returned") /\ req' = req /\ ans' = ans
      BY <1>0, <1>1, <3>1, <3>3 DEF Moves, Fields
    <3> QED
      BY <2>11, <3>2, <3>3 DEF Push, Uploaded
  <2>12. CASE PutBlobAnswered(b) \/ PutEntryAnswered(b)
    <3>1. key' = key /\ ws' = ws /\ DOMAIN req' = Builders /\ DOMAIN ans' = Builders
      BY <1>0, <2>12 DEF PutBlobAnswered, PutEntryAnswered, Settled, Fields, outputs
    <3>2. Advance(b, "push", "pushEntry") \/ Leave(b, "returned")
      BY <2>12 DEF PutBlobAnswered, PutEntryAnswered, Uploaded
    <3> QED
      BY <1>0, <1>1, <3>1, <3>2, AdvanceKeeps DEF Moves, Fields
  <2>13. CASE Timeout(b) \/ Kill(b)
    <3>1. key' = key /\ ws' = ws /\ DOMAIN req' = Builders /\ DOMAIN ans' = Builders
      BY <1>0, <2>13 DEF Timeout, Kill, Forsake, Settled, Fields, outputs
    <3>2. Leave(b, "exec") \/ Leave(b, "returned") \/ Leave(b, "idle")
      BY <2>13 DEF Timeout, Kill, Uploaded, Fallback
    <3> QED
      BY <1>0, <1>1, <3>1, <3>2 DEF Moves, Fields
  <2>16. CASE Return(b)
    BY <1>0, <2>16 DEF Return, Goto, Moves, Fields, loop, network, outputs
  <2>14. CASE ServeGet(b) \/ ServePut(b)
    BY <1>0, <2>14 DEF ServeGet, ServePut, control, loop, outputs, Moves, Fields
  <2>15. CASE RefusePut(b) \/ Garble(b)
    BY <1>0, <2>15 DEF RefusePut, Garble, control, loop, outputs, Moves, Fields
  <2> QED
    BY <1>2, <2>1, <2>2, <2>3, <2>4, <2>5, <2>6, <2>7, <2>8, <2>9, <2>10, <2>11, <2>12,
       <2>13, <2>14, <2>15, <2>16 DEF Does, Step
<1>3. CASE ServeLate \/ \E s \in Stores : Damage(s) \/ Remove(s)
  BY <1>0, <1>3 DEF ServeLate, Damage, Remove, control, loop, network, outputs, Moves, Fields
<1> QED
  BY <1>2, <1>3 DEF Next, Does

\* One builder's step keeps everyone's part.
LEMMA LocalStep == RInv /\ Next => \A c \in Builders : Local(c)'
<1> SUFFICES ASSUME RInv, Next, NEW c \in Builders PROVE Local(c)'
  OBVIOUS
<1>1. Grows /\ Fields
  BY GrowsStep DEF RInv
<1>2. ASSUME NEW b \in Builders, Does(b)
      PROVE  Local(c)'
  <2>1. CASE b = c
    BY <1>1, <1>2, <2>1, ActorLocal
  <2>2. CASE b # c
    <3>1. Same(c)
      BY <1>1, <1>2, <2>2, OthersSame
    <3> QED
      BY <1>1, <3>1, SameLocal
  <2> QED
    BY <2>1, <2>2
<1>3. CASE ServeLate \/ \E s \in Stores : Damage(s) \/ Remove(s)
  <2>1. Same(c)
    BY <1>3 DEF ServeLate, Damage, Remove, Same, control, loop, network, outputs
  <2> QED
    BY <1>1, <2>1, SameLocal
<1> QED
  BY <1>2, <1>3 DEF Next, Does

\* Only uploads that were sent for a builder's loop are served late.
LEMMA LateStep == RInv /\ Next => LateUploads'
<1> SUFFICES ASSUME RInv, Next PROVE LateUploads'
  OBVIOUS
<1>0. Grows /\ LateUploads /\ Server \in Stores
  BY GrowsStep DEF RInv, Stores
<1>1. \A x \in Backed(Server) : x \in Backed(Server)'
  BY <1>0 DEF Grows
<1>2. ASSUME late' \subseteq late
      PROVE  LateUploads'
  BY <1>0, <1>1, <1>2 DEF LateUploads
<1>3. ASSUME NEW b \in Builders, Timeout(b) \/ Kill(b)
      PROVE  LateUploads'
  <2>1. CASE late' = late
    BY <1>2, <2>1
  <2>2. CASE req[b] # None /\ req[b].op \in Uploads /\ late' = late \union {req[b]}
    <3>1. PICK r : r = req[b]
      OBVIOUS
    <3>2. /\ r.op = "putBlob" => r.name \in Digests
          /\ r.op = "putEntry" => r.name \in Keys
          /\ r.op = "putEntry" /\ r.body # None =>
                r.body \in Full /\ \A j \in 1..Outputs : r.body[j] \in Backed(Server)
      BY <2>2, <3>1, RequestTyped
    <3>3. late' = late \union {r}
      BY <2>2, <3>1
    <3> QED
      BY <1>0, <1>1, <3>2, <3>3 DEF LateUploads
  <2> QED
    BY <1>3, <2>1, <2>2 DEF Timeout, Kill, Forsake
<1>4. ASSUME NEW b \in Builders, Does(b), ~Timeout(b), ~Kill(b)
      PROVE  late' = late
  <2>1. CASE Begin(b) \/ LocalHit(b) \/ AskServer(b) \/ GotEntry(b) \/ Fetch(b) \/ GotBlob(b)
    BY <2>1 DEF Begin, LocalHit, AskServer, GotEntry, Fetch, GotBlob, network
  <2>2. CASE Install(b) \/ Restore(b) \/ Exec(b) \/ PutLocal(b) \/ Push(b) \/ PushEntry(b)
    BY <2>2 DEF Install, Restore, Exec, PutLocal, Push, PushEntry, network
  <2>3. CASE PutBlobAnswered(b) \/ PutEntryAnswered(b) \/ Return(b)
    BY <2>3 DEF PutBlobAnswered, PutEntryAnswered, Return, network
  <2>4. CASE ServeGet(b) \/ ServePut(b) \/ RefusePut(b) \/ Garble(b)
    BY <2>4 DEF ServeGet, ServePut, RefusePut, Garble
  <2> QED
    BY <1>4, <2>1, <2>2, <2>3, <2>4 DEF Does, Step
<1>5. CASE ServeLate \/ \E s \in Stores : Damage(s) \/ Remove(s)
  BY <1>2, <1>5 DEF ServeLate, Damage, Remove, network
<1> QED
  BY <1>2, <1>3, <1>4, <1>5 DEF Next, Does

\* Bytes are only ever bad where a disk damaged them.
LEMMA DamageStep ==
    RInv /\ Next => DamageDoesNotSpread' /\ DOMAIN bad' = Stores /\ DOMAIN harmed' = Stores
<1> SUFFICES ASSUME RInv, Next
             PROVE  DamageDoesNotSpread' /\ DOMAIN bad' = Stores /\ DOMAIN harmed' = Stores
  OBVIOUS
<1>0. Fields /\ DamageDoesNotSpread
  BY DEF RInv
<1>1. ASSUME bad' = bad, harmed' = harmed
      PROVE  DamageDoesNotSpread' /\ DOMAIN bad' = Stores /\ DOMAIN harmed' = Stores
  BY <1>0, <1>1 DEF DamageDoesNotSpread, Fields
<1>2. ASSUME NEW b \in Builders, Does(b)
      PROVE  bad' = bad /\ harmed' = harmed
  <2>1. CASE GotBlob(b)
    BY <2>1 DEF GotBlob, WriteBlob, Verified
  <2>2. CASE ServePut(b)
    BY <2>2 DEF ServePut, Accept, WriteBlob, Verified, Uploads
  <2>3. CASE PutLocal(b)
    BY <2>3 DEF PutLocal
  <2>4. CASE Begin(b) \/ LocalHit(b) \/ AskServer(b) \/ GotEntry(b) \/ Fetch(b) \/ Install(b)
    BY <2>4 DEF Begin, LocalHit, AskServer, GotEntry, Fetch, Install, stores, history
  <2>5. CASE Restore(b) \/ Exec(b) \/ Push(b) \/ PushEntry(b) \/ PutBlobAnswered(b)
             \/ PutEntryAnswered(b) \/ Return(b) \/ Timeout(b) \/ Kill(b)
    BY <2>5 DEF Restore, Exec, Push, PushEntry, PutBlobAnswered, PutEntryAnswered,
                Return, Timeout, Kill, stores, history
  <2>6. CASE ServeGet(b) \/ RefusePut(b) \/ Garble(b)
    BY <2>6 DEF ServeGet, RefusePut, Garble, stores, history
  <2> QED
    BY <1>2, <2>1, <2>2, <2>3, <2>4, <2>5, <2>6 DEF Does, Step
<1>3. CASE ServeLate
  BY <1>1, <1>3 DEF ServeLate, Accept, WriteBlob, Verified
<1>4. ASSUME NEW s \in Stores, Damage(s)
      PROVE  DamageDoesNotSpread' /\ DOMAIN bad' = Stores /\ DOMAIN harmed' = Stores
  BY <1>0, <1>4 DEF Damage, DamageDoesNotSpread, Fields
<1>5. ASSUME NEW s \in Stores, Remove(s)
      PROVE  DamageDoesNotSpread' /\ DOMAIN bad' = Stores /\ DOMAIN harmed' = Stores
  BY <1>0, <1>5 DEF Remove, DamageDoesNotSpread, Fields
<1> QED
  BY <1>1, <1>2, <1>3, <1>4, <1>5 DEF Next, Does

\* An entry is recorded where its blobs have been, and they stay accounted for.
LEMMA EntriesStep ==
    RInv /\ Next => EntriesAreBacked' /\ entry' \in [Stores -> [Keys -> Entries]]
<1> SUFFICES ASSUME RInv, Next
             PROVE  EntriesAreBacked' /\ entry' \in [Stores -> [Keys -> Entries]]
  OBVIOUS
<1>0. Fields /\ EntriesAreBacked /\ Grows
  BY GrowsStep DEF RInv
<1>1. ASSUME entry' = entry
      PROVE  EntriesAreBacked' /\ entry' \in [Stores -> [Keys -> Entries]]
  BY <1>0, <1>1 DEF EntriesAreBacked, Grows, Backed, Fields
<1>2. ASSUME NEW s \in Stores, NEW k \in Keys, NEW e \in Full,
             entry' = [entry EXCEPT ![s][k] = e],
             \A j \in 1..Outputs : e[j] \in Backed(s)'
      PROVE  EntriesAreBacked' /\ entry' \in [Stores -> [Keys -> Entries]]
  <2>1. Blobs(e) \subseteq Backed(s)'
    BY <1>2, BlobsOfEntry
  <2>2. ASSUME NEW t \in Stores, NEW l \in Keys
        PROVE  Blobs(entry'[t][l]) \subseteq Backed(t)'
    <3>1. CASE t = s /\ l = k
      <4>1. entry'[t][l] = e
        BY <1>0, <1>2, <3>1 DEF Fields
      <4> QED
        BY <2>1, <3>1, <4>1
    <3>2. CASE ~(t = s /\ l = k)
      <4>1. entry'[t][l] = entry[t][l]
        BY <1>0, <1>2, <2>2, <3>2 DEF Fields
      <4>2. Blobs(entry[t][l]) \subseteq Backed(t)
        BY <1>0, <2>2 DEF EntriesAreBacked, Backed
      <4> QED
        BY <1>0, <4>1, <4>2 DEF Grows
    <3> QED
      BY <3>1, <3>2
  <2>3. entry' \in [Stores -> [Keys -> Entries]]
    BY <1>0, <1>2 DEF Fields, Entries
  <2> QED
    BY <2>2, <2>3 DEF EntriesAreBacked, Backed
<1>3. \A s \in Stores : \A x \in Backed(s) : x \in Backed(s)'
  BY <1>0 DEF Grows
<1>4. ASSUME NEW b \in Builders, Does(b)
      PROVE  EntriesAreBacked' /\ entry' \in [Stores -> [Keys -> Entries]]
  <2>0. b \in Stores /\ Server \in Stores /\ key[b] \in Keys /\ Local(b)
    BY <1>0 DEF Stores, Fields, RInv
  <2>1. CASE Install(b)
    <3>1. CASE entry' = entry
      BY <1>1, <3>1
    <3>2. CASE entry' = [entry EXCEPT ![b][key[b]] = want[b]]
      <4>1. PICK k \in Keys : k = key[b]
        BY <2>0
      <4>2. PICK e \in Full : e = want[b]
        BY <2>0, <2>1 DEF Local, Loops, Install
      <4>3. \A j \in 1..Outputs : e[j] \in Backed(b)'
        BY <1>3, <2>0, <2>1, <4>2 DEF Local, Loops, Install
      <4> QED
        BY <1>2, <2>0, <3>2, <4>1, <4>2, <4>3
    <3> QED
      BY <2>1, <3>1, <3>2 DEF Install
  <2>2. CASE PutLocal(b)
    <3>1. CASE entry' = entry
      BY <1>1, <3>1
    <3>2. CASE Keep(b, Blobs(ws[b])) /\ entry' = [entry EXCEPT ![b][key[b]] = ws[b]]
      <4>1. PICK k \in Keys : k = key[b]
        BY <2>0
      <4>2. PICK e \in Full : e = ws[b]
        BY <2>0, <2>2 DEF Local, Loops, PutLocal
      <4>3. Blobs(e) \in SUBSET Digests /\ Blobs(e) = {e[j] : j \in 1..Outputs}
        BY BlobsOfEntry
      <4>4. Keep(b, Blobs(e))
        BY <3>2, <4>2
      <4>5. Blobs(e) \subseteq Backed(b)'
        BY <1>0, <2>0, <4>3, <4>4, KeepGrows
      <4> QED
        BY <1>2, <2>0, <3>2, <4>1, <4>2, <4>3, <4>5
    <3> QED
      BY <2>2, <3>1, <3>2 DEF PutLocal
  <2>3. CASE ServePut(b)
    <3>1. PICK r : r = req[b]
      OBVIOUS
    <3>2. Accept(r) /\ req[b] # None
      BY <2>3, <3>1 DEF ServePut
    <3>3. /\ r.op = "putBlob" => r.name \in Digests
          /\ r.op = "putEntry" => r.name \in Keys
          /\ r.op = "putEntry" /\ r.body # None =>
                r.body \in Full /\ \A j \in 1..Outputs : r.body[j] \in Backed(Server)
      BY <3>1, <3>2, RequestTyped
    <3> QED
      BY <1>0, <1>1, <1>2, <1>3, <2>0, <3>2, <3>3, AcceptKeeps
  <2>4. CASE ~Install(b) /\ ~PutLocal(b) /\ ~ServePut(b)
    <3>1. entry' = entry
      <4>1. CASE Begin(b) \/ LocalHit(b) \/ AskServer(b) \/ GotEntry(b) \/ Fetch(b) \/ GotBlob(b)
        BY <4>1 DEF Begin, LocalHit, AskServer, GotEntry, Fetch, GotBlob, stores
      <4>2. CASE Restore(b) \/ Exec(b) \/ Push(b) \/ PushEntry(b) \/ PutBlobAnswered(b)
                 \/ PutEntryAnswered(b) \/ Return(b) \/ Timeout(b) \/ Kill(b)
        BY <4>2 DEF Restore, Exec, Push, PushEntry, PutBlobAnswered, PutEntryAnswered,
                    Return, Timeout, Kill, stores
      <4>3. CASE ServeGet(b) \/ RefusePut(b) \/ Garble(b)
        BY <4>3 DEF ServeGet, RefusePut, Garble, stores
      <4> QED
        BY <1>4, <2>4, <4>1, <4>2, <4>3 DEF Does, Step
    <3> QED
      BY <1>1, <3>1
  <2> QED
    BY <2>1, <2>2, <2>3, <2>4
<1>5. CASE ServeLate
  <2>1. PICK r \in late : Accept(r)
    BY <1>5 DEF ServeLate
  <2>2. /\ r.op = "putBlob" => r.name \in Digests
        /\ r.op = "putEntry" => r.name \in Keys
        /\ r.op = "putEntry" /\ r.body # None =>
              r.body \in Full /\ \A j \in 1..Outputs : r.body[j] \in Backed(Server)
    BY <2>1 DEF RInv, LateUploads
  <2>3. Server \in Stores
    BY DEF Stores
  <2> QED
    BY <1>0, <1>1, <1>2, <1>3, <2>1, <2>2, <2>3, AcceptKeeps
<1>6. CASE \E s \in Stores : Damage(s) \/ Remove(s)
  BY <1>1, <1>6 DEF Damage, Remove
<1> QED
  BY <1>4, <1>5, <1>6 DEF Next, Does

-----------------------------------------------------------------------------
\* The parts hold together after every step.
LEMMA NextRInv == RInv /\ Next => RInv'
<1> SUFFICES ASSUME RInv, Next PROVE RInv'
  OBVIOUS
<1>1. Grows /\ Moves
  BY GrowsStep, MovesStep
<1>2. EntriesAreBacked' /\ entry' \in [Stores -> [Keys -> Entries]]
  BY EntriesStep
<1>3. DamageDoesNotSpread' /\ DOMAIN bad' = Stores /\ DOMAIN harmed' = Stores
  BY DamageStep
<1>4. Fields'
  BY <1>1, <1>2, <1>3 DEF Fields, Grows, Moves
<1>5. (\A b \in Builders : Local(b)') /\ LateUploads'
  BY LocalStep, LateStep
<1> QED
  BY <1>2, <1>3, <1>4, <1>5 DEF RInv

\* A step that changes nothing keeps everything.
LEMMA StutterRInv == RInv /\ UNCHANGED vars => RInv'
<1> SUFFICES ASSUME RInv, UNCHANGED vars PROVE RInv'
  OBVIOUS
<1>0. /\ UNCHANGED <<blobs, bad, entry, pc, key, want, idx>>
      /\ UNCHANGED <<req, ans, late, ws, harmed, gone>>
  BY DEF vars, stores, control, loop, network, outputs, history
<1>1. Fields' /\ Grows
  BY <1>0 DEF RInv, Fields, Grows, Backed
<1>2. \A b \in Builders : Local(b)'
  BY <1>0, <1>1, SameLocal DEF Same
<1>3. LateUploads' /\ EntriesAreBacked' /\ DamageDoesNotSpread'
  BY <1>0 DEF RInv, LateUploads, EntriesAreBacked, DamageDoesNotSpread, Backed
<1> QED
  BY <1>1, <1>2, <1>3 DEF RInv

\* RInv is an invariant, whatever is lost, late, damaged or killed.
THEOREM SharedCacheInvariant == Spec => []RInv
<1>1. RInv /\ [Next]_vars => RInv'
  BY NextRInv, StutterRInv
<1> QED
  BY InitRInv, <1>1, PTL DEF Spec

\* An entry in any store, the server's included, names only blobs that store
\* has, or had until they were deleted: the order of an upload, blobs first and
\* the entry last, survives every loss, delay and crash.
THEOREM EntriesStayBacked == Spec => []EntriesAreBacked
<1>1. RInv => EntriesAreBacked
  BY DEF RInv
<1> QED
  BY SharedCacheInvariant, <1>1, PTL

\* A store holds bad bytes only where its own disk damaged them: no machine and
\* no server passes damaged bytes on.
THEOREM DamageStaysLocal == Spec => []DamageDoesNotSpread
<1>1. RInv => DamageDoesNotSpread
  BY DEF RInv
<1> QED
  BY SharedCacheInvariant, <1>1, PTL

-----------------------------------------------------------------------------
(* Who waits for an answer.                                                *)

Awaiting == {"getEntry", "getBlob"} \union Uploads

\* Who waits for an answer has a request, and only who waits.
Waits(b) == req[b] # None <=> pc[b] \in Awaiting

Harmed == \A s \in Stores : harmed[s] \subseteq blobs[s]

CInv == (\A b \in Builders : Waits(b)) /\ Harmed

\* A request is not None.
LEMMA RequestsAreSomething ==
    /\ \A op, name : Get(op, name) # None
    /\ \A op, name, body : PutReq(op, name, body) # None
<1>1. DOMAIN None = {}
  BY DEF None
<1>2. \A op, name : "op" \in DOMAIN Get(op, name)
  BY DEF Get
<1>3. \A op, name, body : "op" \in DOMAIN PutReq(op, name, body)
  BY DEF PutReq
<1> QED
  BY <1>1, <1>2, <1>3

\* What b's step does to the requests of all.
LEMMA WaitsStep ==
    ASSUME RInv, CInv, NEW b \in Builders, Does(b)
    PROVE  \A c \in Builders : Waits(c)'
<1>0. Fields /\ Waits(b)
  BY DEF RInv, CInv
<1> USE DEF Awaiting, Uploads
<1>1. ASSUME Waits(b)'
      PROVE  \A c \in Builders : Waits(c)'
  <2>1. ASSUME NEW c \in Builders, c # b
        PROVE  Waits(c)'
    <3>1. pc'[c] = pc[c] /\ req'[c] = req[c]
      BY <1>0, <2>1, OthersSame DEF Same
    <3> QED
      BY <1>1, <2>1, <3>1 DEF CInv, Waits
  <2> QED
    BY <1>1, <2>1
<1>2. Waits(b)'
  <2>1. CASE Begin(b) \/ LocalHit(b) \/ Restore(b) \/ Exec(b) \/ PutLocal(b) \/ Return(b)
    <3>1. /\ pc[b] \notin Awaiting /\ pc'[b] \notin Awaiting
          /\ req' = req
      BY <1>0, <2>1 DEF Begin, LocalHit, Restore, Exec, PutLocal, Return, Leave, Loop, Goto,
                        network, Fields
    <3> QED
      BY <1>0, <3>1 DEF Waits
  <2>2. CASE Install(b)
    <3>1. pc[b] = "install" /\ req' = req /\ pc'[b] \in {"restore", "exec"}
      BY <1>0, <2>2 DEF Install, Fallback, Leave, Loop, Goto, network, Fields
    <3> QED
      BY <1>0, <3>1 DEF Waits
  <2>3. CASE AskServer(b)
    <3>1. PICK k : k = key[b]
      OBVIOUS
    <3>2. pc'[b] = "getEntry" /\ req'[b] = Get("getEntry", k)
      BY <1>0, <2>3, <3>1 DEF AskServer, Send, Goto, Fields
    <3> QED
      BY <3>2, RequestsAreSomething DEF Waits
  <2>4. CASE GotEntry(b)
    <3>1. req'[b] = None /\ pc'[b] \in {"fetch", "exec"}
      BY <1>0, <2>4 DEF GotEntry, Fallback, Leave, Loop, Goto, Settled, Fields
    <3> QED
      BY <3>1 DEF Waits
  <2>5. CASE Fetch(b)
    <3>1. pc[b] = "fetch"
      BY <2>5 DEF Fetch
    <3>2. CASE Advance(b, "fetch", "install") /\ req' = req
      <4>1. pc'[b] \in {"fetch", "install"}
        BY <1>0, <3>2, AdvanceKeeps
      <4> QED
        BY <1>0, <3>1, <3>2, <4>1 DEF Waits
    <3>3. CASE Send(b, "getBlob", Get("getBlob", want[b][idx[b]]))
      <4>1. PICK d : d = want[b][idx[b]]
        OBVIOUS
      <4>2. pc'[b] = "getBlob" /\ req'[b] = Get("getBlob", d)
        BY <1>0, <3>3, <4>1 DEF Send, Goto, Fields
      <4> QED
        BY <4>2, RequestsAreSomething DEF Waits
    <3> QED
      BY <2>5, <3>2, <3>3 DEF Fetch
  <2>6. CASE GotBlob(b)
    <3>1. req'[b] = None
      BY <1>0, <2>6 DEF GotBlob, Settled, Fields
    <3>2. Advance(b, "fetch", "install") \/ Leave(b, "exec")
      BY <2>6 DEF GotBlob, Fallback
    <3>3. pc'[b] \in {"fetch", "install", "exec"}
      BY <1>0, <3>2, AdvanceKeeps DEF Leave, Loop, Goto, Fields
    <3> QED
      BY <3>1, <3>3 DEF Waits
  <2>7. CASE Push(b)
    <3>1. PICK d : d = want[b][idx[b]]
      OBVIOUS
    <3>2. \/ pc'[b] = "putBlob" /\ req'[b] = PutReq("putBlob", d, <<d>>)
          \/ pc[b] = "push" /\ pc'[b] = "returned" /\ req' = req
      BY <1>0, <2>7, <3>1 DEF Push, Send, Uploaded, Leave, Loop, Goto, Fields
    <3> QED
      BY <1>0, <3>2, RequestsAreSomething DEF Waits
  <2>8. CASE PushEntry(b)
    <3>1. PICK k, e : k = key[b] /\ e = want[b]
      OBVIOUS
    <3>2. pc'[b] = "putEntry" /\ req'[b] = PutReq("putEntry", k, e)
      BY <1>0, <2>8, <3>1 DEF PushEntry, Send, Goto, Fields
    <3> QED
      BY <3>2, RequestsAreSomething DEF Waits
  <2>9. CASE PutBlobAnswered(b)
    <3>1. req'[b] = None
      BY <1>0, <2>9 DEF PutBlobAnswered, Settled, Fields
    <3>2. Advance(b, "push", "pushEntry") \/ Leave(b, "returned")
      BY <2>9 DEF PutBlobAnswered, Uploaded
    <3>3. pc'[b] \in {"push", "pushEntry", "returned"}
      BY <1>0, <3>2, AdvanceKeeps DEF Leave, Loop, Goto, Fields
    <3> QED
      BY <3>1, <3>3 DEF Waits
  <2>10. CASE PutEntryAnswered(b) \/ Timeout(b) \/ Kill(b)
    <3>1. pc'[b] \in {"idle", "exec", "returned"} /\ req'[b] = None
      BY <1>0, <2>10 DEF PutEntryAnswered, Timeout, Kill, Forsake, Settled, Uploaded, Fallback,
                         Leave, Loop, Goto, Fields
    <3> QED
      BY <3>1 DEF Waits
  <2>11. CASE ServeGet(b) \/ ServePut(b) \/ RefusePut(b)
    <3>1. pc' = pc /\ req' = req
      BY <2>11 DEF ServeGet, ServePut, RefusePut, control
    <3> QED
      BY <1>0, <3>1 DEF Waits
  <2>12. CASE Garble(b)
    <3>1. PICK o, n : o = req[b].op /\ n = req[b].name
      OBVIOUS
    <3>2. /\ pc' = pc
          /\ \/ req'[b] = req[b]
             \/ req[b] # None /\ req'[b] = PutReq(o, n, None)
      BY <1>0, <2>12, <3>1 DEF Garble, control, Fields
    <3> QED
      BY <1>0, <3>2, RequestsAreSomething DEF Waits
  <2> QED
    BY <2>1, <2>2, <2>3, <2>4, <2>5, <2>6, <2>7, <2>8, <2>9, <2>10, <2>11, <2>12 DEF Does, Step
<1> QED
  BY <1>1, <1>2

\* A damaged blob is a blob until it is removed.
LEMMA HarmedStep == RInv /\ CInv /\ Next => Harmed'
<1> SUFFICES ASSUME RInv, CInv, Next PROVE Harmed'
  OBVIOUS
<1>0. Fields /\ Harmed
  BY DEF RInv, CInv
<1>1. ASSUME harmed' = harmed, blobs' = blobs \/ \E s, D : Keep(s, D)
      PROVE  Harmed'
  BY <1>0, <1>1 DEF Harmed, Fields, Keep
<1>2. ASSUME NEW b \in Builders, Does(b)
      PROVE  Harmed'
  <2>1. CASE GotBlob(b) \/ PutLocal(b)
    BY <1>1, <2>1 DEF GotBlob, PutLocal, WriteBlob
  <2>2. CASE ServePut(b)
    BY <1>1, <2>2 DEF ServePut, Accept, WriteBlob
  <2>3. CASE Begin(b) \/ LocalHit(b) \/ AskServer(b) \/ GotEntry(b) \/ Fetch(b) \/ Install(b)
    BY <1>1, <2>3 DEF Begin, LocalHit, AskServer, GotEntry, Fetch, Install, stores, history
  <2>4. CASE Restore(b) \/ Exec(b) \/ Push(b) \/ PushEntry(b) \/ PutBlobAnswered(b)
             \/ PutEntryAnswered(b) \/ Return(b) \/ Timeout(b) \/ Kill(b)
    BY <1>1, <2>4 DEF Restore, Exec, Push, PushEntry, PutBlobAnswered, PutEntryAnswered,
                      Return, Timeout, Kill, stores, history
  <2>5. CASE ServeGet(b) \/ RefusePut(b) \/ Garble(b)
    BY <1>1, <2>5 DEF ServeGet, RefusePut, Garble, stores, history
  <2> QED
    BY <1>2, <2>1, <2>2, <2>3, <2>4, <2>5 DEF Does, Step
<1>3. CASE ServeLate
  BY <1>1, <1>3 DEF ServeLate, Accept, WriteBlob
<1>4. ASSUME NEW s \in Stores, Damage(s)
      PROVE  Harmed'
  BY <1>0, <1>4 DEF Damage, Harmed, Fields
<1>5. ASSUME NEW s \in Stores, Remove(s)
      PROVE  Harmed'
  BY <1>0, <1>5 DEF Remove, Harmed, Fields
<1> QED
  BY <1>2, <1>3, <1>4, <1>5 DEF Next, Does

\* Both parts hold, in every state.
THEOREM WaitingInvariant == Spec => [](RInv /\ CInv)
<1>1. Init => CInv
  BY DEF Init, CInv, Waits, Awaiting, Uploads, Harmed
<1>2. RInv /\ CInv /\ Next => CInv'
  <2> SUFFICES ASSUME RInv, CInv, Next PROVE CInv'
    OBVIOUS
  <2>1. CASE \E b \in Builders : Does(b)
    BY <2>1, WaitsStep, HarmedStep DEF CInv
  <2>2. CASE ServeLate \/ \E s \in Stores : Damage(s) \/ Remove(s)
    <3>1. pc' = pc /\ req' = req
      BY <2>2 DEF ServeLate, Damage, Remove, control, network
    <3> QED
      BY <3>1, HarmedStep DEF CInv, Waits
  <2> QED
    BY <2>1, <2>2 DEF Next, Does
<1>3. RInv /\ CInv /\ UNCHANGED vars => CInv'
  BY DEF CInv, Waits, Harmed, vars, stores, control, network, history
<1> QED
  BY <1>1, <1>2, <1>3, InitRInv, NextRInv, StutterRInv, PTL DEF Spec

-----------------------------------------------------------------------------
(* What of "every lookup ends" is not about fairness: a machine can always  *)
(* move, and has only so far to go.                                        *)

\* The most steps a machine at l, and at output i of a loop, has before it is
\* idle.
Ahead(l, i) ==
    LET rest == 2 * (Outputs - i)
    IN  CASE l = "lookup" -> 4 * Outputs + 9
          [] l = "getEntry" -> 4 * Outputs + 8
          [] l = "fetch" -> 2 * Outputs + rest + 9
          [] l = "getBlob" -> 2 * Outputs + rest + 8
          [] l = "install" -> 2 * Outputs + 7
          [] l = "restore" -> 2 * Outputs + 6
          [] l = "exec" -> 2 * Outputs + 5
          [] l = "put" -> 2 * Outputs + 4
          [] l = "push" -> rest + 5
          [] l = "putBlob" -> rest + 4
          [] l = "pushEntry" -> 3
          [] l = "putEntry" -> 2
          [] l = "returned" -> 1
          [] l = "idle" -> 0

Left(b) == Ahead(pc[b], idx[b])

\* An action is over after a number of its machine's own steps that does not
\* depend on what the server, the network or the disks do: every such step
\* brings it nearer to its end, and nothing takes it back but the next action.
WorkIsBounded ==
    [][\A b \in Builders :
          /\ Step(b) => Left(b)' < Left(b)
          /\ Left(b)' <= Left(b) \/ Begin(b)]_vars

Busy == {"lookup", "fetch", "install", "restore", "exec", "put", "push", "pushEntry",
         "returned"}

\* A machine that is not idle has a step of its own to make: it is at work, or
\* it waits for an answer to a request that its timeout ends.
NobodyWaitsForEver ==
    \A b \in Builders :
        /\ Left(b) \in 0..(4 * Outputs + 9)
        /\ pc[b] = "idle" \/ (pc[b] \in Busy /\ Left(b) > 0)
              \/ (pc[b] \in Awaiting /\ req[b] # None /\ Left(b) > 0)

LEMMA AheadAt ==
    ASSUME NEW i \in 1..Outputs
    PROVE  /\ Ahead("lookup", i) = 4 * Outputs + 9
           /\ Ahead("getEntry", i) = 4 * Outputs + 8
           /\ Ahead("fetch", i) = 2 * Outputs + 2 * (Outputs - i) + 9
           /\ Ahead("getBlob", i) = 2 * Outputs + 2 * (Outputs - i) + 8
           /\ Ahead("install", i) = 2 * Outputs + 7
           /\ Ahead("restore", i) = 2 * Outputs + 6
           /\ Ahead("exec", i) = 2 * Outputs + 5
           /\ Ahead("put", i) = 2 * Outputs + 4
           /\ Ahead("push", i) = 2 * (Outputs - i) + 5
           /\ Ahead("putBlob", i) = 2 * (Outputs - i) + 4
           /\ Ahead("pushEntry", i) = 3
           /\ Ahead("putEntry", i) = 2
           /\ Ahead("returned", i) = 1
           /\ Ahead("idle", i) = 0
BY DEF Ahead

\* Every step of a machine is one forward.
LEMMA StepDescends ==
    ASSUME RInv, Next, NEW b \in Builders, Step(b)
    PROVE  Left(b)' < Left(b)
<1>0. Fields /\ Moves /\ Local(b)
  BY MovesStep DEF RInv
<1>1. idx[b] \in 1..Outputs /\ idx'[b] \in 1..Outputs
  BY <1>0 DEF Fields, Moves
<1>2. PICK i \in 1..Outputs, j \in 1..Outputs : i = idx[b] /\ j = idx'[b]
  BY <1>1
<1>3. Left(b) = Ahead(pc[b], i) /\ Left(b)' = Ahead(pc'[b], j)
  BY <1>2 DEF Left
<1>4. /\ \A l, e : Loop(b, l, e) => pc'[b] = l /\ j = 1
      /\ \A l : Leave(b, l) => pc'[b] = l
      /\ \A l : Goto(b, l) => pc'[b] = l
  BY <1>0, <1>2 DEF Fields, Loop, Leave, Goto
<1>5. \A l, m : Advance(b, l, m) => \/ i < Outputs /\ pc'[b] = l /\ j = i + 1
                                    \/ i = Outputs /\ pc'[b] = m
  BY <1>0, <1>2, AdvanceKeeps
<1>6. UNCHANGED loop => j = i
  BY <1>2 DEF loop
<1> USE OutputsAssumption
<1>7. CASE LocalHit(b) \/ AskServer(b)
  BY <1>3, <1>4, <1>7, AheadAt DEF LocalHit, AskServer, Send
<1>8. CASE GotEntry(b)
  <2>1. pc[b] = "getEntry" /\ ((pc'[b] = "fetch" /\ j = 1) \/ pc'[b] = "exec")
    BY <1>4, <1>8 DEF GotEntry, Fallback
  <2> QED
    BY <1>3, <2>1, AheadAt
<1>9. CASE Fetch(b)
  <2>1. /\ pc[b] = "fetch"
        /\ \/ i < Outputs /\ pc'[b] = "fetch" /\ j = i + 1
           \/ i = Outputs /\ pc'[b] = "install"
           \/ pc'[b] = "getBlob" /\ j = i
    BY <1>4, <1>5, <1>6, <1>9 DEF Fetch, Send
  <2> QED
    BY <1>3, <2>1, AheadAt
<1>10. CASE GotBlob(b)
  <2>1. /\ pc[b] = "getBlob"
        /\ \/ i < Outputs /\ pc'[b] = "fetch" /\ j = i + 1
           \/ i = Outputs /\ pc'[b] = "install"
           \/ pc'[b] = "exec"
    BY <1>4, <1>5, <1>10 DEF GotBlob, Fallback
  <2> QED
    BY <1>3, <2>1, AheadAt
<1>11. CASE Install(b) \/ Restore(b)
  <2>1. \/ pc[b] = "install" /\ pc'[b] \in {"restore", "exec"}
        \/ pc[b] = "restore" /\ pc'[b] \in {"idle", "exec"}
    BY <1>4, <1>11 DEF Install, Restore, Fallback
  <2> QED
    BY <1>3, <2>1, AheadAt
<1>12. CASE Exec(b) \/ PutLocal(b)
  <2>1. \/ pc[b] = "exec" /\ pc'[b] \in {"put", "idle"}
        \/ pc[b] = "put" /\ (pc'[b] = "returned" \/ (pc'[b] = "push" /\ j = 1))
    BY <1>4, <1>12 DEF Exec, PutLocal
  <2> QED
    BY <1>3, <2>1, AheadAt
<1>13. CASE Push(b)
  <2>1. pc[b] = "push" /\ (pc'[b] = "returned" \/ (pc'[b] = "putBlob" /\ j = i))
    BY <1>4, <1>6, <1>13 DEF Push, Uploaded, Send
  <2> QED
    BY <1>3, <2>1, AheadAt
<1>14. CASE PutBlobAnswered(b)
  <2>1. /\ pc[b] = "putBlob"
        /\ \/ i < Outputs /\ pc'[b] = "push" /\ j = i + 1
           \/ i = Outputs /\ pc'[b] = "pushEntry"
           \/ pc'[b] = "returned"
    BY <1>4, <1>5, <1>14 DEF PutBlobAnswered, Uploaded
  <2> QED
    BY <1>3, <2>1, AheadAt
<1>15. CASE PushEntry(b) \/ PutEntryAnswered(b)
  <2>1. \/ pc[b] = "pushEntry" /\ pc'[b] = "putEntry"
        \/ pc[b] = "putEntry" /\ pc'[b] = "returned"
    BY <1>4, <1>15 DEF PushEntry, PutEntryAnswered, Uploaded, Send
  <2> QED
    BY <1>3, <2>1, AheadAt
<1>16. CASE Timeout(b)
  <2>1. \/ pc[b] \in {"getEntry", "getBlob"} /\ pc'[b] = "exec"
        \/ pc[b] \in Uploads /\ pc'[b] = "returned"
    BY <1>0, <1>4, <1>16 DEF Timeout, Uploaded, Fallback, Local, Asked, Uploads
  <2> QED
    BY <1>3, <2>1, AheadAt DEF Uploads
<1>17. CASE Return(b)
  <2>1. pc[b] = "returned" /\ pc'[b] = "idle"
    BY <1>4, <1>17 DEF Return
  <2> QED
    BY <1>3, <2>1, AheadAt
<1> QED
  BY <1>7, <1>8, <1>9, <1>10, <1>11, <1>12, <1>13, <1>14, <1>15, <1>16,
     <1>17 DEF Step

\* Where a machine can be.
Placed == \A b \in Builders : pc[b] \in Busy \union Awaiting \union {"idle"}

LEMMA LeftIsANumber ==
    ASSUME NEW l \in Busy \union Awaiting \union {"idle"}, NEW i \in 1..Outputs
    PROVE  Ahead(l, i) \in 0..(4 * Outputs + 9) /\ (l # "idle" => Ahead(l, i) > 0)
<1>1. l \in {"lookup", "getEntry", "fetch", "getBlob", "install", "restore", "exec", "put",
             "push", "putBlob", "pushEntry", "putEntry", "returned", "idle"}
  BY DEF Busy, Awaiting, Uploads
<1> QED
  BY <1>1, AheadAt, OutputsAssumption

LEMMA PlacedStep == RInv /\ Placed /\ [Next]_vars => Placed'
<1> SUFFICES ASSUME RInv, Placed, [Next]_vars PROVE Placed'
  OBVIOUS
<1>0. Fields
  BY DEF RInv
<1>1. \A b \in Builders : \A l \in Busy \union Awaiting \union {"idle"} : Goto(b, l) => Placed'
  BY <1>0 DEF Placed, Goto, Fields
<1> USE DEF Busy, Awaiting, Uploads
<1>2. ASSUME NEW b \in Builders, Step(b)
      PROVE  \E l \in Busy \union Awaiting \union {"idle"} : Goto(b, l)
  BY <1>2 DEF Step, LocalHit, AskServer, GotEntry, Fetch, GotBlob, Install, Restore, Exec,
       PutLocal, Push, PushEntry, PutBlobAnswered, PutEntryAnswered, Return, Timeout, Uploaded, Fallback,
       Leave, Loop, Send, Advance
<1>3. ASSUME NEW b \in Builders, Begin(b) \/ Kill(b)
      PROVE  \E l \in Busy \union Awaiting \union {"idle"} : Goto(b, l)
  BY <1>3 DEF Begin, Kill, Leave, Loop
<1>4. ASSUME NEW b \in Builders, ServeGet(b) \/ ServePut(b) \/ RefusePut(b) \/ Garble(b)
      PROVE  pc' = pc
  BY <1>4 DEF ServeGet, ServePut, RefusePut, Garble, control
<1>5. CASE ServeLate \/ UNCHANGED vars \/ \E s \in Stores : Damage(s) \/ Remove(s)
  BY <1>5 DEF ServeLate, vars, Damage, Remove, control, Placed
<1>6. pc' = pc => Placed'
  BY DEF Placed
<1> QED
  BY <1>1, <1>2, <1>3, <1>4, <1>5, <1>6 DEF Next

LEMMA PlacedInvariant == Spec => [](RInv /\ CInv /\ Placed)
<1>1. Init => Placed
  BY DEF Init, Placed
<1> QED
  BY <1>1, PlacedStep, WaitingInvariant, PTL DEF Spec

\* No machine waits for a server that never answers.
THEOREM MachinesCanMove == Spec => []NobodyWaitsForEver
<1>1. RInv /\ CInv /\ Placed => NobodyWaitsForEver
  <2> SUFFICES ASSUME RInv, CInv, Placed, NEW b \in Builders
               PROVE  /\ Left(b) \in 0..(4 * Outputs + 9)
                      /\ pc[b] = "idle" \/ (pc[b] \in Busy /\ Left(b) > 0)
                            \/ (pc[b] \in Awaiting /\ req[b] # None /\ Left(b) > 0)
    BY DEF NobodyWaitsForEver
  <2>1. Left(b) \in 0..(4 * Outputs + 9) /\ (pc[b] # "idle" => Left(b) > 0)
    BY LeftIsANumber DEF RInv, Fields, Placed, Left
  <2>2. pc[b] \in Awaiting => req[b] # None
    BY DEF CInv, Waits
  <2> QED
    BY <2>1, <2>2 DEF Placed
<1> QED
  BY <1>1, PlacedInvariant, PTL

\* Whatever the server does, a lookup and a Put end after so many steps.
THEOREM LookupsAndPutsEnd == Spec => WorkIsBounded
<1> DEFINE Forward == \A b \in Builders : /\ Step(b) => Left(b)' < Left(b)
                                          /\ Left(b)' <= Left(b) \/ Begin(b)
<1>1. RInv /\ Placed /\ [Next]_vars => [Forward]_vars
  <2> SUFFICES ASSUME RInv, Placed, Next, NEW b \in Builders
               PROVE  /\ Step(b) => Left(b)' < Left(b)
                      /\ Left(b)' <= Left(b) \/ Begin(b)
    OBVIOUS
  <2>0. Fields /\ Left(b) \in Nat
    <3>1. Left(b) \in 0..(4 * Outputs + 9)
      BY LeftIsANumber DEF RInv, Fields, Placed, Left
    <3> QED
      BY <3>1, OutputsAssumption DEF RInv
  <2>1. pc'[b] = pc[b] /\ idx'[b] = idx[b] => Left(b)' = Left(b)
    BY DEF Left
  <2>2. Left(b)' \in Nat
    <3>1. idx'[b] \in 1..Outputs /\ pc'[b] \in Busy \union Awaiting \union {"idle"}
      BY PlacedStep, MovesStep DEF Moves, Placed
    <3>2. Left(b)' \in 0..(4 * Outputs + 9)
      BY <3>1, LeftIsANumber DEF Left
    <3> QED
      BY <3>2, OutputsAssumption
  <2>3. CASE Step(b)
    BY <2>0, <2>2, <2>3, StepDescends
  <2>4. CASE Kill(b)
    <3>1. pc'[b] = "idle" /\ idx'[b] \in 1..Outputs
      BY <2>0, <2>4, MovesStep DEF Kill, Leave, Loop, Goto, Fields, Moves
    <3>2. Left(b)' = 0
      BY <3>1, AheadAt DEF Left
    <3> QED
      BY <2>0, <3>2, <2>3
  <2>5. CASE ServeGet(b) \/ ServePut(b) \/ RefusePut(b) \/ Garble(b)
    <3>1. pc' = pc /\ idx' = idx
      BY <2>5 DEF ServeGet, ServePut, RefusePut, Garble, control, loop
    <3> QED
      BY <2>0, <2>1, <2>3, <3>1
  <2>6. ASSUME NEW c \in Builders \ {b}, Does(c)
        PROVE  Left(b)' = Left(b)
    BY <2>0, <2>1, <2>6, OthersSame DEF Same
  <2>7. CASE ServeLate \/ \E s \in Stores : Damage(s) \/ Remove(s)
    <3>1. pc' = pc /\ idx' = idx
      BY <2>7 DEF ServeLate, Damage, Remove, control, loop
    <3> QED
      BY <2>0, <2>1, <2>3, <3>1
  <2> QED
    BY <2>0, <2>3, <2>4, <2>5, <2>6, <2>7 DEF Next, Does
<1> QED
  BY <1>1, PlacedInvariant, PTL DEF Spec, WorkIsBounded

-----------------------------------------------------------------------------
(* The counters of Stats, and what they stand for.                         *)

\* Nothing but counter c has moved.
Only(c) == [d \in Counters |-> IF d = c THEN 1 ELSE 0]

\* What is in the accounts of a call that has ended with an error: something has
\* gone wrong (w) or a request was given up, and if the server said what it has
\* or took, that answer was lost.
Failed(s, h, w) ==
    /\ s = Only("Errors") /\ h \intersect {"handed", "unsaved"} = {}
    /\ "late" \in h \/ w
    /\ "late" \in h \/ h \intersect {"absent", "stored"} = {}

\* What is in the accounts of a builder at l whose last answer is a.
Books(l, a, s, h, w) ==
    /\ l \in {"idle", "lookup", "put", "push", "putBlob", "pushEntry"} =>
          s = NoCounts /\ h = {}
    /\ l = "getEntry" =>
          /\ s = NoCounts
          /\ \/ a = None /\ h = {}
             \/ a # None /\ a.code = "404" /\ h = {"absent"}
             \/ a # None /\ a.code # "404" /\ h = {"given"}
    /\ l \in {"fetch", "getBlob", "install"} => s = NoCounts /\ h = {"given"}
    /\ l = "restore" =>
          \/ s = Only("LocalHits") /\ h = {}
          \/ s = Only("RemoteHits") /\ h = {"given"}
    /\ l = "exec" =>
          \/ s = Only("LocalHits") /\ h = {"handed"}
          \/ s = Only("RemoteHits") /\ h = {"given", "handed"}
          \/ s = Only("Misses") /\ h = {"absent"}
          \/ Failed(s, h, w)
    /\ l = "putEntry" =>
          /\ s = NoCounts
          /\ \/ (a = None \/ a.code # "201") /\ h = {}
             \/ a # None /\ a.code = "201" /\ h = {"stored"}
    /\ l = "returned" =>
          \/ s = NoCounts /\ h = {"unsaved"}
          \/ s = Only("Uploads") /\ h = {"stored"}
          \/ Failed(s, h, w)

Kept(b) == Books(pc[b], ans[b], stats[b], happened[b], faults > 0)

\* What b is told, and what it relies on, while nothing has gone wrong.
Sound(b) ==
    /\ pc[b] = "getEntry" /\ ans[b] # None =>
          \/ ans[b].code = "404"
          \/ /\ ans[b].code = "200" /\ ans[b].body # None
             /\ Blobs(ans[b].body) \subseteq blobs[Server]
    /\ pc[b] \in {"fetch", "getBlob"} => Blobs(want[b]) \subseteq blobs[Server]
    /\ pc[b] = "getBlob" =>
          /\ req[b].name = want[b][idx[b]]
          /\ ans[b] # None => ans[b].code = "200" /\ ans[b].body = <<req[b].name>>
    /\ pc[b] \in {"push", "putBlob"} => Blobs(want[b]) \subseteq blobs[b]
    /\ pc[b] = "putBlob" => req[b].body = <<req[b].name>>
    /\ pc[b] = "putEntry" => req[b].body # None
    /\ pc[b] \in Uploads /\ ans[b] # None => ans[b].code = "201"

Untouched == \A s \in Stores : bad[s] = {} /\ gone[s] = {}

Tallied ==
    /\ stats \in [Builders -> [Counters -> Nat]]
    /\ DOMAIN happened = Builders /\ faults \in Nat

AInv ==
    /\ Tallied /\ \A b \in Builders : Kept(b)
    /\ faults = 0 => Untouched /\ \A b \in Builders : Sound(b)

\* A counter that goes up from nothing is the only one that has moved.
LEMMA CountIsOnly ==
    ASSUME Tallied, NEW b \in Builders, NEW c \in Counters, stats[b] = NoCounts, Count(b, c)
    PROVE  stats'[b] = Only(c)
<1>1. stats'[b] = [NoCounts EXCEPT ![c] = @ + 1]
  BY DEF Tallied, Count
<1> QED
  BY <1>1 DEF NoCounts, Only

\* The accounts of the others, and the number of faults.
LEMMA AccountsElsewhere ==
    ASSUME Tallied, NEW b \in Builders, Does(b)
    PROVE  /\ Tallied' /\ faults' >= faults
           /\ \A c \in Builders \ {b} : stats'[c] = stats[c] /\ happened'[c] = happened[c]
<1>1. faults' = faults \/ Fault
  <2>1. CASE Begin(b) \/ LocalHit(b) \/ AskServer(b) \/ GotEntry(b) \/ Fetch(b) \/ GotBlob(b)
    BY <2>1 DEF Begin, LocalHit, AskServer, GotEntry, Fetch, GotBlob
  <2>2. CASE Install(b) \/ Restore(b) \/ Exec(b) \/ PutLocal(b) \/ Push(b) \/ PushEntry(b)
    BY <2>2 DEF Install, Restore, Exec, PutLocal, Push, PushEntry
  <2>3. CASE PutBlobAnswered(b) \/ PutEntryAnswered(b) \/ Return(b) \/ Timeout(b) \/ Kill(b)
    BY <2>3 DEF PutBlobAnswered, PutEntryAnswered, Return, Timeout, Kill
  <2>4. CASE ServeGet(b) \/ ServePut(b) \/ RefusePut(b) \/ Garble(b)
    BY <2>4 DEF ServeGet, ServePut, RefusePut, Garble
  <2> QED
    BY <2>1, <2>2, <2>3, <2>4 DEF Does, Step
<1>2. stats' = stats \/ (\E c \in Counters : Count(b, c)) \/ Close(b)
  <2> USE DEF Counters
  <2>1. CASE Begin(b) \/ LocalHit(b) \/ AskServer(b) \/ GotEntry(b) \/ Fetch(b) \/ GotBlob(b)
    BY <2>1 DEF Begin, LocalHit, AskServer, GotEntry, Fetch, GotBlob, Fallback, NoEntry, accounts
  <2>2. CASE Install(b) \/ Restore(b) \/ Exec(b) \/ PutLocal(b) \/ Push(b) \/ PushEntry(b)
    BY <2>2 DEF Install, Restore, Exec, PutLocal, Push, PushEntry, Fallback, Uploaded, accounts
  <2>3. CASE PutBlobAnswered(b) \/ PutEntryAnswered(b) \/ Return(b) \/ Timeout(b) \/ Kill(b)
    BY <2>3 DEF PutBlobAnswered, PutEntryAnswered, Return, Timeout, Kill, Fallback, Uploaded
  <2>4. CASE ServeGet(b) \/ ServePut(b) \/ RefusePut(b) \/ Garble(b)
    BY <2>4 DEF ServeGet, ServePut, RefusePut, Garble, accounts
  <2> QED
    BY <2>1, <2>2, <2>3, <2>4 DEF Does, Step
<1>3. happened' = happened \/ (\E what : Mark(b, what)) \/ Close(b)
  <2>1. CASE Begin(b) \/ LocalHit(b) \/ AskServer(b) \/ GotEntry(b) \/ Fetch(b) \/ GotBlob(b)
    BY <2>1 DEF Begin, LocalHit, AskServer, GotEntry, Fetch, GotBlob, accounts
  <2>2. CASE Install(b) \/ Restore(b) \/ Exec(b) \/ PutLocal(b) \/ Push(b) \/ PushEntry(b)
    BY <2>2 DEF Install, Restore, Exec, PutLocal, Push, PushEntry, accounts
  <2>3. CASE PutBlobAnswered(b) \/ PutEntryAnswered(b) \/ Return(b) \/ Timeout(b) \/ Kill(b)
    BY <2>3 DEF PutBlobAnswered, PutEntryAnswered, Return, Timeout, Kill
  <2>4. CASE ServeGet(b) \/ ServePut(b) \/ RefusePut(b) \/ Garble(b)
    BY <2>4 DEF ServeGet, ServePut, RefusePut, Garble, accounts
  <2> QED
    BY <2>1, <2>2, <2>3, <2>4 DEF Does, Step
<1>4. faults' \in Nat /\ faults' >= faults
  BY <1>1 DEF Tallied, Fault
<1>5. /\ stats' \in [Builders -> [Counters -> Nat]]
      /\ \A c \in Builders \ {b} : stats'[c] = stats[c]
  <2>1. NoCounts \in [Counters -> Nat]
    BY DEF NoCounts
  <2> QED
    BY <1>2, <2>1 DEF Tallied, Count, Close
<1>6. DOMAIN happened' = Builders /\ \A c \in Builders \ {b} : happened'[c] = happened[c]
  BY <1>3 DEF Tallied, Mark, Close
<1> QED
  BY <1>4, <1>5, <1>6 DEF Tallied

\* What b's lookup does to its accounts.
LEMMA LookupKept ==
    ASSUME RInv, CInv, AInv, NEW b \in Builders,
           LocalHit(b) \/ AskServer(b) \/ GotEntry(b) \/ Fetch(b) \/ GotBlob(b) \/ Install(b)
    PROVE  Kept(b)'
<1>0. Fields /\ Tallied /\ Kept(b) /\ (faults = 0 => Untouched /\ Sound(b))
  BY DEF RInv, AInv
<1>1. /\ \A l, e : Loop(b, l, e) => pc'[b] = l
      /\ \A l : Leave(b, l) => pc'[b] = l
      /\ \A l : Goto(b, l) => pc'[b] = l
  BY <1>0 DEF Fields, Loop, Leave, Goto
<1>2. \A l, m : Advance(b, l, m) => pc'[b] \in {l, m}
  BY <1>0, AdvanceKeeps
<1>3. \A c \in Counters : stats[b] = NoCounts /\ Count(b, c) => stats'[b] = Only(c)
  BY <1>0, CountIsOnly
<1>4. faults \in Nat /\ (Fault => faults' > 0)
  BY <1>0 DEF Tallied, Fault
<1>5. ASSUME pc[b] \in {"getEntry", "fetch", "getBlob", "install"}, Fallback(b, "Errors"),
             happened' = happened, happened[b] = {"given"}, faults' > 0
      PROVE  Kept(b)'
  <2>1. pc'[b] = "exec" /\ stats'[b] = Only("Errors") /\ happened'[b] = {"given"}
    BY <1>0, <1>1, <1>3, <1>5 DEF Kept, Books, Fallback, Counters
  <2> QED
    BY <1>5, <2>1 DEF Kept, Books, Failed
<1>6. CASE LocalHit(b)
  <2>1. stats[b] = NoCounts /\ happened[b] = {} /\ happened' = happened
    BY <1>0, <1>6 DEF LocalHit, Kept, Books
  <2>2. pc'[b] = "restore" /\ stats'[b] = Only("LocalHits")
    BY <1>1, <1>3, <1>6, <2>1 DEF LocalHit, Counters
  <2> QED
    BY <2>1, <2>2 DEF Kept, Books
<1>7. CASE AskServer(b)
  <2>1. stats[b] = NoCounts /\ happened[b] = {} /\ stats' = stats /\ happened' = happened
    BY <1>0, <1>7 DEF AskServer, Kept, Books, accounts
  <2>2. pc'[b] = "getEntry" /\ ans'[b] = None
    BY <1>0, <1>1, <1>7 DEF AskServer, Send, Fields
  <2> QED
    BY <2>1, <2>2 DEF Kept, Books
<1>8. CASE GotEntry(b)
  <2>0. /\ pc[b] = "getEntry" /\ ans[b] # None /\ stats[b] = NoCounts
        /\ happened' = happened /\ faults' = faults
    BY <1>0, <1>8 DEF GotEntry, Kept, Books
  <2>1. CASE ans[b].code = "200" /\ ans[b].body # None
    <3>1. happened[b] = {"given"} /\ pc'[b] = "fetch" /\ stats' = stats
      BY <1>0, <1>1, <1>8, <2>0, <2>1 DEF GotEntry, Kept, Books
    <3> QED
      BY <2>0, <3>1 DEF Kept, Books
  <2>2. CASE ans[b].code = "404"
    <3>1. happened[b] = {"absent"} /\ Fallback(b, "Misses")
      BY <1>0, <1>8, <2>0, <2>2 DEF GotEntry, NoEntry, Kept, Books
    <3>2. pc'[b] = "exec" /\ stats'[b] = Only("Misses")
      BY <1>1, <1>3, <2>0, <3>1 DEF Fallback, Counters
    <3> QED
      BY <2>0, <3>1, <3>2 DEF Kept, Books
  <2>3. CASE ans[b].code # "404" /\ ~(ans[b].code = "200" /\ ans[b].body # None)
    <3>1. happened[b] = {"given"} /\ Fallback(b, "Errors")
      BY <1>0, <1>8, <2>0, <2>3 DEF GotEntry, NoEntry, Kept, Books
    <3>2. faults # 0
      BY <1>0, <2>0, <2>3 DEF Sound
    <3> QED
      BY <1>4, <1>5, <2>0, <3>1, <3>2
  <2> QED
    BY <2>1, <2>2, <2>3
<1>9. CASE Fetch(b)
  <2>1. /\ pc[b] = "fetch" /\ stats[b] = NoCounts /\ happened[b] = {"given"}
        /\ stats' = stats /\ happened' = happened
    BY <1>0, <1>9 DEF Fetch, Kept, Books, accounts
  <2>2. pc'[b] \in {"fetch", "install", "getBlob"}
    BY <1>1, <1>2, <1>9 DEF Fetch, Send
  <2> QED
    BY <2>1, <2>2 DEF Kept, Books
<1>10. CASE GotBlob(b)
  <2>1. /\ pc[b] = "getBlob" /\ stats[b] = NoCounts /\ happened[b] = {"given"}
        /\ happened' = happened /\ ans[b] # None
    BY <1>0, <1>10 DEF GotBlob, Kept, Books
  <2>2. CASE Advance(b, "fetch", "install") /\ stats' = stats
    <3>1. pc'[b] \in {"fetch", "install"}
      BY <1>2, <2>2
    <3> QED
      BY <2>1, <2>2, <3>1 DEF Kept, Books
  <2>3. CASE Fallback(b, "Errors") /\ Fault
    BY <1>4, <1>5, <2>1, <2>3
  <2>4. CASE /\ Fallback(b, "Errors") /\ faults' = faults
             /\ ~(ans[b].code = "200" /\ Verified(want[b][idx[b]], ans[b].body))
    <3>1. faults # 0
      BY <1>0, <2>1, <2>4 DEF Sound, Verified
    <3> QED
      BY <1>4, <1>5, <2>1, <2>4, <3>1
  <2> QED
    BY <1>10, <2>2, <2>3, <2>4 DEF GotBlob
<1>11. CASE Install(b)
  <2>1. /\ pc[b] = "install" /\ stats[b] = NoCounts /\ happened[b] = {"given"}
        /\ happened' = happened
    BY <1>0, <1>11 DEF Install, Kept, Books
  <2>2. CASE Goto(b, "restore") /\ Count(b, "RemoteHits")
    <3>1. pc'[b] = "restore" /\ stats'[b] = Only("RemoteHits")
      BY <1>1, <1>3, <2>1, <2>2 DEF Counters
    <3> QED
      BY <2>1, <3>1 DEF Kept, Books
  <2>3. CASE Fallback(b, "Errors") /\ Fault
    BY <1>4, <1>5, <2>1, <2>3
  <2> QED
    BY <1>11, <2>2, <2>3 DEF Install
<1> QED
  BY <1>6, <1>7, <1>8, <1>9, <1>10, <1>11

\* What the rest of b's steps do to its accounts.
LEMMA PutKept ==
    ASSUME RInv, CInv, AInv, NEW b \in Builders,
           \/ Begin(b) \/ Restore(b) \/ Exec(b) \/ PutLocal(b) \/ Push(b) \/ PushEntry(b)
           \/ PutBlobAnswered(b) \/ PutEntryAnswered(b) \/ Return(b) \/ Timeout(b) \/ Kill(b)
    PROVE  Kept(b)'
<1>0. /\ Fields /\ Tallied /\ Kept(b) /\ Local(b) /\ Waits(b)
      /\ faults = 0 => Untouched /\ Sound(b)
  BY DEF RInv, CInv, AInv
<1>1. /\ \A l, e : Loop(b, l, e) => pc'[b] = l
      /\ \A l : Leave(b, l) => pc'[b] = l
      /\ \A l : Goto(b, l) => pc'[b] = l
  BY <1>0 DEF Fields, Loop, Leave, Goto
<1>2. \A l, m : Advance(b, l, m) => pc'[b] \in {l, m}
  BY <1>0, AdvanceKeeps
<1>3. \A c \in Counters : stats[b] = NoCounts /\ Count(b, c) => stats'[b] = Only(c)
  BY <1>0, CountIsOnly
<1>4. faults \in Nat /\ (Fault => faults' > 0)
  BY <1>0 DEF Tallied, Fault
<1>5. \A what : Mark(b, what) => happened'[b] = happened[b] \union {what}
  BY <1>0 DEF Tallied, Mark
<1>6. Close(b) => stats'[b] = NoCounts /\ happened'[b] = {}
  BY <1>0 DEF Tallied, Close
<1>7. ASSUME Uploaded(b, "Errors"), stats[b] = NoCounts, happened' = happened, happened[b] = {},
             faults' > 0
      PROVE  Kept(b)'
  <2>1. pc'[b] = "returned" /\ stats'[b] = Only("Errors") /\ happened'[b] = {}
    BY <1>1, <1>3, <1>7 DEF Uploaded, Counters
  <2> QED
    BY <1>7, <2>1 DEF Kept, Books, Failed
<1>8. CASE Begin(b)
  <2>1. pc[b] = "idle" /\ pc'[b] = "lookup" /\ stats' = stats /\ happened' = happened
    BY <1>1, <1>8 DEF Begin, accounts
  <2> QED
    BY <1>0, <2>1 DEF Kept, Books
<1>9. CASE Restore(b)
  <2>1. CASE Leave(b, "idle") /\ Close(b)
    BY <1>1, <1>6, <2>1 DEF Kept, Books
  <2>2. CASE Leave(b, "exec") /\ Mark(b, "handed") /\ stats' = stats
    <3>1. pc[b] = "restore" /\ pc'[b] = "exec" /\ happened'[b] = happened[b] \union {"handed"}
      BY <1>1, <1>5, <1>9, <2>2 DEF Restore
    <3>2. \/ stats'[b] = Only("LocalHits") /\ happened'[b] = {"handed"}
          \/ stats'[b] = Only("RemoteHits") /\ happened'[b] = {"given", "handed"}
      BY <1>0, <2>2, <3>1 DEF Kept, Books
    <3> QED
      BY <3>1, <3>2 DEF Kept, Books
  <2> QED
    BY <1>9, <2>1, <2>2 DEF Restore
<1>10. CASE Exec(b)
  <2>1. pc'[b] \in {"put", "idle"} /\ Close(b)
    BY <1>1, <1>10 DEF Exec
  <2> QED
    BY <1>6, <2>1 DEF Kept, Books
<1>11. CASE PutLocal(b)
  <2>1. stats[b] = NoCounts /\ happened[b] = {} /\ stats' = stats
    BY <1>0, <1>11 DEF PutLocal, Kept, Books
  <2>2. \/ pc'[b] = "push" /\ happened' = happened
        \/ pc'[b] = "returned" /\ happened'[b] = {"unsaved"}
    BY <1>1, <1>5, <1>11, <2>1 DEF PutLocal
  <2> QED
    BY <2>1, <2>2 DEF Kept, Books
<1>12. CASE Push(b)
  <2>1. /\ pc[b] = "push" /\ stats[b] = NoCounts /\ happened[b] = {} /\ happened' = happened
        /\ faults' = faults
    BY <1>0, <1>12 DEF Push, Kept, Books
  <2>2. CASE ReadBlob(b, want[b][idx[b]])
    <3>1. pc'[b] = "putBlob" /\ stats' = stats
      BY <1>1, <1>12, <2>2 DEF Push, Send
    <3> QED
      BY <2>1, <3>1 DEF Kept, Books
  <2>3. CASE ~ReadBlob(b, want[b][idx[b]])
    <3>1. want[b][idx[b]] \in Blobs(want[b])
      BY <2>1, WantTyped, BlobsOfEntry
    <3>2. faults # 0
      BY <1>0, <2>1, <2>3, <3>1 DEF Sound, Untouched, ReadBlob, Stores
    <3>3. Uploaded(b, "Errors")
      BY <1>12, <2>3 DEF Push
    <3> QED
      BY <1>4, <1>7, <2>1, <3>2, <3>3
  <2> QED
    BY <2>2, <2>3
<1>13. CASE PushEntry(b)
  <2>1. /\ stats[b] = NoCounts /\ happened[b] = {} /\ stats' = stats /\ happened' = happened
        /\ pc'[b] = "putEntry" /\ ans'[b] = None
    BY <1>0, <1>1, <1>13 DEF PushEntry, Send, Kept, Books, accounts, Fields
  <2> QED
    BY <2>1 DEF Kept, Books
<1>14. CASE PutBlobAnswered(b)
  <2>1. /\ pc[b] = "putBlob" /\ stats[b] = NoCounts /\ happened[b] = {}
        /\ happened' = happened /\ faults' = faults /\ ans[b] # None
    BY <1>0, <1>14 DEF PutBlobAnswered, Kept, Books
  <2>2. CASE ans[b].code = "201"
    <3>1. pc'[b] \in {"push", "pushEntry"} /\ stats' = stats
      BY <1>2, <1>14, <2>2 DEF PutBlobAnswered
    <3> QED
      BY <2>1, <3>1 DEF Kept, Books
  <2>3. CASE ans[b].code # "201"
    <3>1. faults # 0 /\ Uploaded(b, "Errors")
      BY <1>0, <1>14, <2>1, <2>3 DEF PutBlobAnswered, Sound, Uploads
    <3> QED
      BY <1>4, <1>7, <2>1, <3>1
  <2> QED
    BY <2>2, <2>3
<1>15. CASE PutEntryAnswered(b)
  <2>1. /\ pc[b] = "putEntry" /\ stats[b] = NoCounts /\ ans[b] # None
        /\ happened' = happened /\ faults' = faults
    BY <1>0, <1>15 DEF PutEntryAnswered, Kept, Books
  <2>2. CASE ans[b].code = "201"
    <3>1. happened[b] = {"stored"} /\ Uploaded(b, "Uploads")
      BY <1>0, <1>15, <2>1, <2>2 DEF PutEntryAnswered, Kept, Books
    <3>2. pc'[b] = "returned" /\ stats'[b] = Only("Uploads")
      BY <1>1, <1>3, <2>1, <3>1 DEF Uploaded, Counters
    <3> QED
      BY <2>1, <3>1, <3>2 DEF Kept, Books
  <2>3. CASE ans[b].code # "201"
    <3>1. happened[b] = {} /\ Uploaded(b, "Errors") /\ faults # 0
      BY <1>0, <1>15, <2>1, <2>3 DEF PutEntryAnswered, Kept, Books, Sound, Uploads
    <3> QED
      BY <1>4, <1>7, <2>1, <3>1
  <2> QED
    BY <2>2, <2>3
<1>16. CASE Return(b)
  BY <1>1, <1>6, <1>16 DEF Return, Kept, Books
<1>17. CASE Timeout(b)
  <2>1. /\ req[b] # None /\ pc[b] = req[b].op /\ pc[b] \in Awaiting
        /\ happened'[b] = happened[b] \union {"late"}
    BY <1>0, <1>5, <1>17 DEF Timeout, Local, Asked, Awaiting
  <2>2. stats[b] = NoCounts /\ happened[b] \intersect {"handed", "unsaved"} = {}
    BY <1>0, <2>1 DEF Kept, Books, Awaiting, Uploads
  <2>3. stats'[b] = Only("Errors") /\ pc'[b] \in {"exec", "returned"}
    BY <1>1, <1>3, <1>17, <2>2 DEF Timeout, Uploaded, Fallback, Counters
  <2>4. Failed(stats'[b], happened'[b], faults' > 0)
    BY <2>1, <2>2, <2>3 DEF Failed
  <2> QED
    BY <2>3, <2>4 DEF Kept, Books
<1>18. CASE Kill(b)
  BY <1>1, <1>6, <1>18 DEF Kill, Kept, Books
<1> QED
  BY <1>8, <1>9, <1>10, <1>11, <1>12, <1>13, <1>14, <1>15, <1>16, <1>17, <1>18

\* What the server and the network do to b's accounts.
LEMMA ServedKept ==
    ASSUME RInv, CInv, AInv, NEW b \in Builders,
           ServeGet(b) \/ ServePut(b) \/ RefusePut(b) \/ Garble(b)
    PROVE  Kept(b)'
<1>0. Fields /\ Tallied /\ Kept(b) /\ Local(b) /\ Waits(b)
  BY DEF RInv, CInv, AInv
<1>1. pc' = pc /\ stats' = stats
  BY DEF ServeGet, ServePut, RefusePut, Garble, control, accounts
<1>2. \A what : Mark(b, what) => happened'[b] = happened[b] \union {what}
  BY <1>0 DEF Tallied, Mark
<1>3. (faults > 0) => (faults' > 0)
  BY <1>0 DEF Tallied, Fault, ServeGet, ServePut, RefusePut, Garble
<1>4. \A c, e : Answer(c, e) # None /\ Answer(c, e).code = c
  <2>1. DOMAIN None = {}
    BY DEF None
  <2>2. \A c, e : "code" \in DOMAIN Answer(c, e) /\ Answer(c, e).code = c
    BY DEF Answer
  <2> QED
    BY <2>1, <2>2
<1>5. req[b] # None => pc[b] = req[b].op
  BY <1>0 DEF Local, Asked
<1>6. ASSUME pc[b] \notin {"getEntry", "putEntry"}, happened' = happened
      PROVE  Kept(b)'
  BY <1>0, <1>1, <1>3, <1>6 DEF Kept, Books, Failed
<1>7. CASE ServeGet(b)
  <2>1. /\ req[b] # None /\ ans[b] = None /\ pc[b] = req[b].op
        /\ req[b].op \in {"getEntry", "getBlob"}
    BY <1>5, <1>7 DEF ServeGet
  <2>2. CASE req[b].op = "getBlob"
    BY <1>6, <1>7, <2>1, <2>2 DEF ServeGet
  <2>3. CASE req[b].op = "getEntry"
    <3>0. stats[b] = NoCounts /\ happened[b] = {}
      BY <1>0, <2>1, <2>3 DEF Kept, Books
    <3>1. CASE Usable(Server, req[b].name)
      <4>1. PICK e : e = entry[Server][req[b].name]
        OBVIOUS
      <4>2. ans'[b] = Answer("200", e) /\ Mark(b, "given")
        BY <1>0, <1>7, <2>3, <3>1, <4>1 DEF ServeGet, Fields
      <4>3. ans'[b] # None /\ ans'[b].code = "200" /\ happened'[b] = {"given"}
        BY <1>2, <1>4, <3>0, <4>2
      <4> QED
        BY <1>1, <2>1, <2>3, <3>0, <4>3 DEF Kept, Books
    <3>2. CASE ~Usable(Server, req[b].name)
      <4>1. ans'[b] = Answer("404", None) /\ Mark(b, "absent")
        BY <1>0, <1>7, <2>3, <3>2 DEF ServeGet, Fields
      <4>2. ans'[b] # None /\ ans'[b].code = "404" /\ happened'[b] = {"absent"}
        BY <1>2, <1>4, <3>0, <4>1
      <4> QED
        BY <1>1, <2>1, <2>3, <3>0, <4>2 DEF Kept, Books
    <3> QED
      BY <3>1, <3>2
  <2> QED
    BY <2>1, <2>2, <2>3
<1>8. CASE ServePut(b)
  <2>1. /\ req[b] # None /\ ans[b] = None /\ pc[b] = req[b].op
        /\ req[b].op \in {"putBlob", "putEntry"}
        /\ ans'[b] = Answer("201", None)
    BY <1>0, <1>5, <1>8 DEF ServePut, Accept, Fields
  <2>2. CASE req[b].op = "putBlob"
    BY <1>6, <1>8, <2>1, <2>2 DEF ServePut
  <2>3. CASE req[b].op = "putEntry"
    <3>1. stats[b] = NoCounts /\ happened[b] = {}
      BY <1>0, <2>1, <2>3 DEF Kept, Books
    <3>2. ans'[b] # None /\ ans'[b].code = "201" /\ happened'[b] = {"stored"}
      BY <1>2, <1>4, <1>8, <2>1, <2>3, <3>1 DEF ServePut
    <3> QED
      BY <1>1, <2>1, <2>3, <3>1, <3>2 DEF Kept, Books
  <2> QED
    BY <2>1, <2>2, <2>3
<1>9. CASE RefusePut(b)
  <2>1. /\ req[b] # None /\ ans[b] = None /\ pc[b] = req[b].op /\ happened' = happened
        /\ req[b].op \in Uploads /\ ans'[b] = Answer("400", None)
    BY <1>0, <1>5, <1>9 DEF RefusePut, Fields, accounts
  <2>2. ans'[b].code = "400"
    BY <1>4, <2>1
  <2> QED
    BY <1>0, <1>1, <1>6, <2>1, <2>2 DEF Kept, Books, Uploads
<1>10. CASE Garble(b)
  <2>0. happened' = happened
    BY <1>10 DEF Garble, accounts
  <2>1. CASE ans[b] # None /\ ans' = [ans EXCEPT ![b] = Answer(@.code, None)]
    <3>1. PICK c : c = ans[b].code
      OBVIOUS
    <3>2. ans'[b] = Answer(c, None)
      BY <1>0, <2>1, <3>1 DEF Fields
    <3>3. ans'[b] # None /\ ans'[b].code = ans[b].code
      BY <1>4, <3>1, <3>2
    <3> QED
      BY <1>0, <1>1, <1>3, <2>0, <2>1, <3>3 DEF Kept, Books, Failed
  <2>2. CASE ans' = ans
    BY <1>0, <1>1, <1>3, <2>0, <2>2 DEF Kept, Books, Failed
  <2> QED
    BY <1>10, <2>1, <2>2 DEF Garble
<1> QED
  BY <1>7, <1>8, <1>9, <1>10

\* Nobody's accounts are changed by another.
LEMMA KeptStep == RInv /\ CInv /\ AInv /\ Next => Tallied' /\ \A c \in Builders : Kept(c)'
<1> SUFFICES ASSUME RInv, CInv, AInv, Next PROVE Tallied' /\ \A c \in Builders : Kept(c)'
  OBVIOUS
<1>0. Fields /\ Tallied /\ \A c \in Builders : Kept(c)
  BY DEF RInv, AInv
<1>1. ASSUME NEW c \in Builders, pc'[c] = pc[c], ans'[c] = ans[c], stats'[c] = stats[c],
             happened'[c] = happened[c], faults' >= faults, Tallied'
      PROVE  Kept(c)'
  <2>1. (faults > 0) => (faults' > 0)
    BY <1>0, <1>1 DEF Tallied
  <2> QED
    BY <1>0, <1>1, <2>1 DEF Kept, Books, Failed
<1>2. CASE \E b \in Builders : Does(b)
  <2>1. PICK b \in Builders : Does(b)
    BY <1>2
  <2>2. /\ Tallied' /\ faults' >= faults
        /\ \A c \in Builders \ {b} : stats'[c] = stats[c] /\ happened'[c] = happened[c]
    BY <1>0, <2>1, AccountsElsewhere
  <2>3. Kept(b)'
    BY <2>1, LookupKept, PutKept, ServedKept DEF Does, Step
  <2>4. ASSUME NEW c \in Builders \ {b}
        PROVE  Kept(c)'
    <3>1. pc'[c] = pc[c] /\ ans'[c] = ans[c]
      BY <1>0, <2>1, OthersSame DEF Same
    <3> QED
      BY <1>1, <2>2, <3>1
  <2> QED
    BY <2>2, <2>3, <2>4
<1>3. CASE ServeLate \/ \E s \in Stores : Damage(s) \/ Remove(s)
  <2>1. UNCHANGED <<pc, ans, stats, happened>> /\ (faults' = faults \/ Fault)
    BY <1>3 DEF ServeLate, Damage, Remove, control, network, accounts
  <2>2. Tallied' /\ faults' >= faults
    BY <1>0, <2>1 DEF Tallied, Fault
  <2> QED
    BY <1>1, <2>1, <2>2
<1> QED
  BY <1>2, <1>3 DEF Next, Does

\* Without a fault no store is damaged and none loses a blob.
LEMMA UntouchedStep ==
    ASSUME RInv, Tallied, Untouched, Next, faults' = faults
    PROVE  Untouched' /\ \A s \in Stores : blobs[s] \subseteq blobs'[s]
<1>0. Fields /\ Grows /\ ~Fault
  BY GrowsStep DEF RInv, Tallied, Fault
<1>1. ASSUME bad' = bad, gone' = gone \/ \E s, D : Keep(s, D)
      PROVE  Untouched' /\ \A s \in Stores : blobs[s] \subseteq blobs'[s]
  <2>1. Untouched'
    BY <1>0, <1>1 DEF Untouched, Keep, Fields
  <2> QED
    BY <1>0, <2>1 DEF Grows, Backed, Untouched
<1>2. ASSUME NEW b \in Builders, Does(b)
      PROVE  bad' = bad /\ (gone' = gone \/ \E s, D : Keep(s, D))
  <2>1. CASE GotBlob(b) \/ PutLocal(b)
    BY <2>1 DEF GotBlob, PutLocal, WriteBlob, Verified
  <2>2. CASE ServePut(b)
    BY <2>2 DEF ServePut, Accept, WriteBlob, Verified
  <2>3. CASE Begin(b) \/ LocalHit(b) \/ AskServer(b) \/ GotEntry(b) \/ Fetch(b) \/ Install(b)
    BY <2>3 DEF Begin, LocalHit, AskServer, GotEntry, Fetch, Install, stores, history
  <2>4. CASE Restore(b) \/ Exec(b) \/ Push(b) \/ PushEntry(b) \/ PutBlobAnswered(b)
             \/ PutEntryAnswered(b) \/ Return(b) \/ Timeout(b) \/ Kill(b)
    BY <2>4 DEF Restore, Exec, Push, PushEntry, PutBlobAnswered, PutEntryAnswered,
                Return, Timeout, Kill, stores, history
  <2>5. CASE ServeGet(b) \/ RefusePut(b) \/ Garble(b)
    BY <2>5 DEF ServeGet, RefusePut, Garble, stores, history
  <2> QED
    BY <1>2, <2>1, <2>2, <2>3, <2>4, <2>5 DEF Does, Step
<1>3. CASE ServeLate
  BY <1>1, <1>3 DEF ServeLate, Accept, WriteBlob, Verified
<1>4. ASSUME NEW s \in Stores
      PROVE  ~Damage(s) /\ ~Remove(s)
  BY <1>0 DEF Damage, Remove
<1> QED
  BY <1>1, <1>2, <1>3, <1>4 DEF Next, Does

\* Without a fault a lookup is told what is there, and that stays there.
LEMMA LookupSound ==
    ASSUME RInv, CInv, Untouched, NEW b \in Builders, Sound(b),
           \A s \in Stores : blobs[s] \subseteq blobs'[s],
           LocalHit(b) \/ AskServer(b) \/ GotEntry(b) \/ Fetch(b) \/ GotBlob(b) \/ Install(b)
    PROVE  Sound(b)'
<1>0. Fields /\ Local(b) /\ blobs[Server] \subseteq blobs'[Server]
  BY DEF RInv, Stores
<1>1. ASSUME pc'[b] \notin {"getEntry", "fetch", "getBlob", "push", "putBlob", "putEntry"}
      PROVE  Sound(b)'
  BY <1>1 DEF Sound, Uploads
<1>2. CASE LocalHit(b) \/ Install(b)
  <2>1. pc'[b] \in {"restore", "exec"}
    BY <1>0, <1>2 DEF LocalHit, Install, Fallback, Leave, Loop, Goto, Fields
  <2> QED
    BY <1>1, <2>1
<1>3. CASE AskServer(b)
  <2>1. pc'[b] = "getEntry" /\ ans'[b] = None
    BY <1>0, <1>3 DEF AskServer, Send, Goto, Fields
  <2> QED
    BY <2>1 DEF Sound, Uploads
<1>4. CASE GotEntry(b)
  <2>1. pc[b] = "getEntry" /\ ans[b] # None /\ ans'[b] = None
    BY <1>0, <1>4 DEF GotEntry, Settled, Fields
  <2>2. \/ pc'[b] = "exec"
        \/ /\ pc'[b] = "fetch" /\ want'[b] = ans[b].body
           /\ ans[b].code = "200" /\ ans[b].body # None
    BY <1>0, <1>4 DEF GotEntry, Fallback, Leave, Loop, Goto, Fields
  <2>3. CASE pc'[b] = "fetch"
    <3>1. Blobs(want'[b]) \subseteq blobs[Server]
      BY <2>1, <2>2, <2>3 DEF Sound
    <3> QED
      BY <1>0, <2>3, <3>1 DEF Sound, Uploads
  <2> QED
    BY <1>1, <2>2, <2>3
<1>5. CASE Fetch(b)
  <2>1. pc[b] = "fetch" /\ Blobs(want[b]) \subseteq blobs[Server]
    BY <1>5 DEF Fetch, Sound
  <2>2. CASE Advance(b, "fetch", "install")
    <3>1. pc'[b] \in {"fetch", "install"} /\ want' = want
      BY <1>0, <2>2, AdvanceKeeps
    <3> QED
      BY <1>0, <2>1, <3>1 DEF Sound, Uploads
  <2>3. CASE ~Advance(b, "fetch", "install")
    <3>1. PICK d : d = want[b][idx[b]]
      OBVIOUS
    <3>2. /\ pc'[b] = "getBlob" /\ want' = want /\ idx' = idx /\ ans'[b] = None
          /\ req'[b] = Get("getBlob", d)
      BY <1>0, <1>5, <2>3, <3>1 DEF Fetch, Send, Goto, loop, Fields
    <3>3. req'[b].name = d
      BY <3>2 DEF Get
    <3> QED
      BY <1>0, <2>1, <3>1, <3>2, <3>3 DEF Sound, Uploads
  <2> QED
    BY <2>2, <2>3
<1>6. CASE GotBlob(b)
  <2>1. pc[b] = "getBlob" /\ Blobs(want[b]) \subseteq blobs[Server]
    BY <1>6 DEF GotBlob, Sound
  <2>2. CASE Advance(b, "fetch", "install")
    <3>1. pc'[b] \in {"fetch", "install"} /\ want' = want
      BY <1>0, <2>2, AdvanceKeeps
    <3> QED
      BY <1>0, <2>1, <3>1 DEF Sound, Uploads
  <2>3. CASE ~Advance(b, "fetch", "install")
    <3>1. pc'[b] = "exec"
      BY <1>0, <1>6, <2>3 DEF GotBlob, Fallback, Leave, Loop, Goto, Fields
    <3> QED
      BY <1>1, <3>1
  <2> QED
    BY <2>2, <2>3
<1> QED
  BY <1>2, <1>3, <1>4, <1>5, <1>6

\* Without a fault an upload finds its blobs, and sends what they are.
LEMMA PutSound ==
    ASSUME RInv, CInv, Untouched, NEW b \in Builders, Sound(b),
           \A s \in Stores : blobs[s] \subseteq blobs'[s], ~Fault,
           \/ Begin(b) \/ Restore(b) \/ Exec(b) \/ PutLocal(b) \/ Push(b) \/ PushEntry(b)
           \/ PutBlobAnswered(b) \/ PutEntryAnswered(b) \/ Return(b) \/ Timeout(b) \/ Kill(b)
    PROVE  Sound(b)'
<1>0. Fields /\ Local(b) /\ b \in Stores /\ blobs[b] \subseteq blobs'[b]
  BY DEF RInv, Stores
<1>1. ASSUME pc'[b] \notin {"getEntry", "fetch", "getBlob", "push", "putBlob", "putEntry"}
      PROVE  Sound(b)'
  BY <1>1 DEF Sound, Uploads
<1>2. CASE Begin(b) \/ Restore(b) \/ Exec(b) \/ PutEntryAnswered(b) \/ Return(b) \/ Timeout(b)
           \/ Kill(b)
  <2>1. pc'[b] \in {"lookup", "idle", "exec", "put", "returned"}
    BY <1>0, <1>2 DEF Begin, Restore, Exec, PutEntryAnswered, Return, Timeout, Kill, Fallback,
                      Uploaded, Leave, Loop, Goto, Fields
  <2> QED
    BY <1>1, <2>1
<1>3. CASE PutLocal(b)
  <2>1. Keep(b, Blobs(ws[b])) /\ pc'[b] = "push" /\ want'[b] = ws[b]
    BY <1>0, <1>3 DEF PutLocal, Loop, Goto, Fields
  <2>2. Blobs(want'[b]) \subseteq blobs'[b]
    BY <1>0, <2>1 DEF Keep, Fields
  <2> QED
    BY <2>1, <2>2 DEF Sound, Uploads
<1>4. CASE Push(b)
  <2>1. pc[b] = "push" /\ Blobs(want[b]) \subseteq blobs[b]
    BY <1>4 DEF Push, Sound
  <2>2. CASE ReadBlob(b, want[b][idx[b]])
    <3>1. PICK d : d = want[b][idx[b]]
      OBVIOUS
    <3>2. /\ pc'[b] = "putBlob" /\ want' = want /\ ans'[b] = None
          /\ req'[b] = PutReq("putBlob", d, <<d>>)
      BY <1>0, <1>4, <2>2, <3>1 DEF Push, Send, Goto, loop, Fields
    <3>3. req'[b].name = d /\ req'[b].body = <<d>>
      BY <3>2 DEF PutReq
    <3> QED
      BY <1>0, <2>1, <3>2, <3>3 DEF Sound, Uploads
  <2>3. CASE ~ReadBlob(b, want[b][idx[b]])
    <3>1. pc'[b] = "returned"
      BY <1>0, <1>4, <2>3 DEF Push, Uploaded, Leave, Loop, Goto, Fields
    <3> QED
      BY <1>1, <3>1
  <2> QED
    BY <2>2, <2>3
<1>5. CASE PushEntry(b)
  <2>1. PICK k, e : k = key[b] /\ e = want[b]
    OBVIOUS
  <2>2. pc'[b] = "putEntry" /\ ans'[b] = None /\ req'[b] = PutReq("putEntry", k, e)
    BY <1>0, <1>5, <2>1 DEF PushEntry, Send, Goto, Fields
  <2>3. req'[b].body = want[b]
    BY <2>1, <2>2 DEF PutReq
  <2>4. want[b] # None
    <3>1. want[b] \in Full
      BY <1>0, <1>5 DEF PushEntry, Local, Loops
    <3>2. DOMAIN want[b] # {} /\ DOMAIN None = {}
      BY <3>1, OutputsAssumption DEF Full, None
    <3> QED
      BY <3>2
  <2> QED
    BY <2>2, <2>3, <2>4 DEF Sound, Uploads
<1>6. CASE PutBlobAnswered(b)
  <2>1. pc[b] = "putBlob" /\ Blobs(want[b]) \subseteq blobs[b] /\ ans'[b] = None
    BY <1>0, <1>6 DEF PutBlobAnswered, Settled, Sound, Fields
  <2>2. CASE Advance(b, "push", "pushEntry")
    <3>1. pc'[b] \in {"push", "pushEntry"} /\ want' = want
      BY <1>0, <2>2, AdvanceKeeps
    <3> QED
      BY <1>0, <2>1, <3>1 DEF Sound, Uploads
  <2>3. CASE ~Advance(b, "push", "pushEntry")
    <3>1. pc'[b] = "returned"
      BY <1>0, <1>6, <2>3 DEF PutBlobAnswered, Uploaded, Leave, Loop, Goto, Fields
    <3> QED
      BY <1>1, <3>1
  <2> QED
    BY <2>2, <2>3
<1> QED
  BY <1>2, <1>3, <1>4, <1>5, <1>6

\* Without a fault the server has what it is asked for, and takes what it is sent.
LEMMA ServedSound ==
    ASSUME RInv, CInv, Untouched, NEW b \in Builders, Sound(b),
           \A s \in Stores : blobs[s] \subseteq blobs'[s], ~Fault,
           ServeGet(b) \/ ServePut(b) \/ RefusePut(b) \/ Garble(b)
    PROVE  Sound(b)'
<1>0. /\ Fields /\ Local(b) /\ b \in Stores /\ Server \in Stores
      /\ blobs[b] \subseteq blobs'[b] /\ blobs[Server] \subseteq blobs'[Server]
  BY DEF RInv, Stores
<1>1. \A c, e : Answer(c, e).code = c /\ Answer(c, e).body = e
  BY DEF Answer
<1>2. ~Garble(b)
  BY DEF Garble
<1>3. pc' = pc /\ want' = want /\ idx' = idx /\ req' = req /\ req[b] # None
  BY <1>2 DEF ServeGet, ServePut, RefusePut, control, loop
<1>4. pc[b] = req[b].op
  BY <1>0, <1>3 DEF Local, Asked
<1>5. CASE ServeGet(b)
  <2>1. CASE req[b].op = "getEntry"
    <3>1. PICK k \in Keys : k = req[b].name
      BY <1>3, <2>1, RequestTyped
    <3>2. PICK e : e = entry[Server][k]
      OBVIOUS
    <3>3. CASE Usable(Server, k)
      <4>1. ans'[b] = Answer("200", e)
        BY <1>0, <1>5, <2>1, <3>1, <3>2, <3>3 DEF ServeGet, Fields
      <4>2. e # None /\ Blobs(e) \subseteq blobs[Server]
        BY <3>2, <3>3 DEF Usable, HasBlob
      <4> QED
        BY <1>0, <1>1, <1>3, <1>4, <2>1, <4>1, <4>2 DEF Sound, Uploads
    <3>4. CASE ~Usable(Server, k)
      <4>1. ans'[b] = Answer("404", None)
        BY <1>0, <1>5, <2>1, <3>1, <3>4 DEF ServeGet, Fields
      <4> QED
        BY <1>1, <1>3, <1>4, <2>1, <4>1 DEF Sound, Uploads
    <3> QED
      BY <3>3, <3>4
  <2>2. CASE req[b].op = "getBlob"
    <3>1. PICK d : d = req[b].name
      OBVIOUS
    <3>2. /\ pc[b] = "getBlob" /\ d = want[b][idx[b]] /\ Blobs(want[b]) \subseteq blobs[Server]
      BY <1>4, <2>2, <3>1 DEF Sound
    <3>3. d \in Blobs(want[b])
      BY <3>2, WantTyped, BlobsOfEntry
    <3>4. ReadBlob(Server, d)
      BY <1>0, <3>2, <3>3 DEF ReadBlob, Untouched
    <3>5. ans'[b] = Answer("200", <<d>>)
      BY <1>0, <1>5, <2>2, <3>1, <3>4 DEF ServeGet, Fields
    <3> QED
      BY <1>0, <1>1, <1>3, <3>1, <3>2, <3>5 DEF Sound, Uploads
  <2> QED
    BY <1>5, <2>1, <2>2 DEF ServeGet
<1>6. CASE ServePut(b)
  <2>1. ans'[b] = Answer("201", None) /\ req[b].op \in Uploads
    BY <1>0, <1>6 DEF ServePut, Accept, Uploads, Fields
  <2> QED
    BY <1>0, <1>1, <1>3, <1>4, <2>1 DEF Sound, Uploads
<1>7. ~RefusePut(b)
  <2>1. CASE req[b].op = "putBlob"
    BY <1>4, <2>1 DEF RefusePut, Acceptable, Verified, Sound
  <2>2. CASE req[b].op = "putEntry"
    BY <1>4, <2>2 DEF RefusePut, Acceptable, Sound
  <2> QED
    BY <2>1, <2>2 DEF RefusePut, Uploads
<1> QED
  BY <1>2, <1>5, <1>6, <1>7

\* Nothing goes wrong by itself.
LEMMA SoundStep ==
    ASSUME RInv, CInv, AInv, Next, faults' = 0
    PROVE  Untouched' /\ \A c \in Builders : Sound(c)'
<1>0. Fields /\ Tallied
  BY DEF RInv, AInv
<1>1. faults = 0 /\ ~Fault
  <2>1. faults' = faults \/ Fault
    <3>1. CASE \E b \in Builders : Does(b)
      BY <1>0, <3>1, AccountsElsewhere DEF Tallied
    <3>2. CASE ServeLate \/ \E s \in Stores : Damage(s) \/ Remove(s)
      BY <3>2 DEF ServeLate, Damage, Remove
    <3> QED
      BY <3>1, <3>2 DEF Next, Does
  <2> QED
    BY <1>0, <2>1 DEF Tallied, Fault
<1>2. Untouched /\ \A c \in Builders : Sound(c)
  BY <1>1 DEF AInv
<1>3. Untouched' /\ \A s \in Stores : blobs[s] \subseteq blobs'[s]
  BY <1>0, <1>1, <1>2, UntouchedStep
<1>4. ASSUME NEW c \in Builders, Same(c)
      PROVE  Sound(c)'
  <2>1. blobs[c] \subseteq blobs'[c] /\ blobs[Server] \subseteq blobs'[Server]
    BY <1>3 DEF Stores
  <2> QED
    BY <1>2, <1>4, <2>1 DEF Sound, Same
<1>5. CASE \E b \in Builders : Does(b)
  <2>1. PICK b \in Builders : Does(b)
    BY <1>5
  <2>2. Sound(b)'
    BY <1>1, <1>2, <1>3, <2>1, LookupSound, PutSound, ServedSound DEF Does, Step
  <2> QED
    BY <1>0, <1>3, <1>4, <2>1, <2>2, OthersSame
<1>6. CASE ServeLate \/ \E s \in Stores : Damage(s) \/ Remove(s)
  <2>1. \A c \in Builders : Same(c)
    BY <1>6 DEF ServeLate, Damage, Remove, Same, control, loop, network, outputs
  <2> QED
    BY <1>3, <1>4, <2>1
<1> QED
  BY <1>5, <1>6 DEF Next, Does

\* The accounts are kept, and true while nothing has gone wrong.
THEOREM AccountsInvariant == Spec => [](RInv /\ CInv /\ AInv)
<1>1. Init => AInv
  BY DEF Init, AInv, Tallied, Kept, Books, Untouched, Sound, Uploads, NoCounts
<1>2. RInv /\ CInv /\ AInv /\ Next => AInv'
  BY KeptStep, SoundStep DEF AInv
<1>3. RInv /\ CInv /\ AInv /\ UNCHANGED vars => AInv'
  BY DEF AInv, Tallied, Kept, Untouched, Sound, vars, stores, control, loop, network, accounts,
         history
<1> QED
  BY <1>1, <1>2, <1>3, WaitingInvariant, PTL DEF Spec

\* The types of module Remote.
THEOREM SharedCacheTypes == Spec => []TypeOK
<1>1. RInv /\ CInv /\ AInv /\ Placed => TypeOK
  <2> SUFFICES ASSUME RInv, CInv, AInv, Placed PROVE TypeOK
    OBVIOUS
  <2>1. blobs \in [Stores -> SUBSET Digests]
    BY DEF RInv, Fields
  <2>2. \A s \in Stores : bad[s] \subseteq blobs[s] /\ harmed[s] \subseteq blobs[s]
    BY DEF RInv, CInv, DamageDoesNotSpread, Harmed
  <2>3. NoCounts \in [Counters -> 0..1] /\ \A c : Only(c) \in [Counters -> 0..1]
    BY DEF NoCounts, Only
  <2>4. ASSUME NEW b \in Builders
        PROVE  \/ stats[b] = NoCounts
               \/ \E c : stats[b] = Only(c)
    <3>1. Kept(b) /\ pc[b] \in Busy \union Awaiting \union {"idle"}
      BY DEF AInv, Placed
    <3> QED
      BY <3>1 DEF Kept, Books, Failed, Busy, Awaiting, Uploads
  <2>5. \A b \in Builders : stats[b] \in [Counters -> 0..1]
    BY <2>3, <2>4
  <2>6. stats \in [Builders -> [Counters -> 0..1]]
    BY <2>5 DEF AInv, Tallied
  <2>7. \A b \in Builders :
           (req[b] # None) = (pc[b] \in {"getEntry", "getBlob", "putBlob", "putEntry"})
    BY DEF CInv, Waits, Awaiting, Uploads
  <2> QED
    BY <2>1, <2>2, <2>6, <2>7 DEF TypeOK
<1> QED
  BY AccountsInvariant, PlacedInvariant, <1>1, PTL

\* What StatsAreTrue says of a builder at l.
Truth(l, s, h, w) ==
    LET over == l \in {"restore", "exec", "returned"}
        handed == l = "restore" \/ "handed" \in h
    IN  /\ s["LocalHits"] + s["RemoteHits"] + s["Misses"] + s["Uploads"] + s["Errors"]
              = IF over /\ "unsaved" \notin h THEN 1 ELSE 0
        /\ s["LocalHits"] = 1 <=> handed /\ "given" \notin h
        /\ s["RemoteHits"] = 1 <=> handed /\ "given" \in h
        /\ s["Misses"] = 1 <=> l = "exec" /\ "absent" \in h /\ "late" \notin h
        /\ s["Uploads"] = 1 <=> l = "returned" /\ "stored" \in h /\ "late" \notin h
        /\ s["Errors"] = 1 => w \/ "late" \in h

\* The books say the truth.
LEMMA BooksAreTrue ==
    ASSUME NEW l \in Busy \union Awaiting \union {"idle"}, NEW a, NEW s, NEW h,
           NEW w \in BOOLEAN, Books(l, a, s, h, w)
    PROVE  Truth(l, s, h, w)
<1> USE DEF Truth
<1>1. /\ \A c \in Counters : NoCounts[c] = 0
      /\ \A c, d \in Counters : Only(c)[d] = IF d = c THEN 1 ELSE 0
  BY DEF NoCounts, Only
<1> USE <1>1 DEF Counters
<1>2. CASE l \notin {"restore", "exec", "returned"}
  <2>1. s = NoCounts /\ h \subseteq {"absent", "given", "stored"}
    BY <1>2 DEF Books, Busy, Awaiting, Uploads
  <2> QED
    BY <1>2, <2>1
<1>3. CASE l = "restore"
  <2>1. \/ s = Only("LocalHits") /\ h = {}
        \/ s = Only("RemoteHits") /\ h = {"given"}
    BY <1>3 DEF Books
  <2> QED
    BY <1>3, <2>1
<1>4. CASE l = "exec"
  <2>1. CASE s = Only("LocalHits") /\ h = {"handed"}
    BY <1>4, <2>1
  <2>2. CASE s = Only("RemoteHits") /\ h = {"given", "handed"}
    BY <1>4, <2>2
  <2>3. CASE s = Only("Misses") /\ h = {"absent"}
    BY <1>4, <2>3
  <2>4. CASE Failed(s, h, w)
    BY <1>4, <2>4 DEF Failed
  <2> QED
    BY <1>4, <2>1, <2>2, <2>3, <2>4 DEF Books
<1>5. CASE l = "returned"
  <2>1. CASE s = NoCounts /\ h = {"unsaved"}
    BY <1>5, <2>1
  <2>2. CASE s = Only("Uploads") /\ h = {"stored"}
    BY <1>5, <2>2
  <2>3. CASE Failed(s, h, w)
    BY <1>5, <2>3 DEF Failed
  <2> QED
    BY <1>5, <2>1, <2>2, <2>3 DEF Books
<1> QED
  BY <1>2, <1>3, <1>4, <1>5

\* Stats says what happened: who had the entry of every hit, what the server said
\* of every miss and every upload, and that something went wrong or was late for
\* every error; one counter for every call but a Put that fails locally.
THEOREM StatsTellTheTruth == Spec => []StatsAreTrue
<1>1. AInv /\ Placed => StatsAreTrue
  <2> SUFFICES ASSUME AInv, Placed PROVE StatsAreTrue
    OBVIOUS
  <2>1. \A b \in Builders : /\ pc[b] \in Busy \union Awaiting \union {"idle"}
                            /\ Books(pc[b], ans[b], stats[b], happened[b], faults > 0)
    BY DEF AInv, Kept, Placed
  <2>2. \A b \in Builders : Truth(pc[b], stats[b], happened[b], faults > 0)
    <3>1. (faults > 0) \in BOOLEAN
      OBVIOUS
    <3> QED
      BY <2>1, <3>1, BooksAreTrue, Zenon
  <2> QED
    BY <2>2 DEF StatsAreTrue, Truth
<1> QED
  BY AccountsInvariant, PlacedInvariant, <1>1, PTL

-----------------------------------------------------------------------------
(* The shared cache implements what a runner may expect of a cache         *)
(* (CacheSpec): every step of Remote is a step of CacheSpec, or none.      *)
(*                                                                         *)
(* A hit has to restore what one run recorded under its key.  The          *)
(* invariant follows an entry from the Put that made it, through uploads,  *)
(* late ones included, the server and downloads, to the restore.           *)

\* Outputs e, if any, are what a run recorded under key k.
Genuine(k, e) == e = None \/ <<k, e>> \in recorded

Told(b) ==
    /\ pc[b] \in {"fetch", "getBlob", "install", "restore"} => <<key[b], want[b]>> \in recorded
    /\ pc[b] \in {"push", "putBlob", "pushEntry", "putEntry"} => <<key[b], want[b]>> \in recorded
    /\ pc[b] = "getEntry" /\ ans[b] # None /\ ans[b].code = "200" =>
          Genuine(key[b], ans[b].body)

EntriesTold == \A s \in Stores, k \in Keys : Genuine(k, entry[s][k])

LateTold == \A r \in late : r.op = "putEntry" => Genuine(r.name, r.body)

PInv == (\A b \in Builders : Told(b)) /\ EntriesTold /\ LateTold

-----------------------------------------------------------------------------
\* What was recorded once stays recorded.
LEMMA RecordedGrows == Next => recorded \subseteq recorded'
<1> SUFFICES ASSUME Next PROVE recorded \subseteq recorded'
  OBVIOUS
<1>1. ASSUME NEW b \in Builders, Does(b)
      PROVE  recorded \subseteq recorded'
  <2>1. CASE Begin(b) \/ LocalHit(b) \/ AskServer(b) \/ GotEntry(b) \/ Fetch(b) \/ GotBlob(b)
    BY <2>1 DEF Begin, LocalHit, AskServer, GotEntry, Fetch, GotBlob, history
  <2>2. CASE Install(b) \/ Restore(b) \/ Exec(b) \/ PutLocal(b) \/ Push(b) \/ PushEntry(b)
    BY <2>2 DEF Install, Restore, Exec, PutLocal, Push, PushEntry, history
  <2>3. CASE PutBlobAnswered(b) \/ PutEntryAnswered(b) \/ Return(b) \/ Timeout(b) \/ Kill(b)
    BY <2>3 DEF PutBlobAnswered, PutEntryAnswered, Return, Timeout, Kill, history
  <2>4. CASE ServeGet(b) \/ ServePut(b) \/ RefusePut(b) \/ Garble(b)
    BY <2>4 DEF ServeGet, ServePut, RefusePut, Garble, history
  <2> QED
    BY <1>1, <2>1, <2>2, <2>3, <2>4 DEF Does, Step
<1>2. CASE ServeLate \/ \E s \in Stores : Damage(s) \/ Remove(s)
  BY <1>2 DEF ServeLate, Damage, Remove
<1> QED
  BY <1>1, <1>2 DEF Next, Does

\* An upload carries the entry of its builder's last Put.
LEMMA UploadTold ==
    ASSUME RInv, PInv, NEW b \in Builders, req[b] # None, req[b].op = "putEntry"
    PROVE  req[b].name \in Keys /\ Genuine(req[b].name, req[b].body)
<1>1. Asked(b) /\ Told(b) /\ Fields
  BY DEF RInv, PInv, Local
<1>2. /\ pc[b] = "putEntry" /\ req[b].name = key[b]
      /\ req[b].body = None \/ req[b].body = want[b]
  BY <1>1 DEF Asked
<1> QED
  BY <1>1, <1>2 DEF Told, Genuine, Fields

\* The builder that acts is still told the truth.
LEMMA ActorTold ==
    ASSUME RInv, PInv, NEW b \in Builders, Does(b), recorded \subseteq recorded'
    PROVE  Told(b)'
<1>0. /\ Fields /\ Told(b) /\ key[b] \in Keys /\ b \in Stores /\ Server \in Stores
      /\ \A k \in Keys : Genuine(k, entry[b][k]) /\ Genuine(k, entry[Server][k])
  BY DEF RInv, PInv, EntriesTold, Fields, Stores
<1>1. ASSUME pc'[b] \in {"idle", "lookup", "exec", "put", "returned"}
      PROVE  Told(b)'
  BY <1>1 DEF Told
<1>2. ASSUME want'[b] = want[b], key'[b] = key[b], <<key[b], want[b]>> \in recorded,
             pc'[b] # "getEntry"
      PROVE  Told(b)'
  BY <1>2 DEF Told
<1>3. ASSUME pc'[b] = "getEntry", ans'[b] = None
      PROVE  Told(b)'
  BY <1>3 DEF Told
<1>4. CASE Begin(b) \/ Exec(b) \/ Restore(b) \/ PutEntryAnswered(b)
          \/ Return(b) \/ Timeout(b) \/ Kill(b)
  <2>1. pc'[b] \in {"idle", "lookup", "exec", "put", "returned"}
    BY <1>0, <1>4 DEF Begin, Exec, Restore, PutEntryAnswered, Return, Timeout, Kill, Uploaded,
                      Fallback, Leave, Loop, Goto, Fields
  <2> QED
    BY <1>1, <2>1
<1>5. CASE LocalHit(b)
  <2>1. /\ entry[b][key[b]] # None /\ pc'[b] = "restore" /\ key' = key
        /\ want'[b] = entry[b][key[b]]
    BY <1>0, <1>5 DEF LocalHit, Usable, Loop, Goto, Fields
  <2> QED
    BY <1>0, <2>1 DEF Told, Genuine
<1>6. CASE AskServer(b)
  <2>1. pc'[b] = "getEntry" /\ ans'[b] = None
    BY <1>0, <1>6 DEF AskServer, Send, Goto, Fields
  <2> QED
    BY <1>3, <2>1
<1>7. CASE GotEntry(b)
  <2>1. CASE ans[b].code = "200" /\ ans[b].body # None
    <3>1. pc[b] = "getEntry" /\ ans[b] # None /\ key' = key
      BY <1>7 DEF GotEntry
    <3>2. pc'[b] = "fetch" /\ want'[b] = ans[b].body
      BY <1>0, <1>7, <2>1 DEF GotEntry, Loop, Goto, Fields
    <3> QED
      BY <1>0, <2>1, <3>1, <3>2 DEF Told, Genuine
  <2>2. CASE ~(ans[b].code = "200" /\ ans[b].body # None)
    <3>1. pc'[b] = "exec"
      BY <1>0, <1>7, <2>2 DEF GotEntry, Fallback, Leave, Loop, Goto, Fields
    <3> QED
      BY <1>1, <3>1
  <2> QED
    BY <2>1, <2>2
<1>8. CASE Fetch(b) \/ GotBlob(b) \/ Install(b)
  <2>1. pc[b] \in {"fetch", "getBlob", "install"} /\ key' = key
    BY <1>8 DEF Fetch, GotBlob, Install
  <2>2. \/ want' = want /\ pc'[b] \in {"fetch", "getBlob", "install", "restore"}
        \/ pc'[b] = "exec"
    <3>1. CASE Advance(b, "fetch", "install")
      BY <1>0, <3>1, AdvanceKeeps
    <3>2. CASE ~Advance(b, "fetch", "install")
      BY <1>0, <1>8, <3>2 DEF Fetch, GotBlob, Install, Send, Fallback, Leave, Loop, Goto, loop,
                              Fields
    <3> QED
      BY <3>1, <3>2
  <2> QED
    BY <1>0, <1>1, <1>2, <2>1, <2>2 DEF Told
<1>9. CASE PutLocal(b)
  <2>1. \/ pc'[b] = "push" /\ want'[b] = ws[b] /\ recorded' = recorded \union {<<key[b], ws[b]>>}
        \/ pc'[b] = "returned"
    BY <1>0, <1>9 DEF PutLocal, Leave, Loop, Goto, Fields
  <2>2. key' = key
    BY <1>9 DEF PutLocal
  <2> QED
    BY <1>1, <2>1, <2>2 DEF Told
<1>10. CASE Push(b) \/ PutBlobAnswered(b) \/ PushEntry(b)
  <2>1. pc[b] \in {"push", "putBlob", "pushEntry"} /\ key' = key
    BY <1>10 DEF Push, PutBlobAnswered, PushEntry
  <2>2. \/ want' = want /\ pc'[b] \in {"push", "putBlob", "pushEntry", "putEntry"}
        \/ pc'[b] = "returned"
    <3>1. CASE Advance(b, "push", "pushEntry")
      BY <1>0, <3>1, AdvanceKeeps
    <3>2. CASE ~Advance(b, "push", "pushEntry")
      BY <1>0, <1>10, <3>2 DEF Push, PutBlobAnswered, PushEntry, Send, Uploaded, Leave, Loop, Goto,
                               loop, Fields
    <3> QED
      BY <3>1, <3>2
  <2> QED
    BY <1>0, <1>1, <1>2, <2>1, <2>2 DEF Told
<1>11. CASE ServeGet(b)
  <2>1. UNCHANGED <<pc, key, want>> /\ req[b] # None /\ req[b].op \in {"getEntry", "getBlob"}
    BY <1>11 DEF ServeGet, control, loop
  <2>2. CASE req[b].op = "getEntry"
    <3>1. PICK k \in Keys : k = key[b] /\ req[b].name = k /\ pc[b] = "getEntry"
      BY <1>0, <2>1, <2>2 DEF RInv, Local, Asked
    <3>2. \E c \in {"200", "404"}, e \in {None, entry[Server][k]} : ans'[b] = Answer(c, e)
      BY <1>0, <1>11, <2>2, <3>1 DEF ServeGet, Fields
    <3>3. PICK c \in {"200", "404"}, e \in {None, entry[Server][k]} : ans'[b] = Answer(c, e)
      BY <3>2
    <3>4. ans'[b].body = e
      BY <3>3 DEF Answer
    <3>5. Genuine(k, e)
      BY <1>0, <3>1 DEF Genuine
    <3> QED
      BY <2>1, <3>1, <3>4, <3>5 DEF Told, Genuine
  <2>3. CASE req[b].op = "getBlob"
    <3>1. pc[b] = "getBlob"
      BY <2>1, <2>3 DEF RInv, Local, Asked
    <3> QED
      BY <1>0, <2>1, <3>1 DEF Told
  <2> QED
    BY <2>1, <2>2, <2>3
<1>12. CASE ServePut(b) \/ RefusePut(b)
  <2>1. UNCHANGED <<pc, key, want>> /\ req[b] # None /\ req[b].op \in Uploads
    BY <1>12 DEF ServePut, RefusePut, Accept, control, loop, Uploads
  <2>2. pc[b] \in {"putBlob", "putEntry"}
    BY <2>1 DEF RInv, Local, Asked, Uploads
  <2> QED
    BY <1>0, <2>1, <2>2 DEF Told
<1>13. CASE Garble(b)
  <2>1. UNCHANGED <<pc, key, want>>
    BY <1>13 DEF Garble, control, loop
  <2>2. ans' = ans \/ ans'[b].body = None
    <3>1. PICK c : c = ans[b].code
      OBVIOUS
    <3>2. ans' = ans \/ ans'[b] = Answer(c, None)
      BY <1>0, <1>13, <3>1 DEF Garble, Fields
    <3> QED
      BY <3>2 DEF Answer
  <2> QED
    BY <1>0, <2>1, <2>2 DEF Told, Genuine
<1> QED
  BY <1>4, <1>5, <1>6, <1>7, <1>8, <1>9, <1>10, <1>11, <1>12, <1>13 DEF Does, Step

\* A builder that does nothing is told nothing new.
LEMMA OthersTold ==
    ASSUME PInv, NEW c \in Builders, Same(c), recorded \subseteq recorded'
    PROVE  Told(c)'
BY DEF PInv, Told, Same, Genuine

\* An entry is recorded as it was told.
LEMMA EntriesToldStep ==
    ASSUME RInv, PInv, Next, recorded \subseteq recorded'
    PROVE  EntriesTold'
<1>0. Fields /\ EntriesTold
  BY DEF RInv, PInv
<1>1. ASSUME entry' = entry
      PROVE  EntriesTold'
  BY <1>0, <1>1 DEF EntriesTold, Genuine
<1>2. ASSUME NEW s \in Stores, NEW k \in Keys, NEW e, entry' = [entry EXCEPT ![s][k] = e],
             e = None \/ <<k, e>> \in recorded'
      PROVE  EntriesTold'
  <2>1. ASSUME NEW t \in Stores, NEW l \in Keys
        PROVE  entry'[t][l] = None \/ <<l, entry'[t][l]>> \in recorded'
    <3>1. CASE t = s /\ l = k
      <4>1. entry'[t][l] = e
        BY <1>0, <1>2, <3>1 DEF Fields
      <4> QED
        BY <1>2, <3>1, <4>1
    <3>2. CASE ~(t = s /\ l = k)
      <4>1. entry'[t][l] = entry[t][l]
        BY <1>0, <1>2, <2>1, <3>2 DEF Fields
      <4> QED
        BY <1>0, <2>1, <4>1 DEF EntriesTold, Genuine
    <3> QED
      BY <3>1, <3>2
  <2> QED
    BY <2>1 DEF EntriesTold, Genuine
<1>3. ASSUME NEW r, Accept(r),
             r.op = "putEntry" => r.name \in Keys /\ Genuine(r.name, r.body)
      PROVE  EntriesTold'
  <2>1. CASE entry' = entry
    BY <1>1, <2>1
  <2>2. CASE r.op = "putEntry" /\ entry' = [entry EXCEPT ![Server][r.name] = r.body]
    <3>1. Server \in Stores
      BY DEF Stores
    <3>2. r.body = None \/ <<r.name, r.body>> \in recorded'
      BY <1>3, <2>2 DEF Genuine
    <3> QED
      BY <1>2, <1>3, <2>2, <3>1, <3>2
  <2> QED
    BY <1>3, <2>1, <2>2 DEF Accept
<1>4. ASSUME NEW b \in Builders, Does(b)
      PROVE  EntriesTold'
  <2>0. key[b] \in Keys /\ b \in Stores /\ Told(b)
    BY <1>0 DEF Fields, Stores, PInv
  <2>1. CASE Install(b)
    <3>1. CASE entry' = entry
      BY <1>1, <3>1
    <3>2. CASE entry' = [entry EXCEPT ![b][key[b]] = want[b]]
      <4>1. <<key[b], want[b]>> \in recorded'
        BY <2>0, <2>1 DEF Install, Told
      <4> QED
        BY <1>2, <2>0, <3>2, <4>1
    <3> QED
      BY <2>1, <3>1, <3>2 DEF Install
  <2>2. CASE PutLocal(b)
    <3>1. CASE entry' = entry
      BY <1>1, <3>1
    <3>2. CASE /\ entry' = [entry EXCEPT ![b][key[b]] = ws[b]]
               /\ recorded' = recorded \union {<<key[b], ws[b]>>}
      BY <1>2, <2>0, <3>2
    <3> QED
      BY <2>2, <3>1, <3>2 DEF PutLocal
  <2>3. CASE ServePut(b)
    <3>1. req[b] # None /\ Accept(req[b])
      BY <2>3 DEF ServePut
    <3>2. PICK r : r = req[b]
      OBVIOUS
    <3>3. r.op = "putEntry" => r.name \in Keys /\ Genuine(r.name, r.body)
      BY <3>1, <3>2, UploadTold
    <3> QED
      BY <1>3, <3>1, <3>2, <3>3
  <2>4. CASE ~Install(b) /\ ~PutLocal(b) /\ ~ServePut(b)
    <3>1. CASE Begin(b) \/ LocalHit(b) \/ AskServer(b) \/ GotEntry(b) \/ Fetch(b) \/ GotBlob(b)
      BY <1>1, <3>1 DEF Begin, LocalHit, AskServer, GotEntry, Fetch, GotBlob, stores
    <3>2. CASE Restore(b) \/ Exec(b) \/ Push(b) \/ PushEntry(b) \/ PutBlobAnswered(b)
               \/ PutEntryAnswered(b) \/ Return(b) \/ Timeout(b) \/ Kill(b)
      BY <1>1, <3>2 DEF Restore, Exec, Push, PushEntry, PutBlobAnswered, PutEntryAnswered,
                        Return, Timeout, Kill, stores
    <3>3. CASE ServeGet(b) \/ RefusePut(b) \/ Garble(b)
      BY <1>1, <3>3 DEF ServeGet, RefusePut, Garble, stores
    <3> QED
      BY <1>4, <2>4, <3>1, <3>2, <3>3 DEF Does, Step
  <2> QED
    BY <2>1, <2>2, <2>3, <2>4
<1>5. CASE ServeLate
  <2>1. PICK r \in late : Accept(r)
    BY <1>5 DEF ServeLate
  <2>2. r.op = "putEntry" => Genuine(r.name, r.body)
    BY <2>1 DEF PInv, LateTold
  <2>3. r.op = "putEntry" => r.name \in Keys
    BY <2>1 DEF RInv, LateUploads
  <2> QED
    BY <1>3, <2>1, <2>2, <2>3
<1>6. CASE \E s \in Stores : Damage(s) \/ Remove(s)
  BY <1>1, <1>6 DEF Damage, Remove
<1> QED
  BY <1>4, <1>5, <1>6 DEF Next, Does

\* So is an upload that is served after its client has given up.
LEMMA LateToldStep ==
    ASSUME RInv, PInv, Next, recorded \subseteq recorded'
    PROVE  LateTold'
<1>0. LateTold
  BY DEF PInv
<1>1. ASSUME late' \subseteq late
      PROVE  LateTold'
  BY <1>0, <1>1 DEF LateTold, Genuine
<1>2. ASSUME NEW b \in Builders, Timeout(b) \/ Kill(b)
      PROVE  LateTold'
  <2>1. CASE late' = late
    BY <1>1, <2>1
  <2>2. CASE req[b] # None /\ late' = late \union {req[b]}
    <3>1. PICK r : r = req[b]
      OBVIOUS
    <3>2. r.op = "putEntry" => Genuine(r.name, r.body)
      BY <2>2, <3>1, UploadTold
    <3>3. late' = late \union {r}
      BY <2>2, <3>1
    <3> QED
      BY <1>0, <3>2, <3>3 DEF LateTold, Genuine
  <2> QED
    BY <1>2, <2>1, <2>2 DEF Timeout, Kill, Forsake
<1>3. ASSUME NEW b \in Builders, Does(b), ~Timeout(b), ~Kill(b)
      PROVE  late' = late
  <2>1. CASE Begin(b) \/ LocalHit(b) \/ AskServer(b) \/ GotEntry(b) \/ Fetch(b) \/ GotBlob(b)
    BY <2>1 DEF Begin, LocalHit, AskServer, GotEntry, Fetch, GotBlob, network
  <2>2. CASE Install(b) \/ Restore(b) \/ Exec(b) \/ PutLocal(b) \/ Push(b) \/ PushEntry(b)
    BY <2>2 DEF Install, Restore, Exec, PutLocal, Push, PushEntry, network
  <2>3. CASE PutBlobAnswered(b) \/ PutEntryAnswered(b) \/ Return(b)
    BY <2>3 DEF PutBlobAnswered, PutEntryAnswered, Return, network
  <2>4. CASE ServeGet(b) \/ ServePut(b) \/ RefusePut(b) \/ Garble(b)
    BY <2>4 DEF ServeGet, ServePut, RefusePut, Garble
  <2> QED
    BY <1>3, <2>1, <2>2, <2>3, <2>4 DEF Does, Step
<1>4. CASE ServeLate \/ \E s \in Stores : Damage(s) \/ Remove(s)
  BY <1>1, <1>4 DEF ServeLate, Damage, Remove, network
<1> QED
  BY <1>1, <1>2, <1>3, <1>4 DEF Next, Does

\* Everything a builder is told was recorded by some run under its key.
THEOREM ToldInvariant == Spec => [](RInv /\ PInv)
<1>1. Init => PInv
  BY DEF Init, PInv, Told, EntriesTold, LateTold, Genuine
<1>2. RInv /\ PInv /\ Next => PInv'
  <2> SUFFICES ASSUME RInv, PInv, Next PROVE PInv'
    OBVIOUS
  <2>1. recorded \subseteq recorded'
    BY RecordedGrows
  <2>2. ASSUME NEW c \in Builders
        PROVE  Told(c)'
    <3>1. CASE \E b \in Builders : Does(b)
      <4>1. PICK b \in Builders : Does(b)
        BY <3>1
      <4>2. CASE b = c
        BY <2>1, <4>1, <4>2, ActorTold
      <4>3. CASE b # c
        BY <2>1, <2>2, <4>1, <4>3, OthersSame, OthersTold DEF RInv
      <4> QED
        BY <4>2, <4>3
    <3>2. CASE ServeLate \/ \E s \in Stores : Damage(s) \/ Remove(s)
      <4>1. Same(c)
        BY <3>2 DEF ServeLate, Damage, Remove, Same, control, loop, network, outputs
      <4> QED
        BY <2>1, <2>2, <4>1, OthersTold
    <3> QED
      BY <3>1, <3>2 DEF Next, Does
  <2> QED
    BY <2>1, <2>2, EntriesToldStep, LateToldStep DEF PInv
<1>3. RInv /\ PInv /\ UNCHANGED vars => PInv'
  BY DEF PInv, Told, EntriesTold, LateTold, Genuine, vars, stores, control, loop, network, history
<1> QED
  BY <1>1, <1>2, <1>3, InitRInv, NextRInv, StutterRInv, PTL DEF Spec

-----------------------------------------------------------------------------
(* The refinement.                                                         *)

\* A step of a builder's pc is a step of its phase.
LEMMA PhaseMoves ==
    ASSUME Fields, NEW b \in Builders, NEW l, Goto(b, l)
    PROVE  phase[b] = Phase(pc[b]) /\ phase' = [phase EXCEPT ![b] = Phase(l)]
<1>1. \A c \in Builders : pc'[c] = IF c = b THEN l ELSE pc[c]
  BY DEF Fields, Goto
<1>2. \A c \in Builders : phase'[c] = IF c = b THEN Phase(l) ELSE phase[c]
  BY <1>1 DEF phase
<1> QED
  BY <1>2 DEF phase

\* The phases of the places a builder can be at.
LEMMA Phases ==
    /\ Phase("idle") = "idle" /\ Phase("returned") = "idle" /\ Phase("exec") = "running"
    /\ \A l \in {"lookup", "getEntry", "fetch", "getBlob", "install", "restore"} :
          Phase(l) = "asked"
    /\ \A l \in {"put", "push", "putBlob", "pushEntry", "putEntry"} : Phase(l) = "made"
BY DEF Phase

\* A step within a phase is none of the runner's business.
LEMMA PhaseStays ==
    ASSUME Fields, NEW b \in Builders, NEW l, Goto(b, l), Phase(l) = Phase(pc[b])
    PROVE  phase' = phase
<1>1. phase[b] = Phase(pc[b]) /\ phase' = [phase EXCEPT ![b] = Phase(l)]
  BY PhaseMoves
<1>2. phase' = [phase EXCEPT ![b] = phase[b]]
  BY <1>1
<1> QED
  BY <1>2 DEF phase

\* A loop goes on or is over.
LEMMA AdvanceGoes ==
    ASSUME NEW b, NEW l, NEW m, Advance(b, l, m)
    PROVE  Goto(b, l) \/ Goto(b, m)
BY DEF Advance

\* Every step of Remote is a step of CacheSpec, or changes nothing of it.
LEMMA StepRefines ==
    ASSUME RInv, PInv, [Next]_vars
    PROVE  [Promise!Next]_(Promise!vars)
<1>0. Fields
  BY DEF RInv
<1> USE DEF Promise!Move
<1>1. ASSUME UNCHANGED <<phase, key, ws, recorded, cached>>
      PROVE  [Promise!Next]_(Promise!vars)
  BY <1>1 DEF Promise!vars
<1>2. ASSUME UNCHANGED <<pc, key, ws, recorded, cached>>
      PROVE  [Promise!Next]_(Promise!vars)
  <2>1. phase' = phase
    BY <1>2 DEF phase
  <2> QED
    BY <1>1, <1>2, <2>1
<1>3. ASSUME NEW b \in Builders,
             \/ Promise!Ask(b) \/ Promise!Restoring(b) \/ Promise!Record(b)
             \/ Promise!Answer(b) \/ Promise!Finish(b)
      PROVE  [Promise!Next]_(Promise!vars)
  BY <1>3 DEF Promise!Next
<1>4. ASSUME NEW b \in Builders, Does(b)
      PROVE  [Promise!Next]_(Promise!vars)
  <2>0. Told(b)
    BY DEF PInv
  <2>1. CASE Begin(b)
    <3>1. Goto(b, "lookup") /\ pc[b] = "idle"
      BY <2>1 DEF Begin
    <3>2. Promise!Move(b, "idle", "asked")
      BY <1>0, <3>1, PhaseMoves, Phases
    <3>3. Promise!Ask(b)
      BY <2>1, <3>2 DEF Begin, Promise!Ask, history
    <3> QED
      BY <1>3, <3>3
  <2>2. CASE LocalHit(b) \/ AskServer(b)
    <3>1. pc[b] = "lookup" /\ (Goto(b, "restore") \/ Goto(b, "getEntry"))
      BY <2>2 DEF LocalHit, AskServer, Loop, Send
    <3>2. phase' = phase
      BY <1>0, <3>1, PhaseStays, Phases
    <3> QED
      BY <1>1, <2>2, <3>2 DEF LocalHit, AskServer, outputs, history
  <2>3. CASE GotEntry(b) \/ Fetch(b) \/ GotBlob(b) \/ Install(b)
    <3>1. /\ UNCHANGED <<key, ws, recorded, cached>>
          /\ pc[b] \in {"getEntry", "fetch", "getBlob", "install"}
      BY <2>3 DEF GotEntry, Fetch, GotBlob, Install, outputs, history
    <3>2. CASE Goto(b, "exec")
      <4>1. Promise!Move(b, "asked", "running")
        BY <1>0, <3>1, <3>2, PhaseMoves, Phases
      <4>2. Promise!Miss(b)
        BY <3>1, <4>1 DEF Promise!Miss
      <4> QED
        BY <1>3, <4>2 DEF Promise!Answer
    <3>3. CASE \E l \in {"fetch", "getBlob", "install", "restore"} : Goto(b, l)
      <4>1. phase' = phase
        BY <1>0, <3>1, <3>3, PhaseStays, Phases
      <4> QED
        BY <1>1, <3>1, <4>1
    <3>4. CASE Advance(b, "fetch", "install")
      BY <3>3, <3>4, AdvanceGoes
    <3> QED
      BY <2>3, <3>2, <3>3, <3>4 DEF GotEntry, Fetch, GotBlob, Install, Fallback, Leave, Loop, Send
  <2>4. CASE Restore(b)
    <3>1. pc[b] = "restore" /\ UNCHANGED <<key, recorded>>
      BY <2>4 DEF Restore, history
    <3>2. CASE /\ Goto(b, "idle")
               /\ ws' = [ws EXCEPT ![b] = want[b]] /\ cached' = cached \union {b}
      <4>1. Promise!Move(b, "asked", "idle")
        BY <1>0, <3>1, <3>2, PhaseMoves, Phases
      <4>2. <<key[b], want[b]>> \in recorded
        BY <2>0, <3>1 DEF Told
      <4>3. Promise!Hit(b)
        BY <3>1, <3>2, <4>1, <4>2 DEF Promise!Hit
      <4> QED
        BY <1>3, <4>3 DEF Promise!Answer
    <3>3. CASE Goto(b, "exec") /\ ws' = [ws EXCEPT ![b] = None] /\ cached' = cached
      <4>1. Promise!Move(b, "asked", "running")
        BY <1>0, <3>1, <3>3, PhaseMoves, Phases
      <4>2. Promise!Scribble(b)
        BY <3>3 DEF Promise!Scribble, Promise!Contents, Promise!Mixed, None
      <4>3. Promise!Miss(b)
        BY <3>1, <3>3, <4>1, <4>2 DEF Promise!Miss
      <4> QED
        BY <1>3, <4>3 DEF Promise!Answer
    <3> QED
      BY <2>4, <3>2, <3>3 DEF Restore, Leave, Loop
  <2>5. CASE Exec(b)
    <3>1. pc[b] = "exec" /\ UNCHANGED <<key, recorded, cached>>
      BY <2>5 DEF Exec, history
    <3>2. CASE \E o \in Makes[key[b]] : ws' = [ws EXCEPT ![b] = o] /\ Goto(b, "put")
      <4>1. Promise!Move(b, "running", "made")
        BY <1>0, <3>1, <3>2, PhaseMoves, Phases
      <4>2. Promise!Run(b)
        BY <3>1, <3>2, <4>1 DEF Promise!Run
      <4> QED
        BY <1>3, <4>2 DEF Promise!Finish
    <3>3. CASE ws' = [ws EXCEPT ![b] = None] /\ Goto(b, "idle")
      <4>1. Promise!Move(b, "running", "idle")
        BY <1>0, <3>1, <3>3, PhaseMoves, Phases
      <4>2. Promise!Scribble(b)
        BY <3>3 DEF Promise!Scribble, Promise!Contents, Promise!Mixed, None
      <4>3. Promise!Fail(b)
        BY <3>1, <4>1, <4>2 DEF Promise!Fail
      <4> QED
        BY <1>3, <4>3 DEF Promise!Finish
    <3> QED
      BY <2>5, <3>2, <3>3 DEF Exec
  <2>6. CASE PutLocal(b)
    <3>1. pc[b] = "put" /\ UNCHANGED <<key, ws, cached>>
      BY <2>6 DEF PutLocal, outputs
    <3>2. CASE Goto(b, "push") /\ recorded' = recorded \union {<<key[b], ws[b]>>}
      <4>1. phase' = phase /\ phase[b] = "made"
        BY <1>0, <3>1, <3>2, PhaseStays, PhaseMoves, Phases
      <4>2. Promise!Record(b)
        BY <3>1, <3>2, <4>1 DEF Promise!Record
      <4> QED
        BY <1>3, <4>2
    <3>3. CASE Goto(b, "returned") /\ recorded' = recorded
      <4>1. Promise!Move(b, "made", "idle")
        BY <1>0, <3>1, <3>3, PhaseMoves, Phases
      <4>2. Promise!Done(b)
        BY <3>1, <3>3, <4>1 DEF Promise!Done
      <4> QED
        BY <1>3, <4>2 DEF Promise!Finish
    <3> QED
      BY <2>6, <3>2, <3>3 DEF PutLocal, Leave, Loop
  <2>7. CASE Push(b) \/ PutBlobAnswered(b) \/ PushEntry(b) \/ PutEntryAnswered(b)
    <3>1. /\ UNCHANGED <<key, ws, recorded, cached>>
          /\ pc[b] \in {"push", "putBlob", "pushEntry", "putEntry"}
      BY <2>7 DEF Push, PutBlobAnswered, PushEntry, PutEntryAnswered, outputs, history
    <3>2. CASE Goto(b, "returned")
      <4>1. Promise!Move(b, "made", "idle")
        BY <1>0, <3>1, <3>2, PhaseMoves, Phases
      <4>2. Promise!Done(b)
        BY <3>1, <4>1 DEF Promise!Done
      <4> QED
        BY <1>3, <4>2 DEF Promise!Finish
    <3>3. CASE \E l \in {"push", "putBlob", "pushEntry", "putEntry"} : Goto(b, l)
      <4>1. phase' = phase
        BY <1>0, <3>1, <3>3, PhaseStays, Phases
      <4> QED
        BY <1>1, <3>1, <4>1
    <3>4. CASE Advance(b, "push", "pushEntry")
      BY <3>3, <3>4, AdvanceGoes
    <3> QED
      BY <2>7, <3>2, <3>3, <3>4 DEF Push, PutBlobAnswered, PushEntry, PutEntryAnswered, Uploaded,
                                    Leave, Loop, Send
  <2>8. CASE Timeout(b)
    <3>1. UNCHANGED <<key, ws, recorded, cached>> /\ req[b] # None
      BY <2>8 DEF Timeout, outputs, history
    <3>2. pc[b] = req[b].op /\ req[b].op \in {"getEntry", "getBlob"} \union Uploads
      BY <3>1 DEF RInv, Local, Asked
    <3>3. CASE req[b].op \in Uploads /\ Goto(b, "returned")
      <4>1. Promise!Move(b, "made", "idle")
        BY <1>0, <3>2, <3>3, PhaseMoves, Phases DEF Uploads
      <4>2. Promise!Done(b)
        BY <3>1, <4>1 DEF Promise!Done
      <4> QED
        BY <1>3, <4>2 DEF Promise!Finish
    <3>4. CASE req[b].op \notin Uploads /\ Goto(b, "exec")
      <4>1. Promise!Move(b, "asked", "running")
        BY <1>0, <3>2, <3>4, PhaseMoves, Phases
      <4>2. Promise!Miss(b)
        BY <3>1, <4>1 DEF Promise!Miss
      <4> QED
        BY <1>3, <4>2 DEF Promise!Answer
    <3> QED
      BY <2>8, <3>3, <3>4 DEF Timeout, Uploaded, Fallback, Leave, Loop
  <2>9. CASE Kill(b)
    <3>1. Goto(b, "idle") /\ UNCHANGED <<key, ws, recorded, cached>>
      BY <2>9 DEF Kill, Leave, Loop, outputs, history
    <3>2. CASE phase[b] = "idle"
      BY <1>0, <1>1, <3>1, <3>2, PhaseStays, Phases DEF phase
    <3>3. CASE phase[b] # "idle"
      <4>1. phase' = [phase EXCEPT ![b] = "idle"]
        BY <1>0, <3>1, PhaseMoves, Phases
      <4>2. Promise!Killed(b)
        BY <3>1, <3>3, <4>1 DEF Promise!Killed
      <4> QED
        BY <1>3, <4>2 DEF Promise!Finish
    <3> QED
      BY <3>2, <3>3
  <2>11. CASE Return(b)
    <3>1. /\ Goto(b, "idle") /\ pc[b] = "returned"
          /\ UNCHANGED <<key, ws, recorded, cached>>
      BY <2>11 DEF Return, outputs, history
    <3>2. phase' = phase
      BY <1>0, <3>1, PhaseStays, Phases
    <3> QED
      BY <1>1, <3>1, <3>2
  <2>10. CASE ServeGet(b) \/ ServePut(b) \/ RefusePut(b) \/ Garble(b)
    BY <1>2, <2>10 DEF ServeGet, ServePut, RefusePut, Garble, control, outputs, history
  <2> QED
    BY <1>4, <2>1, <2>2, <2>3, <2>4, <2>5, <2>6, <2>7, <2>8, <2>9, <2>10, <2>11 DEF Does, Step
<1>5. CASE ServeLate \/ \E s \in Stores : Damage(s) \/ Remove(s)
  BY <1>2, <1>5 DEF ServeLate, Damage, Remove, control, outputs
<1>6. CASE UNCHANGED vars
  BY <1>2, <1>6 DEF vars, control, outputs, history
<1> QED
  BY <1>4, <1>5, <1>6 DEF Next, Does

\* The tiered cache behaves as a cache: a hit restores what one run recorded
\* under the key, anything else is a miss, and neither a lookup nor an upload
\* fails an action.
THEOREM SharedCacheIsACache == Spec => Promise!Safety
<1>1. Init => Promise!Init
  BY Phases DEF Init, Promise!Init, phase
<1>2. RInv /\ PInv /\ [Next]_vars => [Promise!Next]_(Promise!vars)
  BY StepRefines
<1> QED
  BY <1>1, <1>2, ToldInvariant, PTL DEF Spec, Promise!Safety
=============================================================================
