---------------------------- MODULE FileTransfers ----------------------------
(***************************************************************************)
(* Files from the phone: the HTTP handlers of version 2 transfers          *)
(* (daemon/internal/server/file_transfers.go), of version 1 batches        *)
(* (file_batches.go) and of single files (files.go), with the three locks  *)
(* they share (uploadMu, Store.mu, mutationGate), and what they leave on   *)
(* disk about a copy to the desktop's clipboard.  The host may die between *)
(* any two steps, and lose power; requests are repeated, late and          *)
(* concurrent.                                                             *)
(*                                                                         *)
(* The upload store is represented by BatchContract, which FileBatches is  *)
(* shown to implement; permits, the gate and the session's transitions are *)
(* MutationGate's.                                                         *)
(***************************************************************************)
EXTENDS MutationGate, FiniteSets

CONSTANTS
  Handlers,     \* the requests the server may be serving at the same time
  Batches,      \* identities of version 2 transfers
  Posts,        \* identities of version 1 batches
  Singles,      \* names under which single files are saved
  MaxRequests,  \* bound: requests that are sent
  MaxRestarts   \* bound: times the host dies

Files == Batches \cup Posts \cup Singles

ASSUME TransferAssumption ==
  /\ Batches \cap Posts = {} /\ Batches \cap Singles = {} /\ Posts \cap Singles = {}
  /\ Files # {}
  /\ "free" \notin Handlers /\ "control" \notin Handlers
  /\ MaxRequests \in Nat /\ MaxRestarts \in Nat

VARIABLES
  phase,      \* the store: what each version 2 batch has come to
  record,     \* what a reader finds about the copy of a batch
  survives,   \* what it may find after a power loss
  store,      \* who holds Store.mu across a wait for the gate
  upload,     \* who holds uploadMu
  req,        \* what each handler is serving
  sent,       \* requests sent
  restarts,   \* times the host has died
  attempts,   \* history: how often the clipboard was asked to take each batch
  copied,     \* history: the batches it has taken
  undone,     \* history: the batches whose record a power loss took back
  told        \* history: what the phone was told of each batch

disk == <<phase, record, survives>>
locks == <<gate, store, upload>>
bounds == <<sent, restarts>>
history == <<attempts, copied, undone>>
vars == <<control, disk, store, upload, req, bounds, history, told>>

-----------------------------------------------------------------------------
(* Types.                                                                  *)

\* "discard" is a cancel that brings its manifest; "post" and "receipt" are the
\* methods of version 1; "file" is a single file.
Kinds == {"status", "begin", "chunk", "commit", "cancel", "discard", "clipboard",
          "post", "receipt", "file"}
Identities ==
  [k \in Kinds |-> IF k \in {"post", "receipt"} THEN Posts
                   ELSE IF k = "file" THEN Singles ELSE Batches]

NeedsFiles == {"begin", "chunk", "commit", "post", "file"}
NeedsUpload == {"chunk", "clipboard", "post", "file"}

Phases == {"absent", "receiving", "stored", "cancelled", "broken"}

\* The clipboard marker of version 2, the receipt of version 1, a saved file.  A
\* marker that is empty or torn reads "uncertain", as does a folder without a
\* receipt.
Records == {"none", "uncertain", "unavailable", "ready", "saved"}

\* What an answer vouches for; "prepared" is a "ready" that is not a replay.
Claims == {"stored", "cancelled", "unrequested", "unavailable", "ready", "prepared"}

Gated == {"effect", "mark", "copy", "keep", "settle"}
Places == Gated \cup {"idle", "accepted", "store", "guard", "cancel", "stored", "lookup",
                      "verify", "claim", "receive", "offer"}

Permits == [scope: Scopes, revision: Nat, gen: Nat, epoch: Nat]
NoPermit == [scope |-> "files", revision |-> 0, gen |-> 0, epoch |-> 0]
Requests == [at: Places, kind: Kinds, file: Files, epoch: Nat, permit: Permits,
             paste: Permits, result: {"unavailable", "ready"}]
Idle == [at |-> "idle", kind |-> "status", file |-> CHOOSE f \in Files : TRUE, epoch |-> 0,
         permit |-> NoPermit, paste |-> NoPermit, result |-> "unavailable"]

TypeOK ==
  /\ GateTypeOK(Handlers)
  /\ phase \in [Batches -> Phases]
  /\ record \in [Files -> Records] /\ survives \in [Files -> SUBSET Records]
  /\ \A f \in Files : record[f] \in survives[f]
  /\ store \in Handlers \cup {"free"} /\ upload \in Handlers \cup {"free"}
  /\ req \in [Handlers -> Requests]
  /\ sent \in Nat /\ restarts \in Nat
  /\ attempts \in [Files -> Nat] /\ copied \subseteq Files /\ undone \subseteq Files
  /\ told \in [Files -> SUBSET Claims]
  /\ \A h \in Handlers : /\ req[h].file \in Identities[req[h].kind] \/ req[h].at = "idle"
                         /\ req[h].at \in Gated <=> gate = h

\* An earlier life of the host may have left a batch at any stage.
Init ==
  /\ GateInit
  /\ phase \in [Batches -> Phases \ {"broken"}]
  /\ record = [f \in Files |-> "none"] /\ survives = [f \in Files |-> {"none"}]
  /\ store = "free" /\ upload = "free"
  /\ req = [h \in Handlers |-> Idle]
  /\ sent = 0 /\ restarts = 0
  /\ attempts = [f \in Files |-> 0] /\ copied = {} /\ undone = {}
  /\ told = [f \in Files |-> {}]

-----------------------------------------------------------------------------
(* The store's promise.                                                    *)

Held == [b \in Batches |->
  IF phase[b] \in {"receiving", "stored", "cancelled"} THEN "manifest" ELSE "none"]
Promise == INSTANCE BatchContract
  WITH Manifests <- {"manifest"}, NoManifest <- "none", TTL <- 0,
       age <- [b \in Batches |-> 0], content <- Held

-----------------------------------------------------------------------------
(* Steps of a handler.                                                     *)

At(h, place) == req[h].at = place
Goes(h, place) == req' = [req EXCEPT ![h].at = place] /\ UNCHANGED <<locks, told>>

Without(lock, h) == IF lock = h THEN "free" ELSE lock

\* The handler returns: its deferred unlocks run and the phone hears the answer.
Answer(h, claims) ==
  /\ req' = [req EXCEPT ![h] = Idle]
  /\ told' = [told EXCEPT ![req[h].file] = @ \cup claims]
  /\ gate' = Without(gate, h) /\ store' = Without(store, h) /\ upload' = Without(upload, h)
Error == {}

\* runPermittedMutation: refused if the permit has lapsed.  Unlike the helper for
\* input it does not look at lifecycleClosing: what was accepted before a shutdown
\* may have its effect after it, until the session ends and later with a permit
\* captured then.
Enter(h, place) ==
  /\ gate = "free" /\ Honoured(req[h].permit)
  /\ gate' = h /\ req' = [req EXCEPT ![h].at = place] /\ UNCHANGED <<store, upload, told>>
Barred(h) == gate = "free" /\ ~Honoured(req[h].permit)

Ungated == UNCHANGED <<todo, session, incomplete, closing, bounds>>
Quiet == Ungated /\ UNCHANGED <<disk, history>>

-----------------------------------------------------------------------------
(* A request, and its admission.                                           *)

\* acceptRequestSession: a request may name its session, which must be the one
\* there is; the older paths name none, and a single file gets a name of its own.
Accept(h, k, f, e) ==
  /\ At(h, "idle") /\ sent < MaxRequests /\ closing = "open"
  /\ f \in Identities[k] /\ (f \notin Batches => e = 0)
  /\ f \in Singles => /\ record[f] = "none" /\ f \notin undone
                      /\ \A other \in Handlers : req[other].at = "idle" \/ req[other].file # f
  /\ req' = [req EXCEPT ![h] = [Idle EXCEPT !.at = "accepted", !.kind = k, !.file = f, !.epoch = e]]
  /\ sent' = sent + 1
  /\ UNCHANGED <<control, disk, store, upload, restarts, history, told>>

First == [k \in Kinds |->
  IF k \in {"post", "receipt"} THEN "lookup"
  ELSE IF k = "file" THEN "receive" ELSE IF k = "cancel" THEN "cancel" ELSE "store"]

\* Wrong: the permit is not bound to the session that was accepted.
ArriveUnbound(h) ==
  LET r == req[h]
      scope == IF r.kind = "clipboard" THEN "clipboard" ELSE "files"
      admitted == /\ r.kind \in NeedsFiles \cup {"clipboard"} => Allowed(scope)
                  /\ r.kind \in NeedsUpload => upload = "free"
  IN
  /\ At(h, "accepted")
  /\ \/ ~admitted /\ Answer(h, Error)
     \/ /\ admitted
        /\ req' = [req EXCEPT ![h].at = First[r.kind], ![h].permit = Permit(scope)]
        /\ upload' = IF r.kind \in NeedsUpload THEN h ELSE upload
        /\ UNCHANGED <<gate, store, told>>
  /\ Quiet

\* captureRequestMutationPermit, in the session accepted before, and TryLock of
\* uploadMu: 403 and 429.
Arrive(h) ==
  LET r == req[h]
      scope == IF r.kind = "clipboard" THEN "clipboard" ELSE "files"
      admitted == /\ r.kind \in NeedsFiles \cup {"clipboard"}
                       => Allowed(scope) /\ (r.epoch # 0 => r.epoch = epoch)
                  /\ r.kind \in NeedsUpload => upload = "free"
  IN
  /\ At(h, "accepted")
  /\ \/ ~admitted /\ Answer(h, Error)
     \/ /\ admitted
        /\ req' = [req EXCEPT ![h].at = First[r.kind], ![h].permit = Permit(scope)]
        /\ upload' = IF r.kind \in NeedsUpload THEN h ELSE upload
        /\ UNCHANGED <<gate, store, told>>
  /\ Quiet

\* What is malformed, incomplete, contradicts its manifest, exceeds a limit, or
\* is given up: by its client, or because a shutdown, which cancels the contexts
\* of all requests, was noticed in time.
Refuse(h) ==
  /\ req[h].at \in {"store", "lookup", "receive"}
  /\ Answer(h, Error) /\ Quiet

-----------------------------------------------------------------------------
(* Version 2: what the store is asked for.                                 *)

Asks(h, k) == At(h, "store") /\ store = "free" /\ req[h].kind = k
Phase(h) == phase[req[h].file]

\* The store calls its guard with Store.mu held.
Guards(h) ==
  /\ req' = [req EXCEPT ![h].at = "guard"] /\ store' = h
  /\ UNCHANGED <<gate, upload, told>>

Reply(h) == Answer(h, IF Phase(h) = "cancelled" THEN {"cancelled"} ELSE {})

Status(h) ==
  /\ Asks(h, "status")
  /\ \/ Phase(h) = "stored" /\ Goes(h, "stored")
     \/ Phase(h) \in {"receiving", "cancelled"} /\ Reply(h)
     \/ Phase(h) \in {"absent", "broken"} /\ Answer(h, Error)
  /\ Quiet

Begin(h) ==
  /\ Asks(h, "begin")
  /\ \/ Phase(h) = "stored" /\ Goes(h, "stored")
     \/ Phase(h) \in {"receiving", "cancelled"} /\ Reply(h)
     \/ Phase(h) = "absent" /\ Guards(h)
     \/ Phase(h) = "broken" /\ Answer(h, Error)
  /\ Quiet

Chunk(h) ==
  /\ Asks(h, "chunk")
  /\ IF Phase(h) = "receiving" THEN Guards(h) ELSE Answer(h, Error)
  /\ Quiet

\* A stored batch is replayed; its bytes are verified before the guard is asked.
Commit(h) ==
  /\ Asks(h, "commit")
  /\ \/ Phase(h) = "stored" /\ Goes(h, "stored")
     \/ Phase(h) = "receiving" /\ Guards(h)
     \/ Phase(h) \notin {"stored", "receiving"} /\ Answer(h, Error)
  /\ Quiet

\* A cancel with its manifest begins the batch, without a permit, so that there
\* is a tombstone to leave; the mutex is free between the two.
Discard(h) ==
  /\ Asks(h, "discard")
  /\ \/ Phase(h) = "stored" /\ Goes(h, "stored") /\ UNCHANGED phase
     \/ Phase(h) \in {"receiving", "cancelled"} /\ Goes(h, "cancel") /\ UNCHANGED phase
     \/ Promise!Receive(req[h].file, "manifest") /\ Goes(h, "cancel")
     \/ Phase(h) = "absent" /\ Promise!Break(req[h].file) /\ Answer(h, Error)
     \/ Phase(h) = "broken" /\ Answer(h, Error) /\ UNCHANGED phase
  /\ Ungated /\ UNCHANGED <<record, survives, history>>

\* Store.Cancel: a stored batch is answered with its receipt, and a tombstone
\* whose payload cannot be removed with an error.
Cancel(h) ==
  /\ At(h, "cancel") /\ store = "free"
  /\ \/ Promise!Cancel(req[h].file) /\ (Answer(h, {"cancelled"}) \/ Answer(h, Error))
     \/ Phase(h) = "receiving" /\ Promise!Break(req[h].file) /\ Answer(h, Error)
     \/ Phase(h) = "cancelled" /\ Reply(h) /\ UNCHANGED phase
     \/ Phase(h) = "stored" /\ Goes(h, "stored") /\ UNCHANGED phase
     \/ Phase(h) \in {"absent", "broken"} /\ Answer(h, Error) /\ UNCHANGED phase
  /\ Ungated /\ UNCHANGED <<record, survives, history>>

\* Only a stored batch can be copied.
Clipboard(h) ==
  /\ Asks(h, "clipboard")
  /\ IF Phase(h) = "stored" THEN Goes(h, "lookup") ELSE Answer(h, Error)
  /\ Quiet

\* The sweep of the store, and the operations that meet an expired stage.
Sweep(b) ==
  /\ store = "free"
  /\ Promise!Expire(b) \/ Promise!Forget(b)
  /\ told' = [told EXCEPT ![b] = @ \ {"cancelled"}]
  /\ UNCHANGED <<control, record, survives, store, upload, req, bounds, history>>

-----------------------------------------------------------------------------
(* The effects behind the permit for files.                                *)

\* Wrong: an early return keeps Store.mu.
GuardKeepsStore(h) ==
  /\ At(h, "guard")
  /\ \/ Enter(h, "effect")
     \/ /\ Barred(h) /\ req' = [req EXCEPT ![h] = Idle]
        /\ upload' = Without(upload, h) /\ UNCHANGED <<gate, store, told>>
  /\ Quiet

Guard(h) ==
  /\ At(h, "guard")
  /\ Enter(h, "effect") \/ (Barred(h) /\ Answer(h, Error))
  /\ Quiet

\* Wrong: a publication returns with the gate.
LeavesStore(h, r) ==
  /\ req' = [req EXCEPT ![h] = r]
  /\ store' = Without(store, h)
  /\ UNCHANGED <<gate, upload, told>>

\* The effect is done; the gate is left, and with it the store.
Leaves(h, r) ==
  /\ req' = [req EXCEPT ![h] = r]
  /\ gate' = "free" /\ store' = Without(store, h)
  /\ UNCHANGED <<upload, told>>

StoreEffect(h) ==
  LET b == req[h].file IN
  /\ At(h, "effect") /\ b \in Batches
  /\ \/ req[h].kind = "begin" /\ Promise!Receive(b, "manifest") /\ Answer(h, {})
     \/ req[h].kind = "chunk" /\ Answer(h, {}) /\ UNCHANGED phase
     \/ req[h].kind = "commit" /\ Promise!Store(b) /\ Leaves(h, [req[h] EXCEPT !.at = "stored"])
     \/ Promise!Break(b) /\ Answer(h, Error)
     \/ Answer(h, Error) /\ UNCHANGED phase
  /\ Ungated /\ UNCHANGED <<record, survives, history>>

Found(f, what, later) ==
  /\ record' = [record EXCEPT ![f] = what]
  /\ survives' = [survives EXCEPT ![f] = later]
  /\ UNCHANGED phase

\* Version 1 renames the folder with its receipt, which says that nothing is in
\* the clipboard; a single file is linked.  Neither syncs the directory.
Publish(h) ==
  LET f == req[h].file IN
  /\ At(h, "effect") /\ f \notin Batches
  /\ \/ /\ f \in Posts
        /\ Found(f, "unavailable", {"none", "uncertain", "unavailable"})
        /\ Leaves(h, [req[h] EXCEPT !.at = "offer"])
     \/ /\ f \in Singles
        /\ Found(f, "saved", {"none", "saved"})
        /\ IF req[h].paste = NoPermit THEN Answer(h, {})
           ELSE Leaves(h, [req[h] EXCEPT !.at = "claim", !.permit = req[h].paste])
     \/ Answer(h, Error) /\ UNCHANGED disk
  /\ Ungated /\ UNCHANGED history

-----------------------------------------------------------------------------
(* The older paths up to their publication.                                *)

Reads(f) ==
  IF record[f] = "none" THEN {"unrequested"}
  ELSE IF record[f] = "uncertain" THEN {} ELSE {record[f]}

LookupPost(h) ==
  LET f == req[h].file IN
  /\ At(h, "lookup") /\ f \in Posts
  /\ \/ record[f] = "none" /\ req[h].kind = "post" /\ Goes(h, "receive")
     \/ record[f] = "none" /\ req[h].kind = "receipt" /\ Answer(h, Error)
     \/ record[f] = "uncertain" /\ Answer(h, Error)
     \/ record[f] \notin {"none", "uncertain"} /\ Answer(h, Reads(f))
  /\ Quiet

\* The body of a post or a file; a file may be meant for the clipboard, and gets
\* the permit for it while it is being received.
Receive(h) ==
  /\ At(h, "receive")
  /\ \/ Goes(h, "guard")
     \/ /\ req[h].kind = "file" /\ Allowed("clipboard")
        /\ req' = [req EXCEPT ![h].at = "guard", ![h].paste = Permit("clipboard")]
        /\ UNCHANGED <<locks, told>>
  /\ Quiet

Offer(h) ==
  /\ At(h, "offer")
  /\ \/ ~Allowed("clipboard") /\ Answer(h, {"unavailable"})
     \/ /\ Allowed("clipboard")
        /\ req' = [req EXCEPT ![h].at = "claim", ![h].permit = Permit("clipboard")]
        /\ UNCHANGED <<locks, told>>
  /\ Quiet

-----------------------------------------------------------------------------
(* The copy to the clipboard.                                              *)

ReadStored(h) ==
  /\ At(h, "stored")
  /\ Answer(h, {"stored"} \cup Reads(req[h].file)) /\ Quiet

LookupBatch(h) ==
  LET f == req[h].file IN
  /\ At(h, "lookup") /\ f \in Batches
  /\ IF record[f] # "none" THEN Answer(h, {"stored"} \cup Reads(f)) ELSE Goes(h, "verify")
  /\ Quiet

\* The published files are hashed without the gate; what is not as it was stored
\* is answered "uncertain", and nothing is claimed.
Verify(h) ==
  /\ At(h, "verify")
  /\ Goes(h, "claim") \/ Answer(h, {"stored"})
  /\ Quiet

\* The marker of version 2 is created exclusively; the older paths have none.
Claim(h) ==
  LET f == req[h].file IN
  /\ At(h, "claim")
  /\ \/ Barred(h) /\ Answer(h, IF f \in Batches THEN Error ELSE {"unavailable"}) /\ UNCHANGED disk
     \/ f \notin Batches /\ Enter(h, "copy") /\ UNCHANGED disk
     \/ /\ f \in Batches /\ record[f] # "none"
        /\ gate = "free" /\ ~Barred(h)
        /\ Answer(h, {"stored"} \cup Reads(f)) /\ UNCHANGED disk
     \/ f \in Batches /\ record[f] = "none" /\ Enter(h, "mark")
        /\ Found(f, "uncertain", {"none", "uncertain"})
     \/ f \in Batches /\ gate = "free" /\ ~Barred(h) /\ Answer(h, Error) /\ UNCHANGED disk
  /\ Ungated /\ UNCHANGED history

\* Wrong: the directory of the marker is not synced.
MarkInCache(h) ==
  /\ At(h, "mark")
  /\ Goes(h, "copy") /\ UNCHANGED disk
  /\ Ungated /\ UNCHANGED history

\* "Never touch clipboard before the durable claim"; a marker that fails stays.
Mark(h) ==
  /\ At(h, "mark")
  /\ \/ Found(req[h].file, "uncertain", {"uncertain"}) /\ Goes(h, "copy")
     \/ Answer(h, Error) /\ UNCHANGED disk
  /\ Ungated /\ UNCHANGED history

\* Wrong: an error of the clipboard is overlooked.
CopyOptimistically(h) ==
  LET f == req[h].file IN
  /\ At(h, "copy")
  /\ attempts' = [attempts EXCEPT ![f] = @ + 1] /\ copied' \in {copied, copied \cup {f}}
  /\ req' = [req EXCEPT ![h].at = "keep", ![h].result = "ready"]
  /\ UNCHANGED <<locks, told>>
  /\ Ungated /\ UNCHANGED <<disk, undone>>

\* The clipboard takes the files or reports an error; a writer that knows only
\* single files is not asked to take several.
Copy(h) ==
  LET f == req[h].file
      Then(result) ==
        IF f \in Batches \/ (f \in Posts /\ result = "ready")
        THEN /\ req' = [req EXCEPT ![h].at = "keep", ![h].result = result]
             /\ UNCHANGED <<locks, told>>
        ELSE Answer(h, {result})
  IN
  /\ At(h, "copy")
  /\ \/ attempts' = [attempts EXCEPT ![f] = @ + 1] /\ copied' = copied \cup {f} /\ Then("ready")
     \/ attempts' = [attempts EXCEPT ![f] = @ + 1] /\ UNCHANGED copied /\ Then("unavailable")
     \/ f \notin Singles /\ UNCHANGED <<attempts, copied>> /\ Then("unavailable")
  /\ Ungated /\ UNCHANGED <<disk, undone>>

\* The receipt takes the place of the marker, or of the older receipt.
Keep(h) ==
  LET f == req[h].file IN
  /\ At(h, "keep")
  /\ \/ /\ f \in Batches
        /\ Found(f, req[h].result, {"uncertain", req[h].result}) /\ Goes(h, "settle")
     \/ /\ f \in Posts
        /\ Found(f, "ready", survives[f] \cup {"ready"}) /\ Answer(h, {"ready", "prepared"})
     \/ /\ Answer(h, IF f \in Batches THEN {"stored"} ELSE {"unavailable"})
        /\ UNCHANGED disk
  /\ Ungated /\ UNCHANGED history

\* Wrong: the answer does not depend on the directory's sync.
SettleUnsynced(h) ==
  /\ At(h, "settle")
  /\ Answer(h, {"stored", req[h].result} \cup (IF req[h].result = "ready" THEN {"prepared"} ELSE {}))
  /\ Quiet

Settle(h) ==
  LET f == req[h].file
      fresh == IF req[h].result = "ready" THEN {"prepared"} ELSE {}
  IN
  /\ At(h, "settle")
  /\ \/ Found(f, req[h].result, {req[h].result})
        /\ Answer(h, {"stored", req[h].result} \cup fresh)
     \/ Answer(h, {"stored"}) /\ UNCHANGED disk
  /\ Ungated /\ UNCHANGED history

-----------------------------------------------------------------------------
(* The control session, and the host's death.                              *)

Elsewhere == UNCHANGED <<disk, store, upload, req, bounds, history, told>>

ControlStep == Join \/ Reset(TRUE) \/ Geometry(TRUE) \/ Release \/ ShutdownResources

Transition ==
  \/ Connect("theirs") \/ Disconnect \/ Shutdown
  \/ \E policy \in Policies : SetPermissions(policy)

\* Everything in memory goes; sessions are numbered on, so that no epoch is used
\* twice.  An operation of the store is left half done, or not at all.
Restart(power) ==
  /\ restarts < MaxRestarts /\ Bounded /\ restarts' = restarts + 1
  /\ gate' = "free" /\ todo' = <<>> /\ epoch' = 0 /\ granted' = Scopes
  /\ incomplete' = FALSE /\ closing' = "open" /\ gen' = gen + 1 /\ UNCHANGED revision
  /\ store' = "free" /\ upload' = "free" /\ req' = [h \in Handlers |-> Idle]
  /\ \/ UNCHANGED phase
     \/ \E h \in Handlers :
          req[h].at \in {"effect", "cancel"} /\ req[h].file \in Batches /\ Promise!Break(req[h].file)
  /\ IF power
     THEN /\ record' \in {r \in [Files -> Records] : \A f \in Files : r[f] \in survives[f]}
          /\ survives' = [f \in Files |-> {record'[f]}]
          /\ undone' = undone \cup {f \in Files : record'[f] # record[f]}
     ELSE UNCHANGED <<record, survives, undone>>
  /\ UNCHANGED <<sent, attempts, copied, told>>

Serve(h) ==
  \/ Arrive(h) \/ Refuse(h)
  \/ Status(h) \/ Begin(h) \/ Chunk(h) \/ Commit(h) \/ Discard(h) \/ Cancel(h) \/ Clipboard(h)
  \/ Guard(h) \/ StoreEffect(h) \/ Publish(h)
  \/ LookupPost(h) \/ Receive(h) \/ Offer(h)
  \/ ReadStored(h) \/ LookupBatch(h) \/ Verify(h)
  \/ Claim(h) \/ Mark(h) \/ Copy(h) \/ Keep(h) \/ Settle(h)

Next ==
  \/ \E h \in Handlers : Serve(h)
  \/ \E h \in Handlers, k \in Kinds, f \in Files, e \in {0, epoch} : Accept(h, k, f, e)
  \/ \E b \in Batches : Sweep(b)
  \/ ControlStep /\ Elsewhere
  \/ Transition /\ Elsewhere
  \/ \E power \in BOOLEAN : Restart(power)

Spec == Init /\ [][Next]_vars

-----------------------------------------------------------------------------
(* Properties.                                                             *)

\* Whatever is repeated, interrupted or lost, the clipboard is asked once to take
\* a batch: a retry reads the claim that copyTransfer left.  Only a batch of
\* version 1 may be copied again, if a power loss has undone its publication.
CopiedOnce ==
  \A f \in Files : attempts[f] > 1 => f \in Posts /\ f \in undone

\* What an answer says of the clipboard is so: "ready" only after a copy,
\* "unavailable" only without one, "unrequested" only before any attempt.
AnswersTruthful ==
  /\ \A f \in Files : "ready" \in told[f] => f \in copied
  /\ \A b \in Batches : /\ "unavailable" \in told[b] => b \notin copied
                        /\ record[b] = "none" => attempts[b] = 0

\* What has been answered stays true.  A "ready" stays readable until a power loss
\* takes its record back, and the "ready" of the copy itself, which came after a
\* sync, even then.  A batch reported as stored is stored, and one reported as
\* cancelled is not stored later, until its TTL has elapsed: handlers that race
\* each other between two calls of the store report what has become of it.
AnswersLast ==
  /\ \A f \in Batches \cup Posts :
       "ready" \in told[f] /\ f \notin undone => record[f] = "ready"
  /\ \A b \in Batches : /\ "prepared" \in told[b] => record[b] = "ready"
                        /\ "cancelled" \in told[b] => phase[b] = "cancelled"
                        /\ "stored" \in told[b] => phase[b] = "stored"

\* A publication or a copy is made by the handler that holds the gate for it, under
\* the permissions and in the session in which its request was admitted, which is
\* the session the request names (captureRequestMutationPermit,
\* runPermittedMutation), and only a stored batch is copied.  That includes what
\* happens after Shutdown, which those two do not look at.
EffectPermitted ==
  [][\A f \in Files :
       \/ attempts'[f] # attempts[f]
       \/ f \notin Batches /\ record[f] = "none" /\ record'[f] # "none"
       \/ f \in Batches /\ phase[f] # "stored" /\ phase'[f] = "stored"
       => /\ \E h \in Handlers : /\ gate = h /\ req'[h] # req[h] /\ req[h].file = f
                                 /\ Honoured(req[h].permit)
                                 /\ req[h].epoch # 0 => req[h].epoch = epoch
          /\ f \in Batches => phase'[f] = "stored"]_vars

\* uploadMu, Store.mu and mutationGate are taken in one order and left on every
\* path: while a request is served or a transition under way, one of them can
\* take a step.
NoneStuck ==
  (gate # "free" \/ \E h \in Handlers : req[h].at # "idle")
    => \/ \E h \in Handlers : ENABLED Serve(h)
       \/ ENABLED ControlStep
=============================================================================
