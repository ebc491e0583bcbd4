----------------------------- MODULE FileBatches -----------------------------
(***************************************************************************)
(* The durable upload store of daemon/internal/filebatches.  A batch of    *)
(* files is received in a private stage (.phonepad-staging/<id>), chunk by *)
(* chunk, and published by renaming the stage to batch-<id>.  One mutex    *)
(* (Store.mu) serialises the operations, so at most one is in progress;    *)
(* what makes the store hard is what may happen between two of its disk    *)
(* effects: an error return, the death of the process, a power loss, and   *)
(* the next operation reading whatever was left behind.                    *)
(*                                                                         *)
(* Data is abstracted to what the properties tell apart.  A byte is a      *)
(* member of Byte, a payload a sequence of them, a manifest the sequence   *)
(* of the payloads its checksums describe: a SHA-256 check is equality     *)
(* with the declared payload.  A JSON metadata file is present with its    *)
(* content or absent, because writeJSONAtomic replaces it by a rename; the *)
(* temporary file it may leave behind is the flag tmp.                     *)
(***************************************************************************)
EXTENDS Naturals, Sequences, FiniteSets

CONSTANTS
  Batches,          \* the batch identities (UUIDs) clients use
  Byte,             \* the byte values a payload is made of
  Manifests,        \* the manifests clients may propose
  Chunks,           \* the payload pieces a PUT may carry
  Indices,          \* the file indices a PUT may name (files are numbered from 1)
  Offsets,          \* the offsets a PUT may name
  MaxStaging,       \* LimitSet.MaxStaging: receiving batches
  MaxTotalStaging,  \* LimitSet.MaxTotalStaging: receiving batches and tombstones
  TTL,              \* LimitSet.TTL, in ticks of the model's clock
  Faults,           \* the faults the environment injects, see FaultKinds
  NoBatch           \* no batch: the identity in an idle operation slot

\* "io": a disk call returns an error.  "crash": the process dies between two
\* disk effects.  "power": unsynced bytes are lost as well.
FaultKinds == {"io", "crash", "power"}

NoManifest == <<>>

ASSUME PayloadAssumption ==
  /\ Manifests \subseteq Seq(Seq(Byte)) \ {NoManifest}
  /\ Chunks \subseteq Seq(Byte)
  /\ Indices \subseteq Nat \ {0}
  /\ Offsets \subseteq Nat

ASSUME LimitAssumption ==
  /\ MaxStaging \in Nat
  /\ MaxTotalStaging \in Nat
  /\ TTL \in Nat \ {0}

ASSUME SlotAssumption ==
  /\ NoBatch \notin Batches
  /\ IsFiniteSet(Batches)
  /\ Faults \subseteq FaultKinds

VARIABLES
  staging,    \* staging[b]: what is on disk under .phonepad-staging/<b>
  published,  \* published[b]: what is on disk under batch-<b>
  age,        \* age[b]: ticks since the stage's last recorded activity
  op,         \* the operation that holds Store.mu
  reply       \* what the last operation returned to its caller

vars == <<staging, published, age, op, reply>>
disk == <<staging, published, age>>

-----------------------------------------------------------------------------
(* Types.                                                                  *)

\* A payload file.  data is its content as the running system reads it, synced
\* how many of its bytes have been fsynced, and acked how many a PUT has
\* acknowledged to the client (a history value: no code reads it).
File == [data: Seq(Byte), synced: Nat, acked: Nat]
NewFile == [data |-> <<>>, synced |-> 0, acked |-> 0]

\* A stage directory: owner marker, manifest, state file, payload files,
\* receipt, how many payload files already have their public name, and
\* whether a temporary metadata file is lying around.
Stage == [dir: BOOLEAN, owner: BOOLEAN, manifest: Manifests \cup {NoManifest},
          state: {"none", "receiving", "cancelled"}, files: Seq(File),
          receipt: BOOLEAN, renamed: Nat, tmp: BOOLEAN]
NoStage == [dir |-> FALSE, owner |-> FALSE, manifest |-> NoManifest,
            state |-> "none", files |-> <<>>, receipt |-> FALSE,
            renamed |-> 0, tmp |-> FALSE]

\* A published folder: its receipt names the manifest.
Folder == [exists: BOOLEAN, manifest: Manifests \cup {NoManifest}, files: Seq(File)]
NoFolder == [exists |-> FALSE, manifest |-> NoManifest, files |-> <<>>]

CreateSteps  == {"mkdir", "owner", "manifest", "payload", "state", "syncStage"}
ChunkSteps   == {"write", "fsync", "touch"}
PublishSteps == {"receipt", "restate", "rename", "publish"}
CancelSteps  == {"tombstone", "syncTomb"}
Steps == {"idle", "sweep", "decide", "remove", "cleanup", "syncRoot"}
         \cup CreateSteps \cup ChunkSteps \cup PublishSteps \cup CancelSteps

\* The first disk effect of a guarded operation: where the caller's guard
\* (the server's permission check) is asked.
GuardedSteps == {"mkdir", "write", "receipt"}

\* Where a metadata file is being written through a temporary file.
MetadataSteps == {"owner", "manifest", "state", "touch", "receipt", "restate", "tombstone"}

Kinds == {"none", "begin", "status", "chunk", "commit", "cancel"}

\* index, offset and data are what a PUT carries; todo holds the stages an
\* expiry sweep has still to look at, victim the stage being removed and why
\* the reason for it.
Operation == [kind: Kinds, id: Batches \cup {NoBatch}, step: Steps,
              manifest: Manifests \cup {NoManifest}, index: Nat, offset: Nat,
              data: Seq(Byte), todo: SUBSET Batches,
              victim: Batches \cup {NoBatch},
              why: {"none", "sweep", "expire", "rollback"}]
Idle == [kind |-> "none", id |-> NoBatch, step |-> "idle", manifest |-> NoManifest,
         index |-> 0, offset |-> 0, data |-> <<>>, todo |-> {},
         victim |-> NoBatch, why |-> "none"]

Results == {"none", "ok", "invalid", "conflict", "notfound", "capacity",
            "expired", "corrupt", "incomplete", "denied", "error"}
Reply == [kind: Kinds, id: Batches \cup {NoBatch}, manifest: Manifests \cup {NoManifest},
          result: Results, state: {"none", "receiving", "stored", "cancelled"},
          fresh: BOOLEAN]
NoReply == [kind |-> "none", id |-> NoBatch, manifest |-> NoManifest,
            result |-> "none", state |-> "none", fresh |-> FALSE]

\* Every variable has its type, and a publication never renames more payload
\* files than the stage holds.
TypeOK ==
  /\ staging \in [Batches -> Stage]
  /\ \A b \in Batches : staging[b].renamed <= Len(staging[b].files)
  /\ published \in [Batches -> Folder]
  /\ age \in [Batches -> 0..TTL]
  /\ op \in Operation
  /\ reply \in Reply

Init ==
  /\ staging = [b \in Batches |-> NoStage]
  /\ published = [b \in Batches |-> NoFolder]
  /\ age = [b \in Batches |-> 0]
  /\ op = Idle
  /\ reply = NoReply

-----------------------------------------------------------------------------
(* What the store reads on disk.                                           *)

\* readStageLocked accepts the directory: the three metadata files are valid,
\* nothing of a publication is in it, and a receiving stage has every payload
\* file, none longer than declared, and no leftover temporary file.
Readable(s) ==
  /\ s.dir /\ s.owner /\ s.manifest # NoManifest /\ s.state # "none"
  /\ ~s.receipt /\ s.renamed = 0
  /\ s.state = "receiving" =>
       /\ ~s.tmp
       /\ Len(s.files) = Len(s.manifest)
       /\ \A i \in 1..Len(s.files) : Len(s.files[i].data) <= Len(s.manifest[i])

Receiving(s) == Readable(s) /\ s.state = "receiving"
Tombstone(s) == Readable(s) /\ s.state = "cancelled"

\* Wrong: a tombstone is answered without cleaning it.
LeftoverIgnored(s) == FALSE

\* readStageLocked deletes whatever payload a tombstone still holds.
Leftover(s) == s.state = "cancelled" /\ (s.files # <<>> \/ s.tmp)

\* stageCountsLocked counts by owner marker and state file alone.
CountedAs(states) ==
  {b \in Batches : staging[b].dir /\ staging[b].owner /\ staging[b].state \in states}

\* Wrong: the limit itself is let through.
OverCapacity ==
  \/ Cardinality(CountedAs({"receiving"})) > MaxStaging
  \/ Cardinality(CountedAs({"receiving", "cancelled"})) > MaxTotalStaging

AtCapacity ==
  \/ Cardinality(CountedAs({"receiving"})) >= MaxStaging
  \/ Cardinality(CountedAs({"receiving", "cancelled"})) >= MaxTotalStaging

\* Wrong: the TTL ends one tick early.
ExpiredEarly(b) == age[b] + 1 >= TTL

Expired(b) == age[b] >= TTL

\* What cleanupExpiredLocked and removeOwnedStage insist on before a removal.
Removable(s) == s.dir /\ s.owner /\ s.manifest # NoManifest /\ s.state # "none"

\* Wrong: a commit looks at the sizes only.
VerifiedBySize(s) == \A i \in 1..Len(s.files) : Len(s.files[i].data) = Len(s.manifest[i])

\* Every staged payload has the declared content.
Verified(s) == \A i \in 1..Len(s.files) : s.files[i].data = s.manifest[i]

\* Otherwise the first file that has not says how a commit is refused: of each
\* file the length is compared, and then the hash.
Refusal(s) ==
  LET Wrong(i) == s.files[i].data # s.manifest[i]
      first == CHOOSE i \in 1..Len(s.files) : Wrong(i) /\ \A j \in 1..(i - 1) : ~Wrong(j)
  IN  IF Len(s.files[first].data) # Len(s.manifest[first]) THEN "incomplete" ELSE "conflict"

-----------------------------------------------------------------------------
(* The operation slot.                                                     *)

\* A public method takes Store.mu.
Enter(kind, b, m, i, off, data, first) ==
  /\ op.step = "idle"
  /\ op' = [Idle EXCEPT !.kind = kind, !.id = b, !.step = first, !.manifest = m,
                        !.index = i, !.offset = off, !.data = data,
                        !.todo = IF first = "sweep" THEN Batches ELSE {}]
  /\ reply' = NoReply
  /\ UNCHANGED disk

\* A method returns and releases Store.mu.
AnswerAs(result, state, fresh) ==
  /\ op' = Idle
  /\ reply' = [kind |-> op.kind, id |-> op.id, manifest |-> op.manifest,
               result |-> result, state |-> state, fresh |-> fresh]
Answer(result, state) == AnswerAs(result, state, FALSE)

Goto(step) == op' = [op EXCEPT !.step = step] /\ UNCHANGED reply

StartRemoval(b, why) ==
  /\ op' = [op EXCEPT !.step = "remove", !.victim = b, !.why = why, !.todo = @ \ {b}]
  /\ UNCHANGED reply

BeginRequest(b, m) == Enter("begin", b, m, 0, 0, <<>>, "sweep")
StatusRequest(b)   == Enter("status", b, NoManifest, 0, 0, <<>>, "decide")
ChunkRequest(b, i, off, data) == Enter("chunk", b, NoManifest, i, off, data, "decide")
CommitRequest(b)   == Enter("commit", b, NoManifest, 0, 0, <<>>, "decide")
CancelRequest(b)   == Enter("cancel", b, NoManifest, 0, 0, <<>>, "decide")

-----------------------------------------------------------------------------
(* Expiry: removeOwnedStage deletes the entries in directory order, the    *)
(* manifest first and the owner marker second, then everything else.       *)

\* The manifest is gone: nothing reads the payload any more, so the model
\* stops tracking it.
RemoveManifest ==
  /\ op.step = "remove" /\ staging[op.victim].manifest # NoManifest
  /\ staging' = [staging EXCEPT ![op.victim].manifest = NoManifest,
                                ![op.victim].files = <<>>,
                                ![op.victim].renamed = 0]
  /\ UNCHANGED <<published, age, op, reply>>

RemoveOwner ==
  /\ op.step = "remove" /\ staging[op.victim].manifest = NoManifest
  /\ staging[op.victim].owner
  /\ staging' = [staging EXCEPT ![op.victim].owner = FALSE]
  /\ UNCHANGED <<published, age, op, reply>>

\* The remaining entries and the directory.  A sweep goes on, an expired
\* request is told so, a rolled back begin returns the error that caused it.
RemoveRest ==
  /\ op.step = "remove" /\ staging[op.victim].manifest = NoManifest
  /\ ~staging[op.victim].owner
  /\ staging' = [staging EXCEPT ![op.victim] = NoStage]
  /\ \/ /\ op.why = "sweep"
        /\ op' = [op EXCEPT !.step = "sweep", !.victim = NoBatch, !.why = "none"]
        /\ UNCHANGED reply
     \/ op.why = "expire" /\ Answer("expired", "none")
     \/ op.why = "rollback" /\ Answer("error", "none")
  /\ age' = [age EXCEPT ![op.victim] = 0]
  /\ UNCHANGED published

\* cleanupExpiredLocked, at the start of every begin.
SweepExpired(x) ==
  /\ op.step = "sweep" /\ x \in op.todo
  /\ Removable(staging[x]) /\ Expired(x)
  /\ StartRemoval(x, "sweep")
  /\ UNCHANGED disk

SweepDone ==
  /\ op.step = "sweep"
  /\ \A x \in op.todo : ~(Removable(staging[x]) /\ Expired(x))
  /\ op' = [op EXCEPT !.step = "decide", !.todo = {}]
  /\ UNCHANGED <<disk, reply>>

\* cleanupCancelledPayloads: one payload or temporary file at a time.
CleanupPayload ==
  LET s == staging[op.id] IN
  /\ op.step = "cleanup" /\ (s.tmp \/ s.files # <<>>)
  /\ staging' = [staging EXCEPT ![op.id].tmp = FALSE,
                                ![op.id].files = IF s.tmp THEN @ ELSE Tail(@)]
  /\ UNCHANGED <<published, age, op, reply>>

\* readStageLocked goes on with the record it has read; nobody else can have
\* changed the stage, so deciding again comes to the same.
CleanupDone ==
  /\ op.step = "cleanup" /\ ~staging[op.id].tmp /\ staging[op.id].files = <<>>
  /\ Goto("decide")
  /\ UNCHANGED disk

-----------------------------------------------------------------------------
(* begin.                                                                  *)

\* What begin decides once the sweep is over: replay, refuse or create.
DecideBegin ==
  LET s == staging[op.id]
      f == published[op.id] IN
  /\ op.step = "decide" /\ op.kind = "begin"
  /\ IF f.exists THEN
        IF f.manifest = op.manifest THEN Answer("ok", "stored")
                                    ELSE Answer("conflict", "none")
     ELSE IF s.dir THEN
        IF ~Readable(s) THEN Answer("corrupt", "none")
        ELSE IF Leftover(s) THEN Goto("cleanup")
        ELSE IF s.manifest # op.manifest THEN Answer("conflict", "none")
        ELSE Answer("ok", s.state)
     ELSE IF AtCapacity THEN Answer("capacity", "none")
     ELSE Goto("mkdir")
  /\ UNCHANGED disk

\* createStageLocked, one disk effect per step: the directory, the owner
\* marker, the manifest, the empty payload files in order, the state file.
CreateDirectory ==
  /\ op.step = "mkdir"
  /\ staging' = [staging EXCEPT ![op.id] = [NoStage EXCEPT !.dir = TRUE]]
  /\ age' = [age EXCEPT ![op.id] = 0]
  /\ Goto("owner") /\ UNCHANGED published

CreateOwner ==
  /\ op.step = "owner"
  /\ staging' = [staging EXCEPT ![op.id].owner = TRUE]
  /\ Goto("manifest") /\ UNCHANGED <<published, age>>

CreateManifest ==
  /\ op.step = "manifest"
  /\ staging' = [staging EXCEPT ![op.id].manifest = op.manifest]
  /\ Goto("payload") /\ UNCHANGED <<published, age>>

CreatePayload ==
  /\ op.step = "payload"
  /\ IF Len(staging[op.id].files) < Len(op.manifest)
       THEN /\ staging' = [staging EXCEPT ![op.id].files = Append(@, NewFile)]
            /\ UNCHANGED <<op, reply>>
       ELSE Goto("state") /\ UNCHANGED staging
  /\ UNCHANGED <<published, age>>

CreateState ==
  /\ op.step = "state"
  /\ staging' = [staging EXCEPT ![op.id].state = "receiving"]
  /\ Goto("syncStage") /\ UNCHANGED <<published, age>>

CreateDone ==
  /\ op.step = "syncStage"
  /\ Answer("ok", "receiving")
  /\ UNCHANGED disk

\* An error while creating the stage.  Before the owner marker exists the
\* deferred cleanup deletes the empty directory (unless securing the directory
\* is what failed); afterwards it calls removeOwnedStage, which refuses a stage
\* whose manifest or state file is still missing.
FailCreate ==
  /\ "io" \in Faults
  /\ \/ /\ op.step = "owner"
        /\ staging' = [staging EXCEPT ![op.id] = NoStage]
        /\ Answer("error", "none")
     \/ /\ op.step \in CreateSteps \ {"syncStage"}
        /\ Answer("error", "none") /\ UNCHANGED staging
     \/ /\ op.step = "syncStage"
        /\ StartRemoval(op.id, "rollback") /\ UNCHANGED staging
  /\ UNCHANGED <<published, age>>

-----------------------------------------------------------------------------
(* The reads status, chunk, commit and cancel share.                       *)

\* readStageLocked finds a directory it cannot use, or a tombstone whose
\* payload it cleans before going on, or one whose TTL has elapsed.
StageUnusable(s) == s.dir /\ (~Readable(s) \/ Leftover(s) \/ Expired(op.id))
LeaveUnusable(s) ==
  IF ~Readable(s) THEN Answer("corrupt", "none")
  ELSE IF Leftover(s) THEN Goto("cleanup")
  ELSE StartRemoval(op.id, "expire")

\* Status: the folder first, then the stage.
DecideStatus ==
  LET s == staging[op.id] IN
  /\ op.step = "decide" /\ op.kind = "status"
  /\ IF published[op.id].exists THEN Answer("ok", "stored")
     ELSE IF ~s.dir THEN Answer("notfound", "none")
     ELSE IF StageUnusable(s) THEN LeaveUnusable(s)
     ELSE Answer("ok", s.state)
  /\ UNCHANGED disk

-----------------------------------------------------------------------------
(* WriteChunk.                                                             *)

\* How much of a chunk at offset off the file already holds.
Overlap(current, off, data) ==
  IF Len(data) <= current - off THEN Len(data) ELSE current - off

\* Wrong: the overlapping bytes are not compared.
AgreesUnchecked(content, off, data) == TRUE

\* A chunk at off agrees with the prefix already staged.
Agrees(content, off, data) ==
  \A k \in 1..Overlap(Len(content), off, data) : data[k] = content[off + k]

\* The stage is read before the folder.
DecideChunk ==
  LET s == staging[op.id] IN
  /\ op.step = "decide" /\ op.kind = "chunk"
  /\ IF ~s.dir THEN
        IF published[op.id].exists THEN Answer("conflict", "stored")
                                   ELSE Answer("notfound", "none")
     ELSE IF StageUnusable(s) THEN LeaveUnusable(s)
     ELSE IF s.state = "cancelled" THEN Answer("conflict", "cancelled")
     ELSE IF op.index > Len(s.manifest) THEN Answer("invalid", "receiving")
     ELSE LET content == s.files[op.index].data IN
        IF op.offset > Len(content) THEN Answer("invalid", "receiving")
        ELSE IF op.offset + Len(op.data) > Len(s.manifest[op.index])
          THEN Answer("capacity", "receiving")
        ELSE IF ~Agrees(content, op.offset, op.data) THEN Answer("conflict", "receiving")
        ELSE Goto("write")
  /\ UNCHANGED disk

\* The bytes of the chunk the file does not hold yet.
Suffix ==
  LET content == staging[op.id].files[op.index].data IN
  SubSeq(op.data, Overlap(Len(content), op.offset, op.data) + 1, Len(op.data))

\* The file grows by n of those bytes, which only the page cache holds so far.
Grown(n) ==
  [staging EXCEPT ![op.id].files[op.index].data = @ \o SubSeq(Suffix, 1, n)]

\* Wrong: an entirely repeated chunk skips the sync.
WriteUnsynced ==
  /\ op.step = "write"
  /\ staging' = Grown(Len(Suffix))
  /\ Goto(IF Suffix = <<>> THEN "touch" ELSE "fsync") /\ UNCHANGED <<published, age>>

WriteSuffix ==
  /\ op.step = "write"
  /\ staging' = Grown(Len(Suffix))
  /\ Goto("fsync") /\ UNCHANGED <<published, age>>

\* Sync runs for an entirely repeated chunk too: an earlier write may not have
\* been synced.
SyncPayload ==
  /\ op.step = "fsync"
  /\ staging' = [staging EXCEPT
       ![op.id].files[op.index].synced = Len(staging[op.id].files[op.index].data)]
  /\ Goto("touch") /\ UNCHANGED <<published, age>>

\* The state file is rewritten with a new update time; the chunk is
\* acknowledged.
TouchState ==
  /\ op.step = "touch"
  /\ staging' = [staging EXCEPT
       ![op.id].files[op.index].acked = Len(staging[op.id].files[op.index].data)]
  /\ age' = [age EXCEPT ![op.id] = 0]
  /\ Answer("ok", "receiving") /\ UNCHANGED published

\* An error in WriteAt leaves any part of the suffix in the file; an error
\* after the state file was replaced has refreshed the activity already.
FailChunk ==
  /\ "io" \in Faults
  /\ \/ /\ op.step = "write"
        /\ \E n \in 0..Len(Suffix) : staging' = Grown(n)
        /\ UNCHANGED age
     \/ op.step \in {"fsync", "touch"} /\ UNCHANGED <<staging, age>>
     \/ op.step = "touch" /\ age' = [age EXCEPT ![op.id] = 0] /\ UNCHANGED staging
  /\ Answer("error", "receiving") /\ UNCHANGED published

-----------------------------------------------------------------------------
(* Commit.                                                                 *)

DecideCommit ==
  LET s == staging[op.id] IN
  /\ op.step = "decide" /\ op.kind = "commit"
  /\ IF published[op.id].exists THEN Answer("ok", "stored")
     ELSE IF ~s.dir THEN Answer("notfound", "none")
     ELSE IF StageUnusable(s) THEN LeaveUnusable(s)
     ELSE IF s.state = "cancelled" THEN Answer("conflict", "cancelled")
     ELSE IF Verified(s) THEN Goto("receipt")
     ELSE Answer(Refusal(s), "receiving")
  /\ UNCHANGED disk

\* The publication: receipt, refreshed state file, one rename per payload
\* file, the rename of the directory, the sync of the root.
PublishReceipt ==
  /\ op.step = "receipt"
  /\ staging' = [staging EXCEPT ![op.id].receipt = TRUE]
  /\ Goto("restate") /\ UNCHANGED <<published, age>>

PublishState ==
  /\ op.step = "restate"
  /\ age' = [age EXCEPT ![op.id] = 0]
  /\ Goto("rename") /\ UNCHANGED <<staging, published>>

\* Wrong: the rename loop runs once too often.
RenameTooMany ==
  LET s == staging[op.id] IN
  /\ op.step = "rename"
  /\ IF s.renamed <= Len(s.manifest)
       THEN /\ staging' = [staging EXCEPT ![op.id].renamed = @ + 1]
            /\ UNCHANGED <<op, reply>>
       ELSE Goto("publish") /\ UNCHANGED staging
  /\ UNCHANGED <<published, age>>

RenamePayload ==
  LET s == staging[op.id] IN
  /\ op.step = "rename"
  /\ IF s.renamed < Len(s.manifest)
       THEN /\ staging' = [staging EXCEPT ![op.id].renamed = @ + 1]
            /\ UNCHANGED <<op, reply>>
       ELSE Goto("publish") /\ UNCHANGED staging
  /\ UNCHANGED <<published, age>>

PublishFolder ==
  LET s == staging[op.id] IN
  /\ op.step = "publish"
  /\ published' = [published EXCEPT ![op.id] =
       [exists |-> TRUE, manifest |-> s.manifest, files |-> s.files]]
  /\ staging' = [staging EXCEPT ![op.id] = NoStage]
  /\ age' = [age EXCEPT ![op.id] = 0]
  /\ Goto("syncRoot")

PublishDone ==
  /\ op.step = "syncRoot"
  /\ AnswerAs("ok", "stored", TRUE)
  /\ UNCHANGED disk

\* Before the directory rename the caller gets the bare error; after it, the
\* stored status with the error.
FailPublish ==
  /\ "io" \in Faults
  /\ \/ op.step \in PublishSteps /\ Answer("error", "none") /\ UNCHANGED age
     \/ /\ op.step = "restate" /\ Answer("error", "none")
        /\ age' = [age EXCEPT ![op.id] = 0]
     \/ op.step = "syncRoot" /\ AnswerAs("error", "stored", TRUE) /\ UNCHANGED age
  /\ UNCHANGED <<staging, published>>

-----------------------------------------------------------------------------
(* Cancel.                                                                 *)

DecideCancel ==
  LET s == staging[op.id] IN
  /\ op.step = "decide" /\ op.kind = "cancel"
  /\ IF published[op.id].exists THEN Answer("conflict", "stored")
     ELSE IF ~s.dir THEN Answer("notfound", "none")
     ELSE IF StageUnusable(s) THEN LeaveUnusable(s)
     ELSE IF s.state = "cancelled" THEN Answer("ok", "cancelled")
     ELSE Goto("tombstone")
  /\ UNCHANGED disk

WriteTombstone ==
  /\ op.step = "tombstone"
  /\ staging' = [staging EXCEPT ![op.id].state = "cancelled"]
  /\ age' = [age EXCEPT ![op.id] = 0]
  /\ Goto("syncTomb") /\ UNCHANGED published

\* The tombstone is durable: the payload may go.
SyncTombstone ==
  /\ op.step = "syncTomb"
  /\ Goto("cleanup")
  /\ UNCHANGED disk

\* The tombstone could not be made durable, or a reader could not clean one.
\* (The status that comes with the second error is not looked at.)
FailCancel ==
  /\ "io" \in Faults
  /\ \/ op.step \in CancelSteps /\ Answer("error", "none")
     \/ op.step = "cleanup" /\ Answer("error", "none")
  /\ UNCHANGED disk

-----------------------------------------------------------------------------
(* The guard, the clock and the faults.                                    *)

\* The caller's guard refuses the mutation: nothing on disk has changed yet.
Refuse ==
  /\ op.step \in GuardedSteps
  /\ Answer("denied", "none")
  /\ UNCHANGED disk

\* An entry cannot be removed.  The sweep ignores the error, the others
\* return it.
FailRemove ==
  /\ "io" \in Faults
  /\ op.step = "remove"
  /\ IF op.why = "sweep"
       THEN op' = [op EXCEPT !.step = "sweep", !.victim = NoBatch, !.why = "none"]
            /\ UNCHANGED reply
       ELSE Answer("error", "none")
  /\ UNCHANGED disk

\* Time passes while no operation runs (each reads the clock once).
Tick ==
  /\ op.step = "idle"
  /\ age' = [b \in Batches |->
       IF staging[b].dir /\ age[b] < TTL THEN age[b] + 1 ELSE age[b]]
  /\ UNCHANGED <<staging, published, op, reply>>

\* What a crash at the current step leaves of the stage in use: a temporary
\* metadata file may survive, and a WriteAt may have written part of its bytes.
Wreckage ==
  {staging}
  \cup (IF op.step \in MetadataSteps
        THEN {[staging EXCEPT ![op.id].tmp = TRUE]} ELSE {})
  \cup (IF op.step = "write"
        THEN {Grown(n) : n \in 0..Len(Suffix)} ELSE {})

Crash ==
  /\ "crash" \in Faults
  /\ op.step # "idle"
  /\ staging' \in Wreckage
  /\ op' = Idle /\ reply' = NoReply
  /\ UNCHANGED <<published, age>>

\* A power loss also drops the bytes of some files that were never synced.
Truncated(files) ==
  [i \in DOMAIN files |-> [files[i] EXCEPT !.data = SubSeq(@, 1, files[i].synced)]]

PowerLoss ==
  /\ "power" \in Faults
  /\ \E lost \in SUBSET Batches :
       /\ staging' = [b \in Batches |->
            IF b \in lost THEN [staging[b] EXCEPT !.files = Truncated(@)] ELSE staging[b]]
       /\ published' = [b \in Batches |->
            IF b \in lost THEN [published[b] EXCEPT !.files = Truncated(@)] ELSE published[b]]
  /\ op' = Idle /\ reply' = NoReply
  /\ UNCHANGED age

-----------------------------------------------------------------------------
Request ==
  \E b \in Batches :
    \/ \E m \in Manifests : BeginRequest(b, m)
    \/ StatusRequest(b)
    \/ \E i \in Indices, off \in Offsets, data \in Chunks : ChunkRequest(b, i, off, data)
    \/ CommitRequest(b)
    \/ CancelRequest(b)

Sweep   == (\E x \in Batches : SweepExpired(x)) \/ SweepDone
Remove  == RemoveManifest \/ RemoveOwner \/ RemoveRest
Cleanup == CleanupPayload \/ CleanupDone
Decide  == DecideBegin \/ DecideStatus \/ DecideChunk \/ DecideCommit \/ DecideCancel
Create  == \/ CreateDirectory \/ CreateOwner \/ CreateManifest
           \/ CreatePayload \/ CreateState \/ CreateDone
Chunk   == WriteSuffix \/ SyncPayload \/ TouchState
Publish == \/ PublishReceipt \/ PublishState \/ RenamePayload
           \/ PublishFolder \/ PublishDone
Cancel  == WriteTombstone \/ SyncTombstone

\* The steps of the operation that holds the mutex.
Progress == Sweep \/ Remove \/ Cleanup \/ Decide \/ Create \/ Chunk \/ Publish \/ Cancel
Failure  == FailCreate \/ FailChunk \/ FailPublish \/ FailCancel \/ FailRemove

Next == Request \/ Progress \/ Refuse \/ Failure \/ Tick \/ Crash \/ PowerLoss

Spec == Init /\ [][Next]_vars

-----------------------------------------------------------------------------
(* Properties.                                                             *)

\* A published folder holds exactly the files its receipt declares, byte for
\* byte, although chunks may be repeated, wrong or interrupted and the
\* publication may stop at any step (Commit verifies and then renames).  It
\* relies on unsynced bytes surviving: see the power-loss run.
PublishedIntact ==
  \A b \in Batches : published[b].exists =>
    /\ Len(published[b].files) = Len(published[b].manifest)
    /\ \A i \in 1..Len(published[b].files) :
         published[b].files[i].data = published[b].manifest[i]

\* A PUT is acknowledged only after the sync of everything the file holds, so
\* no crash or power loss takes back a byte the client was told is safe, not
\* even a byte that an earlier, unacknowledged write left in the page cache.
AckedBytesSurvive ==
  \A b \in Batches : \A i \in 1..Len(staging[b].files) :
    Len(staging[b].files[i].data) >= staging[b].files[i].acked

\* When WriteChunk answers ok the staged file holds the chunk at its offset: a
\* retry that overlaps different bytes is never acknowledged.
AckMeansStored ==
  [][(op.step = "touch" /\ reply'.result = "ok") =>
       LET content == staging'[op.id].files[op.index].data IN
       /\ op.offset + Len(op.data) <= Len(content)
       /\ SubSeq(content, op.offset + 1, op.offset + Len(op.data)) = op.data]_vars

\* The bounds of LimitSet hold in every state, crashes and failed removals
\* included, although they are only checked when a batch begins.
CapacityRespected ==
  /\ Cardinality(CountedAs({"receiving"})) <= MaxStaging
  /\ Cardinality(CountedAs({"receiving", "cancelled"})) <= MaxTotalStaging

\* What an operation returns is what the disk says: a begin that succeeds is
\* about the manifest the caller sent, stored means the folder is there, and
\* a cancelled batch keeps no payload.
RepliesTruthful ==
  reply.result = "ok" =>
    LET s == staging[reply.id]
        f == published[reply.id] IN
    /\ reply.kind = "begin" =>
         reply.manifest = (IF reply.state = "stored" THEN f.manifest ELSE s.manifest)
    /\ reply.state = "stored" => f.exists
    /\ reply.state = "receiving" => Receiving(s)
    /\ reply.state = "cancelled" => Tombstone(s) /\ s.files = <<>>

-----------------------------------------------------------------------------
(* The store implements the contract.                                      *)

\* The stage being created, or taken back after a failed creation.
Creating(b) ==
  \/ op.id = b /\ op.step \in CreateSteps \ {"mkdir"}
  \/ op.victim = b /\ op.why = "rollback"

\* The stage of a commit that has started to write its publication.
Publishing(b) == op.id = b /\ op.step \in PublishSteps \ {"receipt"}

Phase(b) ==
  IF published[b].exists THEN "stored"
  ELSE IF ~staging[b].dir \/ Creating(b) THEN "absent"
  ELSE IF Publishing(b) THEN "receiving"
  ELSE IF Readable(staging[b]) THEN staging[b].state ELSE "broken"

Content(b) ==
  CASE Phase(b) = "stored" -> published[b].manifest
    [] Phase(b) \in {"receiving", "cancelled"} -> staging[b].manifest
    [] OTHER -> NoManifest

Contract == INSTANCE BatchContract WITH
  phase <- [b \in Batches |-> Phase(b)], content <- [b \in Batches |-> Content(b)]

\* One identity is received, stored or cancelled as BatchContract says: stored
\* is final, a tombstone lasts for the TTL, a broken stage is never stored.
ImplementsContract == Contract!Spec

-----------------------------------------------------------------------------
(* What the repository says of the store and the code does not do.         *)

\* "La longitud en disco permite recuperar una escritura interrumpida": after
\* a crash in the middle of a PUT the batch can be resumed.
InterruptedWriteResumable ==
  [][(op.step \in ChunkSteps /\ op'.step = "idle") => Receiving(staging'[op.id])]_vars
=============================================================================
