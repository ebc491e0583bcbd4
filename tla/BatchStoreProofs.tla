--------------------------- MODULE BatchStoreProofs ---------------------------
(* More theorems about FileBatches, for every value of its constants: the    *)
(* capacity limits, the truth of the replies and the contract of one batch.  *)
EXTENDS FileBatchesProofs, FiniteSetTheorems

-----------------------------------------------------------------------------
(* The strengthening: which operation is at which step, and what the stage   *)
(* it works on looks like there.                                             *)

\* A step belongs to the method that takes it, a reason to a removal, and a
\* method that runs has not answered.
KindsOK ==
  /\ op.kind = "begin" => op.manifest \in Manifests
  /\ op.step \in CreateSteps \cup {"sweep"} => op.kind = "begin"
  /\ op.step \in ChunkSteps => op.kind = "chunk"
  /\ op.step \in PublishSteps \cup {"syncRoot"} => op.kind = "commit"
  /\ op.step = "remove" <=> op.why # "none"
  /\ op.why = "sweep" => op.kind = "begin"
  /\ op.step # "idle" => reply = NoReply

\* A stage begin has not finished: no state file, nothing of a publication.
Unfinished(s) == s.dir /\ s.state = "none" /\ ~s.receipt /\ s.renamed = 0 /\ ~s.tmp

\* createStageLocked works on a name nobody else had, and builds up a stage the
\* reader will accept.
CreateUse ==
  LET s == staging[op.id] IN
  /\ op.step = "mkdir" => ~s.dir
  /\ op.step \in {"owner", "manifest", "payload", "state"} => Unfinished(s)
  /\ op.step \in {"owner", "manifest"} => s.files = <<>>
  /\ op.step \in {"manifest", "payload", "state"} => s.owner
  /\ op.step \in {"payload", "state", "syncStage"} => s.manifest = op.manifest
  /\ op.step \in {"payload", "state"} =>
       /\ \A i \in 1..Len(s.files) : s.files[i].data = <<>>
       /\ Len(s.files) <= Len(s.manifest)
  /\ op.step = "state" => Len(s.files) = Len(s.manifest)
  /\ op.step = "syncStage" => Receiving(s)

\* A PUT writes to a stage in use, within the declared size.
ChunkUse ==
  LET s == staging[op.id] IN
  /\ op.step \in ChunkSteps => Receiving(s)
  /\ op.step = "write" => op.offset + Len(op.data) <= Len(s.manifest[op.index])

\* A commit publishes a stage in use under a name no folder has; once its
\* receipt is written the reader refuses the stage.
PublishUse ==
  LET s == staging[op.id] IN
  /\ op.step = "receipt" => Receiving(s)
  /\ op.step \in PublishSteps \ {"receipt"} => s.dir /\ s.receipt
  /\ op.step \in PublishSteps => ~published[op.id].exists
  /\ op.step = "syncRoot" => published[op.id].exists

\* Only a stage in use is cancelled, and only a tombstone is cleaned.
CancelUse ==
  LET s == staging[op.id] IN
  /\ op.step = "tombstone" => Receiving(s)
  /\ op.step \in {"syncTomb", "cleanup"} => Tombstone(s)

\* A removal takes back what this begin created, or what has expired.
RemoveUse ==
  /\ op.why = "rollback" => staging[op.victim].state = "receiving"
  /\ op.why \in {"sweep", "expire"} => Expired(op.victim)

\* A receiving stage holds the declared files and none is longer than declared,
\* whether the reader accepts the stage or not.
Bounded(s) ==
  s.state = "receiving" =>
    /\ Len(s.files) = Len(s.manifest)
    /\ \A i \in 1..Len(s.files) : Len(s.files[i].data) <= Len(s.manifest[i])

UInv == /\ KindsOK /\ CreateUse /\ ChunkUse /\ PublishUse /\ CancelUse /\ RemoveUse
        /\ \A b \in Batches : Bounded(staging[b])

-----------------------------------------------------------------------------
(* What a step does to the operation slot.                                   *)

LEMMA Moves ==
  ASSUME op \in Operation, NEW step, Goto(step)
  PROVE  /\ op'.step = step /\ op'.id = op.id /\ op'.kind = op.kind
         /\ op'.manifest = op.manifest /\ op'.index = op.index
         /\ op'.offset = op.offset /\ op'.data = op.data /\ op'.todo = op.todo
         /\ op'.victim = op.victim /\ op'.why = op.why /\ reply' = reply
BY DEF Goto, Operation

LEMMA Returns ==
  ASSUME NEW result, NEW state, NEW fresh, AnswerAs(result, state, fresh)
  PROVE  /\ op' = Idle /\ reply'.kind = op.kind /\ reply'.id = op.id
         /\ reply'.manifest = op.manifest /\ reply'.result = result
         /\ reply'.state = state
BY DEF AnswerAs

LEMMA Removes ==
  ASSUME op \in Operation, NEW b, NEW why, StartRemoval(b, why)
  PROVE  /\ op'.step = "remove" /\ op'.id = op.id /\ op'.kind = op.kind
         /\ op'.manifest = op.manifest /\ op'.victim = b /\ op'.why = why
         /\ reply' = reply
BY DEF StartRemoval, Operation

\* Nothing is asked of an idle slot.
LEMMA IdleUse ==
  ASSUME op' = Idle, \A b \in Batches : Bounded(staging[b])'
  PROVE  UInv'
BY DEF UInv, KindsOK, CreateUse, ChunkUse, PublishUse, CancelUse, RemoveUse, Idle,
       CreateSteps, ChunkSteps, PublishSteps

-----------------------------------------------------------------------------
(* What a step does to the disk.                                             *)

\* The metadata of a stage: all but the payload.
Metadata(s) == <<s.dir, s.owner, s.manifest, s.state, s.receipt, s.renamed, s.tmp>>

\* No stage and no folder but those of b change.
OnlyOf(b) ==
  \A c \in Batches \ {b} : staging'[c] = staging[c] /\ published'[c] = published[c]

\* One stage is replaced.
LEMMA Replaced ==
  ASSUME IInv, NEW b \in Batches, NEW s, staging' = [staging EXCEPT ![b] = s],
         UNCHANGED published
  PROVE  OnlyOf(b) /\ staging'[b] = s /\ published'[b] = published[b]
BY DEF IInv, DiskOK, StagingOK, OnlyOf

LEMMA RemoveManifestEffect ==
  ASSUME IInv, RemoveManifest
  PROVE  LET s == staging[op.victim]
             t == staging'[op.victim] IN
         /\ op.step = "remove" /\ op.victim \in Batches /\ OnlyOf(op.victim)
         /\ published'[op.victim] = published[op.victim]
         /\ t.dir = s.dir /\ t.owner = s.owner /\ t.state = s.state
         /\ t.manifest = NoManifest /\ t.files = <<>>
         /\ UNCHANGED <<age, op, reply>>
<1> DEFINE s == staging[op.victim]
           t == [s EXCEPT !.manifest = NoManifest, !.files = <<>>, !.renamed = 0]
<1>1. op.step = "remove" /\ op.victim \in Batches /\ s \in Stage
  BY DEF RemoveManifest, IInv, SlotOK, DiskOK, StagingOK
<1>2. staging' = [staging EXCEPT ![op.victim] = t] /\ UNCHANGED <<published, age, op, reply>>
  BY DEF RemoveManifest
<1>3. /\ t.dir = s.dir /\ t.owner = s.owner /\ t.state = s.state
      /\ t.manifest = NoManifest /\ t.files = <<>>
  BY <1>1 DEF Stage
<1> HIDE DEF t
<1>4. OnlyOf(op.victim) /\ staging'[op.victim] = t /\ published'[op.victim] = published[op.victim]
  BY <1>1, <1>2, Replaced
<1>5. QED
  BY <1>1, <1>2, <1>3, <1>4

LEMMA RemoveOwnerEffect ==
  ASSUME IInv, RemoveOwner
  PROVE  LET s == staging[op.victim]
             t == staging'[op.victim] IN
         /\ op.step = "remove" /\ op.victim \in Batches /\ OnlyOf(op.victim)
         /\ published'[op.victim] = published[op.victim]
         /\ t.dir = s.dir /\ ~t.owner /\ t.state = s.state
         /\ s.manifest = NoManifest /\ t.manifest = s.manifest /\ t.files = s.files
         /\ UNCHANGED <<age, op, reply>>
<1> DEFINE s == staging[op.victim]
           t == [s EXCEPT !.owner = FALSE]
<1>1. /\ op.step = "remove" /\ op.victim \in Batches /\ s \in Stage
      /\ s.manifest = NoManifest
  BY DEF RemoveOwner, IInv, SlotOK, DiskOK, StagingOK
<1>2. staging' = [staging EXCEPT ![op.victim] = t] /\ UNCHANGED <<published, age, op, reply>>
  BY DEF RemoveOwner
<1>3. /\ t.dir = s.dir /\ ~t.owner /\ t.state = s.state
      /\ t.manifest = s.manifest /\ t.files = s.files
  BY <1>1 DEF Stage
<1> HIDE DEF t
<1>4. OnlyOf(op.victim) /\ staging'[op.victim] = t /\ published'[op.victim] = published[op.victim]
  BY <1>1, <1>2, Replaced
<1>5. QED
  BY <1>1, <1>2, <1>3, <1>4

LEMMA RemoveRestEffect ==
  ASSUME IInv, RemoveRest
  PROVE  /\ op.step = "remove" /\ op.victim \in Batches /\ OnlyOf(op.victim)
         /\ published'[op.victim] = published[op.victim]
         /\ staging[op.victim].manifest = NoManifest /\ ~staging[op.victim].owner
         /\ staging'[op.victim] = NoStage
         /\ \/ /\ op.why = "sweep" /\ op'.step = "sweep" /\ op'.id = op.id
               /\ op'.kind = op.kind /\ op'.manifest = op.manifest /\ op'.why = "none"
               /\ reply' = reply
            \/ op.why = "expire" /\ Answer("expired", "none")
            \/ op.why = "rollback" /\ Answer("error", "none")
<1>1. /\ op.step = "remove" /\ op.victim \in Batches
      /\ staging[op.victim].manifest = NoManifest /\ ~staging[op.victim].owner
      /\ op \in Operation
  BY DEF RemoveRest, IInv, SlotOK
<1>2. staging' = [staging EXCEPT ![op.victim] = NoStage] /\ UNCHANGED published
  BY DEF RemoveRest
<1>3. /\ OnlyOf(op.victim) /\ staging'[op.victim] = NoStage
      /\ published'[op.victim] = published[op.victim]
  BY <1>1, <1>2, Replaced
<1>4. ASSUME op' = [op EXCEPT !.step = "sweep", !.victim = NoBatch, !.why = "none"]
      PROVE  /\ op'.step = "sweep" /\ op'.id = op.id
             /\ op'.kind = op.kind /\ op'.manifest = op.manifest /\ op'.why = "none"
  BY <1>1, <1>4 DEF Operation
<1>5. QED
  BY <1>1, <1>3, <1>4 DEF RemoveRest

LEMMA CleanupPayloadEffect ==
  ASSUME IInv, CleanupPayload
  PROVE  LET s == staging[op.id]
             t == staging'[op.id] IN
         /\ op.step = "cleanup" /\ op.id \in Batches /\ OnlyOf(op.id)
         /\ published'[op.id] = published[op.id]
         /\ t.dir = s.dir /\ t.owner = s.owner /\ t.manifest = s.manifest
         /\ t.state = s.state /\ t.receipt = s.receipt /\ t.renamed = s.renamed
         /\ UNCHANGED <<age, op, reply>>
<1> DEFINE s == staging[op.id]
           rest == IF s.tmp THEN s.files ELSE Tail(s.files)
           t == [s EXCEPT !.tmp = FALSE, !.files = rest]
<1>1. op.step = "cleanup" /\ op.id \in Batches /\ s \in Stage
  BY DEF CleanupPayload, IInv, SlotOK, DiskOK, StagingOK
<1>2. staging' = [staging EXCEPT ![op.id] = t] /\ UNCHANGED <<published, age, op, reply>>
  BY DEF CleanupPayload
<1> HIDE DEF rest
<1>3. /\ t.dir = s.dir /\ t.owner = s.owner /\ t.manifest = s.manifest
      /\ t.state = s.state /\ t.receipt = s.receipt /\ t.renamed = s.renamed
  BY <1>1 DEF Stage
<1> HIDE DEF t
<1>4. OnlyOf(op.id) /\ staging'[op.id] = t /\ published'[op.id] = published[op.id]
  BY <1>1, <1>2, Replaced
<1>5. QED
  BY <1>1, <1>2, <1>3, <1>4

\* A step of createStageLocked replaces the stage of the operation.
LEMMA CreateStage ==
  ASSUME IInv, op.step \in CreateSteps
  PROVE  op.id \in Batches /\ staging[op.id] \in Stage
BY DEF IInv, SlotOK, DiskOK, StagingOK, CreateSteps

LEMMA CreateDirectoryEffect ==
  ASSUME IInv, CreateDirectory
  PROVE  LET t == staging'[op.id] IN
         /\ op.step = "mkdir" /\ op.id \in Batches /\ OnlyOf(op.id)
         /\ published'[op.id] = published[op.id]
         /\ Unfinished(t) /\ t.files = <<>> /\ Goto("owner")
<1> DEFINE t == [NoStage EXCEPT !.dir = TRUE]
<1>1. op.step = "mkdir" /\ op.id \in Batches /\ Goto("owner")
  BY CreateStage DEF CreateDirectory, CreateSteps
<1>2. staging' = [staging EXCEPT ![op.id] = t] /\ UNCHANGED published
  BY DEF CreateDirectory
<1>3. Unfinished(t) /\ t.files = <<>>
  BY DEF NoStage, Unfinished
<1> HIDE DEF t
<1>4. OnlyOf(op.id) /\ staging'[op.id] = t /\ published'[op.id] = published[op.id]
  BY <1>1, <1>2, Replaced
<1>5. QED
  BY <1>1, <1>3, <1>4

LEMMA CreateOwnerEffect ==
  ASSUME IInv, CreateOwner
  PROVE  LET s == staging[op.id]
             t == staging'[op.id] IN
         /\ op.step = "owner" /\ op.id \in Batches /\ OnlyOf(op.id)
         /\ published'[op.id] = published[op.id]
         /\ t.dir = s.dir /\ t.owner /\ t.state = s.state /\ t.receipt = s.receipt
         /\ t.renamed = s.renamed /\ t.tmp = s.tmp /\ t.files = s.files
         /\ Goto("manifest")
<1> DEFINE s == staging[op.id]
           t == [s EXCEPT !.owner = TRUE]
<1>1. op.step = "owner" /\ op.id \in Batches /\ s \in Stage /\ Goto("manifest")
  BY CreateStage DEF CreateOwner, CreateSteps
<1>2. staging' = [staging EXCEPT ![op.id] = t] /\ UNCHANGED published
  BY DEF CreateOwner
<1>3. /\ t.dir = s.dir /\ t.owner /\ t.state = s.state /\ t.receipt = s.receipt
      /\ t.renamed = s.renamed /\ t.tmp = s.tmp /\ t.files = s.files
  BY <1>1 DEF Stage
<1> HIDE DEF t
<1>4. OnlyOf(op.id) /\ staging'[op.id] = t /\ published'[op.id] = published[op.id]
  BY <1>1, <1>2, Replaced
<1>5. QED
  BY <1>1, <1>3, <1>4

LEMMA CreateManifestEffect ==
  ASSUME IInv, CreateManifest
  PROVE  LET s == staging[op.id]
             t == staging'[op.id] IN
         /\ op.step = "manifest" /\ op.id \in Batches /\ OnlyOf(op.id)
         /\ published'[op.id] = published[op.id]
         /\ t.dir = s.dir /\ t.owner = s.owner /\ t.state = s.state
         /\ t.receipt = s.receipt /\ t.renamed = s.renamed /\ t.tmp = s.tmp
         /\ t.files = s.files /\ t.manifest = op.manifest
         /\ Goto("payload")
<1> DEFINE s == staging[op.id]
           t == [s EXCEPT !.manifest = op.manifest]
<1>1. op.step = "manifest" /\ op.id \in Batches /\ s \in Stage /\ Goto("payload")
  BY CreateStage DEF CreateManifest, CreateSteps
<1>2. staging' = [staging EXCEPT ![op.id] = t] /\ UNCHANGED published
  BY DEF CreateManifest
<1>3. /\ t.dir = s.dir /\ t.owner = s.owner /\ t.state = s.state
      /\ t.receipt = s.receipt /\ t.renamed = s.renamed /\ t.tmp = s.tmp
      /\ t.files = s.files /\ t.manifest = op.manifest
  BY <1>1 DEF Stage
<1> HIDE DEF t
<1>4. OnlyOf(op.id) /\ staging'[op.id] = t /\ published'[op.id] = published[op.id]
  BY <1>1, <1>2, Replaced
<1>5. QED
  BY <1>1, <1>3, <1>4

\* One more empty payload file, or all of them are there.
LEMMA CreatePayloadEffect ==
  ASSUME IInv, CreatePayload
  PROVE  LET s == staging[op.id]
             t == staging'[op.id] IN
         /\ op.step = "payload" /\ op.id \in Batches /\ OnlyOf(op.id)
         /\ published'[op.id] = published[op.id]
         /\ t.dir = s.dir /\ t.owner = s.owner /\ t.state = s.state
         /\ t.manifest = s.manifest /\ t.receipt = s.receipt
         /\ t.renamed = s.renamed /\ t.tmp = s.tmp
         /\ \/ /\ Len(s.files) < Len(op.manifest)
               /\ t.files = Append(s.files, NewFile)
               /\ UNCHANGED <<op, reply>>
            \/ /\ Len(s.files) >= Len(op.manifest)
               /\ t = s /\ UNCHANGED staging /\ Goto("state")
<1> DEFINE s == staging[op.id]
           t == [s EXCEPT !.files = Append(s.files, NewFile)]
<1>1. op.step = "payload" /\ op.id \in Batches /\ s \in Stage /\ UNCHANGED published
  BY CreateStage DEF CreatePayload, CreateSteps
<1>2. CASE Len(s.files) < Len(op.manifest)
  <2>1. staging' = [staging EXCEPT ![op.id] = t] /\ UNCHANGED <<op, reply>>
    BY <1>2 DEF CreatePayload
  <2>2. /\ t.dir = s.dir /\ t.owner = s.owner /\ t.state = s.state
        /\ t.manifest = s.manifest /\ t.receipt = s.receipt
        /\ t.renamed = s.renamed /\ t.tmp = s.tmp
        /\ t.files = Append(s.files, NewFile)
    BY <1>1 DEF Stage
  <2> HIDE DEF t
  <2>3. OnlyOf(op.id) /\ staging'[op.id] = t /\ published'[op.id] = published[op.id]
    BY <1>1, <2>1, Replaced
  <2>4. QED
    BY <1>1, <1>2, <2>1, <2>2, <2>3
<1>3. CASE ~(Len(s.files) < Len(op.manifest))
  <2>1. UNCHANGED staging /\ Goto("state")
    BY <1>3 DEF CreatePayload
  <2>2. Len(s.files) >= Len(op.manifest)
    <3>1. Len(s.files) \in Nat /\ Len(op.manifest) \in Nat
      <4>1. op.manifest \in Manifests \cup {<<>>} /\ <<>> \in Seq(Seq(Byte))
        BY EmptySeq DEF IInv, Operation, NoManifest
      <4>2. op.manifest \in Seq(Seq(Byte))
        BY <4>1, PayloadAssumption DEF PayloadAssumption
      <4>3. s.files \in Seq(File)
        BY <1>1 DEF Stage
      <4>4. QED
        BY <4>2, <4>3, LenProperties
    <3>2. QED
      BY <1>3, <3>1
  <2>3. QED
    BY <1>1, <2>1, <2>2 DEF OnlyOf
<1>4. QED
  BY <1>2, <1>3

LEMMA CreateStateEffect ==
  ASSUME IInv, CreateState
  PROVE  LET s == staging[op.id]
             t == staging'[op.id] IN
         /\ op.step = "state" /\ op.id \in Batches /\ OnlyOf(op.id)
         /\ published'[op.id] = published[op.id]
         /\ t.dir = s.dir /\ t.owner = s.owner /\ t.state = "receiving"
         /\ t.manifest = s.manifest /\ t.receipt = s.receipt
         /\ t.renamed = s.renamed /\ t.tmp = s.tmp /\ t.files = s.files
         /\ Goto("syncStage")
<1> DEFINE s == staging[op.id]
           t == [s EXCEPT !.state = "receiving"]
<1>1. op.step = "state" /\ op.id \in Batches /\ s \in Stage /\ Goto("syncStage")
  BY CreateStage DEF CreateState, CreateSteps
<1>2. staging' = [staging EXCEPT ![op.id] = t] /\ UNCHANGED published
  BY DEF CreateState
<1>3. /\ t.dir = s.dir /\ t.owner = s.owner /\ t.state = "receiving"
      /\ t.manifest = s.manifest /\ t.receipt = s.receipt
      /\ t.renamed = s.renamed /\ t.tmp = s.tmp /\ t.files = s.files
  BY <1>1 DEF Stage
<1> HIDE DEF t
<1>4. OnlyOf(op.id) /\ staging'[op.id] = t /\ published'[op.id] = published[op.id]
  BY <1>1, <1>2, Replaced
<1>5. QED
  BY <1>1, <1>3, <1>4

\* A stage that keeps its metadata and whose files stay within what they were or
\* within what was declared.
SameUse(s, t) ==
  /\ Metadata(t) = Metadata(s) /\ Len(t.files) = Len(s.files)
  /\ \A i \in 1..Len(s.files) :
       \/ Len(t.files[i].data) <= Len(s.files[i].data)
       \/ Len(t.files[i].data) <= Len(s.manifest[i])

\* The lengths the model compares are numbers.
LEMMA Lengths ==
  ASSUME NEW s, StageOK(s)
  PROVE  /\ Len(s.files) \in Nat /\ Len(s.manifest) \in Nat
         /\ \A i \in 1..Len(s.files) :
              s.files[i] \in File /\ Len(s.files[i].data) \in Nat
         /\ s.manifest \in Seq(Seq(Byte))
         /\ \A i \in 1..Len(s.manifest) : s.manifest[i] \in Seq(Byte) /\ Len(s.manifest[i]) \in Nat
<1>1. s \in Stage /\ s.files \in Seq(File) /\ s.manifest \in Manifests \cup {<<>>}
  BY DEF StageOK, Stage, NoManifest
<1>2. <<>> \in Seq(Seq(Byte))
  BY EmptySeq
<1>3. s.manifest \in Seq(Seq(Byte))
  BY <1>1, <1>2, PayloadAssumption DEF PayloadAssumption
<1>4. Len(s.files) \in Nat /\ Len(s.manifest) \in Nat
  BY <1>1, <1>3, LenProperties
<1>5. ASSUME NEW i \in 1..Len(s.files)
      PROVE  s.files[i] \in File /\ Len(s.files[i].data) \in Nat
  <2>1. s.files[i] \in File
    BY <1>1
  <2>2. s.files[i].data \in Seq(Byte)
    BY <2>1 DEF File
  <2>3. QED
    BY <2>1, <2>2, LenProperties
<1>6. ASSUME NEW i \in 1..Len(s.manifest)
      PROVE  s.manifest[i] \in Seq(Byte) /\ Len(s.manifest[i]) \in Nat
  <2>1. s.manifest[i] \in Seq(Byte)
    BY <1>3
  <2>2. QED
    BY <2>1, LenProperties
<1>7. QED
  BY <1>3, <1>4, <1>5, <1>6

\* Such a stage is as usable as it was.
LEMMA UseKept ==
  ASSUME NEW s, NEW t, StageOK(s), StageOK(t), SameUse(s, t), Bounded(s)
  PROVE  /\ t.dir = s.dir /\ t.owner = s.owner /\ t.manifest = s.manifest
         /\ t.state = s.state /\ t.receipt = s.receipt /\ t.renamed = s.renamed
         /\ t.tmp = s.tmp
         /\ Bounded(t) /\ Readable(t) = Readable(s) /\ Receiving(t) = Receiving(s)
<1>1. /\ t.dir = s.dir /\ t.owner = s.owner /\ t.manifest = s.manifest
      /\ t.state = s.state /\ t.receipt = s.receipt /\ t.renamed = s.renamed
      /\ t.tmp = s.tmp /\ Len(t.files) = Len(s.files)
  BY DEF SameUse, Metadata
<1>2. Bounded(t)
  <2>1. ASSUME t.state = "receiving", NEW i \in 1..Len(t.files)
        PROVE  Len(t.files[i].data) <= Len(t.manifest[i])
    <3>1. Len(s.files) = Len(s.manifest) /\ Len(s.files[i].data) <= Len(s.manifest[i])
      BY <1>1, <2>1 DEF Bounded
    <3>2. Len(s.files[i].data) \in Nat /\ Len(t.files[i].data) \in Nat /\ Len(s.manifest[i]) \in Nat
      BY <1>1, <2>1, <3>1, Lengths
    <3>3. QED
      BY <1>1, <2>1, <3>1, <3>2 DEF SameUse
  <2>2. QED
    BY <1>1, <2>1 DEF Bounded
<1>3. QED
  BY <1>1, <1>2 DEF Readable, Receiving, Bounded

\* One payload file of a stage is replaced: its metadata and the number of
\* files stay, and the other files too.
LEMMA OneFile ==
  ASSUME NEW s, StageOK(s), NEW i \in 1..Len(s.files), NEW f, FileOK(f),
         \/ Len(f.data) <= Len(s.files[i].data)
         \/ Len(f.data) <= Len(s.manifest[i])
  PROVE  LET t == [s EXCEPT !.files = [s.files EXCEPT ![i] = f]] IN
         StageOK(t) /\ SameUse(s, t)
<1> DEFINE g == [s.files EXCEPT ![i] = f]
           t == [s EXCEPT !.files = g]
<1>1. StageOK(t) /\ s \in Stage
  BY FileUpdate DEF StageOK
<1>2. s.files \in Seq(File) /\ f \in File
  BY DEF StageOK, FilesOK, FileOK
<1>3. Len(g) = Len(s.files) /\ \A j \in 1..Len(s.files) : g[j] = IF j = i THEN f ELSE s.files[j]
  BY <1>2, ExceptSeq
<1> HIDE DEF g
<1>4. Metadata(t) = Metadata(s) /\ t.files = g
  BY <1>1 DEF Stage, Metadata
<1> HIDE DEF t
<1>5. \A j \in 1..Len(s.files) : Len(s.files[j].data) <= Len(s.files[j].data)
  BY Lengths
<1>6. SameUse(s, t)
  BY <1>3, <1>4, <1>5 DEF SameUse
<1>7. QED
  BY <1>1, <1>6 DEF t, g

\* What is left of a chunk after its first k bytes.
LEMMA SuffixProperties ==
  ASSUME NEW d \in Seq(Byte), NEW k \in 0..Len(d)
  PROVE  LET rest == SubSeq(d, k + 1, Len(d)) IN
         /\ rest \in Seq(Byte) /\ Len(rest) = Len(d) - k
         /\ \A j \in 1..(Len(d) - k) : rest[j] = d[k + j]
<1>1. PICK n \in Nat : n = Len(d)
  BY LenProperties
<1>2. PICK m \in 1..(n + 1) : m = k + 1
  BY <1>1
<1>3. /\ \A j \in m..n : d[j] \in Byte
      /\ m \in Int /\ n \in Int
  BY <1>1, <1>2
<1>4. /\ SubSeq(d, m, n) \in Seq(Byte)
      /\ Len(SubSeq(d, m, n)) = IF m <= n THEN n - m + 1 ELSE 0
  BY <1>3, SubSeqProperties
<1>5. (IF m <= n THEN n - m + 1 ELSE 0) = n - k
  BY <1>1, <1>2
<1>6. ASSUME NEW j \in 1..(n - k)
      PROVE  SubSeq(d, m, n)[j] = d[k + j]
  <2>1. j \in 1..(n - m + 1) /\ m + j - 1 = k + j
    BY <1>1, <1>2
  <2>2. SubSeq(d, m, n)[j] = d[m + j - 1]
    BY <1>3, <2>1, SubSeqProperties
  <2>3. QED
    BY <2>1, <2>2
<1>7. QED
  BY <1>1, <1>2, <1>4, <1>5, <1>6

\* Writing any part of a chunk that fits keeps the stage as usable as it was.
LEMMA GrownEffect ==
  ASSUME IInv, op.step = "write", NEW n \in 0..Len(Suffix), staging' = Grown(n),
         UNCHANGED published,
         op.offset + Len(op.data) <= Len(staging[op.id].manifest[op.index]),
         Receiving(staging[op.id])
  PROVE  /\ op.id \in Batches /\ OnlyOf(op.id) /\ published'[op.id] = published[op.id]
         /\ StageOK(staging'[op.id]) /\ SameUse(staging[op.id], staging'[op.id])
<1> DEFINE s == staging[op.id]
           i == op.index
           f == s.files[i]
           k == Overlap(Len(f.data), op.offset, op.data)
           more == SubSeq(Suffix, 1, n)
           g == [f EXCEPT !.data = f.data \o more]
           t == [s EXCEPT !.files = [s.files EXCEPT ![i] = g]]
<1>1. op.id \in Batches /\ StageOK(s) /\ i \in 1..Len(s.files) /\ FileOK(f)
  BY ChunkFile DEF ChunkSteps
<1>2. f \in File /\ f.data \in Seq(Byte) /\ Len(f.data) \in Nat
  BY <1>1, LenProperties DEF FileOK, File
<1>3. op.data \in Seq(Byte) /\ Len(op.data) \in Nat /\ op.offset \in Nat
      /\ op.offset <= Len(f.data)
  BY LenProperties DEF IInv, Operation, SlotOK
<1>4. k \in 0..Len(op.data)
  BY <1>2, <1>3, OverlapRange
<1>5. Suffix = SubSeq(op.data, k + 1, Len(op.data))
  BY DEF Suffix
<1>6. Suffix \in Seq(Byte) /\ Len(Suffix) = Len(op.data) - k
  <2> HIDE DEF k
  <2>1. QED
    BY <1>3, <1>4, <1>5, SuffixProperties
<1>7. more \in Seq(Byte) /\ Len(more) = n
  <2>1. \A j \in 1..n : Suffix[j] \in Byte
    BY <1>6
  <2>2. more \in Seq(Byte) /\ Len(more) = IF 1 <= n THEN n - 1 + 1 ELSE 0
    BY <2>1, SubSeqProperties
  <2>3. QED
    BY <2>2
<1>8. f.data \o more \in Seq(Byte) /\ Len(f.data \o more) = Len(f.data) + n
  <2>1. f.data \o more \in Seq(Byte) /\ Len(f.data \o more) = Len(f.data) + Len(more)
    BY <1>2, <1>7, ConcatProperties
  <2>2. QED
    BY <1>7, <2>1
<1>9. Len(f.data) + n <= Len(s.manifest[i]) \/ n = 0
  <2>1. CASE Len(op.data) <= Len(f.data) - op.offset
    <3>1. k = Len(op.data)
      BY <2>1 DEF Overlap
    <3>2. Len(Suffix) = 0
      BY <1>3, <1>6, <3>1
    <3>3. QED
      BY <3>2
  <2>2. CASE ~(Len(op.data) <= Len(f.data) - op.offset)
    <3>1. k = Len(f.data) - op.offset
      BY <2>2 DEF Overlap
    <3>2. n <= Len(op.data) - (Len(f.data) - op.offset) /\ n \in Nat
      BY <1>6, <3>1
    <3>3. Len(s.manifest[i]) \in Nat
      BY <1>1, Lengths DEF Receiving, Readable
    <3> DEFINE declared == Len(s.manifest[i])
               end == op.offset + Len(op.data)
    <3>4. declared \in Nat /\ end \in Nat /\ end <= declared
      BY <1>3, <3>3
    <3> HIDE DEF f, k, declared
    <3>5. Len(f.data) + n <= end
      BY <1>2, <1>3, <3>2
    <3> HIDE DEF end
    <3>6. Len(f.data) + n <= declared
      BY <1>2, <3>2, <3>4, <3>5
    <3>7. QED
      BY <3>6 DEF declared
  <2>3. QED
    BY <2>1, <2>2
<1> HIDE DEF k
<1>10. FileOK(g) /\ g.data = f.data \o more
  <2>1. /\ g \in File /\ g.data = f.data \o more
        /\ g.synced = f.synced /\ g.acked = f.acked
    BY <1>2, <1>8 DEF File
  <2>2. f.acked <= f.synced /\ f.synced <= Len(f.data) /\ f.synced \in Nat
    BY <1>1 DEF FileOK, File
  <2>3. Len(g.data) = Len(f.data) + n
    BY <1>8, <2>1
  <2> HIDE DEF g, more, f
  <2>4. f.synced <= Len(g.data)
    BY <1>2, <2>2, <2>3
  <2>5. QED
    BY <2>1, <2>2, <2>4 DEF FileOK
<1>11. Len(g.data) <= Len(f.data) \/ Len(g.data) <= Len(s.manifest[i])
  <2>1. Len(g.data) = Len(f.data) + n
    BY <1>8, <1>10
  <2> HIDE DEF g, more, f
  <2>2. QED
    BY <1>2, <1>9, <2>1
<1> HIDE DEF more, g
<1>12. StageOK(t) /\ SameUse(s, t)
  BY <1>1, <1>10, <1>11, OneFile
<1>13. staging' = [staging EXCEPT ![op.id] = t]
  BY DEF Grown, g, more
<1> HIDE DEF t
<1>14. OnlyOf(op.id) /\ staging'[op.id] = t /\ published'[op.id] = published[op.id]
  BY <1>1, <1>13, Replaced
<1>15. QED
  BY <1>1, <1>12, <1>14

\* The three steps of a PUT write at most what was declared.
LEMMA ChunkEffect ==
  ASSUME IInv, UInv, Chunk
  PROVE  /\ op.id \in Batches /\ OnlyOf(op.id) /\ published'[op.id] = published[op.id]
         /\ op.step \in ChunkSteps /\ Receiving(staging[op.id])
         /\ StageOK(staging'[op.id]) /\ SameUse(staging[op.id], staging'[op.id])
         /\ \/ Goto("fsync") \/ Goto("touch") \/ Answer("ok", "receiving")
<1> DEFINE s == staging[op.id]
           i == op.index
           f == s.files[i]
<1>1. op.step \in ChunkSteps /\ UNCHANGED published
  BY DEF Chunk, WriteSuffix, SyncPayload, TouchState, ChunkSteps
<1>2. Receiving(s)
  BY <1>1 DEF UInv, ChunkUse
<1>3. op.id \in Batches /\ StageOK(s) /\ i \in 1..Len(s.files) /\ FileOK(f)
  BY <1>1, ChunkFile
<1>4. \/ Goto("fsync") \/ Goto("touch") \/ Answer("ok", "receiving")
  BY DEF Chunk, WriteSuffix, SyncPayload, TouchState
<1>5. CASE WriteSuffix
  <2>1. op.step = "write" /\ staging' = Grown(Len(Suffix))
    BY <1>5 DEF WriteSuffix
  <2>2. op.offset + Len(op.data) <= Len(s.manifest[i])
    BY <2>1 DEF UInv, ChunkUse
  <2>3. Len(Suffix) \in 0..Len(Suffix)
    <3>1. op.data \in Seq(Byte) /\ op.offset \in Nat /\ op.offset <= Len(f.data)
      BY <2>1 DEF IInv, Operation, SlotOK
    <3>2. Len(op.data) \in Nat /\ Len(f.data) \in Nat
      BY <1>3, <3>1, Lengths, LenProperties
    <3>3. Overlap(Len(f.data), op.offset, op.data) \in 0..Len(op.data)
      BY <3>1, <3>2, OverlapRange
    <3>4. Suffix \in Seq(Byte)
      BY <3>1, <3>3, SuffixProperties DEF Suffix
    <3>5. QED
      BY <3>4, LenProperties
  <2>4. QED
    BY <1>1, <1>2, <1>4, <2>1, <2>2, <2>3, GrownEffect
<1>6. ASSUME NEW g, FileOK(g), g.data = f.data,
             staging' = [staging EXCEPT ![op.id] =
               [s EXCEPT !.files = [s.files EXCEPT ![i] = g]]]
      PROVE  OnlyOf(op.id) /\ StageOK(staging'[op.id]) /\ SameUse(s, staging'[op.id])
             /\ published'[op.id] = published[op.id]
  <2> DEFINE t == [s EXCEPT !.files = [s.files EXCEPT ![i] = g]]
  <2>1. Len(g.data) <= Len(f.data)
    BY <1>3, <1>6, Lengths
  <2>2. StageOK(t) /\ SameUse(s, t)
    BY <1>3, <1>6, <2>1, OneFile
  <2> HIDE DEF t
  <2>3. staging' = [staging EXCEPT ![op.id] = t]
    BY <1>6 DEF t
  <2>4. QED
    BY <1>1, <1>3, <2>2, <2>3, Replaced
<1>7. f \in File /\ Len(f.data) \in Nat /\ f.acked <= f.synced /\ f.synced <= Len(f.data)
  BY <1>3, LenProperties DEF FileOK, File
<1>8. CASE SyncPayload
  <2> DEFINE g == [f EXCEPT !.synced = Len(f.data)]
  <2>1. FileOK(g) /\ g.data = f.data
    BY <1>7 DEF FileOK, File
  <2>2. staging' = [staging EXCEPT ![op.id] = [s EXCEPT !.files = [s.files EXCEPT ![i] = g]]]
    BY <1>8 DEF SyncPayload
  <2> HIDE DEF g
  <2>3. QED
    BY <1>1, <1>2, <1>3, <1>4, <1>6, <2>1, <2>2
<1>9. CASE TouchState
  <2> DEFINE g == [f EXCEPT !.acked = Len(f.data)]
  <2>1. f.synced = Len(f.data)
    BY <1>9 DEF TouchState, IInv, SlotOK
  <2>2. FileOK(g) /\ g.data = f.data
    BY <1>7, <2>1 DEF FileOK, File
  <2>3. staging' = [staging EXCEPT ![op.id] = [s EXCEPT !.files = [s.files EXCEPT ![i] = g]]]
    BY <1>9 DEF TouchState
  <2> HIDE DEF g
  <2>4. QED
    BY <1>1, <1>2, <1>3, <1>4, <1>6, <2>2, <2>3
<1>10. QED
  BY <1>5, <1>8, <1>9 DEF Chunk

LEMMA PublishStage ==
  ASSUME IInv, op.step \in PublishSteps \cup CancelSteps
  PROVE  op.id \in Batches /\ staging[op.id] \in Stage /\ StageOK(staging[op.id])
BY DEF IInv, SlotOK, DiskOK, StagingOK, PublishSteps, CancelSteps

LEMMA PublishReceiptEffect ==
  ASSUME IInv, PublishReceipt
  PROVE  LET s == staging[op.id]
             t == staging'[op.id] IN
         /\ op.step = "receipt" /\ op.id \in Batches /\ OnlyOf(op.id)
         /\ published'[op.id] = published[op.id]
         /\ t.dir = s.dir /\ t.owner = s.owner /\ t.manifest = s.manifest
         /\ t.state = s.state /\ t.receipt /\ t.files = s.files
         /\ Goto("restate")
<1> DEFINE s == staging[op.id]
           t == [s EXCEPT !.receipt = TRUE]
<1>1. op.step = "receipt" /\ op.id \in Batches /\ s \in Stage /\ Goto("restate")
  BY PublishStage DEF PublishReceipt, PublishSteps
<1>2. staging' = [staging EXCEPT ![op.id] = t] /\ UNCHANGED published
  BY DEF PublishReceipt
<1>3. /\ t.dir = s.dir /\ t.owner = s.owner /\ t.manifest = s.manifest
      /\ t.state = s.state /\ t.receipt /\ t.files = s.files
  BY <1>1 DEF Stage
<1> HIDE DEF t
<1>4. OnlyOf(op.id) /\ staging'[op.id] = t /\ published'[op.id] = published[op.id]
  BY <1>1, <1>2, Replaced
<1>5. QED
  BY <1>1, <1>3, <1>4

\* One more payload file has its public name, or all of them have.
LEMMA RenamePayloadEffect ==
  ASSUME IInv, RenamePayload
  PROVE  LET s == staging[op.id]
             t == staging'[op.id] IN
         /\ op.step = "rename" /\ op.id \in Batches /\ OnlyOf(op.id)
         /\ published'[op.id] = published[op.id]
         /\ t.dir = s.dir /\ t.owner = s.owner /\ t.manifest = s.manifest
         /\ t.state = s.state /\ t.receipt = s.receipt /\ t.files = s.files
         /\ UNCHANGED <<op, reply>> \/ Goto("publish")
<1> DEFINE s == staging[op.id]
           t == [s EXCEPT !.renamed = s.renamed + 1]
<1>1. op.step = "rename" /\ op.id \in Batches /\ s \in Stage /\ UNCHANGED published
  BY PublishStage DEF RenamePayload, PublishSteps
<1>2. CASE s.renamed < Len(s.manifest)
  <2>1. staging' = [staging EXCEPT ![op.id] = t] /\ UNCHANGED <<op, reply>>
    BY <1>2 DEF RenamePayload
  <2>2. /\ t.dir = s.dir /\ t.owner = s.owner /\ t.manifest = s.manifest
        /\ t.state = s.state /\ t.receipt = s.receipt /\ t.files = s.files
    BY <1>1 DEF Stage
  <2> HIDE DEF t
  <2>3. OnlyOf(op.id) /\ staging'[op.id] = t /\ published'[op.id] = published[op.id]
    BY <1>1, <2>1, Replaced
  <2>4. QED
    BY <1>1, <2>1, <2>2, <2>3
<1>3. CASE ~(s.renamed < Len(s.manifest))
  BY <1>1, <1>3 DEF RenamePayload, OnlyOf
<1>4. QED
  BY <1>2, <1>3

LEMMA PublishFolderEffect ==
  ASSUME IInv, PublishFolder
  PROVE  /\ op.step = "publish" /\ op.id \in Batches /\ OnlyOf(op.id)
         /\ staging'[op.id] = NoStage
         /\ published'[op.id].exists
         /\ published'[op.id].manifest = staging[op.id].manifest
         /\ Goto("syncRoot")
<1>1. op.step = "publish" /\ op.id \in Batches /\ Goto("syncRoot")
  BY PublishStage DEF PublishFolder, PublishSteps
<1>2. PICK f : /\ f = [exists |-> TRUE, manifest |-> staging[op.id].manifest,
                       files |-> staging[op.id].files]
               /\ published' = [published EXCEPT ![op.id] = f]
  BY DEF PublishFolder
<1>3. f.exists /\ f.manifest = staging[op.id].manifest
  BY <1>2
<1>4. published'[op.id] = f /\ \A c \in Batches \ {op.id} : published'[c] = published[c]
  BY <1>1, <1>2 DEF IInv, DiskOK, PublishedOK
<1>5. staging' = [staging EXCEPT ![op.id] = NoStage]
  BY DEF PublishFolder
<1>6. staging'[op.id] = NoStage /\ \A c \in Batches \ {op.id} : staging'[c] = staging[c]
  BY <1>1, <1>5 DEF IInv, DiskOK, StagingOK
<1>7. QED
  BY <1>1, <1>3, <1>4, <1>6 DEF OnlyOf

LEMMA WriteTombstoneEffect ==
  ASSUME IInv, WriteTombstone
  PROVE  LET s == staging[op.id]
             t == staging'[op.id] IN
         /\ op.step = "tombstone" /\ op.id \in Batches /\ OnlyOf(op.id)
         /\ published'[op.id] = published[op.id]
         /\ t.dir = s.dir /\ t.owner = s.owner /\ t.manifest = s.manifest
         /\ t.state = "cancelled" /\ t.receipt = s.receipt /\ t.renamed = s.renamed
         /\ Goto("syncTomb")
<1> DEFINE s == staging[op.id]
           t == [s EXCEPT !.state = "cancelled"]
<1>1. op.step = "tombstone" /\ op.id \in Batches /\ s \in Stage /\ Goto("syncTomb")
  BY PublishStage DEF WriteTombstone, CancelSteps
<1>2. staging' = [staging EXCEPT ![op.id] = t] /\ UNCHANGED published
  BY DEF WriteTombstone
<1>3. /\ t.dir = s.dir /\ t.owner = s.owner /\ t.manifest = s.manifest
      /\ t.state = "cancelled" /\ t.receipt = s.receipt /\ t.renamed = s.renamed
  BY <1>1 DEF Stage
<1> HIDE DEF t
<1>4. OnlyOf(op.id) /\ staging'[op.id] = t /\ published'[op.id] = published[op.id]
  BY <1>1, <1>2, Replaced
<1>5. QED
  BY <1>1, <1>3, <1>4

\* What a crash leaves: the stage as it was, with a torn metadata file in it, or
\* with a part of the chunk.
Torn(s, t) ==
  /\ t.dir = s.dir /\ t.owner = s.owner /\ t.manifest = s.manifest
  /\ t.state = s.state /\ t.receipt = s.receipt /\ t.renamed = s.renamed
  /\ t.tmp /\ t.files = s.files

LEMMA CrashEffect ==
  ASSUME IInv, UInv, Crash
  PROVE  /\ op.id \in Batches /\ OnlyOf(op.id) /\ published'[op.id] = published[op.id]
         /\ op.step # "idle" /\ op' = Idle /\ reply' = NoReply
         /\ \/ staging'[op.id] = staging[op.id]
            \/ op.step \in MetadataSteps /\ Torn(staging[op.id], staging'[op.id])
            \/ /\ op.step = "write" /\ StageOK(staging'[op.id])
               /\ SameUse(staging[op.id], staging'[op.id])
<1> DEFINE s == staging[op.id]
<1>1. /\ op.step # "idle" /\ op' = Idle /\ reply' = NoReply /\ UNCHANGED published
      /\ op.id \in Batches /\ staging' \in Wreckage
  BY DEF Crash, IInv, SlotOK
<1>2. CASE staging' = staging
  BY <1>1, <1>2 DEF OnlyOf
<1>3. CASE op.step \in MetadataSteps /\ staging' = [staging EXCEPT ![op.id].tmp = TRUE]
  <2> DEFINE t == [s EXCEPT !.tmp = TRUE]
  <2>1. staging' = [staging EXCEPT ![op.id] = t] /\ s \in Stage /\ op.step \in MetadataSteps
    BY <1>1, <1>3 DEF IInv, DiskOK, StagingOK
  <2>2. Torn(s, t)
    BY <2>1 DEF Torn, Stage
  <2> HIDE DEF t
  <2>3. OnlyOf(op.id) /\ staging'[op.id] = t /\ published'[op.id] = published[op.id]
    BY <1>1, <2>1, Replaced
  <2>4. QED
    BY <1>1, <2>1, <2>2, <2>3
<1>4. CASE op.step = "write" /\ \E n \in 0..Len(Suffix) : staging' = Grown(n)
  <2>1. Receiving(s) /\ op.offset + Len(op.data) <= Len(s.manifest[op.index])
    BY <1>4 DEF UInv, ChunkUse, ChunkSteps
  <2>2. QED
    BY <1>1, <1>4, <2>1, GrownEffect
<1>5. \/ staging' = staging
      \/ op.step \in MetadataSteps /\ staging' = [staging EXCEPT ![op.id].tmp = TRUE]
      \/ op.step = "write" /\ \E n \in 0..Len(Suffix) : staging' = Grown(n)
  BY <1>1, Zenon DEF Wreckage
<1>6. QED
  BY <1>2, <1>3, <1>4, <1>5

\* A power loss shortens files and leaves all else.
LEMMA PowerEffect ==
  ASSUME IInv, PowerLoss, NEW b \in Batches
  PROVE  /\ StageOK(staging'[b]) /\ SameUse(staging[b], staging'[b])
         /\ published'[b].exists = published[b].exists
         /\ published'[b].manifest = published[b].manifest
<1> DEFINE s == staging[b]
           p == published[b]
<1>1. StageOK(s) /\ s \in Stage /\ StageOK(staging'[b]) /\ p \in Folder
  BY PowerStep DEF IInv, DiskOK, StagingOK, StageOK, PublishedOK
<1>2. /\ staging'[b] = s \/ staging'[b] = [s EXCEPT !.files = Truncated(s.files)]
      /\ published'[b] = p \/ published'[b] = [p EXCEPT !.files = Truncated(p.files)]
  BY DEF PowerLoss
<1>3. published'[b].exists = p.exists /\ published'[b].manifest = p.manifest
  BY <1>1, <1>2 DEF Folder
<1>4. CASE staging'[b] = s
  BY <1>1, <1>3, <1>4, Lengths DEF SameUse
<1>5. CASE staging'[b] = [s EXCEPT !.files = Truncated(s.files)]
  <2>1. PICK d : d = Truncated(s.files)
    OBVIOUS
  <2>2. Len(d) = Len(s.files)
    BY <1>1, <2>1, TruncatedOK DEF StageOK
  <2>3. staging'[b] = [s EXCEPT !.files = d]
    BY <1>5, <2>1
  <2>4. Metadata(staging'[b]) = Metadata(s) /\ staging'[b].files = d
    BY <1>1, <2>3 DEF Stage, Metadata
  <2>5. ASSUME NEW i \in 1..Len(s.files)
        PROVE  Len(d[i].data) <= Len(s.files[i].data)
    <3> DEFINE f == s.files[i]
    <3>1. FileOK(f) /\ f \in File /\ Len(f.data) \in Nat /\ f.data \in Seq(Byte)
      BY <1>1, <2>5, Lengths DEF StageOK, FilesOK, FileOK, File
    <3>2. f.synced \in Nat /\ f.synced <= Len(f.data)
      BY <3>1 DEF FileOK, File
    <3>3. i \in DOMAIN s.files
      BY <1>1, <2>5, LenProperties DEF StageOK, FilesOK
    <3>4. d[i] = [f EXCEPT !.data = SubSeq(f.data, 1, f.synced)]
      BY <2>1, <3>3 DEF Truncated
    <3>5. d[i].data = SubSeq(f.data, 1, f.synced)
      BY <3>1, <3>4 DEF File
    <3> HIDE DEF f
    <3>6. Len(SubSeq(f.data, 1, f.synced)) = f.synced
      <4>1. \A j \in 1..f.synced : f.data[j] \in Byte
        BY <3>1, <3>2
      <4>2. Len(SubSeq(f.data, 1, f.synced)) = IF 1 <= f.synced THEN f.synced - 1 + 1 ELSE 0
        BY <3>2, <4>1, SubSeqProperties
      <4>3. QED
        BY <3>2, <4>2
    <3>7. Len(d[i].data) <= Len(f.data)
      BY <3>2, <3>5, <3>6
    <3>8. QED
      BY <3>7 DEF f
  <2>6. QED
    BY <1>1, <1>3, <2>2, <2>4, <2>5 DEF SameUse
<1>6. QED
  BY <1>2, <1>4, <1>5

-----------------------------------------------------------------------------
(* What the decision of a method leads to.                                   *)

\* The disk bears out an answer that reports success.
Borne(state) ==
  LET s == staging[op.id]
      f == published[op.id] IN
  /\ op.kind = "begin" =>
       op.manifest = (IF state = "stored" THEN f.manifest ELSE s.manifest)
  /\ state = "stored" => f.exists
  /\ state = "receiving" => Receiving(s)
  /\ state = "cancelled" => Tombstone(s) /\ s.files = <<>>

Outcome ==
  LET s == staging[op.id] IN
  \/ \E result \in Results, state \in {"none", "receiving", "stored", "cancelled"} :
       Answer(result, state) /\ (result = "ok" => Borne(state))
  \/ Goto("cleanup") /\ Tombstone(s)
  \/ StartRemoval(op.id, "expire") /\ Expired(op.id)
  \/ Goto("mkdir") /\ op.kind = "begin" /\ ~s.dir /\ ~AtCapacity
  \/ Goto("write") /\ op.kind = "chunk" /\ Receiving(s)
       /\ op.offset + Len(op.data) <= Len(s.manifest[op.index])
  \/ Goto("receipt") /\ op.kind = "commit" /\ Receiving(s) /\ ~published[op.id].exists
  \/ Goto("tombstone") /\ Receiving(s)

\* A readable stage that is not receiving is a tombstone.
LEMMA ReadableState ==
  ASSUME NEW s \in Stage, Readable(s)
  PROVE  /\ s.state \in {"receiving", "cancelled"}
         /\ s.state = "receiving" => Receiving(s)
         /\ s.state = "cancelled" => Tombstone(s)
BY DEF Readable, Receiving, Tombstone, Stage

LEMMA UnusableOutcome ==
  ASSUME NEW s \in Stage, s = staging[op.id], LeaveUnusable(s), StageUnusable(s)
  PROVE  Outcome
<1>1. CASE ~Readable(s)
  <2>1. Answer("corrupt", "none")
    BY <1>1 DEF LeaveUnusable
  <2>2. "corrupt" \in Results /\ "corrupt" # "ok"
    BY DEF Results
  <2>3. QED
    BY <2>1, <2>2 DEF Outcome
<1>2. CASE Readable(s) /\ Leftover(s)
  <2>1. Goto("cleanup") /\ Tombstone(s)
    BY <1>2 DEF LeaveUnusable, Leftover, Tombstone
  <2>2. QED
    BY <2>1 DEF Outcome
<1>3. CASE Readable(s) /\ ~Leftover(s)
  <2>1. StartRemoval(op.id, "expire") /\ Expired(op.id)
    BY <1>3 DEF LeaveUnusable, StageUnusable
  <2>2. QED
    BY <2>1 DEF Outcome
<1>4. QED
  BY <1>1, <1>2, <1>3

\* An answer that is not a success promises nothing.
LEMMA FailureOutcome ==
  ASSUME NEW result \in Results \ {"ok"},
         NEW state \in {"none", "receiving", "stored", "cancelled"}, Answer(result, state)
  PROVE  Outcome
BY DEF Outcome

LEMMA SuccessOutcome ==
  ASSUME NEW state \in {"none", "receiving", "stored", "cancelled"}, Answer("ok", state),
         Borne(state)
  PROVE  Outcome
BY DEF Outcome, Results

LEMMA DecideOutcome ==
  ASSUME IInv, Decide
  PROVE  op.step = "decide" /\ op.id \in Batches /\ UNCHANGED disk /\ Outcome
<1> DEFINE s == staging[op.id]
           f == published[op.id]
<1>1. op.step = "decide" /\ UNCHANGED disk
  BY DEF Decide, DecideBegin, DecideStatus, DecideChunk, DecideCommit, DecideCancel
<1>2. op.id \in Batches
  BY <1>1 DEF IInv, SlotOK
<1>3. s \in Stage /\ StageOK(s)
  BY <1>2 DEF IInv, DiskOK, StagingOK
<1>4. CASE DecideBegin
  <2>1. op.kind = "begin"
    BY <1>4 DEF DecideBegin
  <2>2. CASE f.exists
    <3>1. CASE f.manifest = op.manifest
      <4>1. Answer("ok", "stored")
        BY <1>4, <2>2, <3>1 DEF DecideBegin
      <4>2. Borne("stored")
        BY <2>2, <3>1 DEF Borne
      <4>3. QED
        BY <1>1, <1>2, <4>1, <4>2, SuccessOutcome
    <3>2. CASE f.manifest # op.manifest
      <4>1. Answer("conflict", "none")
        BY <1>4, <2>2, <3>2 DEF DecideBegin
      <4>2. QED
        BY <1>1, <1>2, <4>1, FailureOutcome DEF Results
    <3>3. QED
      BY <3>1, <3>2
  <2>3. CASE ~f.exists /\ s.dir
    <3>1. CASE ~Readable(s)
      <4>1. Answer("corrupt", "none")
        BY <1>4, <2>3, <3>1 DEF DecideBegin
      <4>2. QED
        BY <1>1, <1>2, <4>1, FailureOutcome DEF Results
    <3>2. CASE Readable(s) /\ Leftover(s)
      <4>1. Goto("cleanup") /\ Tombstone(s)
        BY <1>4, <2>3, <3>2 DEF DecideBegin, Leftover, Tombstone
      <4>2. QED
        BY <1>1, <1>2, <4>1 DEF Outcome
    <3>3. CASE Readable(s) /\ ~Leftover(s) /\ s.manifest # op.manifest
      <4>1. Answer("conflict", "none")
        BY <1>4, <2>3, <3>3 DEF DecideBegin
      <4>2. QED
        BY <1>1, <1>2, <4>1, FailureOutcome DEF Results
    <3>4. CASE Readable(s) /\ ~Leftover(s) /\ s.manifest = op.manifest
      <4>1. Answer("ok", s.state)
        BY <1>4, <2>3, <3>4 DEF DecideBegin
      <4>2. s.state \in {"receiving", "cancelled"} /\ Borne(s.state)
        BY <1>3, <3>4, ReadableState DEF Borne, Leftover
      <4>3. QED
        BY <1>1, <1>2, <4>1, <4>2, SuccessOutcome
    <3>5. QED
      BY <3>1, <3>2, <3>3, <3>4
  <2>4. CASE ~f.exists /\ ~s.dir
    <3>1. CASE AtCapacity
      <4>1. Answer("capacity", "none")
        BY <1>4, <2>4, <3>1 DEF DecideBegin
      <4>2. QED
        BY <1>1, <1>2, <4>1, FailureOutcome DEF Results
    <3>2. CASE ~AtCapacity
      <4>1. Goto("mkdir")
        BY <1>4, <2>4, <3>2 DEF DecideBegin
      <4>2. QED
        BY <1>1, <1>2, <2>1, <2>4, <3>2, <4>1 DEF Outcome
    <3>3. QED
      BY <3>1, <3>2
  <2>5. QED
    BY <2>2, <2>3, <2>4
<1>5. CASE DecideStatus
  <2>1. op.kind = "status"
    BY <1>5 DEF DecideStatus
  <2>2. CASE f.exists
    <3>1. Answer("ok", "stored")
      BY <1>5, <2>2 DEF DecideStatus
    <3>2. Borne("stored")
      BY <2>1, <2>2 DEF Borne
    <3>3. QED
      BY <1>1, <1>2, <3>1, <3>2, SuccessOutcome
  <2>3. CASE ~f.exists /\ ~s.dir
    <3>1. Answer("notfound", "none")
      BY <1>5, <2>3 DEF DecideStatus
    <3>2. QED
      BY <1>1, <1>2, <3>1, FailureOutcome DEF Results
  <2>4. CASE ~f.exists /\ s.dir /\ StageUnusable(s)
    <3>1. LeaveUnusable(s)
      BY <1>5, <2>4 DEF DecideStatus
    <3>2. QED
      BY <1>1, <1>2, <1>3, <2>4, <3>1, UnusableOutcome
  <2>5. CASE ~f.exists /\ s.dir /\ ~StageUnusable(s)
    <3>1. Answer("ok", s.state)
      BY <1>5, <2>5 DEF DecideStatus
    <3>2. s.state \in {"receiving", "cancelled"} /\ Borne(s.state)
      BY <1>3, <2>1, <2>5, ReadableState DEF Borne, StageUnusable, Leftover
    <3>3. QED
      BY <1>1, <1>2, <3>1, <3>2, SuccessOutcome
  <2>6. QED
    BY <2>2, <2>3, <2>4, <2>5
<1>6. CASE DecideChunk
  <2>1. op.kind = "chunk"
    BY <1>6 DEF DecideChunk
  <2>2. CASE ~s.dir
    <3>1. Answer("conflict", "stored") \/ Answer("notfound", "none")
      BY <1>6, <2>2 DEF DecideChunk
    <3>2. QED
      BY <1>1, <1>2, <3>1, FailureOutcome DEF Results
  <2>3. CASE s.dir /\ StageUnusable(s)
    <3>1. LeaveUnusable(s)
      BY <1>6, <2>3 DEF DecideChunk
    <3>2. QED
      BY <1>1, <1>2, <1>3, <2>3, <3>1, UnusableOutcome
  <2>4. CASE s.dir /\ ~StageUnusable(s) /\ ~Goto("write")
    <3>1. \/ Answer("conflict", "cancelled") \/ Answer("invalid", "receiving")
          \/ Answer("capacity", "receiving") \/ Answer("conflict", "receiving")
      BY <1>6, <2>4 DEF DecideChunk
    <3>2. QED
      BY <1>1, <1>2, <3>1, FailureOutcome DEF Results
  <2>5. CASE s.dir /\ ~StageUnusable(s) /\ Goto("write")
    <3>1. /\ s.state # "cancelled" /\ ~(op.index > Len(s.manifest))
          /\ ~(op.offset + Len(op.data) > Len(s.manifest[op.index]))
      BY <1>6, <2>5 DEF DecideChunk, Answer, AnswerAs, Goto, Idle
    <3>2. Receiving(s)
      BY <1>3, <2>5, <3>1, ReadableState DEF StageUnusable
    <3>3. op.index \in Nat /\ op.index # 0 /\ op.offset \in Nat /\ Len(op.data) \in Nat
      BY <2>1, LenProperties DEF IInv, Operation, SlotOK
    <3>4. op.index \in 1..Len(s.manifest)
      BY <1>3, <3>1, <3>3, Lengths
    <3>5. op.offset + Len(op.data) <= Len(s.manifest[op.index])
      <4>1. Len(s.manifest[op.index]) \in Nat
        BY <1>3, <3>4, Lengths
      <4> DEFINE declared == Len(s.manifest[op.index])
                 end == op.offset + Len(op.data)
      <4>2. declared \in Nat /\ end \in Nat /\ ~(end > declared)
        BY <3>1, <3>3, <4>1
      <4> HIDE DEF declared, end
      <4>3. end <= declared
        BY <4>2
      <4>4. QED
        BY <4>3 DEF declared, end
    <3>6. QED
      BY <1>1, <1>2, <2>1, <2>5, <3>2, <3>5 DEF Outcome
  <2>6. QED
    BY <2>2, <2>3, <2>4, <2>5
<1>7. CASE DecideCommit
  <2>1. op.kind = "commit"
    BY <1>7 DEF DecideCommit
  <2>2. CASE f.exists
    <3>1. Answer("ok", "stored")
      BY <1>7, <2>2 DEF DecideCommit
    <3>2. Borne("stored")
      BY <2>1, <2>2 DEF Borne
    <3>3. QED
      BY <1>1, <1>2, <3>1, <3>2, SuccessOutcome
  <2>3. CASE ~f.exists /\ ~s.dir
    <3>1. Answer("notfound", "none")
      BY <1>7, <2>3 DEF DecideCommit
    <3>2. QED
      BY <1>1, <1>2, <3>1, FailureOutcome DEF Results
  <2>4. CASE ~f.exists /\ s.dir /\ StageUnusable(s)
    <3>1. LeaveUnusable(s)
      BY <1>7, <2>4 DEF DecideCommit
    <3>2. QED
      BY <1>1, <1>2, <1>3, <2>4, <3>1, UnusableOutcome
  <2>5. CASE ~f.exists /\ s.dir /\ ~StageUnusable(s)
    <3>1. CASE s.state = "cancelled" \/ ~Verified(s)
      <4>1. \/ Answer("conflict", "cancelled") \/ Answer("incomplete", "receiving")
            \/ Answer("conflict", "receiving")
        BY <1>7, <2>5, <3>1 DEF DecideCommit, Refusal
      <4>2. QED
        BY <1>1, <1>2, <4>1, FailureOutcome DEF Results
    <3>2. CASE ~(s.state = "cancelled" \/ ~Verified(s))
      <4>1. Goto("receipt")
        BY <1>7, <2>5, <3>2 DEF DecideCommit
      <4>2. Receiving(s)
        BY <1>3, <2>5, <3>2, ReadableState DEF StageUnusable
      <4>3. QED
        BY <1>1, <1>2, <2>1, <2>5, <4>1, <4>2 DEF Outcome
    <3>3. QED
      BY <3>1, <3>2
  <2>6. QED
    BY <2>2, <2>3, <2>4, <2>5
<1>8. CASE DecideCancel
  <2>1. op.kind = "cancel"
    BY <1>8 DEF DecideCancel
  <2>2. CASE f.exists \/ ~s.dir
    <3>1. Answer("conflict", "stored") \/ Answer("notfound", "none")
      BY <1>8, <2>2 DEF DecideCancel
    <3>2. QED
      BY <1>1, <1>2, <3>1, FailureOutcome DEF Results
  <2>3. CASE ~f.exists /\ s.dir /\ StageUnusable(s)
    <3>1. LeaveUnusable(s)
      BY <1>8, <2>3 DEF DecideCancel
    <3>2. QED
      BY <1>1, <1>2, <1>3, <2>3, <3>1, UnusableOutcome
  <2>4. CASE ~f.exists /\ s.dir /\ ~StageUnusable(s)
    <3>1. CASE s.state = "cancelled"
      <4>1. Answer("ok", "cancelled")
        BY <1>8, <2>4, <3>1 DEF DecideCancel
      <4>2. Borne("cancelled")
        BY <1>3, <2>1, <2>4, <3>1, ReadableState DEF Borne, StageUnusable, Leftover
      <4>3. QED
        BY <1>1, <1>2, <4>1, <4>2, SuccessOutcome
    <3>2. CASE s.state # "cancelled"
      <4>1. Goto("tombstone") /\ Receiving(s)
        BY <1>3, <1>8, <2>4, <3>2, ReadableState DEF DecideCancel, StageUnusable
      <4>2. QED
        BY <1>1, <1>2, <4>1 DEF Outcome
    <3>3. QED
      BY <3>1, <3>2
  <2>5. QED
    BY <2>2, <2>3, <2>4
<1>9. QED
  BY <1>4, <1>5, <1>6, <1>7, <1>8 DEF Decide

-----------------------------------------------------------------------------
(* The strengthening is preserved.                                           *)

StagesBounded == \A b \in Batches : Bounded(staging[b])

\* A stage that stays bounded, alone.
LEMMA BoundedKept ==
  ASSUME StagesBounded, NEW b \in Batches, OnlyOf(b), Bounded(staging'[b])
  PROVE  StagesBounded'
BY DEF StagesBounded, OnlyOf, Bounded

\* A stage that keeps its files and its manifest, or is not a receiving one.
LEMMA BoundedAlike ==
  ASSUME NEW s, NEW t, Bounded(s),
         \/ t.state # "receiving"
         \/ t.state = s.state /\ t.files = s.files /\ t.manifest = s.manifest
  PROVE  Bounded(t)
BY DEF Bounded

\* A removed stage.
LEMMA BoundedNone ==
  ASSUME NEW t, t = NoStage \/ (t.files = <<>> /\ t.manifest = NoManifest)
  PROVE  Bounded(t)
<1>1. CASE t = NoStage
  BY <1>1 DEF NoStage, Bounded
<1>2. CASE t.files = <<>> /\ t.manifest = NoManifest
  <2>1. Len(<<>>) = 0
    BY EmptySeq
  <2>2. QED
    BY <1>2, <2>1 DEF Bounded, NoManifest
<1>3. QED
  BY <1>1, <1>2

\* The disk is left alone.
LEMMA BoundedSame ==
  ASSUME StagesBounded, UNCHANGED staging
  PROVE  StagesBounded'
BY DEF StagesBounded, Bounded

\* What a move to another step has to provide.
LEMMA GotoUse ==
  ASSUME IInv, UInv, op.step \notin {"idle", "remove"}, StagesBounded',
         NEW step \in Steps \ {"idle", "remove"}, Goto(step),
         step \in CreateSteps \cup {"sweep"} => op.kind = "begin",
         step \in ChunkSteps => op.kind = "chunk",
         step \in PublishSteps \cup {"syncRoot"} => op.kind = "commit"
  PROVE  /\ op'.step = step /\ op'.id = op.id /\ op'.manifest = op.manifest
         /\ op'.index = op.index /\ op'.offset = op.offset /\ op'.data = op.data
         /\ (CreateUse /\ ChunkUse /\ PublishUse /\ CancelUse)' => UInv'
<1>1. /\ op'.step = step /\ op'.id = op.id /\ op'.manifest = op.manifest
      /\ op'.index = op.index /\ op'.offset = op.offset /\ op'.data = op.data
      /\ op'.why = op.why /\ op'.kind = op.kind /\ reply' = reply
  BY Moves DEF IInv
<1>2. KindsOK' /\ op'.why = "none"
  BY <1>1 DEF UInv, KindsOK
<1>3. RemoveUse'
  BY <1>2 DEF RemoveUse
<1>4. QED
  BY <1>1, <1>2, <1>3 DEF UInv, StagesBounded

\* Whatever returns leaves nothing to ask.
LEMMA AnswerUse ==
  ASSUME StagesBounded', NEW result, NEW state, NEW fresh, AnswerAs(result, state, fresh)
  PROVE  UInv'
BY Returns, IdleUse DEF StagesBounded

\* A removal starts for a reason that holds.
LEMMA RemovalUse ==
  ASSUME IInv, UInv, op.step # "idle", StagesBounded',
         NEW b \in Batches, NEW why \in {"sweep", "expire", "rollback"},
         StartRemoval(b, why),
         why = "sweep" => op.kind = "begin",
         why = "rollback" => staging'[b].state = "receiving",
         why # "rollback" => age'[b] >= TTL
  PROVE  UInv'
<1>1. /\ op'.step = "remove" /\ op'.id = op.id /\ op'.kind = op.kind
      /\ op'.manifest = op.manifest /\ op'.victim = b /\ op'.why = why /\ reply' = reply
  BY Removes DEF IInv
<1>2. KindsOK'
  BY <1>1 DEF UInv, KindsOK, CreateSteps, ChunkSteps, PublishSteps
<1>3. (CreateUse /\ ChunkUse /\ PublishUse /\ CancelUse)'
  BY <1>1 DEF CreateUse, ChunkUse, PublishUse, CancelUse, CreateSteps, ChunkSteps, PublishSteps
<1>4. RemoveUse'
  BY <1>1 DEF RemoveUse, Expired
<1>5. QED
  BY <1>2, <1>3, <1>4 DEF UInv, StagesBounded

\* What a request puts into the operation slot.
LEMMA Requested ==
  ASSUME Request
  PROVE  /\ op.step = "idle" /\ UNCHANGED <<staging, published>> /\ reply' = NoReply
         /\ op'.step \in {"sweep", "decide"} /\ op'.why = "none"
         /\ op'.step = "sweep" => op'.kind = "begin"
         /\ op'.kind = "begin" => op'.manifest \in Manifests
<1>1. PICK kind \in Kinds, b \in Batches, first \in {"sweep", "decide"} :
        /\ first = "sweep" => kind = "begin"
        /\ \E m, i, off, data :
             /\ Enter(kind, b, m, i, off, data, first)
             /\ kind = "begin" => m \in Manifests
  BY DEF Request, BeginRequest, StatusRequest, ChunkRequest, CommitRequest, CancelRequest, Kinds
<1>2. PICK m, i, off, data :
        /\ Enter(kind, b, m, i, off, data, first)
        /\ kind = "begin" => m \in Manifests
  BY <1>1
<1>3. /\ op.step = "idle" /\ op'.step = first /\ op'.kind = kind /\ op'.manifest = m
      /\ op'.why = "none" /\ reply' = NoReply /\ UNCHANGED <<staging, published>>
  BY <1>2 DEF Enter, Idle, disk
<1>4. QED
  BY <1>1, <1>2, <1>3

LEMMA RequestUse ==
  ASSUME IInv, UInv, Request
  PROVE  UInv'
<1>1. /\ op'.step \in {"sweep", "decide"} /\ op'.why = "none" /\ reply' = NoReply
      /\ op'.step = "sweep" => op'.kind = "begin"
      /\ op'.kind = "begin" => op'.manifest \in Manifests
      /\ UNCHANGED staging
  BY Requested
<1>2. KindsOK'
  BY <1>1 DEF KindsOK, CreateSteps, ChunkSteps, PublishSteps
<1>3. (CreateUse /\ ChunkUse /\ PublishUse /\ CancelUse /\ RemoveUse)'
  BY <1>1 DEF CreateUse, ChunkUse, PublishUse, CancelUse, RemoveUse,
     CreateSteps, ChunkSteps, PublishSteps
<1>4. StagesBounded'
  BY <1>1, BoundedSame DEF UInv, StagesBounded
<1>5. QED
  BY <1>2, <1>3, <1>4 DEF UInv, StagesBounded

LEMMA SweepUse ==
  ASSUME IInv, UInv, Sweep
  PROVE  UInv'
<1>1. StagesBounded'
  BY BoundedSame DEF Sweep, SweepExpired, SweepDone, disk, UInv, StagesBounded
<1>2. ASSUME NEW x \in Batches, SweepExpired(x)
      PROVE  UInv'
  <2>1. op.step = "sweep" /\ StartRemoval(x, "sweep") /\ age'[x] >= TTL
        /\ op.kind = "begin"
    BY <1>2 DEF SweepExpired, Expired, disk, UInv, KindsOK
  <2>2. QED
    BY <1>1, <2>1, RemovalUse
<1>3. CASE SweepDone
  <2>1. /\ op.step = "sweep" /\ op'.step = "decide" /\ op'.id = op.id
        /\ op'.kind = op.kind /\ op'.manifest = op.manifest /\ op'.why = op.why
        /\ reply' = reply
    BY <1>3 DEF SweepDone, IInv, Operation
  <2>2. KindsOK' /\ op'.why = "none"
    BY <2>1 DEF UInv, KindsOK, CreateSteps, ChunkSteps, PublishSteps
  <2>3. (CreateUse /\ ChunkUse /\ PublishUse /\ CancelUse /\ RemoveUse)'
    BY <2>1, <2>2 DEF CreateUse, ChunkUse, PublishUse, CancelUse, RemoveUse,
       CreateSteps, ChunkSteps, PublishSteps
  <2>4. QED
    BY <1>1, <2>2, <2>3 DEF UInv, StagesBounded
<1>4. QED
  BY <1>2, <1>3 DEF Sweep

LEMMA RemoveUseStep ==
  ASSUME IInv, UInv, Remove
  PROVE  UInv'
<1>1. StagesBounded
  BY DEF UInv, StagesBounded
<1>2. ASSUME op.step = "remove", UNCHANGED <<age, op, reply>>,
             staging'[op.victim].state = staging[op.victim].state, StagesBounded'
      PROVE  UInv'
  <2>1. KindsOK' /\ RemoveUse'
    BY <1>2 DEF UInv, KindsOK, RemoveUse, Expired
  <2>2. (CreateUse /\ ChunkUse /\ PublishUse /\ CancelUse)'
    BY <1>2 DEF CreateUse, ChunkUse, PublishUse, CancelUse,
       CreateSteps, ChunkSteps, PublishSteps
  <2>3. QED
    BY <1>2, <2>1, <2>2 DEF UInv, StagesBounded
<1>3. CASE RemoveManifest
  <2>1. /\ op.step = "remove" /\ op.victim \in Batches /\ OnlyOf(op.victim)
        /\ staging'[op.victim].state = staging[op.victim].state
        /\ staging'[op.victim].manifest = NoManifest /\ staging'[op.victim].files = <<>>
        /\ UNCHANGED <<age, op, reply>>
    BY <1>3, RemoveManifestEffect
  <2>2. Bounded(staging'[op.victim])
    BY <2>1, BoundedNone
  <2>3. QED
    BY <1>1, <1>2, <2>1, <2>2, BoundedKept
<1>4. CASE RemoveOwner
  <2>1. /\ op.step = "remove" /\ op.victim \in Batches /\ OnlyOf(op.victim)
        /\ staging'[op.victim].state = staging[op.victim].state
        /\ staging'[op.victim].manifest = staging[op.victim].manifest
        /\ staging'[op.victim].files = staging[op.victim].files
        /\ UNCHANGED <<age, op, reply>>
    BY <1>4, RemoveOwnerEffect
  <2>2. Bounded(staging'[op.victim])
    BY <1>1, <2>1, BoundedAlike DEF StagesBounded
  <2>3. QED
    BY <1>1, <1>2, <2>1, <2>2, BoundedKept
<1>5. CASE RemoveRest
  <2>1. /\ op.step = "remove" /\ op.victim \in Batches /\ OnlyOf(op.victim)
        /\ staging'[op.victim] = NoStage
        /\ \/ /\ op.why = "sweep" /\ op'.step = "sweep" /\ op'.id = op.id
              /\ op'.kind = op.kind /\ op'.manifest = op.manifest /\ op'.why = "none"
              /\ reply' = reply
           \/ Answer("expired", "none")
           \/ Answer("error", "none")
    BY <1>5, RemoveRestEffect
  <2>2. StagesBounded'
    BY <1>1, <2>1, BoundedNone, BoundedKept
  <2>3. CASE Answer("expired", "none") \/ Answer("error", "none")
    BY <2>2, <2>3, AnswerUse DEF Answer
  <2>4. CASE /\ op'.step = "sweep" /\ op'.kind = op.kind /\ op'.manifest = op.manifest
             /\ op'.why = "none" /\ reply' = reply /\ op.why = "sweep"
    <3>1. KindsOK'
      <4>1. op.kind = "begin"
        BY <2>4 DEF UInv, KindsOK
      <4>2. QED
        BY <2>1, <2>4, <4>1 DEF UInv, KindsOK, CreateSteps, ChunkSteps, PublishSteps
    <3>2. (CreateUse /\ ChunkUse /\ PublishUse /\ CancelUse /\ RemoveUse)'
      BY <2>4 DEF CreateUse, ChunkUse, PublishUse, CancelUse, RemoveUse,
         CreateSteps, ChunkSteps, PublishSteps
    <3>3. QED
      BY <2>2, <3>1, <3>2 DEF UInv, StagesBounded
  <2>5. QED
    BY <2>1, <2>3, <2>4
<1>6. QED
  BY <1>3, <1>4, <1>5 DEF Remove

LEMMA CleanupUse ==
  ASSUME IInv, UInv, Cleanup
  PROVE  UInv'
<1>1. StagesBounded
  BY DEF UInv, StagesBounded
<1>2. CASE CleanupPayload
  <2> DEFINE s == staging[op.id]
             t == staging'[op.id]
  <2>1. /\ op.step = "cleanup" /\ op.id \in Batches /\ OnlyOf(op.id)
        /\ t.dir = s.dir /\ t.owner = s.owner /\ t.manifest = s.manifest
        /\ t.state = s.state /\ t.receipt = s.receipt /\ t.renamed = s.renamed
        /\ UNCHANGED <<age, op, reply>>
    BY <1>2, CleanupPayloadEffect
  <2>2. Tombstone(s)
    BY <2>1 DEF UInv, CancelUse
  <2>3. Tombstone(t) /\ t.state # "receiving"
    BY <2>1, <2>2 DEF Tombstone, Readable
  <2>4. StagesBounded'
    BY <1>1, <2>1, <2>3, BoundedAlike, BoundedKept DEF StagesBounded
  <2>5. KindsOK' /\ op.why = "none"
    BY <2>1 DEF UInv, KindsOK
  <2>6. (CreateUse /\ ChunkUse /\ PublishUse /\ CancelUse /\ RemoveUse)'
    BY <2>1, <2>3, <2>5 DEF CreateUse, ChunkUse, PublishUse, CancelUse, RemoveUse,
       CreateSteps, ChunkSteps, PublishSteps
  <2>7. QED
    BY <2>4, <2>5, <2>6 DEF UInv, StagesBounded
<1>3. CASE CleanupDone
  <2>1. op.step = "cleanup" /\ Goto("decide") /\ UNCHANGED disk
    BY <1>3 DEF CleanupDone
  <2>2. StagesBounded'
    BY <1>1, <2>1, BoundedSame DEF disk
  <2>3. op'.step = "decide" /\ ((CreateUse /\ ChunkUse /\ PublishUse /\ CancelUse)' => UInv')
    BY <2>1, <2>2, GotoUse DEF Steps, CreateSteps, ChunkSteps, PublishSteps
  <2>4. QED
    BY <2>3 DEF CreateUse, ChunkUse, PublishUse, CancelUse, CreateSteps, ChunkSteps, PublishSteps
<1>4. QED
  BY <1>2, <1>3 DEF Cleanup

\* A method's decision leads to steps whose demands it has checked.
LEMMA DecideUse ==
  ASSUME IInv, UInv, Decide
  PROVE  UInv'
<1> DEFINE s == staging[op.id]
<1>1. op.step = "decide" /\ op.id \in Batches /\ UNCHANGED disk /\ Outcome
  BY DecideOutcome
<1>2. StagesBounded'
  BY <1>1, BoundedSame DEF UInv, StagesBounded, disk
<1>3. CASE \E result \in Results, state \in {"none", "receiving", "stored", "cancelled"} :
             Answer(result, state)
  BY <1>2, <1>3, AnswerUse DEF Answer
<1>4. CASE StartRemoval(op.id, "expire") /\ Expired(op.id)
  BY <1>1, <1>2, <1>4, RemovalUse DEF Expired, disk
<1>5. CASE Goto("cleanup") /\ Tombstone(s)
  <2>1. /\ op'.step = "cleanup" /\ op'.id = op.id
        /\ (CreateUse /\ ChunkUse /\ PublishUse /\ CancelUse)' => UInv'
    BY <1>1, <1>2, <1>5, GotoUse DEF Steps, CreateSteps, ChunkSteps, PublishSteps
  <2>2. QED
    BY <1>1, <1>5, <2>1 DEF CreateUse, ChunkUse, PublishUse, CancelUse,
       CreateSteps, ChunkSteps, PublishSteps, disk
<1>6. CASE Goto("mkdir") /\ op.kind = "begin" /\ ~s.dir
  <2>1. /\ op'.step = "mkdir" /\ op'.id = op.id
        /\ (CreateUse /\ ChunkUse /\ PublishUse /\ CancelUse)' => UInv'
    BY <1>1, <1>2, <1>6, GotoUse DEF Steps, CreateSteps, ChunkSteps, PublishSteps
  <2>2. QED
    BY <1>1, <1>6, <2>1 DEF CreateUse, ChunkUse, PublishUse, CancelUse,
       ChunkSteps, PublishSteps, disk
<1>7. CASE Goto("write") /\ op.kind = "chunk" /\ Receiving(s)
             /\ op.offset + Len(op.data) <= Len(s.manifest[op.index])
  <2>1. /\ op'.step = "write" /\ op'.id = op.id /\ op'.index = op.index
        /\ op'.offset = op.offset /\ op'.data = op.data
        /\ (CreateUse /\ ChunkUse /\ PublishUse /\ CancelUse)' => UInv'
    BY <1>1, <1>2, <1>7, GotoUse DEF Steps, CreateSteps, ChunkSteps, PublishSteps
  <2>2. ChunkUse'
    BY <1>1, <1>7, <2>1 DEF ChunkUse, disk
  <2>3. QED
    BY <2>1, <2>2 DEF CreateUse, PublishUse, CancelUse, PublishSteps
<1>8. CASE Goto("receipt") /\ op.kind = "commit" /\ Receiving(s) /\ ~published[op.id].exists
  <2>1. /\ op'.step = "receipt" /\ op'.id = op.id
        /\ (CreateUse /\ ChunkUse /\ PublishUse /\ CancelUse)' => UInv'
    BY <1>1, <1>2, <1>8, GotoUse DEF Steps, CreateSteps, ChunkSteps, PublishSteps
  <2>2. QED
    BY <1>1, <1>8, <2>1 DEF CreateUse, ChunkUse, PublishUse, CancelUse,
       ChunkSteps, PublishSteps, disk
<1>9. CASE Goto("tombstone") /\ Receiving(s)
  <2>1. /\ op'.step = "tombstone" /\ op'.id = op.id
        /\ (CreateUse /\ ChunkUse /\ PublishUse /\ CancelUse)' => UInv'
    BY <1>1, <1>2, <1>9, GotoUse DEF Steps, CreateSteps, ChunkSteps, PublishSteps, CancelSteps
  <2>2. QED
    BY <1>1, <1>9, <2>1 DEF CreateUse, ChunkUse, PublishUse, CancelUse,
       ChunkSteps, PublishSteps, disk
<1>10. QED
  BY <1>1, <1>3, <1>4, <1>5, <1>6, <1>7, <1>8, <1>9 DEF Outcome

\* A begin builds its stage up to one the reader accepts.
LEMMA CreateUseStep ==
  ASSUME IInv, UInv, Create
  PROVE  UInv'
<1> DEFINE s == staging[op.id]
           t == staging'[op.id]
<1>1. StagesBounded
  BY DEF UInv, StagesBounded
<1>2. op.step \in CreateSteps
  BY DEF Create, CreateDirectory, CreateOwner, CreateManifest, CreatePayload,
     CreateState, CreateDone, CreateSteps
<1>3. /\ op.step \notin {"idle", "remove"} /\ op.kind = "begin" /\ op.id \in Batches
      /\ op.manifest \in Manifests /\ op.why = "none" /\ StageOK(s)
  BY <1>2 DEF UInv, KindsOK, CreateSteps, IInv, SlotOK, DiskOK, StagingOK
<1>4. ASSUME NEW step \in CreateSteps, Goto(step), StagesBounded', CreateUse'
      PROVE  UInv'
  <2>1. /\ op'.step = step
        /\ (CreateUse /\ ChunkUse /\ PublishUse /\ CancelUse)' => UInv'
    BY <1>3, <1>4, GotoUse DEF Steps, CreateSteps, ChunkSteps, PublishSteps
  <2>2. QED
    BY <1>4, <2>1 DEF ChunkUse, PublishUse, CancelUse, CreateSteps, ChunkSteps, PublishSteps
<1>5. ASSUME NEW step, Goto(step)
      PROVE  op'.step = step /\ op'.id = op.id /\ op'.manifest = op.manifest
  BY <1>5, Moves DEF IInv
<1>6. CASE CreateDirectory
  <2>1. OnlyOf(op.id) /\ Unfinished(t) /\ t.files = <<>> /\ Goto("owner")
    BY <1>6, CreateDirectoryEffect
  <2>2. StagesBounded'
    BY <1>1, <1>3, <2>1, BoundedAlike, BoundedKept DEF StagesBounded, Unfinished
  <2>3. CreateUse'
    BY <1>5, <2>1 DEF CreateUse
  <2>4. QED
    BY <1>4, <2>1, <2>2, <2>3 DEF CreateSteps
<1>7. CASE CreateOwner
  <2>1. /\ op.step = "owner" /\ OnlyOf(op.id) /\ Goto("manifest")
        /\ t.dir = s.dir /\ t.owner /\ t.state = s.state /\ t.receipt = s.receipt
        /\ t.renamed = s.renamed /\ t.tmp = s.tmp /\ t.files = s.files
    BY <1>7, CreateOwnerEffect
  <2>2. Unfinished(t) /\ t.files = <<>>
    BY <2>1 DEF UInv, CreateUse, Unfinished
  <2>3. StagesBounded'
    BY <1>1, <1>3, <2>1, <2>2, BoundedAlike, BoundedKept DEF StagesBounded, Unfinished
  <2>4. CreateUse'
    BY <1>5, <2>1, <2>2 DEF CreateUse
  <2>5. QED
    BY <1>4, <2>1, <2>3, <2>4 DEF CreateSteps
<1>8. CASE CreateManifest
  <2>1. /\ op.step = "manifest" /\ OnlyOf(op.id) /\ Goto("payload")
        /\ t.dir = s.dir /\ t.owner = s.owner /\ t.state = s.state
        /\ t.receipt = s.receipt /\ t.renamed = s.renamed /\ t.tmp = s.tmp
        /\ t.files = s.files /\ t.manifest = op.manifest
    BY <1>8, CreateManifestEffect
  <2>2. Unfinished(t) /\ t.files = <<>> /\ t.owner
    BY <2>1 DEF UInv, CreateUse, Unfinished
  <2>3. StagesBounded'
    BY <1>1, <1>3, <2>1, <2>2, BoundedAlike, BoundedKept DEF StagesBounded, Unfinished
  <2>4. Len(t.files) = 0 /\ Len(t.manifest) \in Nat
    <3>1. Len(<<>>) = 0
      BY EmptySeq
    <3>2. t.manifest \in Seq(Seq(Byte))
      BY <1>3, <2>1, PayloadAssumption DEF PayloadAssumption
    <3>3. QED
      BY <2>2, <3>1, <3>2, LenProperties
  <2>5. CreateUse'
    <3>1. \A i \in 1..Len(t.files) : t.files[i].data = <<>>
      BY <2>4
    <3>2. Len(t.files) <= Len(t.manifest)
      BY <2>4
    <3>3. QED
      BY <1>5, <2>1, <2>2, <3>1, <3>2 DEF CreateUse
  <2>6. QED
    BY <1>4, <2>1, <2>3, <2>5 DEF CreateSteps
<1>9. CASE CreatePayload
  <2>1. /\ op.step = "payload" /\ OnlyOf(op.id)
        /\ t.dir = s.dir /\ t.owner = s.owner /\ t.state = s.state
        /\ t.manifest = s.manifest /\ t.receipt = s.receipt
        /\ t.renamed = s.renamed /\ t.tmp = s.tmp
        /\ \/ /\ Len(s.files) < Len(op.manifest)
              /\ t.files = Append(s.files, NewFile)
              /\ UNCHANGED <<op, reply>>
           \/ /\ Len(s.files) >= Len(op.manifest)
              /\ t = s /\ UNCHANGED staging /\ Goto("state")
    BY <1>9, CreatePayloadEffect
  <2>2. /\ Unfinished(s) /\ s.owner /\ s.manifest = op.manifest
        /\ Len(s.files) <= Len(s.manifest)
        /\ \A i \in 1..Len(s.files) : s.files[i].data = <<>>
    BY <2>1 DEF UInv, CreateUse
  <2>3. Unfinished(t) /\ t.owner /\ t.manifest = op.manifest
    BY <2>1, <2>2 DEF Unfinished
  <2>4. StagesBounded'
    BY <1>1, <1>3, <2>1, <2>3, BoundedAlike, BoundedKept DEF StagesBounded, Unfinished
  <2>5. Len(s.files) \in Nat /\ Len(op.manifest) \in Nat /\ s.files \in Seq(File)
    BY <1>3, <2>2, Lengths DEF StageOK, FilesOK
  <2>6. CASE /\ Len(s.files) < Len(op.manifest) /\ t.files = Append(s.files, NewFile)
             /\ UNCHANGED <<op, reply>>
    <3>1. NewFile \in File /\ NewFile.data = <<>>
      BY ConstantTypes DEF FileOK, NewFile
    <3>2. /\ Len(t.files) = Len(s.files) + 1
          /\ \A i \in 1..Len(s.files) : t.files[i] = s.files[i]
          /\ t.files[Len(s.files) + 1] = NewFile
      <4> HIDE DEF t, s
      <4>1. QED
        BY <2>5, <2>6, <3>1, AppendProperties
    <3>3. Len(t.files) <= Len(t.manifest)
      BY <2>3, <2>5, <2>6, <3>2
    <3>4. ASSUME NEW i \in 1..Len(t.files)
          PROVE  t.files[i].data = <<>>
      <4>1. i \in 1..Len(s.files) \/ i = Len(s.files) + 1
        BY <2>5, <3>2, <3>4
      <4>2. QED
        BY <2>2, <3>1, <3>2, <4>1
    <3>5. CreateUse'
      BY <2>1, <2>3, <2>6, <3>3, <3>4 DEF CreateUse
    <3>6. KindsOK' /\ RemoveUse'
      BY <1>3, <2>6 DEF UInv, KindsOK, RemoveUse
    <3>7. (ChunkUse /\ PublishUse /\ CancelUse)'
      BY <2>1, <2>6 DEF ChunkUse, PublishUse, CancelUse, ChunkSteps, PublishSteps
    <3>8. QED
      BY <2>4, <3>5, <3>6, <3>7 DEF UInv, StagesBounded
  <2>7. CASE Len(s.files) >= Len(op.manifest) /\ t = s /\ Goto("state")
    <3>1. Len(t.files) = Len(t.manifest)
      BY <2>2, <2>5, <2>7
    <3>2. /\ Unfinished(t) /\ t.owner /\ t.manifest = op.manifest
          /\ \A i \in 1..Len(t.files) : t.files[i].data = <<>>
          /\ Len(t.files) <= Len(t.manifest)
      BY <2>2, <2>3, <2>7
    <3>3. op'.step = "state" /\ op'.id = op.id /\ op'.manifest = op.manifest
      BY <1>5, <2>7
    <3>4. CreateUse'
      BY <3>1, <3>2, <3>3 DEF CreateUse
    <3>5. QED
      BY <1>4, <2>4, <2>7, <3>4 DEF CreateSteps
  <2>8. QED
    BY <2>1, <2>6, <2>7
<1>10. CASE CreateState
  <2>1. /\ op.step = "state" /\ OnlyOf(op.id) /\ Goto("syncStage")
        /\ t.dir = s.dir /\ t.owner = s.owner /\ t.state = "receiving"
        /\ t.manifest = s.manifest /\ t.receipt = s.receipt
        /\ t.renamed = s.renamed /\ t.tmp = s.tmp /\ t.files = s.files
    BY <1>10, CreateStateEffect
  <2>2. /\ Unfinished(s) /\ s.owner /\ s.manifest = op.manifest
        /\ Len(s.files) = Len(s.manifest)
        /\ \A i \in 1..Len(s.files) : s.files[i].data = <<>>
    BY <2>1 DEF UInv, CreateUse
  <2>3. ASSUME NEW i \in 1..Len(t.files)
        PROVE  Len(t.files[i].data) <= Len(t.manifest[i])
    <3>1. t.files[i].data = <<>> /\ Len(<<>>) = 0
      BY <2>1, <2>2, <2>3, EmptySeq
    <3>2. Len(t.manifest[i]) \in Nat
      BY <1>3, <2>1, <2>2, <2>3, Lengths
    <3>3. QED
      BY <3>1, <3>2
  <2>4. s.manifest # NoManifest
    BY <1>3, <2>2, PayloadAssumption DEF PayloadAssumption
  <2>5. Bounded(t) /\ Receiving(t)
    BY <2>1, <2>2, <2>3, <2>4 DEF Bounded, Receiving, Readable, Unfinished
  <2>6. StagesBounded'
    BY <1>1, <1>3, <2>1, <2>5, BoundedKept
  <2>7. CreateUse'
    BY <1>5, <2>1, <2>2, <2>5 DEF CreateUse
  <2>8. QED
    BY <1>4, <2>1, <2>6, <2>7 DEF CreateSteps
<1>11. CASE CreateDone
  <2>1. Answer("ok", "receiving") /\ UNCHANGED disk
    BY <1>11 DEF CreateDone
  <2>2. QED
    BY <1>1, <2>1, BoundedSame, AnswerUse DEF Answer, disk
<1>12. QED
  BY <1>6, <1>7, <1>8, <1>9, <1>10, <1>11 DEF Create

LEMMA ChunkUseStep ==
  ASSUME IInv, UInv, Chunk
  PROVE  UInv'
<1> DEFINE s == staging[op.id]
           t == staging'[op.id]
<1>1. /\ op.id \in Batches /\ OnlyOf(op.id) /\ op.step \in ChunkSteps /\ Receiving(s)
      /\ StageOK(t) /\ SameUse(s, t)
      /\ \/ Goto("fsync") \/ Goto("touch") \/ Answer("ok", "receiving")
  BY ChunkEffect
<1>2. StageOK(s) /\ Bounded(s) /\ op.kind = "chunk"
  BY <1>1 DEF IInv, DiskOK, StagingOK, UInv, KindsOK
<1>3. Bounded(t) /\ Receiving(t)
  BY <1>1, <1>2, UseKept
<1>4. StagesBounded'
  BY <1>1, <1>3, BoundedKept DEF UInv, StagesBounded
<1>5. ASSUME NEW step \in {"fsync", "touch"}, Goto(step)
      PROVE  UInv'
  <2>1. /\ op'.step = step /\ op'.id = op.id
        /\ (CreateUse /\ ChunkUse /\ PublishUse /\ CancelUse)' => UInv'
    BY <1>1, <1>2, <1>4, <1>5, GotoUse DEF Steps, CreateSteps, ChunkSteps, PublishSteps
  <2>2. QED
    BY <1>3, <2>1 DEF CreateUse, ChunkUse, PublishUse, CancelUse, CreateSteps, PublishSteps
<1>6. CASE Answer("ok", "receiving")
  BY <1>4, <1>6, AnswerUse DEF Answer
<1>7. QED
  BY <1>1, <1>5, <1>6

LEMMA PublishUseStep ==
  ASSUME IInv, UInv, Publish
  PROVE  UInv'
<1> DEFINE s == staging[op.id]
           t == staging'[op.id]
<1>1. StagesBounded
  BY DEF UInv, StagesBounded
<1>2. ASSUME NEW step \in (PublishSteps \cup {"syncRoot"}) \ {"receipt"}, Goto(step),
             op.step \in PublishSteps, StagesBounded', PublishUse'
      PROVE  UInv'
  <2>1. op.kind = "commit"
    BY <1>2 DEF UInv, KindsOK
  <2>2. /\ op'.step = step
        /\ (CreateUse /\ ChunkUse /\ PublishUse /\ CancelUse)' => UInv'
    BY <1>2, <2>1, GotoUse DEF Steps, CreateSteps, ChunkSteps, PublishSteps
  <2>3. QED
    BY <1>2, <2>2 DEF CreateUse, ChunkUse, CancelUse, CreateSteps, ChunkSteps, PublishSteps
<1>3. ASSUME NEW step, Goto(step)
      PROVE  op'.step = step /\ op'.id = op.id
  BY <1>3, Moves DEF IInv
<1>4. CASE PublishReceipt
  <2>1. /\ op.step = "receipt" /\ op.id \in Batches /\ OnlyOf(op.id)
        /\ published'[op.id] = published[op.id]
        /\ t.dir = s.dir /\ t.manifest = s.manifest /\ t.state = s.state
        /\ t.receipt /\ t.files = s.files /\ Goto("restate")
    BY <1>4, PublishReceiptEffect
  <2>2. s.dir /\ ~published[op.id].exists
    BY <2>1 DEF UInv, PublishUse, Receiving, Readable, PublishSteps
  <2>3. StagesBounded'
    BY <1>1, <2>1, BoundedAlike, BoundedKept DEF StagesBounded
  <2>4. PublishUse'
    <3>1. t.dir /\ t.receipt /\ ~published'[op.id].exists
      BY <2>1, <2>2
    <3>2. op'.step = "restate" /\ op'.id = op.id
      BY <1>3, <2>1
    <3>3. QED
      BY <3>1, <3>2 DEF PublishUse
  <2>5. QED
    BY <1>2, <2>1, <2>3, <2>4 DEF PublishSteps
<1>5. CASE PublishState
  <2>1. op.step = "restate" /\ UNCHANGED <<staging, published>> /\ Goto("rename")
    BY <1>5 DEF PublishState
  <2>2. s.dir /\ s.receipt /\ ~published[op.id].exists
    BY <2>1 DEF UInv, PublishUse, PublishSteps
  <2>3. PublishUse'
    BY <1>3, <2>1, <2>2 DEF PublishUse
  <2>4. QED
    BY <1>1, <1>2, <2>1, <2>3, BoundedSame DEF PublishSteps
<1>6. CASE RenamePayload
  <2>1. /\ op.step = "rename" /\ op.id \in Batches /\ OnlyOf(op.id)
        /\ published'[op.id] = published[op.id]
        /\ t.dir = s.dir /\ t.manifest = s.manifest /\ t.state = s.state
        /\ t.receipt = s.receipt /\ t.files = s.files
        /\ UNCHANGED <<op, reply>> \/ Goto("publish")
    BY <1>6, RenamePayloadEffect
  <2>2. s.dir /\ s.receipt /\ ~published[op.id].exists
    BY <2>1 DEF UInv, PublishUse, PublishSteps
  <2>3. StagesBounded'
    BY <1>1, <2>1, BoundedAlike, BoundedKept DEF StagesBounded
  <2>4. CASE Goto("publish")
    <3>1. PublishUse'
      <4>1. t.dir /\ t.receipt /\ ~published'[op.id].exists
        BY <2>1, <2>2
      <4>2. op'.step = "publish" /\ op'.id = op.id
        BY <1>3, <2>4
      <4>3. QED
        BY <4>1, <4>2 DEF PublishUse
    <3>2. QED
      BY <1>2, <2>1, <2>3, <2>4, <3>1 DEF PublishSteps
  <2>5. CASE UNCHANGED <<op, reply>>
    <3>1. KindsOK' /\ op.why = "none"
      BY <2>1, <2>5 DEF UInv, KindsOK
    <3>2. (CreateUse /\ ChunkUse /\ PublishUse /\ CancelUse /\ RemoveUse)'
      BY <2>1, <2>2, <2>5, <3>1 DEF CreateUse, ChunkUse, PublishUse, CancelUse, RemoveUse,
         CreateSteps, ChunkSteps
    <3>3. QED
      BY <2>3, <3>1, <3>2 DEF UInv, StagesBounded
  <2>6. QED
    BY <2>1, <2>4, <2>5
<1>7. CASE PublishFolder
  <2>1. /\ op.step = "publish" /\ op.id \in Batches /\ OnlyOf(op.id) /\ t = NoStage
        /\ published'[op.id].exists /\ Goto("syncRoot")
    BY <1>7, PublishFolderEffect
  <2>2. StagesBounded'
    BY <1>1, <2>1, BoundedNone, BoundedKept
  <2>3. PublishUse'
    BY <1>3, <2>1 DEF PublishUse, PublishSteps
  <2>4. QED
    BY <1>2, <2>1, <2>2, <2>3 DEF PublishSteps
<1>8. CASE PublishDone
  BY <1>1, <1>8, BoundedSame, AnswerUse DEF PublishDone, disk
<1>9. QED
  BY <1>4, <1>5, <1>6, <1>7, <1>8 DEF Publish

LEMMA CancelUseStep ==
  ASSUME IInv, UInv, Cancel
  PROVE  UInv'
<1> DEFINE s == staging[op.id]
           t == staging'[op.id]
<1>1. StagesBounded
  BY DEF UInv, StagesBounded
<1>2. ASSUME NEW step \in {"syncTomb", "cleanup"}, Goto(step), op.step \in CancelSteps,
             StagesBounded', Tombstone(t)
      PROVE  UInv'
  <2>1. /\ op'.step = step /\ op'.id = op.id
        /\ (CreateUse /\ ChunkUse /\ PublishUse /\ CancelUse)' => UInv'
    BY <1>2, GotoUse DEF Steps, CreateSteps, ChunkSteps, PublishSteps, CancelSteps
  <2>2. QED
    BY <1>2, <2>1 DEF CreateUse, ChunkUse, PublishUse, CancelUse,
       CreateSteps, ChunkSteps, PublishSteps
<1>3. CASE WriteTombstone
  <2>1. /\ op.step = "tombstone" /\ op.id \in Batches /\ OnlyOf(op.id)
        /\ t.dir = s.dir /\ t.owner = s.owner /\ t.manifest = s.manifest
        /\ t.state = "cancelled" /\ t.receipt = s.receipt /\ t.renamed = s.renamed
        /\ Goto("syncTomb")
    BY <1>3, WriteTombstoneEffect
  <2>2. Tombstone(t)
    BY <2>1 DEF UInv, CancelUse, Receiving, Tombstone, Readable
  <2>3. StagesBounded'
    BY <1>1, <2>1, BoundedAlike, BoundedKept DEF StagesBounded
  <2>4. QED
    BY <1>2, <2>1, <2>2, <2>3 DEF CancelSteps
<1>4. CASE SyncTombstone
  <2>1. op.step = "syncTomb" /\ UNCHANGED disk /\ Goto("cleanup")
    BY <1>4 DEF SyncTombstone
  <2>2. Tombstone(t)
    BY <2>1 DEF UInv, CancelUse, disk
  <2>3. QED
    BY <1>1, <1>2, <2>1, <2>2, BoundedSame DEF CancelSteps, disk
<1>5. QED
  BY <1>3, <1>4 DEF Cancel

\* Every failure returns, resumes the sweep or starts to take back the stage
\* begin has just completed.
LEMMA FailureUse ==
  ASSUME IInv, UInv, Failure \/ Refuse
  PROVE  UInv'
<1>1. StagesBounded
  BY DEF UInv, StagesBounded
<1>2. ASSUME StagesBounded', \E result, state, fresh : AnswerAs(result, state, fresh)
      PROVE  UInv'
  BY <1>2, AnswerUse
<1>3. CASE Refuse \/ FailPublish \/ FailCancel
  <2>1. UNCHANGED staging /\ \E result, state, fresh : AnswerAs(result, state, fresh)
    BY <1>3 DEF Refuse, FailPublish, FailCancel, Answer, disk
  <2>2. QED
    BY <1>1, <1>2, <2>1, BoundedSame
<1>4. CASE FailRemove
  <2>1. UNCHANGED disk /\ op.step = "remove"
    BY <1>4 DEF FailRemove
  <2>2. StagesBounded'
    BY <1>1, <2>1, BoundedSame DEF disk
  <2>3. CASE op.why = "sweep"
    <3>1. op' = [op EXCEPT !.step = "sweep", !.victim = NoBatch, !.why = "none"]
          /\ UNCHANGED reply
      BY <1>4, <2>3 DEF FailRemove
    <3>2. /\ op'.step = "sweep" /\ op'.kind = op.kind /\ op'.manifest = op.manifest
          /\ op'.why = "none" /\ reply' = reply
      BY <3>1 DEF IInv, Operation
    <3>3. op.kind = "begin"
      BY <2>3 DEF UInv, KindsOK
    <3>4. KindsOK'
      BY <2>1, <3>2, <3>3 DEF UInv, KindsOK, CreateSteps, ChunkSteps, PublishSteps
    <3>5. (CreateUse /\ ChunkUse /\ PublishUse /\ CancelUse /\ RemoveUse)'
      BY <3>2 DEF CreateUse, ChunkUse, PublishUse, CancelUse, RemoveUse,
         CreateSteps, ChunkSteps, PublishSteps
    <3>6. QED
      BY <2>2, <3>4, <3>5 DEF UInv, StagesBounded
  <2>4. CASE op.why # "sweep"
    BY <1>2, <1>4, <2>2, <2>4 DEF FailRemove, Answer
  <2>5. QED
    BY <2>3, <2>4
<1>5. CASE FailChunk
  <2>1. \E result, state, fresh : AnswerAs(result, state, fresh)
    BY <1>5 DEF FailChunk, Answer
  <2>2. CASE UNCHANGED staging
    BY <1>1, <1>2, <2>1, <2>2, BoundedSame
  <2>3. CASE op.step = "write" /\ \E n \in 0..Len(Suffix) : staging' = Grown(n)
    <3>1. /\ Receiving(staging[op.id]) /\ UNCHANGED published
          /\ op.offset + Len(op.data) <= Len(staging[op.id].manifest[op.index])
      BY <1>5, <2>3 DEF UInv, ChunkUse, ChunkSteps, FailChunk
    <3>2. /\ op.id \in Batches /\ OnlyOf(op.id) /\ StageOK(staging'[op.id])
          /\ SameUse(staging[op.id], staging'[op.id])
      BY <2>3, <3>1, GrownEffect
    <3>3. Bounded(staging'[op.id])
      BY <1>1, <3>2, UseKept DEF StagesBounded, IInv, DiskOK, StagingOK
    <3>4. QED
      BY <1>1, <1>2, <2>1, <3>2, <3>3, BoundedKept
  <2>4. QED
    BY <1>5, <2>2, <2>3 DEF FailChunk
<1>6. CASE FailCreate
  <2>1. CASE UNCHANGED staging /\ \E result, state, fresh : AnswerAs(result, state, fresh)
    BY <1>1, <1>2, <2>1, BoundedSame
  <2>2. CASE /\ op.step = "owner" /\ staging' = [staging EXCEPT ![op.id] = NoStage]
             /\ \E result, state, fresh : AnswerAs(result, state, fresh)
    <3>1. op.id \in Batches /\ UNCHANGED published
      BY <1>6, <2>2, CreateStage DEF CreateSteps, FailCreate
    <3>2. OnlyOf(op.id) /\ staging'[op.id] = NoStage
      BY <2>2, <3>1, Replaced
    <3>3. StagesBounded'
      BY <1>1, <3>1, <3>2, BoundedNone, BoundedKept
    <3>4. QED
      BY <1>2, <2>2, <3>3
  <2>3. CASE op.step = "syncStage" /\ StartRemoval(op.id, "rollback") /\ UNCHANGED staging
    <3>1. Receiving(staging[op.id]) /\ op.id \in Batches
      BY <2>3, CreateStage DEF UInv, CreateUse, CreateSteps
    <3>2. StagesBounded' /\ staging'[op.id].state = "receiving"
      BY <1>1, <2>3, <3>1, BoundedSame DEF Receiving
    <3>3. QED
      BY <2>3, <3>1, <3>2, RemovalUse
  <2>4. QED
    BY <1>6, <2>1, <2>2, <2>3 DEF FailCreate, Answer
<1>7. QED
  BY <1>3, <1>4, <1>5, <1>6 DEF Failure

LEMMA TickUse ==
  ASSUME IInv, UInv, Tick
  PROVE  UInv'
<1>1. op.step = "idle" /\ UNCHANGED <<staging, op, reply>>
  BY DEF Tick
<1>2. KindsOK' /\ op.why = "none"
  BY <1>1 DEF UInv, KindsOK
<1>3. (CreateUse /\ ChunkUse /\ PublishUse /\ CancelUse /\ RemoveUse)'
  BY <1>1, <1>2 DEF CreateUse, ChunkUse, PublishUse, CancelUse, RemoveUse,
     CreateSteps, ChunkSteps, PublishSteps
<1>4. StagesBounded'
  BY <1>1, BoundedSame DEF UInv, StagesBounded
<1>5. QED
  BY <1>2, <1>3, <1>4 DEF UInv, StagesBounded

LEMMA FaultUse ==
  ASSUME IInv, UInv, Crash \/ PowerLoss
  PROVE  UInv'
<1>1. StagesBounded
  BY DEF UInv, StagesBounded
<1>2. CASE Crash
  <2> DEFINE s == staging[op.id]
             t == staging'[op.id]
  <2>1. /\ op.id \in Batches /\ OnlyOf(op.id) /\ op' = Idle
        /\ \/ t = s
           \/ Torn(s, t)
           \/ StageOK(t) /\ SameUse(s, t)
    BY <1>2, CrashEffect
  <2>2. Bounded(s) /\ StageOK(s)
    BY <1>1, <2>1 DEF StagesBounded, IInv, DiskOK, StagingOK
  <2>3. Bounded(t)
    <3>1. CASE t = s
      BY <2>2, <3>1
    <3>2. CASE Torn(s, t)
      BY <2>2, <3>2, BoundedAlike DEF Torn
    <3>3. CASE StageOK(t) /\ SameUse(s, t)
      BY <2>2, <3>3, UseKept
    <3>4. QED
      BY <2>1, <3>1, <3>2, <3>3
  <2>4. StagesBounded'
    BY <1>1, <2>1, <2>3, BoundedKept
  <2>5. QED
    BY <2>1, <2>4, IdleUse DEF StagesBounded
<1>3. CASE PowerLoss
  <2>1. op' = Idle
    BY <1>3 DEF PowerLoss
  <2>2. ASSUME NEW b \in Batches
        PROVE  Bounded(staging'[b])
    <3>1. StageOK(staging'[b]) /\ SameUse(staging[b], staging'[b])
      BY <1>3, PowerEffect
    <3>2. StageOK(staging[b]) /\ Bounded(staging[b])
      BY <1>1 DEF StagesBounded, IInv, DiskOK, StagingOK
    <3>3. QED
      BY <3>1, <3>2, UseKept
  <2>3. StagesBounded'
    BY <2>2 DEF StagesBounded, Bounded
  <2>4. QED
    BY <2>1, <2>3, IdleUse DEF StagesBounded
<1>4. QED
  BY <1>2, <1>3

LEMMA UseInit ==
  ASSUME Init
  PROVE  UInv
<1>1. op = Idle /\ staging = [b \in Batches |-> NoStage]
  BY DEF Init
<1>2. \A b \in Batches : Bounded(staging[b])
  BY <1>1 DEF Bounded, NoStage
<1>3. KindsOK /\ CreateUse /\ ChunkUse /\ PublishUse /\ CancelUse /\ RemoveUse
  BY <1>1 DEF Idle, KindsOK, CreateUse, ChunkUse, PublishUse, CancelUse, RemoveUse,
     CreateSteps, ChunkSteps, PublishSteps
<1>4. QED
  BY <1>2, <1>3 DEF UInv

LEMMA UseNext ==
  ASSUME IInv, UInv, [Next]_vars
  PROVE  UInv'
<1>1. CASE UNCHANGED vars
  <2>1. StagesBounded'
    BY <1>1, BoundedSame DEF vars, UInv, StagesBounded
  <2>2. (KindsOK /\ CreateUse /\ ChunkUse /\ PublishUse /\ CancelUse /\ RemoveUse)'
    BY <1>1 DEF vars, UInv, KindsOK, CreateUse, ChunkUse, PublishUse, CancelUse, RemoveUse, Expired
  <2>3. QED
    BY <2>1, <2>2 DEF UInv, StagesBounded
<1>2. CASE Progress
  BY <1>2, SweepUse, RemoveUseStep, CleanupUse, DecideUse, CreateUseStep, ChunkUseStep,
     PublishUseStep, CancelUseStep DEF Progress
<1>3. CASE Request \/ Refuse \/ Failure \/ Tick \/ Crash \/ PowerLoss
  BY <1>3, RequestUse, FailureUse, TickUse, FaultUse
<1>4. QED
  BY <1>1, <1>2, <1>3 DEF Next

\* At every step of a method the stage it works on is what that step expects,
\* whatever an earlier method, failure or crash has left on disk.
THEOREM StagesInUse == Spec => []UInv
<1>1. Init => UInv
  BY UseInit
<1>2. IInv /\ UInv /\ [Next]_vars => UInv'
  BY UseNext
<1>3. QED
  BY <1>1, <1>2, Invariance, PTL DEF Spec

-----------------------------------------------------------------------------
(* The replies are true.                                                     *)

\* A method that goes on has not answered.
LEMMA SilentReply ==
  ASSUME UInv, op.step # "idle", reply' = reply
  PROVE  RepliesTruthful'
<1>1. reply'.result = "none"
  BY DEF UInv, KindsOK, NoReply
<1>2. QED
  BY <1>1 DEF RepliesTruthful

\* A method that fails promises nothing.
LEMMA FailedReply ==
  ASSUME NEW result, result # "ok", NEW state, NEW fresh, AnswerAs(result, state, fresh)
  PROVE  RepliesTruthful'
<1>1. reply'.result # "ok"
  BY Returns
<1>2. QED
  BY <1>1 DEF RepliesTruthful

\* A success the disk bears out, when the method only looked at the disk.
LEMMA BorneReply ==
  ASSUME NEW state, Borne(state), NEW fresh, AnswerAs("ok", state, fresh),
         UNCHANGED <<staging, published>>
  PROVE  RepliesTruthful'
<1>1. /\ reply'.kind = op.kind /\ reply'.id = op.id /\ reply'.manifest = op.manifest
      /\ reply'.state = state
  BY Returns
<1>2. QED
  BY <1>1 DEF RepliesTruthful, Borne

LEMMA ReplyStep ==
  ASSUME IInv, UInv, RepliesTruthful, [Next]_vars
  PROVE  RepliesTruthful'
<1>1. CASE UNCHANGED vars
  BY <1>1 DEF vars, RepliesTruthful
<1>2. CASE Tick
  BY <1>2 DEF Tick, RepliesTruthful
<1>3. CASE Request \/ Crash \/ PowerLoss
  <2>1. reply' = NoReply
    BY <1>3 DEF Request, BeginRequest, StatusRequest, ChunkRequest, CommitRequest,
       CancelRequest, Enter, Crash, PowerLoss
  <2>2. QED
    BY <2>1 DEF NoReply, RepliesTruthful
<1>4. CASE Sweep \/ Cleanup \/ Cancel
  <2>1. op.step # "idle" /\ reply' = reply
    BY <1>4 DEF Sweep, SweepExpired, SweepDone, StartRemoval, Cleanup, CleanupPayload,
       CleanupDone, Cancel, WriteTombstone, SyncTombstone, Goto
  <2>2. QED
    BY <2>1, SilentReply
<1>5. CASE Remove
  <2>1. op.step = "remove"
    BY <1>5 DEF Remove, RemoveManifest, RemoveOwner, RemoveRest
  <2>2. reply' = reply \/ Answer("expired", "none") \/ Answer("error", "none")
    BY <1>5 DEF Remove, RemoveManifest, RemoveOwner, RemoveRest
  <2>3. QED
    BY <2>1, <2>2, SilentReply, FailedReply DEF Answer
<1>6. CASE Decide
  <2>1. op.step = "decide" /\ UNCHANGED disk /\ Outcome
    BY <1>6, DecideOutcome
  <2>2. CASE reply' = reply
    BY <2>1, <2>2, SilentReply
  <2>3. ASSUME NEW result, NEW state, Answer(result, state), result = "ok" => Borne(state)
        PROVE  RepliesTruthful'
    <3>1. CASE result = "ok"
      BY <2>1, <2>3, <3>1, BorneReply DEF Answer, disk
    <3>2. CASE result # "ok"
      BY <2>3, <3>2, FailedReply DEF Answer
    <3>3. QED
      BY <3>1, <3>2
  <2>4. QED
    BY <2>1, <2>2, <2>3 DEF Outcome, Goto, StartRemoval
<1>7. CASE Create
  <2>1. CASE CreateDone
    <3>1. op.step = "syncStage" /\ Answer("ok", "receiving") /\ UNCHANGED disk
      BY <2>1 DEF CreateDone
    <3>2. Receiving(staging[op.id]) /\ staging[op.id].manifest = op.manifest
      BY <3>1 DEF UInv, CreateUse
    <3>3. Borne("receiving")
      BY <3>2 DEF Borne
    <3>4. QED
      BY <3>1, <3>3, BorneReply DEF Answer, disk
  <2>2. CASE ~CreateDone
    <3>1. op.step # "idle" /\ reply' = reply
      BY <1>7, <2>2 DEF Create, CreateDirectory, CreateOwner, CreateManifest, CreatePayload,
         CreateState, Goto
    <3>2. QED
      BY <3>1, SilentReply
  <2>3. QED
    BY <2>1, <2>2
<1>8. CASE Chunk
  <2> DEFINE s == staging[op.id]
             t == staging'[op.id]
  <2>1. /\ op.id \in Batches /\ op.step \in ChunkSteps /\ Receiving(s)
        /\ StageOK(t) /\ SameUse(s, t)
        /\ \/ Goto("fsync") \/ Goto("touch") \/ Answer("ok", "receiving")
    BY <1>8, ChunkEffect
  <2>2. CASE Goto("fsync") \/ Goto("touch")
    BY <2>1, <2>2, SilentReply DEF Goto, ChunkSteps
  <2>3. CASE Answer("ok", "receiving")
    <3>1. StageOK(s) /\ Bounded(s) /\ op.kind = "chunk"
      BY <2>1 DEF IInv, DiskOK, StagingOK, UInv, KindsOK
    <3>2. Receiving(t)
      BY <2>1, <3>1, UseKept
    <3>3. reply'.kind = "chunk" /\ reply'.id = op.id /\ reply'.state = "receiving"
      BY <2>3, <3>1, Returns DEF Answer
    <3>4. QED
      BY <3>2, <3>3 DEF RepliesTruthful
  <2>4. QED
    BY <2>1, <2>2, <2>3
<1>9. CASE Publish
  <2>1. CASE PublishDone
    <3>1. op.step = "syncRoot" /\ AnswerAs("ok", "stored", TRUE) /\ UNCHANGED disk
      BY <2>1 DEF PublishDone
    <3>2. published[op.id].exists /\ op.kind = "commit"
      BY <3>1 DEF UInv, PublishUse, KindsOK
    <3>3. Borne("stored")
      BY <3>2 DEF Borne
    <3>4. QED
      BY <3>1, <3>3, BorneReply DEF disk
  <2>2. CASE ~PublishDone
    <3>1. op.step # "idle" /\ reply' = reply
      BY <1>9, <2>2 DEF Publish, PublishReceipt, PublishState, RenamePayload, PublishFolder, Goto
    <3>2. QED
      BY <3>1, SilentReply
  <2>3. QED
    BY <2>1, <2>2
<1>10. CASE Refuse \/ Failure
  <2>1. \/ \E result \in {"denied", "error"} : \E state, fresh : AnswerAs(result, state, fresh)
        \/ op.step \in {"syncStage", "remove"} /\ reply' = reply
    <3>1. CASE Refuse
      BY <3>1 DEF Refuse, Answer
    <3>2. CASE FailCreate
      BY <3>2 DEF FailCreate, Answer, StartRemoval
    <3>3. CASE FailChunk
      BY <3>3 DEF FailChunk, Answer
    <3>4. CASE FailPublish
      BY <3>4 DEF FailPublish, Answer
    <3>5. CASE FailCancel
      BY <3>5 DEF FailCancel, Answer
    <3>6. CASE FailRemove
      BY <3>6 DEF FailRemove, Answer
    <3>7. QED
      BY <1>10, <3>1, <3>2, <3>3, <3>4, <3>5, <3>6 DEF Failure
  <2>2. QED
    BY <2>1, SilentReply, FailedReply
<1>11. QED
  BY <1>1, <1>2, <1>3, <1>4, <1>5, <1>6, <1>7, <1>8, <1>9, <1>10 DEF Next, Progress

\* What a method answers is what the disk says: a begin that succeeds is about
\* the manifest its caller sent, stored means the folder is there, receiving
\* that the stage can be used, cancelled that no payload is left.
THEOREM AnswersTrue == Spec => []RepliesTruthful
<1>1. Init => RepliesTruthful
  BY DEF Init, NoReply, RepliesTruthful
<1>2. IInv /\ UInv /\ RepliesTruthful /\ [Next]_vars => RepliesTruthful'
  BY ReplyStep
<1>3. QED
  BY <1>1, <1>2, Invariance, StagesInUse, PTL DEF Spec

-----------------------------------------------------------------------------
(* The capacity limits hold although they are checked once per begin.        *)

\* Between the check and the state file that makes the stage count.
Reserving == op.step \in {"mkdir", "owner", "manifest", "payload", "state"}

CapacityInv == CapacityRespected /\ (Reserving => ~AtCapacity)

\* What stageCountsLocked sees of a stage, and a stage that counts for no more
\* than another.
Counts(s, states) == s.dir /\ s.owner /\ s.state \in states
CountsLess(s, t) ==
  /\ Counts(t, {"receiving"}) => Counts(s, {"receiving"})
  /\ Counts(t, {"receiving", "cancelled"}) => Counts(s, {"receiving", "cancelled"})
NoneCountsMore == \A b \in Batches : CountsLess(staging[b], staging'[b])

LEMMA OneCountsLess ==
  ASSUME NEW b \in Batches, OnlyOf(b), CountsLess(staging[b], staging'[b])
  PROVE  NoneCountsMore
BY DEF NoneCountsMore, OnlyOf, CountsLess

\* The counts are numbers, and a count over fewer stages is smaller.
LEMMA SmallerCount ==
  ASSUME NEW A \in SUBSET Batches, NEW B \in SUBSET A
  PROVE  Cardinality(A) \in Nat /\ Cardinality(B) \in Nat /\ Cardinality(B) <= Cardinality(A)
<1>1. IsFiniteSet(A) /\ IsFiniteSet(B)
  BY SlotAssumption, FS_Subset DEF SlotAssumption
<1>2. QED
  BY <1>1, FS_Subset, FS_CardinalityType

LEMMA NoMoreCounted ==
  ASSUME NoneCountsMore
  PROVE  /\ CapacityRespected => CapacityRespected'
         /\ ~AtCapacity => (~AtCapacity)'
<1> DEFINE R == CountedAs({"receiving"})
           A == CountedAs({"receiving", "cancelled"})
<1>1. /\ R \in SUBSET Batches /\ R' \in SUBSET R
      /\ A \in SUBSET Batches /\ A' \in SUBSET A
  BY DEF NoneCountsMore, CountsLess, Counts, CountedAs
<1> HIDE DEF R, A
<1>2. /\ Cardinality(R) \in Nat /\ Cardinality(R') \in Nat /\ Cardinality(R') <= Cardinality(R)
      /\ Cardinality(A) \in Nat /\ Cardinality(A') \in Nat /\ Cardinality(A') <= Cardinality(A)
  BY <1>1, SmallerCount
<1>3. CapacityRespected => CapacityRespected'
  <2>1. SUFFICES ASSUME Cardinality(R) <= MaxStaging, Cardinality(A) <= MaxTotalStaging
                 PROVE  Cardinality(R') <= MaxStaging /\ Cardinality(A') <= MaxTotalStaging
    BY DEF CapacityRespected, R, A
  <2>2. QED
    BY <1>2, <2>1, LimitAssumption DEF LimitAssumption
<1>4. ~AtCapacity => (~AtCapacity)'
  <2>1. SUFFICES ASSUME ~(Cardinality(R) >= MaxStaging), ~(Cardinality(A) >= MaxTotalStaging)
                 PROVE  ~(Cardinality(R') >= MaxStaging) /\ ~(Cardinality(A') >= MaxTotalStaging)
    BY DEF AtCapacity, R, A
  <2>2. QED
    BY <1>2, <2>1, LimitAssumption DEF LimitAssumption
<1>5. QED
  BY <1>3, <1>4

\* The stage that starts to count fills the room begin has seen.
LEMMA OneMoreCounted ==
  ASSUME IInv, UInv, ~AtCapacity, CreateState
  PROVE  CapacityRespected'
<1> DEFINE R == CountedAs({"receiving"})
           A == CountedAs({"receiving", "cancelled"})
<1>1. op.id \in Batches /\ OnlyOf(op.id)
  BY CreateStateEffect
<1>2. /\ R \in SUBSET Batches /\ R' \in SUBSET (R \cup {op.id})
      /\ A \in SUBSET Batches /\ A' \in SUBSET (A \cup {op.id})
  BY <1>1 DEF OnlyOf, CountedAs
<1>3. ASSUME NEW X \in SUBSET Batches, NEW Y \in SUBSET (X \cup {op.id}), NEW limit \in Nat,
             ~(Cardinality(X) >= limit)
      PROVE  Cardinality(Y) <= limit
  <2>1. X \cup {op.id} \in SUBSET Batches
    BY <1>1, <1>3
  <2>2. IsFiniteSet(X) /\ Cardinality(X) \in Nat
    BY <1>3, SlotAssumption, FS_Subset, FS_CardinalityType DEF SlotAssumption
  <2>3. Cardinality(X \cup {op.id}) = IF op.id \in X THEN Cardinality(X) ELSE Cardinality(X) + 1
    BY <2>2, FS_AddElement
  <2>4. /\ Cardinality(X \cup {op.id}) \in Nat /\ Cardinality(Y) \in Nat
        /\ Cardinality(Y) <= Cardinality(X \cup {op.id})
    BY <1>3, <2>1, SmallerCount
  <2>5. QED
    BY <1>3, <2>2, <2>3, <2>4
<1> HIDE DEF R, A
<1>4. ~(Cardinality(R) >= MaxStaging) /\ ~(Cardinality(A) >= MaxTotalStaging)
  BY DEF AtCapacity, R, A
<1>5. Cardinality(R') <= MaxStaging /\ Cardinality(A') <= MaxTotalStaging
  BY <1>2, <1>3, <1>4, LimitAssumption DEF LimitAssumption
<1>6. QED
  BY <1>5 DEF CapacityRespected, R, A

\* Whoever returns reserves nothing.
LEMMA NothingReserved ==
  ASSUME op'.step \notin {"mkdir", "owner", "manifest", "payload", "state"}
  PROVE  (~Reserving)'
BY DEF Reserving

LEMMA ReturnReserves ==
  ASSUME NEW result, NEW state, NEW fresh, AnswerAs(result, state, fresh)
  PROVE  (~Reserving)'
BY Returns, NothingReserved DEF Idle

\* A step that makes no stage count and keeps or ends the reservation.
LEMMA CapacityKept ==
  ASSUME CapacityInv, NoneCountsMore, Reserving' => Reserving
  PROVE  CapacityInv'
BY NoMoreCounted DEF CapacityInv

LEMMA CountsSame ==
  ASSUME UNCHANGED staging
  PROVE  NoneCountsMore
BY DEF NoneCountsMore, CountsLess

\* A stage without state file does not count, nor does one whose metadata is the
\* same count for more.
LEMMA UnfinishedCounts ==
  ASSUME NEW s, NEW t, t.state = "none"
  PROVE  CountsLess(s, t)
BY DEF CountsLess, Counts

LEMMA AlikeCounts ==
  ASSUME NEW s, NEW t, t.dir = s.dir, t.owner = s.owner, t.state = s.state
  PROVE  CountsLess(s, t)
BY DEF CountsLess, Counts

LEMMA CapacityCreate ==
  ASSUME IInv, UInv, CapacityInv, Create
  PROVE  CapacityInv'
<1> DEFINE s == staging[op.id]
           t == staging'[op.id]
<1>1. ASSUME NEW step, Goto(step)
      PROVE  op'.step = step
  BY <1>1, Moves DEF IInv
<1>2. CASE CreateDirectory
  <2>1. op.step = "mkdir" /\ op.id \in Batches /\ OnlyOf(op.id) /\ t.state = "none"
    BY <1>2, CreateDirectoryEffect DEF Unfinished
  <2>2. Reserving /\ NoneCountsMore
    BY <2>1, UnfinishedCounts, OneCountsLess DEF Reserving
  <2>3. QED
    BY <2>2, CapacityKept
<1>3. CASE CreateOwner
  <2>1. op.step = "owner" /\ op.id \in Batches /\ OnlyOf(op.id) /\ t.state = s.state
    BY <1>3, CreateOwnerEffect
  <2>2. t.state = "none"
    BY <2>1 DEF UInv, CreateUse, Unfinished
  <2>3. Reserving /\ NoneCountsMore
    BY <2>1, <2>2, UnfinishedCounts, OneCountsLess DEF Reserving
  <2>4. QED
    BY <2>3, CapacityKept
<1>4. CASE CreateManifest
  <2>1. op.step = "manifest" /\ op.id \in Batches /\ OnlyOf(op.id) /\ t.state = s.state
    BY <1>4, CreateManifestEffect
  <2>2. t.state = "none"
    BY <2>1 DEF UInv, CreateUse, Unfinished
  <2>3. Reserving /\ NoneCountsMore
    BY <2>1, <2>2, UnfinishedCounts, OneCountsLess DEF Reserving
  <2>4. QED
    BY <2>3, CapacityKept
<1>5. CASE CreatePayload
  <2>1. op.step = "payload" /\ op.id \in Batches /\ OnlyOf(op.id) /\ t.state = s.state
    BY <1>5, CreatePayloadEffect
  <2>2. t.state = "none"
    BY <2>1 DEF UInv, CreateUse, Unfinished
  <2>3. Reserving /\ NoneCountsMore
    BY <2>1, <2>2, UnfinishedCounts, OneCountsLess DEF Reserving
  <2>4. QED
    BY <2>3, CapacityKept
<1>6. CASE CreateState
  <2>1. op.step = "state" /\ Goto("syncStage")
    BY <1>6 DEF CreateState
  <2>2. ~AtCapacity
    BY <2>1 DEF CapacityInv, Reserving
  <2>3. CapacityRespected'
    BY <1>6, <2>2, OneMoreCounted
  <2>4. QED
    BY <1>1, <2>1, <2>3 DEF CapacityInv, Reserving
<1>7. CASE CreateDone
  <2>1. Answer("ok", "receiving") /\ UNCHANGED staging
    BY <1>7 DEF CreateDone, disk
  <2>2. QED
    BY <2>1, ReturnReserves, CountsSame, CapacityKept DEF Answer
<1>8. QED
  BY <1>2, <1>3, <1>4, <1>5, <1>6, <1>7 DEF Create

\* A begin that found room is the only one to take it: nothing else runs until
\* its stage counts.
LEMMA CapacityDecide ==
  ASSUME IInv, UInv, CapacityInv, Decide
  PROVE  CapacityInv'
<1>1. op.step = "decide" /\ UNCHANGED disk /\ Outcome
  BY DecideOutcome
<1>2. NoneCountsMore
  BY <1>1, CountsSame DEF disk
<1>3. CASE Goto("mkdir") /\ ~AtCapacity
  BY <1>2, <1>3, NoMoreCounted DEF CapacityInv
<1>4. CASE \E result, state : Answer(result, state)
  BY <1>2, <1>4, ReturnReserves, CapacityKept DEF Answer
<1>5. ASSUME NEW step \in {"cleanup", "write", "receipt", "tombstone"}, Goto(step)
      PROVE  CapacityInv'
  <2>1. op'.step = step
    BY <1>5, Moves DEF IInv
  <2>2. QED
    BY <1>2, <2>1, NothingReserved, CapacityKept
<1>6. CASE StartRemoval(op.id, "expire")
  <2>1. op'.step = "remove"
    BY <1>6, Removes DEF IInv
  <2>2. QED
    BY <1>2, <2>1, NothingReserved, CapacityKept
<1>7. QED
  BY <1>1, <1>3, <1>4, <1>5, <1>6 DEF Outcome

LEMMA CapacityRemove ==
  ASSUME IInv, UInv, CapacityInv, Remove
  PROVE  CapacityInv'
<1> DEFINE s == staging[op.victim]
           t == staging'[op.victim]
<1>1. ASSUME op.step = "remove", op' = op
      PROVE  (~Reserving)'
  BY <1>1 DEF Reserving
<1>2. CASE RemoveManifest
  <2>1. /\ op.step = "remove" /\ op.victim \in Batches /\ OnlyOf(op.victim)
        /\ t.dir = s.dir /\ t.owner = s.owner /\ t.state = s.state /\ op' = op
    BY <1>2, RemoveManifestEffect
  <2>2. QED
    BY <1>1, <2>1, AlikeCounts, OneCountsLess, CapacityKept
<1>3. CASE RemoveOwner
  <2>1. op.step = "remove" /\ op.victim \in Batches /\ OnlyOf(op.victim) /\ ~t.owner /\ op' = op
    BY <1>3, RemoveOwnerEffect
  <2>2. CountsLess(s, t)
    BY <2>1 DEF CountsLess, Counts
  <2>3. QED
    BY <1>1, <2>1, <2>2, OneCountsLess, CapacityKept
<1>4. CASE RemoveRest
  <2>1. /\ op.victim \in Batches /\ OnlyOf(op.victim) /\ t = NoStage
        /\ op'.step = "sweep" \/ \E result, state : Answer(result, state)
    BY <1>4, RemoveRestEffect
  <2>2. CountsLess(s, t)
    BY <2>1, UnfinishedCounts DEF NoStage
  <2>3. (~Reserving)'
    BY <2>1, NothingReserved, ReturnReserves DEF Answer
  <2>4. QED
    BY <2>1, <2>2, <2>3, OneCountsLess, CapacityKept
<1>5. QED
  BY <1>2, <1>3, <1>4 DEF Remove

LEMMA CapacityOthers ==
  ASSUME IInv, UInv, CapacityInv, Cleanup \/ Chunk \/ Publish \/ Cancel
  PROVE  CapacityInv'
<1> DEFINE s == staging[op.id]
           t == staging'[op.id]
<1>1. ASSUME NEW step, step \notin {"mkdir", "owner", "manifest", "payload", "state"}, Goto(step)
      PROVE  (~Reserving)'
  BY <1>1, Moves, NothingReserved DEF IInv
<1>2. CASE Cleanup
  <2>1. CASE CleanupPayload
    <3>1. /\ op.step = "cleanup" /\ op.id \in Batches /\ OnlyOf(op.id)
          /\ t.dir = s.dir /\ t.owner = s.owner /\ t.state = s.state /\ op' = op
      BY <2>1, CleanupPayloadEffect
    <3>2. (~Reserving)'
      BY <3>1 DEF Reserving
    <3>3. QED
      BY <3>1, <3>2, AlikeCounts, OneCountsLess, CapacityKept
  <2>2. CASE CleanupDone
    <3>1. Goto("decide") /\ UNCHANGED staging
      BY <2>2 DEF CleanupDone, disk
    <3>2. QED
      BY <1>1, <3>1, CountsSame, CapacityKept
  <2>3. QED
    BY <1>2, <2>1, <2>2 DEF Cleanup
<1>3. CASE Chunk
  <2>1. /\ op.id \in Batches /\ OnlyOf(op.id) /\ StageOK(t) /\ SameUse(s, t)
        /\ \/ Goto("fsync") \/ Goto("touch") \/ Answer("ok", "receiving")
    BY <1>3, ChunkEffect
  <2>2. StageOK(s) /\ Bounded(s)
    BY <2>1 DEF IInv, DiskOK, StagingOK, UInv
  <2>3. CountsLess(s, t)
    BY <2>1, <2>2, UseKept, AlikeCounts
  <2>4. (~Reserving)'
    BY <1>1, <2>1, ReturnReserves DEF Answer
  <2>5. QED
    BY <2>1, <2>3, <2>4, OneCountsLess, CapacityKept
<1>4. CASE Publish
  <2>1. CASE PublishReceipt
    <3>1. /\ op.id \in Batches /\ OnlyOf(op.id) /\ Goto("restate")
          /\ t.dir = s.dir /\ t.owner = s.owner /\ t.state = s.state
      BY <2>1, PublishReceiptEffect
    <3>2. QED
      BY <1>1, <3>1, AlikeCounts, OneCountsLess, CapacityKept
  <2>2. CASE PublishState
    <3>1. Goto("rename") /\ UNCHANGED staging
      BY <2>2 DEF PublishState
    <3>2. QED
      BY <1>1, <3>1, CountsSame, CapacityKept
  <2>3. CASE RenamePayload
    <3>1. /\ op.step = "rename" /\ op.id \in Batches /\ OnlyOf(op.id)
          /\ t.dir = s.dir /\ t.owner = s.owner /\ t.state = s.state
          /\ op' = op \/ Goto("publish")
      BY <2>3, RenamePayloadEffect
    <3>2. (~Reserving)'
      BY <1>1, <3>1 DEF Reserving
    <3>3. QED
      BY <3>1, <3>2, AlikeCounts, OneCountsLess, CapacityKept
  <2>4. CASE PublishFolder
    <3>1. op.id \in Batches /\ OnlyOf(op.id) /\ Goto("syncRoot") /\ t = NoStage
      BY <2>4, PublishFolderEffect
    <3>2. CountsLess(s, t)
      BY <3>1, UnfinishedCounts DEF NoStage
    <3>3. QED
      BY <1>1, <3>1, <3>2, OneCountsLess, CapacityKept
  <2>5. CASE PublishDone
    <3>1. AnswerAs("ok", "stored", TRUE) /\ UNCHANGED staging
      BY <2>5 DEF PublishDone, disk
    <3>2. QED
      BY <3>1, ReturnReserves, CountsSame, CapacityKept
  <2>6. QED
    BY <1>4, <2>1, <2>2, <2>3, <2>4, <2>5 DEF Publish
<1>5. CASE Cancel
  <2>1. CASE WriteTombstone
    <3>1. /\ op.step = "tombstone" /\ op.id \in Batches /\ OnlyOf(op.id) /\ Goto("syncTomb")
          /\ t.dir = s.dir /\ t.owner = s.owner /\ t.state = "cancelled"
      BY <2>1, WriteTombstoneEffect
    <3>2. s.state = "receiving"
      BY <3>1 DEF UInv, CancelUse, Receiving
    <3>3. CountsLess(s, t)
      BY <3>1, <3>2 DEF CountsLess, Counts
    <3>4. QED
      BY <1>1, <3>1, <3>3, OneCountsLess, CapacityKept
  <2>2. CASE SyncTombstone
    <3>1. Goto("cleanup") /\ UNCHANGED staging
      BY <2>2 DEF SyncTombstone, disk
    <3>2. QED
      BY <1>1, <3>1, CountsSame, CapacityKept
  <2>3. QED
    BY <1>5, <2>1, <2>2 DEF Cancel
<1>6. QED
  BY <1>2, <1>3, <1>4, <1>5

LEMMA CapacityFailure ==
  ASSUME IInv, UInv, CapacityInv, Refuse \/ Failure
  PROVE  CapacityInv'
<1>1. op \in Operation
  BY DEF IInv
<1>2. ASSUME NoneCountsMore, \E result, state, fresh : AnswerAs(result, state, fresh)
      PROVE  CapacityInv'
  BY <1>2, ReturnReserves, CapacityKept
<1>3. CASE Refuse \/ FailPublish \/ FailCancel
  <2>1. UNCHANGED staging /\ \E result, state, fresh : AnswerAs(result, state, fresh)
    BY <1>3 DEF Refuse, FailPublish, FailCancel, Answer, disk
  <2>2. QED
    BY <1>2, <2>1, CountsSame
<1>4. CASE FailRemove
  <2>1. UNCHANGED staging
    BY <1>4 DEF FailRemove, disk
  <2>2. CASE op.why = "sweep"
    <3>1. op' = [op EXCEPT !.step = "sweep", !.victim = NoBatch, !.why = "none"]
      BY <1>4, <2>2 DEF FailRemove
    <3>2. op'.step = "sweep"
      BY <1>1, <3>1 DEF Operation
    <3>3. QED
      BY <2>1, <3>2, CountsSame, NothingReserved, CapacityKept
  <2>3. CASE op.why # "sweep"
    BY <1>2, <1>4, <2>1, <2>3, CountsSame DEF FailRemove, Answer
  <2>4. QED
    BY <2>2, <2>3
<1>5. CASE FailChunk
  <2>1. UNCHANGED published /\ \E result, state, fresh : AnswerAs(result, state, fresh)
    BY <1>5 DEF FailChunk, Answer
  <2>2. CASE UNCHANGED staging
    BY <1>2, <2>1, <2>2, CountsSame
  <2>3. CASE op.step = "write" /\ \E n \in 0..Len(Suffix) : staging' = Grown(n)
    <3>1. /\ Receiving(staging[op.id])
          /\ op.offset + Len(op.data) <= Len(staging[op.id].manifest[op.index])
      BY <2>3 DEF UInv, ChunkUse, ChunkSteps
    <3>2. /\ op.id \in Batches /\ OnlyOf(op.id) /\ StageOK(staging'[op.id])
          /\ SameUse(staging[op.id], staging'[op.id])
      BY <2>1, <2>3, <3>1, GrownEffect
    <3>3. StageOK(staging[op.id]) /\ Bounded(staging[op.id])
      BY <3>2 DEF IInv, DiskOK, StagingOK, UInv
    <3>4. CountsLess(staging[op.id], staging'[op.id])
      BY <3>2, <3>3, UseKept, AlikeCounts
    <3>5. QED
      BY <1>2, <2>1, <3>2, <3>4, OneCountsLess
  <2>4. QED
    BY <1>5, <2>2, <2>3 DEF FailChunk
<1>6. CASE FailCreate
  <2>1. CASE UNCHANGED staging /\ \E result, state, fresh : AnswerAs(result, state, fresh)
    BY <1>2, <2>1, CountsSame
  <2>2. CASE /\ op.step = "owner" /\ staging' = [staging EXCEPT ![op.id] = NoStage]
             /\ \E result, state, fresh : AnswerAs(result, state, fresh)
    <3>1. op.id \in Batches /\ UNCHANGED published
      BY <1>6, <2>2, CreateStage DEF CreateSteps, FailCreate
    <3>2. OnlyOf(op.id) /\ staging'[op.id] = NoStage
      BY <2>2, <3>1, Replaced
    <3>3. CountsLess(staging[op.id], staging'[op.id])
      BY <3>2, UnfinishedCounts DEF NoStage
    <3>4. QED
      BY <1>2, <2>2, <3>1, <3>2, <3>3, OneCountsLess
  <2>3. CASE StartRemoval(op.id, "rollback") /\ UNCHANGED staging
    <3>1. op'.step = "remove"
      BY <1>1, <2>3, Removes
    <3>2. QED
      BY <2>3, <3>1, CountsSame, NothingReserved, CapacityKept
  <2>4. QED
    BY <1>6, <2>1, <2>2, <2>3 DEF FailCreate, Answer
<1>7. QED
  BY <1>3, <1>4, <1>5, <1>6 DEF Failure

LEMMA CapacityFault ==
  ASSUME IInv, UInv, CapacityInv, Crash \/ PowerLoss
  PROVE  CapacityInv'
<1>1. op' = Idle
  BY DEF Crash, PowerLoss
<1>2. (~Reserving)'
  BY <1>1, NothingReserved DEF Idle
<1>3. CASE Crash
  <2> DEFINE s == staging[op.id]
             t == staging'[op.id]
  <2>1. /\ op.id \in Batches /\ OnlyOf(op.id)
        /\ \/ t = s
           \/ Torn(s, t)
           \/ StageOK(t) /\ SameUse(s, t)
    BY <1>3, CrashEffect
  <2>2. StageOK(s) /\ Bounded(s)
    BY <2>1 DEF IInv, DiskOK, StagingOK, UInv
  <2>3. CountsLess(s, t)
    <3>1. CASE StageOK(t) /\ SameUse(s, t)
      BY <2>2, <3>1, UseKept, AlikeCounts
    <3>2. CASE t = s \/ Torn(s, t)
      BY <3>2, AlikeCounts DEF Torn
    <3>3. QED
      BY <2>1, <3>1, <3>2
  <2>4. QED
    BY <1>2, <2>1, <2>3, OneCountsLess, CapacityKept
<1>4. CASE PowerLoss
  <2>1. ASSUME NEW b \in Batches
        PROVE  CountsLess(staging[b], staging'[b])
    <3>1. StageOK(staging'[b]) /\ SameUse(staging[b], staging'[b])
      BY <1>4, PowerEffect
    <3>2. StageOK(staging[b]) /\ Bounded(staging[b])
      BY DEF IInv, DiskOK, StagingOK, UInv
    <3>3. QED
      BY <3>1, <3>2, UseKept, AlikeCounts
  <2>2. NoneCountsMore
    BY <2>1 DEF NoneCountsMore
  <2>3. QED
    BY <1>2, <2>2, CapacityKept
<1>5. QED
  BY <1>3, <1>4

LEMMA CapacityStep ==
  ASSUME IInv, UInv, CapacityInv, [Next]_vars
  PROVE  CapacityInv'
<1>1. CASE UNCHANGED vars
  BY <1>1, CountsSame, CapacityKept DEF vars, Reserving
<1>2. CASE Request
  <2>1. op'.step \in {"sweep", "decide"} /\ UNCHANGED staging
    BY <1>2, Requested
  <2>2. QED
    BY <2>1, NothingReserved, CountsSame, CapacityKept
<1>3. CASE Sweep
  <2>1. UNCHANGED staging
    BY <1>3 DEF Sweep, SweepExpired, SweepDone, disk
  <2>2. op'.step \in {"remove", "decide"}
    BY <1>3, Removes DEF Sweep, SweepExpired, SweepDone, IInv, Operation
  <2>3. QED
    BY <2>1, <2>2, NothingReserved, CountsSame, CapacityKept
<1>4. CASE Tick
  BY <1>4, CountsSame, CapacityKept DEF Tick, Reserving
<1>5. CASE Remove \/ Cleanup \/ Decide \/ Create \/ Chunk \/ Publish \/ Cancel
  BY <1>5, CapacityRemove, CapacityOthers, CapacityDecide, CapacityCreate
<1>6. CASE Refuse \/ Failure \/ Crash \/ PowerLoss
  BY <1>6, CapacityFailure, CapacityFault
<1>7. QED
  BY <1>1, <1>2, <1>3, <1>4, <1>5, <1>6 DEF Next, Progress

\* The limits on receiving batches and on all staged batches are never exceeded,
\* whatever fails, crashes or cannot be removed in between.
THEOREM LimitsHold == Spec => []CapacityRespected
<1>1. Init => CapacityInv
  <2>1. SUFFICES ASSUME Init PROVE CapacityInv
    OBVIOUS
  <2>2. CountedAs({"receiving"}) = {} /\ CountedAs({"receiving", "cancelled"}) = {}
    BY <2>1 DEF Init, NoStage, CountedAs
  <2>3. CapacityRespected
    BY <2>2, FS_EmptySet, LimitAssumption DEF LimitAssumption, CapacityRespected
  <2>4. ~Reserving
    BY <2>1 DEF Init, Idle, Reserving
  <2>5. QED
    BY <2>3, <2>4 DEF CapacityInv
<1>2. IInv /\ UInv /\ CapacityInv /\ [Next]_vars => CapacityInv'
  BY CapacityStep
<1>3. CapacityInv => CapacityRespected
  BY DEF CapacityInv
<1>4. QED
  BY <1>1, <1>2, <1>3, Invariance, StagesInUse, PTL DEF Spec

-----------------------------------------------------------------------------
(* The store implements the contract of BatchContract.                       *)

\* What the contract sees of one identity, in a form whose arguments are values.
PhaseOf(p, s, creating, publishing) ==
  IF p.exists THEN "stored"
  ELSE IF ~s.dir \/ creating THEN "absent"
  ELSE IF publishing THEN "receiving"
  ELSE IF Readable(s) THEN s.state ELSE "broken"

ContentOf(phase, p, s) ==
  IF phase = "stored" THEN p.manifest
  ELSE IF phase \in {"receiving", "cancelled"} THEN s.manifest ELSE NoManifest

LEMMA Views ==
  ASSUME NEW b \in Batches
  PROVE  /\ Phase(b) = PhaseOf(published[b], staging[b], Creating(b), Publishing(b))
         /\ Content(b) = ContentOf(Phase(b), published[b], staging[b])
         /\ Phase(b)' = PhaseOf(published'[b], staging'[b], Creating(b)', Publishing(b)')
         /\ Content(b)' = ContentOf(Phase(b)', published'[b], staging'[b])
<1>1. Phase(b) = PhaseOf(published[b], staging[b], Creating(b), Publishing(b))
  BY DEF Phase, PhaseOf
<1>2. Phase(b)' = PhaseOf(published'[b], staging'[b], Creating(b)', Publishing(b)')
  BY DEF Phase, PhaseOf
<1>3. Content(b) = ContentOf(Phase(b), published[b], staging[b])
  BY DEF Content, ContentOf
<1>4. Content(b)' = ContentOf(Phase(b)', published'[b], staging'[b])
  BY DEF Content, ContentOf
<1>5. QED
  BY <1>1, <1>2, <1>3, <1>4

\* Nothing visible happens to b; what may happen to it.
Unmoved(b) == Phase(b)' = Phase(b) /\ Content(b)' = Content(b)

Advance(b) ==
  \/ Unmoved(b)
  \/ Phase(b) = "absent" /\ Phase(b)' = "receiving" /\ Content(b)' \in Manifests
  \/ Phase(b) = "receiving" /\ Phase(b)' \in {"stored", "cancelled"} /\ Content(b)' = Content(b)
  \/ Phase(b) \in {"absent", "receiving"} /\ Phase(b)' = "broken" /\ Content(b)' = NoManifest
  \/ /\ Phase(b) \in {"receiving", "cancelled"} /\ Expired(b)
     /\ Phase(b)' = "broken" /\ Content(b)' = NoManifest
  \/ Phase(b) = "broken" /\ Expired(b) /\ Phase(b)' = "absent" /\ Content(b)' = NoManifest

\* A step of the contract, or nothing visible.
Promised == [Contract!Next]_(Contract!visible)

LEMMA AllUnmoved ==
  ASSUME \A b \in Batches : Unmoved(b)
  PROVE  Promised
<1>1. /\ [b \in Batches |-> Phase(b)]' = [b \in Batches |-> Phase(b)]
      /\ [b \in Batches |-> Content(b)]' = [b \in Batches |-> Content(b)]
  BY DEF Unmoved
<1>2. QED
  BY <1>1 DEF Promised, Contract!visible

LEMMA OneAdvances ==
  ASSUME NEW b \in Batches, \A c \in Batches \ {b} : Unmoved(c), Advance(b)
  PROVE  Promised
<1> DEFINE phase == [c \in Batches |-> Phase(c)]
           content == [c \in Batches |-> Content(c)]
<1>1. /\ phase' = [phase EXCEPT ![b] = Phase(b)']
      /\ content' = [content EXCEPT ![b] = Content(b)']
  BY DEF Unmoved
<1>2. phase[b] = Phase(b) /\ content[b] = Content(b)
  OBVIOUS
<1>3. ASSUME NEW p, NEW m, Phase(b)' = p, Content(b)' = m
      PROVE  Contract!Become(b, p, m)
  BY <1>1, <1>3 DEF Contract!Become
<1>4. CASE Unmoved(b)
  BY <1>4, AllUnmoved
<1>5. CASE Phase(b) = "absent" /\ Phase(b)' = "receiving" /\ Content(b)' \in Manifests
  <2>1. PICK m \in Manifests : Content(b)' = m
    BY <1>5
  <2>2. Contract!Receive(b, m)
    BY <1>2, <1>3, <1>5, <2>1 DEF Contract!Receive
  <2>3. QED
    BY <2>2 DEF Promised, Contract!Next
<1>6. CASE Phase(b) = "receiving" /\ Phase(b)' \in {"stored", "cancelled"} /\ Content(b)' = Content(b)
  <2>1. Contract!Store(b) \/ Contract!Cancel(b)
    BY <1>2, <1>3, <1>6 DEF Contract!Store, Contract!Cancel
  <2>2. QED
    BY <2>1 DEF Promised, Contract!Next
<1>7. CASE Phase(b) \in {"absent", "receiving"} /\ Phase(b)' = "broken" /\ Content(b)' = NoManifest
  <2>1. Contract!Break(b)
    BY <1>2, <1>3, <1>7 DEF Contract!Break
  <2>2. QED
    BY <2>1 DEF Promised, Contract!Next
<1>8. CASE /\ Phase(b) \in {"receiving", "cancelled"} /\ Expired(b)
           /\ Phase(b)' = "broken" /\ Content(b)' = NoManifest
  <2>1. Contract!Expire(b)
    BY <1>2, <1>3, <1>8 DEF Contract!Expire, Expired
  <2>2. QED
    BY <2>1 DEF Promised, Contract!Next
<1>9. CASE Phase(b) = "broken" /\ Expired(b) /\ Phase(b)' = "absent" /\ Content(b)' = NoManifest
  <2>1. Contract!Forget(b)
    BY <1>2, <1>3, <1>9 DEF Contract!Forget, Expired
  <2>2. QED
    BY <2>1 DEF Promised, Contract!Next
<1>10. QED
  BY <1>4, <1>5, <1>6, <1>7, <1>8, <1>9 DEF Advance

\* The parts of the operation in the view of b: a stage being created or taken
\* back, or being published.
NoRole(b) == ~Creating(b) /\ ~Publishing(b)

\* At most one identity has a part in the view.
LEMMA OneRole ==
  ASSUME UInv, NEW b, ~NoRole(b), NEW c, c # b
  PROVE  NoRole(c)
BY DEF NoRole, Creating, Publishing, UInv, KindsOK, CreateSteps, PublishSteps

\* Once the operation has returned nobody has a part in the view.
LEMMA IdleRoles ==
  ASSUME op' = Idle, NEW c \in Batches
  PROVE  ~Creating(c)' /\ ~Publishing(c)'
<1>1. c # NoBatch
  BY SlotAssumption DEF SlotAssumption
<1>2. QED
  BY <1>1 DEF Creating, Publishing, Idle

\* A step outside creation, roll-back and publication plays no part in the view.
LEMMA OutsideRoles ==
  ASSUME UInv, op.step \notin (CreateSteps \ {"mkdir"}) \cup (PublishSteps \ {"receipt"}),
         op.step # "remove" \/ op.why # "rollback", NEW b
  PROVE  NoRole(b)
BY DEF UInv, KindsOK, NoRole, Creating, Publishing

\* The next step's view: whoever is idle, deciding, cleaning or sweeping.
LEMMA NextRoles ==
  ASSUME UInv', op'.step \notin (CreateSteps \ {"mkdir"}) \cup (PublishSteps \ {"receipt"}),
         op'.step # "remove" \/ op'.why # "rollback", NEW b
  PROVE  ~Creating(b)' /\ ~Publishing(b)'
BY DEF UInv, KindsOK, Creating, Publishing

\* What the contract sees of a stage that is as usable as it was.
Rest(b) ==
  /\ StageOK(staging'[b]) /\ SameUse(staging[b], staging'[b])
  /\ published'[b].exists = published[b].exists
  /\ published'[b].manifest = published[b].manifest

LEMMA RestSame ==
  ASSUME IInv, NEW b \in Batches, staging'[b] = staging[b], published'[b] = published[b]
  PROVE  Rest(b)
<1>1. StageOK(staging[b])
  BY DEF IInv, DiskOK, StagingOK
<1>2. QED
  BY <1>1, Lengths DEF Rest, SameUse

LEMMA RestUnmoved ==
  ASSUME IInv, UInv, NEW b \in Batches, Rest(b),
         Creating(b)' <=> Creating(b), Publishing(b)' <=> Publishing(b)
  PROVE  Unmoved(b)
<1> DEFINE s == staging[b]
           t == staging'[b]
<1>1. StageOK(s) /\ Bounded(s)
  BY DEF IInv, DiskOK, StagingOK, UInv
<1>2. /\ t.dir = s.dir /\ t.manifest = s.manifest /\ t.state = s.state
      /\ Readable(t) = Readable(s)
  BY <1>1, UseKept DEF Rest
<1>3. Phase(b)' = Phase(b)
  BY <1>2, Views DEF PhaseOf, Rest
<1>4. Content(b)' = Content(b)
  BY <1>2, <1>3, Views DEF ContentOf, Rest
<1>5. QED
  BY <1>3, <1>4 DEF Unmoved

\* An identity without role, before and after, whose stage is as usable as it
\* was.
LEMMA QuietUnmoved ==
  ASSUME IInv, UInv, NEW b \in Batches, Rest(b), NoRole(b), ~Creating(b)', ~Publishing(b)'
  PROVE  Unmoved(b)
BY RestUnmoved DEF NoRole

\* The stage of b once its creation, roll-back or publication is given up.
LEMMA GivenUp ==
  ASSUME IInv, UInv, NEW b \in Batches, ~Creating(b)', ~Publishing(b)',
         \/ Rest(b)
         \/ Torn(staging[b], staging'[b]) /\ published'[b] = published[b]
  PROVE  Advance(b)
<1> DEFINE s == staging[b]
           t == staging'[b]
           p == published[b]
           q == published'[b]
<1>1. StageOK(s) /\ s \in Stage /\ Bounded(s)
  BY DEF IInv, DiskOK, StagingOK, StageOK, UInv
<1>2. /\ t.dir = s.dir /\ t.manifest = s.manifest /\ t.state = s.state
      /\ t.receipt = s.receipt /\ q.exists = p.exists /\ q.manifest = p.manifest
  BY <1>1, UseKept DEF Rest, Torn
<1>3. Readable(t) => Readable(s) /\ s.state \in {"receiving", "cancelled"}
  <2>1. CASE Rest(b)
    BY <1>1, <2>1, UseKept, ReadableState DEF Rest
  <2>2. CASE Torn(s, t)
    BY <1>1, <2>2, ReadableState DEF Torn, Readable
  <2>3. QED
    BY <2>1, <2>2
<1>4. s.state = "cancelled" => Readable(t) = Readable(s)
  <2>1. CASE Rest(b)
    BY <1>1, <2>1, UseKept DEF Rest
  <2>2. CASE Torn(s, t)
    BY <2>2 DEF Torn, Readable
  <2>3. QED
    BY <2>1, <2>2
<1>5. /\ Phase(b)' = PhaseOf(q, t, FALSE, FALSE)
      /\ Content(b)' = ContentOf(Phase(b)', q, t)
      /\ Phase(b) = PhaseOf(p, s, Creating(b), Publishing(b))
      /\ Content(b) = ContentOf(Phase(b), p, s)
  BY Views DEF PhaseOf
<1>6. CASE p.exists
  <2>1. Phase(b) = "stored" /\ Phase(b)' = "stored"
    BY <1>2, <1>5, <1>6 DEF PhaseOf
  <2>2. Content(b)' = Content(b)
    BY <1>2, <1>5, <2>1 DEF ContentOf
  <2>3. QED
    BY <2>1, <2>2 DEF Advance, Unmoved
<1>7. CASE ~p.exists /\ ~s.dir
  <2>1. Phase(b) = "absent" /\ Phase(b)' = "absent"
    BY <1>2, <1>5, <1>7 DEF PhaseOf
  <2>2. Content(b)' = Content(b)
    BY <1>5, <2>1 DEF ContentOf
  <2>3. QED
    BY <2>1, <2>2 DEF Advance, Unmoved
<1>8. CASE ~p.exists /\ s.dir /\ Creating(b)
  <2>1. Phase(b) = "absent"
    BY <1>5, <1>8 DEF PhaseOf
  <2>2. s.state \in {"none", "receiving"}
    BY <1>8 DEF Creating, UInv, CreateUse, RemoveUse, CreateSteps, Unfinished, Receiving
  <2>3. CASE Readable(t)
    <3>1. Phase(b)' = "receiving" /\ t.manifest \in Manifests
      BY <1>1, <1>2, <1>3, <1>5, <1>8, <2>2, <2>3 DEF PhaseOf, Stage, Readable
    <3>2. Content(b)' \in Manifests
      BY <1>5, <3>1 DEF ContentOf
    <3>3. QED
      BY <2>1, <3>1, <3>2 DEF Advance
  <2>4. CASE ~Readable(t)
    <3>1. Phase(b)' = "broken"
      BY <1>2, <1>5, <1>8, <2>4 DEF PhaseOf
    <3>2. Content(b)' = NoManifest
      BY <1>5, <3>1 DEF ContentOf
    <3>3. QED
      BY <2>1, <3>1, <3>2 DEF Advance
  <2>5. QED
    BY <2>3, <2>4
<1>9. CASE ~p.exists /\ s.dir /\ ~Creating(b) /\ Publishing(b)
  <2>1. Phase(b) = "receiving"
    BY <1>5, <1>9 DEF PhaseOf
  <2>2. t.receipt
    BY <1>2, <1>9 DEF Publishing, UInv, PublishUse
  <2>3. Phase(b)' = "broken"
    BY <1>2, <1>5, <1>9, <2>2 DEF PhaseOf, Readable
  <2>4. Content(b)' = NoManifest
    BY <1>5, <2>3 DEF ContentOf
  <2>5. QED
    BY <2>1, <2>3, <2>4 DEF Advance
<1>10. CASE ~p.exists /\ s.dir /\ ~Creating(b) /\ ~Publishing(b)
  <2>1. /\ Phase(b) = IF Readable(s) THEN s.state ELSE "broken"
        /\ Phase(b)' = IF Readable(t) THEN s.state ELSE "broken"
    BY <1>2, <1>5, <1>10 DEF PhaseOf
  <2>2. CASE Readable(t) <=> Readable(s)
    <3>1. Phase(b)' = Phase(b)
      BY <2>1, <2>2
    <3>2. /\ Content(b)' = ContentOf(Phase(b), q, t)
          /\ Content(b) = ContentOf(Phase(b), p, s)
      BY <1>5, <3>1
    <3>3. ContentOf(Phase(b), q, t) = ContentOf(Phase(b), p, s)
      BY <1>2 DEF ContentOf
    <3>4. QED
      BY <3>1, <3>2, <3>3 DEF Advance, Unmoved
  <2>3. CASE Readable(s) /\ ~Readable(t)
    <3>1. s.state = "receiving"
      BY <1>1, <1>4, <2>3, ReadableState
    <3>2. Phase(b) = "receiving" /\ Phase(b)' = "broken"
      BY <2>1, <2>3, <3>1
    <3>3. Content(b)' = NoManifest
      BY <1>5, <3>2 DEF ContentOf
    <3>4. QED
      BY <3>2, <3>3 DEF Advance
  <2>4. QED
    BY <1>3, <2>2, <2>3
<1>11. QED
  BY <1>6, <1>7, <1>8, <1>9, <1>10

\* Whatever returns or dies, the identity it worked on is the only one the
\* contract may see change.
LEMMA BackToIdle ==
  ASSUME IInv, UInv, op' = Idle, NEW b \in Batches,
         \A c \in Batches \ {b} : NoRole(c) /\ Rest(c),
         \/ Rest(b)
         \/ Torn(staging[b], staging'[b]) /\ published'[b] = published[b]
  PROVE  Promised
<1>1. ASSUME NEW c \in Batches
      PROVE  ~Creating(c)' /\ ~Publishing(c)'
  BY IdleRoles
<1>2. ASSUME NEW c \in Batches \ {b}
      PROVE  Unmoved(c)
  BY <1>1, <1>2, QuietUnmoved
<1>3. Advance(b)
  BY <1>1, GivenUp
<1>4. QED
  BY <1>2, <1>3, OneAdvances

\* A return that leaves every stage as usable as it was.
LEMMA PromisedRest ==
  ASSUME IInv, UInv, op' = Idle, \A c \in Batches : Rest(c)
  PROVE  Promised
<1>1. CASE \E b \in Batches : ~NoRole(b)
  <2>1. PICK b \in Batches : ~NoRole(b)
    BY <1>1
  <2>2. ASSUME NEW c \in Batches \ {b}
        PROVE  NoRole(c)
    BY <2>1, OneRole
  <2>3. QED
    BY <2>2, BackToIdle
<1>2. CASE \A b \in Batches : NoRole(b)
  <2>1. ASSUME NEW c \in Batches
        PROVE  Unmoved(c)
    BY <1>2, IdleRoles, QuietUnmoved
  <2>2. QED
    BY <2>1, AllUnmoved
<1>3. QED
  BY <1>1, <1>2

\* A return that changes nothing on disk.
LEMMA PromisedReturn ==
  ASSUME IInv, UInv, op' = Idle, UNCHANGED <<staging, published>>
  PROVE  Promised
<1>1. \A c \in Batches : Rest(c)
  BY RestSame
<1>2. QED
  BY <1>1, PromisedRest

\* A step that changes nothing on disk and whose operation has no part in the
\* view before and after.
LEMMA PromisedQuiet ==
  ASSUME IInv, UInv, UInv', UNCHANGED <<staging, published>>,
         op.step \notin (CreateSteps \ {"mkdir"}) \cup (PublishSteps \ {"receipt"}),
         op.step # "remove" \/ op.why # "rollback",
         op'.step \notin (CreateSteps \ {"mkdir"}) \cup (PublishSteps \ {"receipt"}),
         op'.step # "remove" \/ op'.why # "rollback"
  PROVE  Promised
<1>1. ASSUME NEW c \in Batches
      PROVE  Unmoved(c)
  <2>1. Rest(c)
    BY RestSame
  <2>2. NoRole(c) /\ ~Creating(c)' /\ ~Publishing(c)'
    BY OutsideRoles, NextRoles
  <2>3. QED
    BY <2>1, <2>2, QuietUnmoved
<1>2. QED
  BY <1>1, AllUnmoved

\* One stage changes; the others have no part in the view before and after.
LEMMA PromisedOne ==
  ASSUME IInv, UInv, NEW b \in Batches, OnlyOf(b), Advance(b),
         \A c \in Batches \ {b} : NoRole(c) /\ ~Creating(c)' /\ ~Publishing(c)'
  PROVE  Promised
<1>1. ASSUME NEW c \in Batches \ {b}
      PROVE  Unmoved(c)
  <2>1. Rest(c)
    BY RestSame DEF OnlyOf
  <2>2. QED
    BY <2>1, QuietUnmoved
<1>2. QED
  BY <1>1, OneAdvances

LEMMA PromisedRequest ==
  ASSUME IInv, UInv, Request \/ Sweep
  PROVE  Promised
<1>1. UInv'
  BY RequestUse, SweepUse
<1>2. CASE Request
  <2>1. /\ op.step = "idle" /\ op'.step \in {"sweep", "decide"}
        /\ UNCHANGED <<staging, published>>
    BY <1>2, Requested
  <2>2. QED
    BY <1>1, <2>1, PromisedQuiet DEF CreateSteps, PublishSteps
<1>3. CASE Sweep
  <2>1. /\ op.step = "sweep" /\ UNCHANGED <<staging, published>>
        /\ op'.step = "decide" \/ (op'.step = "remove" /\ op'.why = "sweep")
    BY <1>3, Removes DEF Sweep, SweepExpired, SweepDone, IInv, Operation, disk
  <2>2. QED
    BY <1>1, <2>1, PromisedQuiet DEF CreateSteps, PublishSteps
<1>4. QED
  BY <1>2, <1>3

LEMMA PromisedRemove ==
  ASSUME IInv, UInv, Remove
  PROVE  Promised
<1>1. op.step = "remove" /\ op.victim \in Batches
  BY DEF Remove, RemoveManifest, RemoveOwner, RemoveRest, IInv, SlotOK
<1>2. PICK v \in Batches : v = op.victim
  BY <1>1
<1> DEFINE s == staging[v]
           t == staging'[v]
           p == published[v]
<1>3. ASSUME NEW c \in Batches \ {v}
      PROVE  NoRole(c)
  BY <1>1, <1>2, <1>3 DEF NoRole, Creating, Publishing, CreateSteps, PublishSteps
<1>4. ~Publishing(v) /\ (Creating(v) <=> op.why = "rollback")
  BY <1>1, <1>2 DEF Creating, Publishing, CreateSteps, PublishSteps
<1>5. Expired(v) \/ op.why = "rollback"
  BY <1>1, <1>2 DEF UInv, RemoveUse, KindsOK, IInv, Operation
<1>6. /\ Phase(v) = PhaseOf(p, s, Creating(v), FALSE)
      /\ Content(v) = ContentOf(Phase(v), p, s)
  BY <1>4, Views DEF PhaseOf
<1>7. s \in Stage
  BY DEF IInv, DiskOK, StagingOK
<1>8. CASE RemoveManifest \/ RemoveOwner
  <2>1. /\ OnlyOf(v) /\ published'[v] = p /\ t.dir = s.dir /\ t.manifest = NoManifest
        /\ op' = op /\ (RemoveOwner => s.manifest = NoManifest)
    BY <1>2, <1>8, RemoveManifestEffect, RemoveOwnerEffect
  <2>2. ASSUME NEW c
        PROVE  (Creating(c)' <=> Creating(c)) /\ (Publishing(c)' <=> Publishing(c))
    BY <2>1 DEF Creating, Publishing
  <2>3. /\ Phase(v)' = PhaseOf(p, t, Creating(v), FALSE)
        /\ Content(v)' = ContentOf(Phase(v)', p, t)
    BY <1>4, <2>1, <2>2, Views DEF PhaseOf
  <2>4. ~Readable(t)
    BY <2>1 DEF Readable
  <2>5. Advance(v)
    <3>1. CASE p.exists
      <4>1. Phase(v) = "stored" /\ Phase(v)' = "stored"
        BY <1>6, <2>3, <3>1 DEF PhaseOf
      <4>2. Content(v)' = Content(v)
        BY <1>6, <2>3, <4>1 DEF ContentOf
      <4>3. QED
        BY <4>1, <4>2 DEF Advance, Unmoved
    <3>2. CASE ~p.exists /\ (~s.dir \/ Creating(v))
      <4>1. Phase(v) = "absent" /\ Phase(v)' = "absent"
        BY <1>6, <2>1, <2>3, <3>2 DEF PhaseOf
      <4>2. Content(v)' = Content(v)
        BY <1>6, <2>3, <4>1 DEF ContentOf
      <4>3. QED
        BY <4>1, <4>2 DEF Advance, Unmoved
    <3>3. CASE ~p.exists /\ s.dir /\ ~Creating(v)
      <4>1. Phase(v)' = "broken" /\ Content(v)' = NoManifest
        <5>1. Phase(v)' = "broken"
          BY <2>1, <2>3, <2>4, <3>3 DEF PhaseOf
        <5>2. QED
          BY <2>3, <5>1 DEF ContentOf
      <4>2. Expired(v)
        BY <1>4, <1>5, <3>3
      <4>3. CASE Readable(s)
        <5>1. Phase(v) \in {"receiving", "cancelled"}
          BY <1>6, <1>7, <3>3, <4>3, ReadableState DEF PhaseOf
        <5>2. QED
          BY <4>1, <4>2, <5>1 DEF Advance
      <4>4. CASE ~Readable(s)
        <5>1. Phase(v) = "broken"
          BY <1>6, <3>3, <4>4 DEF PhaseOf
        <5>2. Content(v) = NoManifest
          BY <1>6, <5>1 DEF ContentOf
        <5>3. QED
          BY <4>1, <5>1, <5>2 DEF Advance, Unmoved
      <4>5. QED
        BY <4>3, <4>4
    <3>4. QED
      BY <3>1, <3>2, <3>3
  <2>6. QED
    BY <1>3, <2>1, <2>2, <2>5, PromisedOne DEF NoRole
<1>9. CASE RemoveRest
  <2>1. /\ OnlyOf(v) /\ published'[v] = p /\ t = NoStage /\ s.manifest = NoManifest
        /\ \/ op'.step = "sweep" /\ op'.why = "none"
           \/ op' = Idle
    BY <1>2, <1>9, RemoveRestEffect DEF Answer, AnswerAs
  <2>2. ASSUME NEW c \in Batches
        PROVE  ~Creating(c)' /\ ~Publishing(c)'
    <3>1. c # NoBatch
      BY SlotAssumption DEF SlotAssumption
    <3>2. QED
      BY <2>1, <3>1 DEF Creating, Publishing, Idle, CreateSteps, PublishSteps
  <2>3. /\ Phase(v)' = PhaseOf(p, t, FALSE, FALSE)
        /\ Content(v)' = ContentOf(Phase(v)', p, t)
    BY <2>1, <2>2, Views DEF PhaseOf
  <2>4. ~Readable(s) /\ ~t.dir
    BY <2>1 DEF Readable, NoStage
  <2>5. Advance(v)
    <3>1. CASE p.exists
      <4>1. Phase(v) = "stored" /\ Phase(v)' = "stored"
        BY <1>6, <2>3, <3>1 DEF PhaseOf
      <4>2. Content(v)' = Content(v)
        BY <1>6, <2>3, <4>1 DEF ContentOf
      <4>3. QED
        BY <4>1, <4>2 DEF Advance, Unmoved
    <3>2. CASE ~p.exists
      <4>1. Phase(v)' = "absent"
        BY <2>3, <2>4, <3>2 DEF PhaseOf
      <4>2. Content(v)' = NoManifest
        BY <2>3, <4>1 DEF ContentOf
      <4>3. CASE ~s.dir \/ Creating(v)
        <5>1. Phase(v) = "absent"
          BY <1>6, <3>2, <4>3 DEF PhaseOf
        <5>2. Content(v) = NoManifest
          BY <1>6, <5>1 DEF ContentOf
        <5>3. QED
          BY <4>1, <4>2, <5>1, <5>2 DEF Advance, Unmoved
      <4>4. CASE s.dir /\ ~Creating(v)
        <5>1. Phase(v) = "broken"
          BY <1>6, <2>4, <3>2, <4>4 DEF PhaseOf
        <5>2. Expired(v)
          BY <1>4, <1>5, <4>4
        <5>3. QED
          BY <4>1, <4>2, <5>1, <5>2 DEF Advance
      <4>5. QED
        BY <4>3, <4>4
    <3>3. QED
      BY <3>1, <3>2
  <2>6. QED
    BY <1>3, <2>1, <2>2, <2>5, PromisedOne
<1>10. QED
  BY <1>8, <1>9 DEF Remove

LEMMA PromisedCleanup ==
  ASSUME IInv, UInv, Cleanup
  PROVE  Promised
<1>1. UInv'
  BY CleanupUse
<1>2. CASE CleanupDone
  <2>1. /\ op.step = "cleanup" /\ op'.step = "decide" /\ UNCHANGED <<staging, published>>
    BY <1>2, Moves DEF CleanupDone, IInv, disk
  <2>2. QED
    BY <1>1, <2>1, PromisedQuiet DEF CreateSteps, PublishSteps
<1>3. CASE CleanupPayload
  <2>1. op.step = "cleanup" /\ op.id \in Batches
    BY <1>3, CleanupPayloadEffect
  <2>2. PICK b \in Batches : b = op.id
    BY <2>1
  <2> DEFINE s == staging[b]
             t == staging'[b]
             p == published[b]
  <2>3. /\ OnlyOf(b) /\ published'[b] = p /\ op' = op
        /\ t.dir = s.dir /\ t.owner = s.owner /\ t.manifest = s.manifest
        /\ t.state = s.state /\ t.receipt = s.receipt /\ t.renamed = s.renamed
    BY <1>3, <2>2, CleanupPayloadEffect
  <2>4. ASSUME NEW c \in Batches
        PROVE  NoRole(c) /\ ~Creating(c)' /\ ~Publishing(c)'
    <3>1. op'.step = "cleanup"
      BY <2>1, <2>3
    <3>2. QED
      BY <1>1, <2>1, <3>1, OutsideRoles, NextRoles DEF CreateSteps, PublishSteps
  <2>5. Tombstone(s) /\ Tombstone(t)
    <3>1. Tombstone(s)
      BY <2>1, <2>2 DEF UInv, CancelUse
    <3>2. QED
      BY <2>3, <3>1 DEF Tombstone, Readable
  <2>6. Phase(b)' = Phase(b)
    BY <2>3, <2>4, <2>5, Views DEF PhaseOf, NoRole, Tombstone
  <2>7. Content(b)' = Content(b)
    BY <2>3, <2>6, Views DEF ContentOf
  <2>8. Advance(b)
    BY <2>6, <2>7 DEF Advance, Unmoved
  <2>9. QED
    BY <2>3, <2>4, <2>8, PromisedOne
<1>4. QED
  BY <1>2, <1>3 DEF Cleanup

LEMMA PromisedDecide ==
  ASSUME IInv, UInv, Decide
  PROVE  Promised
<1>1. op.step = "decide" /\ UNCHANGED <<staging, published>> /\ Outcome
  BY DecideOutcome DEF disk
<1>2. UInv'
  BY DecideUse
<1>3. CASE \E result, state : Answer(result, state)
  <2>1. op' = Idle
    BY <1>3, Returns DEF Answer
  <2>2. QED
    BY <1>1, <2>1, PromisedReturn
<1>4. ASSUME NEW step \in {"cleanup", "mkdir", "write", "receipt", "tombstone"}, Goto(step)
      PROVE  Promised
  <2>1. op'.step = step
    BY <1>4, Moves DEF IInv
  <2>2. QED
    BY <1>1, <1>2, <2>1, PromisedQuiet DEF CreateSteps, PublishSteps
<1>5. CASE StartRemoval(op.id, "expire")
  <2>1. op'.step = "remove" /\ op'.why = "expire"
    BY <1>5, Removes DEF IInv
  <2>2. QED
    BY <1>1, <1>2, <2>1, PromisedQuiet DEF CreateSteps, PublishSteps
<1>6. QED
  BY <1>1, <1>3, <1>4, <1>5 DEF Outcome

\* An operation between its methods' first and last disk effect: only the
\* identity it works on has a part in the view.
LEMMA PromisedWork ==
  ASSUME IInv, UInv, UInv', NEW b \in Batches, b = op.id, op.step # "remove",
         op'.id = b, op'.step # "remove", OnlyOf(b), Advance(b)
  PROVE  Promised
<1>1. ASSUME NEW c \in Batches \ {b}
      PROVE  NoRole(c) /\ ~Creating(c)' /\ ~Publishing(c)'
  BY <1>1 DEF NoRole, Creating, Publishing, UInv, KindsOK
<1>2. QED
  BY <1>1, PromisedOne

\* A stage in creation is absent for the contract, whatever is in it.
LEMMA CreatingUnmoved ==
  ASSUME NEW b \in Batches, Creating(b), Creating(b)', published'[b] = published[b]
  PROVE  Unmoved(b)
<1>1. Phase(b)' = Phase(b)
  BY Views DEF PhaseOf
<1>2. Phase(b) \in {"stored", "absent"}
  BY Views DEF PhaseOf
<1>3. Content(b)' = Content(b)
  BY <1>1, <1>2, Views DEF ContentOf
<1>4. QED
  BY <1>1, <1>3 DEF Unmoved

LEMMA PromisedCreate ==
  ASSUME IInv, UInv, Create
  PROVE  Promised
<1>1. UInv'
  BY CreateUseStep
<1>2. CASE CreateDone
  <2>1. op' = Idle /\ UNCHANGED <<staging, published>>
    BY <1>2, Returns DEF CreateDone, Answer, disk
  <2>2. QED
    BY <2>1, PromisedReturn
<1>3. CASE CreateDirectory
  <2>1. op.step = "mkdir" /\ op.id \in Batches /\ Goto("owner")
    BY <1>3, CreateDirectoryEffect
  <2>2. PICK b \in Batches : b = op.id
    BY <2>1
  <2>3. /\ OnlyOf(b) /\ published'[b] = published[b] /\ ~staging[b].dir
        /\ op'.step = "owner" /\ op'.id = b
    BY <1>3, <2>1, <2>2, CreateDirectoryEffect, Moves DEF IInv, UInv, CreateUse
  <2>4. Creating(b)'
    BY <2>3 DEF Creating, CreateSteps
  <2>5. /\ Phase(b) = IF published[b].exists THEN "stored" ELSE "absent"
        /\ Phase(b)' = Phase(b)
    BY <2>3, <2>4, Views DEF PhaseOf
  <2>6. Content(b)' = Content(b)
    BY <2>3, <2>5, Views DEF ContentOf
  <2>7. Advance(b)
    BY <2>5, <2>6 DEF Advance, Unmoved
  <2>8. QED
    BY <1>1, <2>1, <2>2, <2>3, <2>7, PromisedWork
<1>4. CASE CreateOwner \/ CreateManifest \/ CreatePayload \/ CreateState
  <2>1. /\ op.step \in {"owner", "manifest", "payload", "state"}
        /\ op.id \in Batches /\ OnlyOf(op.id) /\ published'[op.id] = published[op.id]
    BY <1>4, CreateOwnerEffect, CreateManifestEffect, CreatePayloadEffect, CreateStateEffect
  <2>2. PICK b \in Batches : b = op.id
    BY <2>1
  <2>3. ASSUME NEW step \in {"manifest", "payload", "state", "syncStage"}, Goto(step)
        PROVE  op'.id = b /\ op'.step \in {"owner", "manifest", "payload", "state", "syncStage"}
    BY <2>2, <2>3, Moves DEF IInv
  <2>4. \/ \E step \in {"manifest", "payload", "state", "syncStage"} : Goto(step)
        \/ op' = op
    BY <1>4 DEF CreateOwner, CreateManifest, CreatePayload, CreateState
  <2>5. op'.id = b /\ op'.step \in {"owner", "manifest", "payload", "state", "syncStage"}
    BY <2>1, <2>2, <2>3, <2>4
  <2>6. Creating(b) /\ Creating(b)' /\ OnlyOf(b) /\ published'[b] = published[b]
    BY <2>1, <2>2, <2>5 DEF Creating, CreateSteps
  <2>7. Advance(b)
    BY <2>6, CreatingUnmoved DEF Advance
  <2>8. QED
    BY <1>1, <2>1, <2>2, <2>5, <2>6, <2>7, PromisedWork
<1>5. QED
  BY <1>2, <1>3, <1>4 DEF Create

LEMMA PromisedChunk ==
  ASSUME IInv, UInv, Chunk
  PROVE  Promised
<1>1. UInv'
  BY ChunkUseStep
<1>2. /\ op.id \in Batches /\ op.step \in ChunkSteps
      /\ \/ Goto("fsync") \/ Goto("touch") \/ Answer("ok", "receiving")
  BY ChunkEffect
<1>3. PICK b \in Batches : b = op.id
  BY <1>2
<1>4. OnlyOf(b) /\ Rest(b)
  BY <1>3, ChunkEffect DEF Rest
<1>5. op'.step \in {"fsync", "touch", "idle"} /\ op'.why = "none"
  <2>1. op.why = "none"
    BY <1>2 DEF UInv, KindsOK, ChunkSteps
  <2>2. ASSUME NEW step \in {"fsync", "touch"}, Goto(step)
        PROVE  op'.step = step /\ op'.why = "none"
    BY <2>1, <2>2, Moves DEF IInv
  <2>3. ASSUME Answer("ok", "receiving")
        PROVE  op'.step = "idle" /\ op'.why = "none"
    BY <2>3 DEF Answer, AnswerAs, Idle
  <2>4. QED
    BY <1>2, <2>2, <2>3
<1>6. ASSUME NEW c \in Batches
      PROVE  Unmoved(c)
  <2>1. Rest(c)
    BY <1>4, RestSame DEF OnlyOf
  <2>2. NoRole(c) /\ ~Creating(c)' /\ ~Publishing(c)'
    <3>1. /\ op.step \notin (CreateSteps \ {"mkdir"}) \cup (PublishSteps \ {"receipt"})
          /\ op'.step \notin (CreateSteps \ {"mkdir"}) \cup (PublishSteps \ {"receipt"})
          /\ op.step # "remove" /\ op'.step # "remove"
      BY <1>2, <1>5 DEF ChunkSteps, CreateSteps, PublishSteps
    <3>2. QED
      BY <1>1, <3>1, OutsideRoles, NextRoles
  <2>3. QED
    BY <2>1, <2>2, QuietUnmoved
<1>7. QED
  BY <1>6, AllUnmoved

\* A stage in use that plays no part in a creation or a publication.
LEMMA ReceivingView ==
  ASSUME NEW b \in Batches, Receiving(staging[b]), ~published[b].exists, NoRole(b)
  PROVE  Phase(b) = "receiving" /\ Content(b) = staging[b].manifest
<1>1. Phase(b) = "receiving"
  BY Views DEF PhaseOf, NoRole, Receiving, Readable
<1>2. QED
  BY <1>1, Views DEF ContentOf

\* A stage being published.
LEMMA PublishingView ==
  ASSUME NEW b \in Batches
  PROVE  /\ staging[b].dir /\ ~published[b].exists /\ Publishing(b) /\ ~Creating(b)
              => Phase(b) = "receiving" /\ Content(b) = staging[b].manifest
         /\ staging'[b].dir /\ ~published'[b].exists /\ Publishing(b)' /\ ~Creating(b)'
              => Phase(b)' = "receiving" /\ Content(b)' = staging'[b].manifest
<1>1. ASSUME staging[b].dir, ~published[b].exists, Publishing(b), ~Creating(b)
      PROVE  Phase(b) = "receiving" /\ Content(b) = staging[b].manifest
  <2>1. Phase(b) = "receiving"
    BY <1>1, Views DEF PhaseOf
  <2>2. QED
    BY <2>1, Views DEF ContentOf
<1>2. ASSUME staging'[b].dir, ~published'[b].exists, Publishing(b)', ~Creating(b)'
      PROVE  Phase(b)' = "receiving" /\ Content(b)' = staging'[b].manifest
  <2>1. Phase(b)' = "receiving"
    BY <1>2, Views DEF PhaseOf
  <2>2. QED
    BY <2>1, Views DEF ContentOf
<1>3. QED
  BY <1>1, <1>2

LEMMA PromisedPublish ==
  ASSUME IInv, UInv, Publish
  PROVE  Promised
<1>1. UInv'
  BY PublishUseStep
<1>2. CASE PublishDone
  <2>1. op' = Idle /\ UNCHANGED <<staging, published>>
    BY <1>2, Returns DEF PublishDone, disk
  <2>2. QED
    BY <2>1, PromisedReturn
<1>3. /\ ~PublishDone => op.step \in PublishSteps /\ op.id \in Batches
      /\ op.step \in PublishSteps => op.why = "none" /\ ~published[op.id].exists
  <2>1. ~PublishDone => op.step \in PublishSteps
    BY DEF Publish, PublishReceipt, PublishState, RenamePayload, PublishFolder, PublishSteps
  <2>2. QED
    BY <2>1, PublishStage DEF UInv, KindsOK, PublishUse, PublishSteps
<1>4. CASE ~PublishDone
  <2>1. PICK b \in Batches : b = op.id
    BY <1>3, <1>4
  <2> DEFINE s == staging[b]
             t == staging'[b]
             p == published[b]
  <2>2. op.step \in PublishSteps /\ op.why = "none" /\ ~p.exists /\ op.step # "remove"
    BY <1>3, <1>4, <2>1 DEF PublishSteps
  <2>3. ~Creating(b) /\ (Publishing(b) <=> op.step # "receipt")
    BY <2>1, <2>2 DEF Creating, Publishing, CreateSteps, PublishSteps
  <2>4. ASSUME NEW step \in {"restate", "rename", "publish", "syncRoot"}, 
               Goto(step) \/ (op' = op /\ op.step = step)
        PROVE  /\ op'.id = b /\ op'.step = step /\ op'.step # "remove"
               /\ ~Creating(b)' /\ (Publishing(b)' <=> step # "syncRoot")
    <3>1. op'.id = b /\ op'.step = step /\ op'.why = "none"
      BY <2>1, <2>2, <2>4, Moves DEF IInv
    <3>2. QED
      BY <3>1 DEF Creating, Publishing, CreateSteps, PublishSteps
  <2>5. CASE PublishReceipt
    <3>1. /\ op.step = "receipt" /\ Goto("restate") /\ OnlyOf(b) /\ published'[b] = p
          /\ t.dir = s.dir /\ t.manifest = s.manifest
      BY <2>1, <2>5, PublishReceiptEffect
    <3>2. Receiving(s)
      BY <2>1, <3>1 DEF UInv, PublishUse
    <3>3. Phase(b) = "receiving" /\ Content(b) = s.manifest
      BY <2>2, <2>3, <3>1, <3>2, ReceivingView DEF NoRole
    <3>4. t.dir
      BY <3>1, <3>2 DEF Receiving, Readable
    <3>5. op'.id = b /\ op'.step # "remove" /\ ~Creating(b)' /\ Publishing(b)'
      BY <2>4, <3>1
    <3>6. Phase(b)' = "receiving" /\ Content(b)' = t.manifest
      BY <2>2, <3>1, <3>4, <3>5, PublishingView
    <3>7. Advance(b)
      BY <3>1, <3>3, <3>6 DEF Advance, Unmoved
    <3>8. QED
      BY <1>1, <2>1, <2>2, <3>1, <3>5, <3>7, PromisedWork
  <2>6. CASE PublishState \/ RenamePayload
    <3>1. /\ op.step \in {"restate", "rename"} /\ OnlyOf(b) /\ published'[b] = p
          /\ t.dir = s.dir /\ t.manifest = s.manifest
      BY <2>1, <2>6, RenamePayloadEffect DEF PublishState, OnlyOf
    <3>2. s.dir
      BY <2>1, <3>1 DEF UInv, PublishUse, PublishSteps
    <3>3. Phase(b) = "receiving" /\ Content(b) = s.manifest
      BY <2>2, <2>3, <3>1, <3>2, PublishingView
    <3>4. op'.id = b /\ op'.step # "remove" /\ ~Creating(b)' /\ Publishing(b)'
      <4>1. CASE PublishState
        BY <2>4, <4>1 DEF PublishState
      <4>2. CASE RenamePayload
        <5>1. op.step = "rename" /\ (op' = op \/ Goto("publish"))
          BY <4>2 DEF RenamePayload
        <5>2. QED
          BY <2>4, <5>1
      <4>3. QED
        BY <2>6, <4>1, <4>2
    <3>5. Phase(b)' = "receiving" /\ Content(b)' = t.manifest
      BY <2>2, <3>1, <3>2, <3>4, PublishingView
    <3>6. Advance(b)
      BY <3>1, <3>3, <3>5 DEF Advance, Unmoved
    <3>7. QED
      BY <1>1, <2>1, <2>2, <3>1, <3>4, <3>6, PromisedWork
  <2>7. CASE PublishFolder
    <3>1. /\ op.step = "publish" /\ Goto("syncRoot") /\ OnlyOf(b)
          /\ published'[b].exists /\ published'[b].manifest = s.manifest
      BY <2>1, <2>7, PublishFolderEffect
    <3>2. s.dir
      BY <2>1, <3>1 DEF UInv, PublishUse, PublishSteps
    <3>3. Phase(b) = "receiving" /\ Content(b) = s.manifest
      BY <2>2, <2>3, <3>1, <3>2, PublishingView
    <3>4. op'.id = b /\ op'.step # "remove"
      BY <2>1, <3>1, Moves DEF IInv
    <3>5. Phase(b)' = "stored"
      BY <3>1, Views DEF PhaseOf
    <3>6. Content(b)' = s.manifest
      BY <3>1, <3>5, Views DEF ContentOf
    <3>7. Advance(b)
      BY <3>3, <3>5, <3>6 DEF Advance
    <3>8. QED
      BY <1>1, <2>1, <2>2, <3>1, <3>4, <3>7, PromisedWork
  <2>8. QED
    BY <1>4, <2>5, <2>6, <2>7 DEF Publish
<1>5. QED
  BY <1>2, <1>4

LEMMA PromisedCancel ==
  ASSUME IInv, UInv, Cancel
  PROVE  Promised
<1>1. UInv'
  BY CancelUseStep
<1>2. CASE SyncTombstone
  <2>1. op.step = "syncTomb" /\ op'.step = "cleanup" /\ UNCHANGED <<staging, published>>
    BY <1>2, Moves DEF SyncTombstone, IInv, disk
  <2>2. QED
    BY <1>1, <2>1, PromisedQuiet DEF CreateSteps, PublishSteps
<1>3. CASE WriteTombstone
  <2>1. op.step = "tombstone" /\ op.id \in Batches /\ Goto("syncTomb")
    BY <1>3, WriteTombstoneEffect
  <2>2. PICK b \in Batches : b = op.id
    BY <2>1
  <2> DEFINE s == staging[b]
             t == staging'[b]
             p == published[b]
  <2>3. /\ OnlyOf(b) /\ published'[b] = p
        /\ t.dir = s.dir /\ t.owner = s.owner /\ t.manifest = s.manifest
        /\ t.state = "cancelled" /\ t.receipt = s.receipt /\ t.renamed = s.renamed
        /\ op'.step = "syncTomb" /\ op'.id = b
    BY <1>3, <2>1, <2>2, WriteTombstoneEffect, Moves DEF IInv
  <2>4. Receiving(s) /\ Readable(t)
    BY <2>1, <2>2, <2>3 DEF UInv, CancelUse, Receiving, Readable
  <2>5. NoRole(b) /\ ~Creating(b)' /\ ~Publishing(b)'
    BY <1>1, <2>1, <2>3, OutsideRoles, NextRoles DEF CreateSteps, PublishSteps
  <2>6. Advance(b)
    <3>1. CASE p.exists
      <4>1. Phase(b) = "stored" /\ Phase(b)' = "stored"
        BY <2>3, <3>1, Views DEF PhaseOf
      <4>2. Content(b)' = Content(b)
        BY <2>3, <4>1, Views DEF ContentOf
      <4>3. QED
        BY <4>1, <4>2 DEF Advance, Unmoved
    <3>2. CASE ~p.exists
      <4>1. Phase(b) = "receiving" /\ Content(b) = s.manifest
        BY <2>4, <2>5, <3>2, ReceivingView
      <4>2. Phase(b)' = "cancelled"
        BY <2>3, <2>4, <2>5, <3>2, Views DEF PhaseOf, Readable
      <4>3. Content(b)' = s.manifest
        BY <2>3, <4>2, Views DEF ContentOf
      <4>4. QED
        BY <4>1, <4>2, <4>3 DEF Advance
    <3>3. QED
      BY <3>1, <3>2
  <2>7. QED
    BY <1>1, <2>1, <2>2, <2>3, <2>6, PromisedWork
<1>4. QED
  BY <1>2, <1>3 DEF Cancel

LEMMA PromisedFailure ==
  ASSUME IInv, UInv, Failure \/ Refuse
  PROVE  Promised
<1>1. ASSUME NEW result, NEW state, NEW fresh, AnswerAs(result, state, fresh),
             UNCHANGED <<staging, published>>
      PROVE  Promised
  BY <1>1, Returns, PromisedReturn
<1>2. CASE Refuse \/ FailPublish \/ FailCancel
  <2>1. /\ UNCHANGED <<staging, published>>
        /\ \E result, state, fresh : AnswerAs(result, state, fresh)
    BY <1>2 DEF Refuse, FailPublish, FailCancel, Answer, disk
  <2>2. QED
    BY <1>1, <2>1
<1>3. CASE FailRemove
  <2>1. op.step = "remove" /\ UNCHANGED <<staging, published>>
    BY <1>3 DEF FailRemove, disk
  <2>2. CASE op.why = "sweep"
    <3>1. op' = [op EXCEPT !.step = "sweep", !.victim = NoBatch, !.why = "none"]
      BY <1>3, <2>2 DEF FailRemove
    <3>2. op'.step = "sweep"
      BY <3>1 DEF IInv, Operation
    <3>3. UInv'
      BY <1>3, FailureUse DEF Failure
    <3>4. QED
      BY <2>1, <2>2, <3>2, <3>3, PromisedQuiet DEF CreateSteps, PublishSteps
  <2>3. CASE op.why # "sweep"
    BY <1>1, <1>3, <2>1, <2>3 DEF FailRemove, Answer
  <2>4. QED
    BY <2>2, <2>3
<1>4. CASE FailChunk
  <2>1. op' = Idle /\ UNCHANGED published
    BY <1>4, Returns DEF FailChunk, Answer
  <2>2. CASE UNCHANGED staging
    BY <2>1, <2>2, PromisedReturn
  <2>3. CASE op.step = "write" /\ \E n \in 0..Len(Suffix) : staging' = Grown(n)
    <3>1. Receiving(staging[op.id]) /\ op.offset + Len(op.data) <= Len(staging[op.id].manifest[op.index])
      BY <2>3 DEF UInv, ChunkUse, ChunkSteps
    <3>2. /\ op.id \in Batches /\ OnlyOf(op.id) /\ published'[op.id] = published[op.id]
          /\ StageOK(staging'[op.id]) /\ SameUse(staging[op.id], staging'[op.id])
      BY <2>1, <2>3, <3>1, GrownEffect
    <3>3. PICK b \in Batches : b = op.id
      BY <3>2
    <3>4. Rest(b)
      BY <3>2, <3>3 DEF Rest
    <3>5. ASSUME NEW c \in Batches \ {b}
          PROVE  NoRole(c) /\ Rest(c)
      <4>1. Rest(c)
        BY <3>2, <3>3, <3>5, RestSame DEF OnlyOf
      <4>2. NoRole(c)
        BY <2>3, OutsideRoles DEF CreateSteps, PublishSteps
      <4>3. QED
        BY <4>1, <4>2
    <3>6. QED
      BY <2>1, <3>4, <3>5, BackToIdle
  <2>4. QED
    BY <1>4, <2>2, <2>3 DEF FailChunk
<1>5. CASE FailCreate
  <2>1. UNCHANGED published
    BY <1>5 DEF FailCreate
  <2>2. CASE /\ op.step = "owner" /\ staging' = [staging EXCEPT ![op.id] = NoStage]
             /\ Answer("error", "none")
    <3>1. op' = Idle /\ op.id \in Batches
      BY <2>2, Returns, CreateStage DEF Answer, CreateSteps
    <3>2. PICK b \in Batches : b = op.id
      BY <3>1
    <3>3. OnlyOf(b) /\ staging'[b] = NoStage /\ published'[b] = published[b]
      BY <2>1, <2>2, <3>2, Replaced
    <3>4. Creating(b)
      BY <2>2, <3>2 DEF Creating, CreateSteps
    <3>5. Phase(b) = (IF published[b].exists THEN "stored" ELSE "absent") /\ Phase(b)' = Phase(b)
      BY <3>3, <3>4, Views DEF PhaseOf, NoStage
    <3>6. Content(b)' = Content(b)
      BY <3>3, <3>5, Views DEF ContentOf
    <3>7. ASSUME NEW c \in Batches \ {b}
          PROVE  NoRole(c) /\ ~Creating(c)' /\ ~Publishing(c)'
      BY <2>2, <3>1, <3>2, <3>7, IdleRoles DEF NoRole, Creating, Publishing, UInv, KindsOK
    <3>8. QED
      BY <3>3, <3>5, <3>6, <3>7, PromisedOne DEF Advance, Unmoved
  <2>3. CASE UNCHANGED staging /\ Answer("error", "none")
    BY <1>1, <2>1, <2>3 DEF Answer
  <2>4. CASE op.step = "syncStage" /\ StartRemoval(op.id, "rollback") /\ UNCHANGED staging
    <3>1. op.id \in Batches
      BY <2>4, CreateStage DEF CreateSteps
    <3>2. PICK b \in Batches : b = op.id
      BY <3>1
    <3>3. op'.victim = b /\ op'.why = "rollback" /\ op'.step = "remove"
      BY <2>4, <3>2, Removes DEF IInv
    <3>4. ASSUME NEW c \in Batches
          PROVE  Unmoved(c)
      <4>1. Rest(c)
        BY <2>1, <2>4, RestSame
      <4>2. ~Publishing(c) /\ ~Publishing(c)'
        BY <2>4, <3>3 DEF Publishing, PublishSteps
      <4>3. Creating(c) <=> c = b
        BY <2>4, <3>2 DEF Creating, CreateSteps, UInv, KindsOK
      <4>4. Creating(c)' <=> c = b
        BY <3>3 DEF Creating, CreateSteps
      <4>5. QED
        BY <4>1, <4>2, <4>3, <4>4, RestUnmoved
    <3>5. QED
      BY <3>4, AllUnmoved
  <2>5. QED
    BY <1>5, <2>2, <2>3, <2>4 DEF FailCreate
<1>6. QED
  BY <1>2, <1>3, <1>4, <1>5 DEF Failure

LEMMA PromisedFault ==
  ASSUME IInv, UInv, Crash \/ PowerLoss
  PROVE  Promised
<1>1. op' = Idle
  BY DEF Crash, PowerLoss
<1>2. CASE Crash
  <2>1. op.id \in Batches /\ UNCHANGED published
    BY <1>2, CrashEffect DEF Crash
  <2>2. CASE UNCHANGED staging
    BY <1>1, <2>1, <2>2, PromisedReturn
  <2>3. CASE ~UNCHANGED staging
    <3>1. PICK b \in Batches : b = op.id
      BY <2>1
    <3>2. OnlyOf(b) /\ published'[b] = published[b]
      BY <1>2, <3>1, CrashEffect
    <3>3. \/ staging'[b] = staging[b]
          \/ Torn(staging[b], staging'[b])
          \/ StageOK(staging'[b]) /\ SameUse(staging[b], staging'[b])
      BY <1>2, <3>1, CrashEffect
    <3>4. Rest(b) \/ Torn(staging[b], staging'[b])
      BY <3>2, <3>3, RestSame DEF Rest
    <3>5. op.step # "remove"
      <4>1. op.step \in MetadataSteps \cup {"write"}
        BY <1>2, <2>3 DEF Crash, Wreckage
      <4>2. QED
        BY <4>1 DEF MetadataSteps
    <3>6. ASSUME NEW c \in Batches \ {b}
          PROVE  NoRole(c) /\ Rest(c)
      <4>1. NoRole(c)
        BY <3>1, <3>5, <3>6 DEF NoRole, Creating, Publishing, UInv, KindsOK
      <4>2. Rest(c)
        BY <3>2, <3>6, RestSame DEF OnlyOf
      <4>3. QED
        BY <4>1, <4>2
    <3>7. QED
      BY <1>1, <3>2, <3>4, <3>6, BackToIdle
  <2>4. QED
    BY <2>2, <2>3
<1>3. CASE PowerLoss
  <2>1. \A c \in Batches : Rest(c)
    BY <1>3, PowerEffect DEF Rest
  <2>2. QED
    BY <1>1, <2>1, PromisedRest
<1>4. QED
  BY <1>2, <1>3

\* Every step of the store is a step of the contract, or shows it nothing.
LEMMA PromisedStep ==
  ASSUME IInv, UInv, [Next]_vars
  PROVE  Promised
<1>1. CASE Tick \/ UNCHANGED vars
  <2>1. UNCHANGED <<staging, published, op>>
    BY <1>1 DEF Tick, vars
  <2>2. ASSUME NEW c \in Batches
        PROVE  Unmoved(c)
    <3>1. Rest(c)
      BY <2>1, RestSame
    <3>2. (Creating(c)' <=> Creating(c)) /\ (Publishing(c)' <=> Publishing(c))
      BY <2>1 DEF Creating, Publishing
    <3>3. QED
      BY <3>1, <3>2, RestUnmoved
  <2>3. QED
    BY <2>2, AllUnmoved
<1>2. CASE Progress
  BY <1>2, PromisedRequest, PromisedRemove, PromisedCleanup, PromisedDecide, PromisedCreate,
     PromisedChunk, PromisedPublish, PromisedCancel DEF Progress
<1>3. CASE Request \/ Refuse \/ Failure \/ Crash \/ PowerLoss
  BY <1>3, PromisedRequest, PromisedFailure, PromisedFault
<1>4. QED
  BY <1>1, <1>2, <1>3 DEF Next

LEMMA PromisedInit ==
  ASSUME Init
  PROVE  Contract!Init
<1>1. ASSUME NEW b \in Batches
      PROVE  Phase(b) = "absent" /\ Content(b) = NoManifest
  <2>1. ~staging[b].dir /\ ~published[b].exists
    BY DEF Init, NoStage, NoFolder
  <2>2. Phase(b) = "absent"
    BY <2>1, Views DEF PhaseOf
  <2>3. QED
    BY <2>2, Views DEF ContentOf
<1>2. QED
  BY <1>1 DEF Contract!Init

\* The store keeps the contract of BatchContract for every batch identity:
\* a batch is received under one manifest, then stored under it for good or
\* cancelled, and only what has expired is forgotten, whatever fails, crashes
\* or loses power between two disk effects.
THEOREM ContractImplemented == Spec => ImplementsContract
<1>1. Init => Contract!Init
  BY PromisedInit
<1>2. IInv /\ UInv /\ [Next]_vars => [Contract!Next]_(Contract!visible)
  BY PromisedStep DEF Promised
<1>3. Spec => []IInv
  BY Invariance
<1>4. Spec => []UInv
  BY StagesInUse
<1>5. QED
  BY <1>1, <1>2, <1>3, <1>4, PTL DEF Spec, ImplementsContract, Contract!Spec

-----------------------------------------------------------------------------
(* What a PUT acknowledges is in the file.                                   *)

\* The file holds the chunk at its offset.
Holds(content, off, data) ==
  /\ off + Len(data) <= Len(content)
  /\ \A j \in 1..Len(data) : data[j] = content[off + j]

\* A PUT writes a chunk that agrees with the file, and then keeps what it wrote.
ChunkHeld ==
  LET content == staging[op.id].files[op.index].data IN
  /\ op.step = "write" => Agrees(content, op.offset, op.data)
  /\ op.step \in {"fsync", "touch"} => Holds(content, op.offset, op.data)

LEMMA SliceIs ==
  ASSUME NEW c, NEW off \in Nat, NEW d \in Seq(Byte), \A j \in 1..Len(d) : d[j] = c[off + j]
  PROVE  SubSeq(c, off + 1, off + Len(d)) = d
<1>1. PICK n \in Nat : n = Len(d)
  BY LenProperties
<1>2. PICK from \in Int : from = off + 1
  OBVIOUS
<1>3. PICK to \in Int : to = off + n
  OBVIOUS
<1>4. ASSUME NEW i \in from..to
      PROVE  c[i] \in Byte
  <2>1. i - off \in 1..n /\ off + (i - off) = i
    BY <1>2, <1>3
  <2>2. d[i - off] = c[off + (i - off)] /\ d[i - off] \in Byte
    BY <1>1, <2>1
  <2>3. QED
    BY <2>1, <2>2
<1> DEFINE part == SubSeq(c, from, to)
<1>5. /\ part \in Seq(Byte) /\ Len(part) = IF from <= to THEN to - from + 1 ELSE 0
      /\ \A i \in 1..(to - from + 1) : part[i] = c[from + i - 1]
  BY <1>4, SubSeqProperties
<1> HIDE DEF part
<1>6. Len(part) = n
  BY <1>2, <1>3, <1>5
<1>7. ASSUME NEW i \in 1..n
      PROVE  part[i] = d[i]
  <2>1. i \in 1..(to - from + 1) /\ from + i - 1 = off + i
    BY <1>2, <1>3
  <2>2. QED
    BY <1>1, <1>5, <2>1
<1>8. part = d
  BY <1>1, <1>5, <1>6, <1>7, SeqEqual
<1>9. QED
  BY <1>1, <1>2, <1>3, <1>8 DEF part

LEMMA WholeSubSeq ==
  ASSUME NEW d \in Seq(Byte)
  PROVE  SubSeq(d, 1, Len(d)) = d
<1>1. SubSeq(d, 0 + 1, 0 + Len(d)) = d
  BY SliceIs
<1>2. 0 + Len(d) = Len(d)
  BY LenProperties
<1>3. QED
  BY <1>1, <1>2

\* A chunk that agrees with what the file holds of it, and whose other bytes are
\* appended, is in the file.
LEMMA SuffixHolds ==
  ASSUME NEW content \in Seq(Byte), NEW off \in Nat, NEW data \in Seq(Byte),
         off <= Len(content), Agrees(content, off, data)
  PROVE  Holds(content \o SubSeq(data, Overlap(Len(content), off, data) + 1, Len(data)), off, data)
<1>1. PICK n \in Nat : n = Len(content)
  BY LenProperties
<1>2. PICK d \in Nat : d = Len(data)
  BY LenProperties
<1>3. PICK k \in 0..d : k = Overlap(n, off, data)
  BY <1>1, <1>2, OverlapRange
<1>4. PICK rest \in Seq(Byte) :
        /\ rest = SubSeq(data, k + 1, d) /\ Len(rest) = d - k
        /\ \A j \in 1..(d - k) : rest[j] = data[k + j]
  BY <1>2, <1>3, SuffixProperties
<1> DEFINE grown == content \o rest
<1>5. /\ grown \in Seq(Byte) /\ Len(grown) = n + (d - k)
      /\ \A i \in 1..(n + (d - k)) : grown[i] = IF i <= n THEN content[i] ELSE rest[i - n]
  <2>1. /\ grown \in Seq(Byte) /\ Len(grown) = Len(content) + Len(rest)
        /\ \A i \in 1..(Len(content) + Len(rest)) :
             grown[i] = IF i <= Len(content) THEN content[i] ELSE rest[i - Len(content)]
    BY ConcatProperties
  <2>2. Len(content) + Len(rest) = n + (d - k)
    BY <1>1, <1>4
  <2> HIDE DEF grown
  <2>3. QED
    BY <1>1, <2>1, <2>2
<1> HIDE DEF grown
<1>6. k = IF d <= n - off THEN d ELSE n - off
  BY <1>2, <1>3 DEF Overlap
<1>7. off <= n /\ off + d <= n + (d - k)
  <2>1. off <= n
    BY <1>1
  <2>2. k <= n - off
    BY <1>6, <2>1
  <2>3. QED
    BY <2>1, <2>2
<1>8. ASSUME NEW j \in 1..d
      PROVE  data[j] = grown[off + j]
  <2>1. CASE j <= k
    <3>1. data[j] = content[off + j]
      BY <1>1, <1>3, <2>1 DEF Agrees
    <3>2. off + j <= n /\ off + j \in 1..(n + (d - k))
      BY <1>6, <1>7, <2>1
    <3>3. QED
      BY <1>5, <3>1, <3>2
  <2>2. CASE j > k
    <3>1. /\ off + j > n /\ off + j \in 1..(n + (d - k))
          /\ off + j - n \in 1..(d - k) /\ k + (off + j - n) = j
      BY <1>6, <1>7, <2>2
    <3>2. grown[off + j] = rest[off + j - n]
      BY <1>5, <3>1
    <3>3. rest[off + j - n] = data[k + (off + j - n)]
      BY <1>4, <3>1
    <3>4. QED
      BY <3>1, <3>2, <3>3
  <2>3. QED
    BY <2>1, <2>2
<1>9. Holds(grown, off, data)
  BY <1>2, <1>5, <1>7, <1>8 DEF Holds
<1>10. QED
  BY <1>1, <1>2, <1>3, <1>4, <1>9 DEF grown

\* The file the operation works on after its contents were replaced.
LEMMA WrittenFile ==
  ASSUME IInv, op.step \in ChunkSteps, NEW g, g \in File,
         staging' = [staging EXCEPT ![op.id] =
           [staging[op.id] EXCEPT !.files = [staging[op.id].files EXCEPT ![op.index] = g]]]
  PROVE  staging'[op.id].files[op.index] = g
<1> DEFINE s == staging[op.id]
           i == op.index
           files == [s.files EXCEPT ![i] = g]
           t == [s EXCEPT !.files = files]
<1>1. op.id \in Batches /\ s \in Stage /\ s.files \in Seq(File) /\ i \in 1..Len(s.files)
  BY ChunkFile DEF StageOK, FilesOK
<1>2. files[i] = g
  BY <1>1, LenProperties
<1> HIDE DEF files
<1>3. t.files = files
  BY <1>1 DEF Stage
<1>4. staging' = [staging EXCEPT ![op.id] = t]
  BY DEF files
<1> HIDE DEF t
<1>5. staging'[op.id] = t
  BY <1>1, <1>4 DEF IInv, DiskOK, StagingOK
<1>6. QED
  BY <1>2, <1>3, <1>5

LEMMA ChunkHeldStep ==
  ASSUME IInv, ChunkHeld, Chunk
  PROVE  ChunkHeld' /\ (TouchState =>
           Holds(staging'[op.id].files[op.index].data, op.offset, op.data))
<1> DEFINE s == staging[op.id]
           i == op.index
           f == s.files[i]
<1>1. op.step \in ChunkSteps
  BY DEF Chunk, WriteSuffix, SyncPayload, TouchState, ChunkSteps
<1>2. FileOK(f) /\ f \in File /\ f.data \in Seq(Byte) /\ op \in Operation
  BY <1>1, ChunkFile DEF FileOK, File, IInv
<1>3. CASE WriteSuffix
  <2> DEFINE more == SubSeq(Suffix, 1, Len(Suffix))
             g == [f EXCEPT !.data = f.data \o more]
  <2>1. op.step = "write" /\ Goto("fsync") /\ staging' = Grown(Len(Suffix))
    BY <1>3 DEF WriteSuffix
  <2>2. /\ op.data \in Seq(Byte) /\ op.offset \in Nat /\ op.offset <= Len(f.data)
        /\ Agrees(f.data, op.offset, op.data)
    BY <1>2, <2>1 DEF IInv, SlotOK, Operation, ChunkHeld
  <2>3. Overlap(Len(f.data), op.offset, op.data) \in 0..Len(op.data)
    BY <1>2, <2>2, LenProperties, OverlapRange
  <2>4. Suffix \in Seq(Byte)
    BY <2>2, <2>3, SuffixProperties DEF Suffix
  <2>5. more = Suffix
    BY <2>4, WholeSubSeq
  <2>6. f.data \o more \in Seq(Byte)
    BY <1>2, <2>4, <2>5, ConcatProperties
  <2>7. Holds(f.data \o more, op.offset, op.data)
    BY <1>2, <2>2, <2>5, SuffixHolds DEF Suffix
  <2>8. g \in File /\ g.data = f.data \o more
    BY <1>2, <2>6 DEF File
  <2>9. staging' = [staging EXCEPT ![op.id] = [s EXCEPT !.files = [s.files EXCEPT ![i] = g]]]
    BY <2>1 DEF Grown
  <2> HIDE DEF g
  <2>10. staging'[op.id].files[i] = g
    BY <1>1, <2>8, <2>9, WrittenFile
  <2>11. /\ op'.step = "fsync" /\ op'.id = op.id /\ op'.index = i
         /\ op'.offset = op.offset /\ op'.data = op.data
    BY <1>2, <2>1, Moves
  <2>12. ChunkHeld'
    BY <2>7, <2>8, <2>10, <2>11 DEF ChunkHeld
  <2>13. QED
    BY <2>1, <2>12 DEF TouchState
<1>4. CASE SyncPayload
  <2> DEFINE g == [f EXCEPT !.synced = Len(f.data)]
  <2>1. op.step = "fsync" /\ Goto("touch")
    BY <1>4 DEF SyncPayload
  <2>2. Len(f.data) \in Nat
    BY <1>2, LenProperties
  <2>3. g \in File /\ g.data = f.data
    BY <1>2, <2>2 DEF File
  <2>4. staging' = [staging EXCEPT ![op.id] = [s EXCEPT !.files = [s.files EXCEPT ![i] = g]]]
    BY <1>4 DEF SyncPayload
  <2> HIDE DEF g
  <2>5. staging'[op.id].files[i] = g
    BY <1>1, <2>3, <2>4, WrittenFile
  <2>6. /\ op'.step = "touch" /\ op'.id = op.id /\ op'.index = i
        /\ op'.offset = op.offset /\ op'.data = op.data
    BY <1>2, <2>1, Moves
  <2>7. Holds(f.data, op.offset, op.data)
    BY <2>1 DEF ChunkHeld
  <2>8. ChunkHeld'
    BY <2>3, <2>5, <2>6, <2>7 DEF ChunkHeld
  <2>9. QED
    BY <2>1, <2>8 DEF TouchState
<1>5. CASE TouchState
  <2> DEFINE g == [f EXCEPT !.acked = Len(f.data)]
  <2>1. op.step = "touch" /\ op' = Idle
    BY <1>5, Returns DEF TouchState, Answer
  <2>2. Len(f.data) \in Nat
    BY <1>2, LenProperties
  <2>3. g \in File /\ g.data = f.data
    BY <1>2, <2>2 DEF File
  <2>4. staging' = [staging EXCEPT ![op.id] = [s EXCEPT !.files = [s.files EXCEPT ![i] = g]]]
    BY <1>5 DEF TouchState
  <2> HIDE DEF g
  <2>5. staging'[op.id].files[i] = g
    BY <1>1, <2>3, <2>4, WrittenFile
  <2>6. Holds(f.data, op.offset, op.data)
    BY <2>1 DEF ChunkHeld
  <2>7. ChunkHeld'
    BY <2>1 DEF ChunkHeld, Idle
  <2>8. QED
    BY <2>3, <2>5, <2>6, <2>7
<1>6. QED
  BY <1>3, <1>4, <1>5 DEF Chunk

\* A chunk is written only after it was compared with the file.
LEMMA ChunkCompared ==
  ASSUME IInv, DecideChunk, op'.step \in ChunkSteps
  PROVE  /\ op'.step = "write"
         /\ Agrees(staging[op.id].files[op.index].data, op.offset, op.data)
<1> DEFINE s == staging[op.id]
           content == s.files[op.index].data
<1>1. ASSUME NEW result, NEW state, Answer(result, state)
      PROVE  FALSE
  BY <1>1 DEF Answer, AnswerAs, Idle, ChunkSteps
<1>2. ~LeaveUnusable(s)
  <2>1. ASSUME Goto("cleanup")
        PROVE  FALSE
    BY <2>1, Moves DEF IInv, ChunkSteps
  <2>2. ASSUME StartRemoval(op.id, "expire")
        PROVE  FALSE
    BY <2>2, Removes DEF IInv, ChunkSteps
  <2>3. QED
    BY <1>1, <2>1, <2>2 DEF LeaveUnusable
<1>3. Goto("write") /\ Agrees(content, op.offset, op.data)
  BY <1>1, <1>2 DEF DecideChunk
<1>4. QED
  BY <1>3, Moves DEF IInv

\* No other step leads to the steps of a PUT.
LEMMA ChunkEntered ==
  ASSUME IInv, UInv, UInv', Next, op'.step \in ChunkSteps
  PROVE  DecideChunk \/ Chunk \/ Tick
<1>1. op'.kind = "chunk" /\ op'.step \in {"write", "fsync", "touch"}
  BY DEF UInv, KindsOK, ChunkSteps
<1>2. ASSUME NEW result, NEW state, NEW fresh, AnswerAs(result, state, fresh)
      PROVE  FALSE
  BY <1>1, <1>2, Returns DEF Idle
<1>3. ASSUME NEW step, Goto(step)
      PROVE  op'.step = step /\ op.kind = "chunk"
  BY <1>1, <1>3, Moves DEF IInv
<1>4. ASSUME NEW b, NEW why, StartRemoval(b, why)
      PROVE  FALSE
  BY <1>1, <1>4, Removes DEF IInv
<1>5. ~Request
  BY <1>1, Requested
<1>6. ~Sweep /\ ~Remove /\ ~Cleanup
  <2>1. ~Sweep
    <3>1. ~SweepDone
      <4>1. ASSUME op' = [op EXCEPT !.step = "decide", !.todo = {}]
            PROVE  FALSE
        BY <1>1, <4>1 DEF IInv, Operation
      <4>2. QED
        BY <4>1 DEF SweepDone
    <3>2. QED
      BY <1>4, <3>1 DEF Sweep, SweepExpired
  <2>2. ~RemoveManifest /\ ~RemoveOwner
    BY <1>1 DEF RemoveManifest, RemoveOwner
  <2>3. ~RemoveRest
    BY <1>1, <1>2, RemoveRestEffect DEF Answer
  <2>4. ~CleanupPayload /\ ~CleanupDone
    BY <1>1, <1>3 DEF CleanupPayload, CleanupDone
  <2>5. QED
    BY <2>1, <2>2, <2>3, <2>4 DEF Remove, Cleanup
<1>7. ~Create /\ ~Publish /\ ~Cancel
  <2>1. op.step \in CreateSteps \cup PublishSteps => op.kind # "chunk"
    BY DEF UInv, KindsOK
  <2>2. ~Create
    <3>1. ~CreateDone
      BY <1>2 DEF CreateDone, Answer
    <3>2. ASSUME Create, ~CreateDone
          PROVE  FALSE
      <4>1. op.step \in CreateSteps /\ (op' = op \/ \E step : Goto(step))
        BY <3>2 DEF Create, CreateDirectory, CreateOwner, CreateManifest, CreatePayload,
           CreateState, CreateSteps
      <4>2. QED
        BY <1>1, <1>3, <2>1, <4>1
    <3>3. QED
      BY <3>1, <3>2
  <2>3. ~Publish
    <3>1. ~PublishDone
      BY <1>2 DEF PublishDone
    <3>2. ASSUME Publish, ~PublishDone
          PROVE  FALSE
      <4>1. op.step \in PublishSteps /\ (op' = op \/ \E step : Goto(step))
        BY <3>2 DEF Publish, PublishReceipt, PublishState, RenamePayload, PublishFolder,
           PublishSteps
      <4>2. QED
        BY <1>1, <1>3, <2>1, <4>1
    <3>3. QED
      BY <3>1, <3>2
  <2>4. ~Cancel
    BY <1>1, <1>3 DEF Cancel, WriteTombstone, SyncTombstone
  <2>5. QED
    BY <2>2, <2>3, <2>4
<1>8. Decide => DecideChunk
  <2>1. ASSUME DecideBegin \/ DecideStatus \/ DecideCommit \/ DecideCancel
        PROVE  FALSE
    <3>1. op.kind # "chunk" /\ Outcome
      BY <2>1, DecideOutcome DEF DecideBegin, DecideStatus, DecideCommit, DecideCancel, Decide
    <3>2. QED
      BY <1>2, <1>3, <1>4, <3>1 DEF Outcome, Answer
  <2>2. QED
    BY <2>1 DEF Decide
<1>9. ~Refuse /\ ~Failure
  <2>1. ~Refuse /\ ~FailCreate /\ ~FailChunk /\ ~FailPublish /\ ~FailCancel
    BY <1>2, <1>4 DEF Refuse, FailCreate, FailChunk, FailPublish, FailCancel, Answer
  <2>2. ~FailRemove
    <3>1. ASSUME op' = [op EXCEPT !.step = "sweep", !.victim = NoBatch, !.why = "none"]
          PROVE  FALSE
      BY <1>1, <3>1 DEF IInv, Operation
    <3>2. QED
      BY <1>2, <3>1 DEF FailRemove, Answer
  <2>3. QED
    BY <2>1, <2>2 DEF Failure
<1>10. ~Crash /\ ~PowerLoss
  BY <1>1 DEF Crash, PowerLoss, Idle
<1>11. QED
  BY <1>5, <1>6, <1>7, <1>8, <1>9, <1>10 DEF Next, Progress

LEMMA ChunkHeldNext ==
  ASSUME IInv, UInv, UInv', ChunkHeld, [Next]_vars
  PROVE  ChunkHeld'
<1>1. CASE op'.step \notin ChunkSteps
  BY <1>1 DEF ChunkHeld, ChunkSteps
<1>2. CASE UNCHANGED vars
  BY <1>2 DEF ChunkHeld, vars
<1>3. CASE op'.step \in ChunkSteps /\ Next
  <2>1. CASE DecideChunk
    <3>1. /\ op'.step = "write"
          /\ Agrees(staging[op.id].files[op.index].data, op.offset, op.data)
      BY <1>3, <2>1, ChunkCompared
    <3>2. UNCHANGED staging /\ Goto("write")
      <4>1. UNCHANGED staging /\ Outcome
        BY <2>1, DecideOutcome DEF DecideChunk, Decide, disk
      <4>2. ASSUME NEW result, NEW state, Answer(result, state)
            PROVE  FALSE
        BY <3>1, <4>2 DEF Answer, AnswerAs, Idle
      <4>3. ASSUME NEW step, Goto(step)
            PROVE  step = "write"
        BY <3>1, <4>3, Moves DEF IInv
      <4>4. ~StartRemoval(op.id, "expire")
        BY <3>1, Removes DEF IInv
      <4>5. QED
        BY <4>1, <4>2, <4>3, <4>4 DEF Outcome
    <3>3. /\ op'.id = op.id /\ op'.index = op.index
          /\ op'.offset = op.offset /\ op'.data = op.data
      BY <3>2, Moves DEF IInv
    <3>4. QED
      BY <3>1, <3>2, <3>3 DEF ChunkHeld
  <2>2. CASE Chunk
    BY <2>2, ChunkHeldStep
  <2>3. CASE Tick
    BY <2>3 DEF Tick, ChunkHeld
  <2>4. QED
    BY <1>3, <2>1, <2>2, <2>3, ChunkEntered
<1>4. QED
  BY <1>1, <1>2, <1>3

\* An answer to a PUT is the last step of that PUT.
LEMMA TouchAnswers ==
  ASSUME IInv, UInv, [Next]_vars, op.step = "touch", reply'.result = "ok"
  PROVE  TouchState
<1>1. reply = NoReply
  BY DEF UInv, KindsOK
<1>2. reply' # reply
  BY <1>1 DEF NoReply
<1>3. ~FailChunk
  BY Returns DEF FailChunk, Answer
<1>4. ~Crash /\ ~PowerLoss
  BY <1>1, <1>2 DEF Crash, PowerLoss
<1>5. ~FailCreate /\ ~FailPublish /\ ~FailCancel /\ ~FailRemove /\ ~Refuse /\ ~Tick
  BY DEF FailCreate, FailPublish, FailCancel, FailRemove, Refuse, Tick,
     CreateSteps, PublishSteps, CancelSteps, GuardedSteps
<1>6. ~Request /\ ~Sweep /\ ~Remove /\ ~Cleanup /\ ~Decide
  BY Requested DEF Sweep, SweepExpired, SweepDone, Remove, RemoveManifest, RemoveOwner,
     RemoveRest, Cleanup, CleanupPayload, CleanupDone, Decide, DecideBegin, DecideStatus,
     DecideChunk, DecideCommit, DecideCancel
<1>7. ~Create /\ ~Publish /\ ~Cancel
  BY DEF Create, CreateDirectory, CreateOwner, CreateManifest, CreatePayload, CreateState,
     CreateDone, Publish, PublishReceipt, PublishState, RenamePayload, PublishFolder,
     PublishDone, Cancel, WriteTombstone, SyncTombstone
<1>8. ~WriteSuffix /\ ~SyncPayload
  BY DEF WriteSuffix, SyncPayload
<1>9. QED
  BY <1>2, <1>3, <1>4, <1>5, <1>6, <1>7, <1>8 DEF Next, Progress, Failure, Chunk, vars

\* When a PUT answers ok the file holds the chunk at its offset: bytes that
\* contradict what an earlier try left are never acknowledged.
THEOREM AckedChunkStored == Spec => AckMeansStored
<1>1. Init => ChunkHeld
  BY DEF Init, ChunkHeld, Idle
<1>2. IInv /\ UInv /\ UInv' /\ ChunkHeld /\ [Next]_vars => ChunkHeld'
  BY ChunkHeldNext
<1> DEFINE Written == staging'[op.id].files[op.index].data
           Acked == (op.step = "touch" /\ reply'.result = "ok") =>
                      LET content == Written IN
                      /\ op.offset + Len(op.data) <= Len(content)
                      /\ SubSeq(content, op.offset + 1, op.offset + Len(op.data)) = op.data
<1>3. ASSUME IInv, UInv, ChunkHeld, [Next]_vars
      PROVE  [Acked]_vars
  <2>1. SUFFICES ASSUME op.step = "touch", reply'.result = "ok"
                 PROVE  /\ op.offset + Len(op.data) <= Len(Written)
                        /\ SubSeq(Written, op.offset + 1, op.offset + Len(op.data)) = op.data
    OBVIOUS
  <2>2. TouchState
    BY <1>3, <2>1, TouchAnswers
  <2>3. Holds(Written, op.offset, op.data)
    BY <1>3, <2>2, ChunkHeldStep DEF Chunk
  <2>4. op.data \in Seq(Byte) /\ op.offset \in Nat
    BY <1>3 DEF IInv, Operation
  <2>5. op.offset + Len(op.data) <= Len(Written)
        /\ \A j \in 1..Len(op.data) : op.data[j] = Written[op.offset + j]
    BY <2>3 DEF Holds
  <2> HIDE DEF Written
  <2>6. QED
    BY <2>4, <2>5, SliceIs
<1>4. IInv /\ UInv /\ ChunkHeld /\ [Next]_vars => [Acked]_vars
  BY <1>3
<1>5. QED
  BY <1>1, <1>2, <1>4, Invariance, StagesInUse, PTL DEF Spec, AckMeansStored
=============================================================================
