-------------------------- MODULE FileBatchesProofs --------------------------
(* Theorems about FileBatches, for every value of its constants. *)
EXTENDS FileBatches, SequenceTheorems, TLAPS

-----------------------------------------------------------------------------
(* The strengthening: what holds of every file and directory, and of the   *)
(* stage the operation slot works on at each step.                         *)

\* What a client was told is synced is synced, and what is synced is there.
FileOK(f) == f \in File /\ f.acked <= f.synced /\ f.synced <= Len(f.data)
FilesOK(files) == files \in Seq(File) /\ \A i \in 1..Len(files) : FileOK(files[i])
StageOK(s) == s \in Stage /\ s.renamed <= Len(s.files) /\ FilesOK(s.files)
FolderOK(f) == f \in Folder /\ FilesOK(f.files)

StagingOK == staging \in [Batches -> Stage] /\ \A b \in Batches : StageOK(staging[b])
PublishedOK == published \in [Batches -> Folder] /\ \A b \in Batches : FolderOK(published[b])
DiskOK == StagingOK /\ PublishedOK /\ age \in [Batches -> 0..TTL]

\* A busy slot names a batch, a removal its victim, a PUT one of the payload
\* files and leaves no gap; before it is acknowledged its file is synced;
\* cancellation and cleanup work on a stage with no public name in it,
\* publication on one with all its payload files.
SlotOK ==
  /\ op.step # "idle" => op.id \in Batches
  /\ op.kind = "chunk" => op.index # 0
  /\ op.step = "remove" => op.victim \in Batches
  /\ op.step \in ChunkSteps => op.index \in 1..Len(staging[op.id].files)
  /\ op.step = "write" => op.offset <= Len(staging[op.id].files[op.index].data)
  /\ op.step = "touch" => staging[op.id].files[op.index].synced
                            = Len(staging[op.id].files[op.index].data)
  /\ op.step \in CancelSteps \cup {"cleanup"} => staging[op.id].renamed = 0
  /\ op.step \in PublishSteps => Len(staging[op.id].files) = Len(staging[op.id].manifest)

IInv == DiskOK /\ op \in Operation /\ reply \in Reply /\ SlotOK

-----------------------------------------------------------------------------
(* Values of the right type.                                               *)

\* The constant records of the model are well formed.
LEMMA ConstantTypes ==
  /\ StageOK(NoStage) /\ FolderOK(NoFolder) /\ FileOK(NewFile)
  /\ Idle \in Operation /\ NoReply \in Reply
<1>1. <<>> \in Seq(File) /\ <<>> \in Seq(Byte) /\ Len(<<>>) = 0
  BY EmptySeq
<1>2. FilesOK(<<>>)
  BY <1>1 DEF FilesOK
<1>3. QED
  BY <1>1, <1>2 DEF NoStage, Stage, StageOK, NoFolder, Folder, FolderOK, NewFile, File,
       FileOK, Idle, Operation, NoReply, Reply, NoManifest, Kinds, Steps, Results

\* A method's return leaves an idle slot and a well-formed reply.
LEMMA AnswerType ==
  ASSUME op \in Operation, NEW result \in Results,
         NEW state \in {"none", "receiving", "stored", "cancelled"},
         NEW fresh \in BOOLEAN, AnswerAs(result, state, fresh)
  PROVE  op' = Idle /\ reply' \in Reply
BY DEF AnswerAs, Reply, Operation

\* Moving on keeps everything but the step.
LEMMA GotoType ==
  ASSUME op \in Operation, reply \in Reply, NEW step \in Steps, Goto(step)
  PROVE  /\ op' \in Operation /\ reply' \in Reply
         /\ op'.step = step /\ op'.id = op.id /\ op'.index = op.index
         /\ op'.kind = op.kind /\ op'.offset = op.offset
BY DEF Goto, Operation

\* Starting a removal.
LEMMA RemovalType ==
  ASSUME op \in Operation, reply \in Reply, NEW b \in Batches,
         NEW why \in {"sweep", "expire", "rollback"}, StartRemoval(b, why)
  PROVE  /\ op' \in Operation /\ reply' \in Reply
         /\ op'.step = "remove" /\ op'.id = op.id /\ op'.victim = b
         /\ op'.index = op.index /\ op'.kind = op.kind
BY DEF StartRemoval, Operation, Steps

\* Whatever returns leaves the slot idle and the invariant in place.
LEMMA Returned ==
  ASSUME DiskOK', op' = Idle, reply' \in Reply
  PROVE  IInv'
<1>1. Idle \in Operation
  BY ConstantTypes
<1>2. SlotOK'
  BY DEF SlotOK, Idle, ChunkSteps, CancelSteps, PublishSteps
<1>3. QED
  BY <1>1, <1>2 DEF IInv

\* Nothing on disk changes.
LEMMA DiskSame ==
  ASSUME DiskOK, UNCHANGED disk
  PROVE  DiskOK'
BY DEF DiskOK, disk, StagingOK, PublishedOK

\* One stage is replaced by a well-formed one.
LEMMA StageUpdate ==
  ASSUME StagingOK, NEW b \in Batches, NEW s, StageOK(s),
         staging' = [staging EXCEPT ![b] = s]
  PROVE  StagingOK' /\ staging'[b] = s
BY DEF StagingOK, StageOK

\* A stage with one payload file replaced by a well-formed one.
LEMMA FileUpdate ==
  ASSUME NEW s, StageOK(s), NEW i \in 1..Len(s.files), NEW f, FileOK(f)
  PROVE  LET t == [s EXCEPT !.files = [s.files EXCEPT ![i] = f]] IN
         /\ StageOK(t) /\ Len(t.files) = Len(s.files)
         /\ t.renamed = s.renamed /\ t.manifest = s.manifest
         /\ \A j \in 1..Len(s.files) : t.files[j] = IF j = i THEN f ELSE s.files[j]
<1> DEFINE g == [s.files EXCEPT ![i] = f]
           t == [s EXCEPT !.files = g]
<1>1. s.files \in Seq(File) /\ f \in File
  BY DEF StageOK, FilesOK, FileOK
<1>2. /\ g \in Seq(File) /\ Len(g) = Len(s.files)
      /\ \A j \in 1..Len(s.files) : g[j] = IF j = i THEN f ELSE s.files[j]
  BY <1>1, ExceptSeq
<1>3. FilesOK(g)
  BY <1>2 DEF FilesOK, StageOK
<1>4. s \in Stage
  BY DEF StageOK
<1>5. t \in Stage /\ t.files = g /\ t.renamed = s.renamed /\ t.manifest = s.manifest
  BY <1>2, <1>4 DEF Stage
<1>6. QED
  BY <1>2, <1>3, <1>5 DEF StageOK

\* The clock of one batch is set back.
LEMMA AgeReset ==
  ASSUME DiskOK, NEW b \in Batches
  PROVE  [age EXCEPT ![b] = 0] \in [Batches -> 0..TTL]
BY LimitAssumption DEF DiskOK

-----------------------------------------------------------------------------
(* One lemma per group of actions: it preserves the invariant.             *)

LEMMA RequestStep ==
  ASSUME IInv, Request
  PROVE  IInv'
<1>1. PICK b \in Batches :
        \/ \E m \in Manifests : BeginRequest(b, m)
        \/ StatusRequest(b)
        \/ \E i \in Indices, off \in Offsets, data \in Chunks : ChunkRequest(b, i, off, data)
        \/ CommitRequest(b)
        \/ CancelRequest(b)
  BY DEF Request
<1>2. <<>> \in Seq(Byte)
  BY EmptySeq
<1>3. PICK kind \in Kinds, m \in Manifests \cup {NoManifest}, i \in Nat, off \in Nat,
           data \in Seq(Byte), first \in {"sweep", "decide"} :
        /\ Enter(kind, b, m, i, off, data, first)
        /\ kind = "chunk" => i # 0
  BY <1>1, <1>2, PayloadAssumption
     DEF BeginRequest, StatusRequest, ChunkRequest, CommitRequest, CancelRequest, Kinds
<1>4. /\ op' \in Operation /\ op'.id = b /\ op'.step = first /\ op'.index = i
      /\ op'.kind = kind
  BY <1>3, ConstantTypes DEF Enter, Operation, Idle, Steps
<1>5. SlotOK'
  BY <1>3, <1>4 DEF SlotOK, ChunkSteps, CancelSteps, PublishSteps
<1>6. DiskOK' /\ reply' \in Reply
  BY <1>3, DiskSame, ConstantTypes DEF Enter, IInv
<1>7. QED
  BY <1>4, <1>5, <1>6 DEF IInv

LEMMA SweepStep ==
  ASSUME IInv, Sweep
  PROVE  IInv'
<1>1. DiskOK'
  BY DiskSame DEF Sweep, SweepExpired, SweepDone, disk, IInv
<1>2. ASSUME NEW x \in Batches, SweepExpired(x)
      PROVE  IInv'
  <2>1. /\ op' \in Operation /\ reply' \in Reply /\ op'.step = "remove"
        /\ op'.id = op.id /\ op'.victim = x /\ op'.index = op.index /\ op'.kind = op.kind
    BY <1>2, RemovalType DEF SweepExpired, IInv
  <2>2. op.step = "sweep"
    BY <1>2 DEF SweepExpired
  <2>3. SlotOK'
    BY <2>1, <2>2 DEF IInv, SlotOK, ChunkSteps, CancelSteps, PublishSteps
  <2>4. QED
    BY <1>1, <2>1, <2>3 DEF IInv
<1>3. CASE SweepDone
  <2>1. /\ op' \in Operation /\ reply' \in Reply /\ op'.step = "decide"
        /\ op'.id = op.id /\ op'.index = op.index /\ op'.kind = op.kind
        /\ op.step = "sweep"
    BY <1>3 DEF SweepDone, IInv, Operation, Steps
  <2>2. SlotOK'
    BY <2>1 DEF IInv, SlotOK, ChunkSteps, CancelSteps, PublishSteps
  <2>3. QED
    BY <1>1, <2>1, <2>2 DEF IInv
<1>4. QED
  BY <1>2, <1>3 DEF Sweep

\* What the steps of a removal leave of the victim is well formed.
LEMMA RemoveStep ==
  ASSUME IInv, Remove
  PROVE  IInv'
<1>1. op.step = "remove" /\ op.victim \in Batches
  BY DEF Remove, RemoveManifest, RemoveOwner, RemoveRest, IInv, SlotOK
<1> DEFINE v == op.victim
           s == staging[v]
<1>2. StageOK(s)
  BY <1>1 DEF IInv, DiskOK, StagingOK
<1>3. s \in Stage
  BY <1>2 DEF StageOK
<1>4. CASE RemoveManifest
  <2> DEFINE t == [s EXCEPT !.manifest = NoManifest, !.files = <<>>, !.renamed = 0]
  <2>1. FilesOK(<<>>) /\ <<>> \in Seq(File) /\ Len(<<>>) = 0
    BY EmptySeq DEF FilesOK
  <2>2. t \in Stage /\ t.files = <<>> /\ t.renamed = 0
    BY <1>3, <2>1 DEF Stage
  <2>3. StageOK(t)
    BY <2>1, <2>2 DEF StageOK
  <2>4. staging' = [staging EXCEPT ![v] = t]
    BY <1>4 DEF RemoveManifest
  <2>5. StagingOK'
    BY <1>1, <2>3, <2>4, StageUpdate DEF IInv, DiskOK
  <2>6. UNCHANGED <<published, age, op, reply>>
    BY <1>4 DEF RemoveManifest
  <2>7. QED
    BY <1>1, <2>5, <2>6 DEF IInv, DiskOK, PublishedOK, SlotOK, ChunkSteps, CancelSteps, PublishSteps
<1>5. CASE RemoveOwner
  <2> DEFINE t == [s EXCEPT !.owner = FALSE]
  <2>1. t \in Stage /\ t.files = s.files /\ t.renamed = s.renamed
    BY <1>3 DEF Stage
  <2>2. StageOK(t)
    BY <1>2, <2>1 DEF StageOK
  <2>3. staging' = [staging EXCEPT ![v] = t]
    BY <1>5 DEF RemoveOwner
  <2>4. StagingOK'
    BY <1>1, <2>2, <2>3, StageUpdate DEF IInv, DiskOK
  <2>5. UNCHANGED <<published, age, op, reply>>
    BY <1>5 DEF RemoveOwner
  <2>6. QED
    BY <1>1, <2>4, <2>5 DEF IInv, DiskOK, PublishedOK, SlotOK, ChunkSteps, CancelSteps, PublishSteps
<1>6. CASE RemoveRest
  <2>1. staging' = [staging EXCEPT ![v] = NoStage]
    BY <1>6 DEF RemoveRest
  <2>2. StagingOK'
    BY <1>1, <2>1, StageUpdate, ConstantTypes DEF IInv, DiskOK
  <2>3. UNCHANGED published /\ age' = [age EXCEPT ![v] = 0]
    BY <1>6 DEF RemoveRest
  <2>4. DiskOK'
    BY <1>1, <2>2, <2>3, AgeReset DEF IInv, DiskOK, PublishedOK
  <2>5. CASE op.why = "sweep"
    <3>1. /\ op' \in Operation /\ reply' \in Reply /\ op'.step = "sweep"
          /\ op'.id = op.id /\ op'.index = op.index /\ op'.kind = op.kind
      BY <1>6, <2>5 DEF RemoveRest, IInv, Operation, Steps
    <3>2. SlotOK'
      BY <1>1, <3>1 DEF IInv, SlotOK, ChunkSteps, CancelSteps, PublishSteps
    <3>3. QED
      BY <2>4, <3>1, <3>2 DEF IInv
  <2>6. CASE op.why # "sweep"
    <3>1. PICK r \in {"expired", "error"} : Answer(r, "none")
      BY <1>6, <2>6 DEF RemoveRest
    <3>2. op' = Idle /\ reply' \in Reply
      BY <3>1, AnswerType DEF Answer, IInv, Results
    <3>3. QED
      BY <2>4, <3>2, Returned
  <2>7. QED
    BY <2>5, <2>6
<1>7. QED
  BY <1>4, <1>5, <1>6 DEF Remove

LEMMA CleanupStep ==
  ASSUME IInv, Cleanup
  PROVE  IInv'
<1>1. op.step = "cleanup" /\ op.id \in Batches
  BY DEF Cleanup, CleanupPayload, CleanupDone, IInv, SlotOK
<1> DEFINE s == staging[op.id]
<1>2. StageOK(s) /\ s \in Stage /\ s.renamed = 0
  BY <1>1 DEF IInv, DiskOK, StagingOK, StageOK, SlotOK
<1>3. CASE CleanupPayload
  <2> DEFINE rest == IF s.tmp THEN s.files ELSE Tail(s.files)
             t == [s EXCEPT !.tmp = FALSE, !.files = rest]
  <2>1. FilesOK(rest)
    <3>1. CASE s.tmp
      BY <1>2, <3>1 DEF StageOK
    <3>2. CASE ~s.tmp
      <4>1. s.files # <<>> /\ s.files \in Seq(File)
        BY <1>2, <1>3, <3>2 DEF CleanupPayload, StageOK, FilesOK
      <4>2. /\ Tail(s.files) \in Seq(File) /\ Len(Tail(s.files)) = Len(s.files) - 1
            /\ \A i \in 1..Len(Tail(s.files)) : Tail(s.files)[i] = s.files[i + 1]
        BY <4>1, HeadTailProperties
      <4>3. Len(s.files) \in Nat
        BY <4>1, LenProperties
      <4>4. ASSUME NEW i \in 1..Len(Tail(s.files))
            PROVE  FileOK(Tail(s.files)[i])
        <5>1. i + 1 \in 1..Len(s.files)
          BY <4>2, <4>3
        <5>2. QED
          BY <1>2, <4>2, <5>1 DEF StageOK, FilesOK
      <4>5. QED
        BY <3>2, <4>2, <4>4 DEF FilesOK
    <3>3. QED
      BY <3>1, <3>2
  <2>2. t \in Stage /\ t.files = rest /\ t.renamed = 0
    BY <1>2, <2>1 DEF Stage, FilesOK
  <2>3. Len(rest) \in Nat
    BY <2>1, LenProperties DEF FilesOK
  <2>4. StageOK(t)
    BY <2>1, <2>2, <2>3 DEF StageOK
  <2>5. staging' = [staging EXCEPT ![op.id] = t]
    BY <1>3 DEF CleanupPayload
  <2> HIDE DEF t
  <2>6. StagingOK' /\ staging'[op.id] = t
    BY <1>1, <2>4, <2>5, StageUpdate DEF IInv, DiskOK
  <2>7. UNCHANGED <<published, age, op, reply>>
    BY <1>3 DEF CleanupPayload
  <2>8. SlotOK'
    BY <1>1, <2>2, <2>6, <2>7 DEF IInv, SlotOK, ChunkSteps, CancelSteps, PublishSteps
  <2>9. QED
    BY <2>6, <2>7, <2>8 DEF IInv, DiskOK, PublishedOK
<1>4. CASE CleanupDone
  <2>1. /\ op' \in Operation /\ reply' \in Reply /\ op'.step = "decide"
        /\ op'.id = op.id /\ op'.index = op.index /\ op'.kind = op.kind
    BY <1>4, GotoType DEF CleanupDone, IInv, Steps
  <2>2. DiskOK'
    BY <1>4, DiskSame DEF CleanupDone, IInv
  <2>3. SlotOK'
    BY <1>1, <2>1 DEF IInv, SlotOK, ChunkSteps, CancelSteps, PublishSteps
  <2>4. QED
    BY <2>1, <2>2, <2>3 DEF IInv
<1>5. QED
  BY <1>3, <1>4 DEF Cleanup

\* Any return, with a well-formed disk behind it.
LEMMA AnswerStep ==
  ASSUME IInv, DiskOK', NEW result \in Results,
         NEW state \in {"none", "receiving", "stored", "cancelled"},
         NEW fresh \in BOOLEAN, AnswerAs(result, state, fresh)
  PROVE  IInv'
<1>1. op' = Idle /\ reply' \in Reply
  BY AnswerType DEF IInv
<1>2. QED
  BY <1>1, Returned

\* Any move to another step, when the stage is what that step expects.
LEMMA GotoStep ==
  ASSUME IInv, DiskOK', op.step # "idle", NEW step \in Steps \ {"remove"}, Goto(step),
         step \in ChunkSteps => op.index \in 1..Len(staging'[op.id].files),
         step = "write" => op.offset <= Len(staging'[op.id].files[op.index].data),
         step = "touch" => staging'[op.id].files[op.index].synced
                             = Len(staging'[op.id].files[op.index].data),
         step \in CancelSteps \cup {"cleanup"} => staging'[op.id].renamed = 0,
         step \in PublishSteps =>
           Len(staging'[op.id].files) = Len(staging'[op.id].manifest)
  PROVE  IInv'
<1>1. /\ op' \in Operation /\ reply' \in Reply /\ op'.step = step
      /\ op'.id = op.id /\ op'.index = op.index /\ op'.kind = op.kind
      /\ op'.offset = op.offset
  BY GotoType DEF IInv
<1>2. SlotOK'
  BY <1>1 DEF IInv, SlotOK
<1>3. QED
  BY <1>1, <1>2 DEF IInv

\* The start of a removal.
LEMMA RemovalStep ==
  ASSUME IInv, DiskOK', op.step # "idle", NEW b \in Batches,
         NEW why \in {"sweep", "expire", "rollback"}, StartRemoval(b, why)
  PROVE  IInv'
<1>1. /\ op' \in Operation /\ reply' \in Reply
      /\ op'.step = "remove" /\ op'.id = op.id /\ op'.victim = b
      /\ op'.index = op.index /\ op'.kind = op.kind
  BY RemovalType DEF IInv
<1>2. SlotOK'
  BY <1>1 DEF IInv, SlotOK, ChunkSteps, CancelSteps, PublishSteps
<1>3. QED
  BY <1>1, <1>2 DEF IInv

\* What a stage the reader accepts looks like.
LEMMA ReadableStage ==
  ASSUME NEW s, Readable(s)
  PROVE  /\ s.renamed = 0
         /\ s.state = "receiving" => Len(s.files) = Len(s.manifest)
BY DEF Readable

\* A request leaves an unusable stage: it answers, cleans or removes.
LEMMA UnusableStep ==
  ASSUME IInv, op.step = "decide", UNCHANGED disk, LeaveUnusable(staging[op.id])
  PROVE  IInv'
<1> DEFINE s == staging[op.id]
<1>1. DiskOK' /\ op.id \in Batches
  BY DiskSame DEF IInv, SlotOK
<1>2. CASE Answer("corrupt", "none")
  BY <1>1, <1>2, AnswerStep DEF Answer, Results
<1>3. CASE Readable(s) /\ Goto("cleanup")
  <2>1. staging'[op.id].renamed = 0
    BY <1>3, ReadableStage DEF disk
  <2>2. QED
    BY <1>1, <1>3, <2>1, GotoStep DEF Steps, ChunkSteps, CancelSteps, PublishSteps
<1>4. CASE StartRemoval(op.id, "expire")
  BY <1>1, <1>4, RemovalStep
<1>5. QED
  BY <1>2, <1>3, <1>4 DEF LeaveUnusable

LEMMA DecideStep ==
  ASSUME IInv, Decide
  PROVE  IInv'
<1> DEFINE s == staging[op.id]
           States == {"none", "receiving", "stored", "cancelled"}
<1>1. /\ op.step = "decide" /\ UNCHANGED disk /\ DiskOK' /\ op.id \in Batches
      /\ staging'[op.id] = s
  BY DiskSame DEF Decide, DecideBegin, DecideStatus, DecideChunk, DecideCommit,
     DecideCancel, IInv, SlotOK, disk
<1>2. ASSUME NEW r \in Results, NEW st \in States, Answer(r, st)
      PROVE  IInv'
  BY <1>1, <1>2, AnswerStep DEF Answer
<1>3. ASSUME LeaveUnusable(s)
      PROVE  IInv'
  BY <1>1, <1>3, UnusableStep
<1>4. s \in Stage /\ s.state \in States
  BY <1>1 DEF IInv, DiskOK, StagingOK, Stage
<1>5. CASE DecideBegin
  <2>1. \/ \E r \in Results, st \in States : Answer(r, st)
        \/ Readable(s) /\ Goto("cleanup")
        \/ Goto("mkdir")
    BY <1>4, <1>5 DEF DecideBegin, Results
  <2>2. CASE Readable(s) /\ Goto("cleanup")
    <3>1. staging'[op.id].renamed = 0
      BY <1>1, <2>2, ReadableStage
    <3>2. QED
      BY <1>1, <2>2, <3>1, GotoStep DEF Steps, ChunkSteps, CancelSteps, PublishSteps
  <2>3. CASE Goto("mkdir")
    BY <1>1, <2>3, GotoStep DEF Steps, CreateSteps, ChunkSteps, CancelSteps, PublishSteps
  <2>4. QED
    BY <1>2, <2>1, <2>2, <2>3
<1>6. CASE DecideStatus
  <2>1. \/ \E r \in Results, st \in States : Answer(r, st)
        \/ LeaveUnusable(s)
    BY <1>4, <1>6 DEF DecideStatus, Results
  <2>2. QED
    BY <1>2, <1>3, <2>1
<1>7. CASE DecideChunk
  <2>1. \/ \E r \in Results, st \in States : Answer(r, st)
        \/ LeaveUnusable(s)
        \/ /\ Readable(s) /\ s.state # "cancelled" /\ ~(op.index > Len(s.manifest))
           /\ ~(op.offset > Len(s.files[op.index].data)) /\ Goto("write")
    BY <1>4, <1>7 DEF DecideChunk, Results, StageUnusable
  <2>2. CASE /\ Readable(s) /\ s.state # "cancelled" /\ ~(op.index > Len(s.manifest))
             /\ ~(op.offset > Len(s.files[op.index].data)) /\ Goto("write")
    <3>1. Len(s.files) = Len(s.manifest) /\ Len(s.files) \in Nat
      BY <1>4, <2>2, LenProperties DEF Readable, Stage
    <3>2. op.index \in Nat \ {0}
      BY <1>7 DEF DecideChunk, IInv, SlotOK, Operation
    <3>3. op.index \in 1..Len(staging'[op.id].files)
      BY <1>1, <2>2, <3>1, <3>2
    <3>4. s.files[op.index].data \in Seq(Byte) /\ op.offset \in Nat
      <4>1. FilesOK(s.files) /\ op.index \in 1..Len(s.files)
        BY <1>1, <3>3 DEF IInv, DiskOK, StagingOK, StageOK
      <4>2. FileOK(s.files[op.index]) /\ op \in Operation
        BY <4>1 DEF FilesOK, IInv
      <4>3. QED
        BY <4>2 DEF FileOK, File, Operation
    <3>5. op.offset <= Len(staging'[op.id].files[op.index].data)
      BY <1>1, <2>2, <3>4, LenProperties, SMTT(20)
    <3>6. QED
      BY <1>1, <2>2, <3>3, <3>5, GotoStep DEF Steps, ChunkSteps, CancelSteps, PublishSteps
  <2>3. QED
    BY <1>2, <1>3, <2>1, <2>2
<1>8. CASE DecideCommit
  <2>1. \/ \E r \in Results, st \in States : Answer(r, st)
        \/ LeaveUnusable(s)
        \/ Readable(s) /\ s.state # "cancelled" /\ Verified(s) /\ Goto("receipt")
    BY <1>4, <1>8 DEF DecideCommit, Refusal, Results, StageUnusable
  <2>2. CASE Readable(s) /\ s.state # "cancelled" /\ Goto("receipt")
    <3>1. Len(staging'[op.id].files) = Len(staging'[op.id].manifest)
      BY <1>1, <1>4, <2>2 DEF Readable, Stage
    <3>2. QED
      BY <1>1, <2>2, <3>1, GotoStep DEF Steps, ChunkSteps, CancelSteps, PublishSteps
  <2>3. QED
    BY <1>2, <1>3, <2>1, <2>2
<1>9. CASE DecideCancel
  <2>1. \/ \E r \in Results, st \in States : Answer(r, st)
        \/ LeaveUnusable(s)
        \/ Readable(s) /\ Goto("tombstone")
    BY <1>4, <1>9 DEF DecideCancel, Results, StageUnusable
  <2>2. CASE Readable(s) /\ Goto("tombstone")
    <3>1. staging'[op.id].renamed = 0
      BY <1>1, <2>2, ReadableStage
    <3>2. QED
      BY <1>1, <2>2, <3>1, GotoStep DEF Steps, ChunkSteps, CancelSteps, PublishSteps
  <2>3. QED
    BY <1>2, <1>3, <2>1, <2>2
<1>10. QED
  BY <1>5, <1>6, <1>7, <1>8, <1>9 DEF Decide

\* Creating a stage adds well-formed parts to it, one at a time.
LEMMA CreateStep ==
  ASSUME IInv, Create
  PROVE  IInv'
<1>1. op.step \in CreateSteps /\ op.id \in Batches
  BY DEF Create, CreateDirectory, CreateOwner, CreateManifest, CreatePayload,
     CreateState, CreateDone, CreateSteps, IInv, SlotOK
<1> DEFINE s == staging[op.id]
<1>2. StageOK(s) /\ s \in Stage /\ op.manifest \in Manifests \cup {NoManifest}
  BY <1>1 DEF IInv, DiskOK, StagingOK, StageOK, Operation
<1>3. ASSUME NEW t, StageOK(t), staging' = [staging EXCEPT ![op.id] = t],
             UNCHANGED published, age' = age \/ age' = [age EXCEPT ![op.id] = 0]
      PROVE  DiskOK'
  <2>1. StagingOK'
    BY <1>1, <1>3, StageUpdate DEF IInv, DiskOK
  <2>2. age' \in [Batches -> 0..TTL]
    BY <1>1, <1>3, AgeReset DEF IInv, DiskOK
  <2>3. QED
    BY <1>3, <2>1, <2>2 DEF IInv, DiskOK, PublishedOK
<1>4. ASSUME NEW step \in CreateSteps, Goto(step), DiskOK'
      PROVE  IInv'
  BY <1>1, <1>4, GotoStep DEF Steps, CreateSteps, ChunkSteps, CancelSteps, PublishSteps
<1>5. CASE CreateDirectory
  <2> DEFINE t == [NoStage EXCEPT !.dir = TRUE]
  <2>1. NoStage \in Stage /\ NoStage.files = <<>> /\ NoStage.renamed = 0 /\ FilesOK(<<>>)
    BY ConstantTypes, EmptySeq DEF StageOK, FilesOK, NoStage
  <2>2. t \in Stage /\ t.files = <<>> /\ t.renamed = 0
    BY <2>1 DEF Stage
  <2>3. StageOK(t)
    BY <2>1, <2>2, EmptySeq DEF StageOK
  <2>4. staging' = [staging EXCEPT ![op.id] = t]
    BY <1>5 DEF CreateDirectory
  <2> HIDE DEF t
  <2>5. DiskOK'
    BY <1>3, <1>5, <2>3, <2>4 DEF CreateDirectory
  <2>6. QED
    BY <1>4, <1>5, <2>5 DEF CreateDirectory, CreateSteps
<1>6. CASE CreateOwner
  <2> DEFINE t == [s EXCEPT !.owner = TRUE]
  <2>1. t \in Stage /\ t.files = s.files /\ t.renamed = s.renamed
    BY <1>2 DEF Stage
  <2>2. StageOK(t) /\ staging' = [staging EXCEPT ![op.id] = t]
    BY <1>2, <1>6, <2>1 DEF StageOK, CreateOwner
  <2> HIDE DEF t
  <2>3. DiskOK'
    BY <1>3, <1>6, <2>2 DEF CreateOwner
  <2>4. QED
    BY <1>4, <1>6, <2>3 DEF CreateOwner, CreateSteps
<1>7. CASE CreateManifest
  <2> DEFINE t == [s EXCEPT !.manifest = op.manifest]
  <2>1. t \in Stage /\ t.files = s.files /\ t.renamed = s.renamed
    BY <1>2 DEF Stage
  <2>2. StageOK(t) /\ staging' = [staging EXCEPT ![op.id] = t]
    BY <1>2, <1>7, <2>1 DEF StageOK, CreateManifest
  <2> HIDE DEF t
  <2>3. DiskOK'
    BY <1>3, <1>7, <2>2 DEF CreateManifest
  <2>4. QED
    BY <1>4, <1>7, <2>3 DEF CreateManifest, CreateSteps
<1>8. CASE CreatePayload
  <2>1. CASE Len(s.files) < Len(op.manifest)
    <3> DEFINE g == Append(s.files, NewFile)
               t == [s EXCEPT !.files = g]
    <3>1. s.files \in Seq(File) /\ Len(s.files) \in Nat /\ NewFile \in File
      BY <1>2, ConstantTypes, LenProperties DEF StageOK, FilesOK, FileOK
    <3>2. /\ g \in Seq(File) /\ Len(g) = Len(s.files) + 1
          /\ \A i \in 1..Len(s.files) : g[i] = s.files[i]
          /\ g[Len(s.files) + 1] = NewFile
      BY <3>1, AppendProperties
    <3>3. FilesOK(g)
      <4>1. ASSUME NEW i \in 1..Len(g) PROVE FileOK(g[i])
        <5>1. i \in 1..Len(s.files) \/ i = Len(s.files) + 1
          BY <3>1, <3>2
        <5>2. QED
          BY <1>2, <3>2, <5>1, ConstantTypes DEF StageOK, FilesOK
      <4>2. QED
        BY <3>2, <4>1 DEF FilesOK
    <3>4. t \in Stage /\ t.files = g /\ t.renamed = s.renamed
      BY <1>2, <3>2 DEF Stage
    <3>5. s.renamed \in Nat /\ s.renamed <= Len(s.files)
      BY <1>2 DEF StageOK, Stage
    <3>6. StageOK(t)
      BY <3>1, <3>2, <3>3, <3>4, <3>5 DEF StageOK
    <3>7. staging' = [staging EXCEPT ![op.id] = t] /\ UNCHANGED <<published, age, op, reply>>
      BY <1>8, <2>1 DEF CreatePayload
    <3> HIDE DEF t
    <3>8. DiskOK'
      BY <1>3, <3>6, <3>7
    <3>9. SlotOK'
      BY <1>1, <3>7 DEF IInv, SlotOK, CreateSteps, ChunkSteps, CancelSteps, PublishSteps
    <3>10. QED
      BY <3>7, <3>8, <3>9 DEF IInv
  <2>2. CASE ~(Len(s.files) < Len(op.manifest))
    <3>1. Goto("state") /\ UNCHANGED disk
      BY <1>8, <2>2 DEF CreatePayload, disk
    <3>2. DiskOK'
      BY <3>1, DiskSame DEF IInv
    <3>3. QED
      BY <1>4, <3>1, <3>2 DEF CreateSteps
  <2>3. QED
    BY <2>1, <2>2
<1>9. CASE CreateState
  <2> DEFINE t == [s EXCEPT !.state = "receiving"]
  <2>1. t \in Stage /\ t.files = s.files /\ t.renamed = s.renamed
    BY <1>2 DEF Stage
  <2>2. StageOK(t) /\ staging' = [staging EXCEPT ![op.id] = t]
    BY <1>2, <1>9, <2>1 DEF StageOK, CreateState
  <2> HIDE DEF t
  <2>3. DiskOK'
    BY <1>3, <1>9, <2>2 DEF CreateState
  <2>4. QED
    BY <1>4, <1>9, <2>3 DEF CreateState, CreateSteps
<1>10. CASE CreateDone
  BY <1>10, DiskSame, AnswerStep DEF CreateDone, Answer, IInv, Results
<1>11. QED
  BY <1>5, <1>6, <1>7, <1>8, <1>9, <1>10 DEF Create

\* The staged file a PUT works on.
LEMMA ChunkFile ==
  ASSUME IInv, op.step \in ChunkSteps
  PROVE  /\ op.id \in Batches /\ StageOK(staging[op.id])
         /\ op.index \in 1..Len(staging[op.id].files)
         /\ FileOK(staging[op.id].files[op.index])
<1>1. op.id \in Batches /\ op.index \in 1..Len(staging[op.id].files)
  BY DEF IInv, SlotOK, ChunkSteps
<1>2. StageOK(staging[op.id])
  BY <1>1 DEF IInv, DiskOK, StagingOK
<1>3. QED
  BY <1>1, <1>2 DEF StageOK, FilesOK

\* A chunk that leaves no gap overlaps the file by at most its own length.
LEMMA OverlapRange ==
  ASSUME NEW current \in Nat, NEW off \in Nat, off <= current,
         NEW data \in Seq(Byte)
  PROVE  Overlap(current, off, data) \in 0..Len(data)
<1>1. Len(data) \in Nat
  BY LenProperties
<1>2. current - off \in Nat
  OBVIOUS
<1>3. CASE Len(data) <= current - off
  BY <1>1, <1>3 DEF Overlap
<1>4. CASE ~(Len(data) <= current - off)
  BY <1>1, <1>2, <1>4 DEF Overlap
<1>5. QED
  BY <1>3, <1>4

\* Writing any part of a chunk's suffix keeps every staged file well formed:
\* the synced part of the file is a prefix of what it grows to.
LEMMA Growth ==
  ASSUME IInv, op.step = "write", NEW n \in 0..Len(Suffix), staging' = Grown(n)
  PROVE  /\ StagingOK'
         /\ Len(staging'[op.id].files) = Len(staging[op.id].files)
<1> DEFINE s == staging[op.id]
           i == op.index
           f == s.files[i]
           more == SubSeq(Suffix, 1, n)
           g == [f EXCEPT !.data = f.data \o more]
           t == [s EXCEPT !.files = [s.files EXCEPT ![i] = g]]
<1>1. op.id \in Batches /\ StageOK(s) /\ i \in 1..Len(s.files) /\ FileOK(f)
  BY ChunkFile DEF ChunkSteps
<1>2. f \in File /\ f.data \in Seq(Byte) /\ Len(f.data) \in Nat
  BY <1>1, LenProperties DEF FileOK, File
<1>3. op.data \in Seq(Byte) /\ Len(op.data) \in Nat /\ op.offset \in Nat
      /\ op.offset <= Len(f.data)
  BY LenProperties DEF IInv, Operation, SlotOK
<1>4. Overlap(Len(f.data), op.offset, op.data) \in 0..Len(op.data)
  BY <1>2, <1>3, OverlapRange
<1>5. Suffix \in Seq(Byte) /\ Len(Suffix) \in Nat
  <2> DEFINE k == Overlap(Len(f.data), op.offset, op.data)
  <2>1. SubSeq(op.data, k + 1, Len(op.data)) \in Seq(Byte)
    BY <1>3, <1>4, SubSeqProperties
  <2>2. QED
    BY <2>1, LenProperties DEF Suffix
<1>6. more \in Seq(Byte) /\ Len(more) \in Nat
  BY <1>5, SubSeqProperties, LenProperties
<1>7. f.data \o more \in Seq(Byte) /\ Len(f.data \o more) = Len(f.data) + Len(more)
  BY <1>2, <1>6, ConcatProperties
<1>8. FileOK(g)
  <2>1. /\ g \in File /\ g.data = f.data \o more
        /\ g.synced = f.synced /\ g.acked = f.acked
    BY <1>2, <1>7 DEF File
  <2>2. f.acked <= f.synced /\ f.synced <= Len(f.data) /\ f.synced \in Nat
    BY <1>1 DEF FileOK, File
  <2>3. f.synced <= Len(g.data)
    <3>1. Len(g.data) = Len(f.data) + Len(more)
      BY <1>7, <2>1
    <3> HIDE DEF g, more, f
    <3>2. QED
      BY <1>2, <1>6, <2>2, <3>1
  <2>4. QED
    BY <2>1, <2>2, <2>3 DEF FileOK
<1> HIDE DEF more, g
<1>9. StageOK(t) /\ Len(t.files) = Len(s.files)
  BY <1>1, <1>8, FileUpdate
<1>10. staging' = [staging EXCEPT ![op.id] = t]
  BY DEF Grown, g, more
<1> HIDE DEF t
<1>11. StagingOK' /\ staging'[op.id] = t
  BY <1>1, <1>9, <1>10, StageUpdate DEF IInv, DiskOK
<1>12. QED
  BY <1>9, <1>11

LEMMA ChunkStep ==
  ASSUME IInv, Chunk
  PROVE  IInv'
<1>1. op.step \in ChunkSteps
  BY DEF Chunk, WriteSuffix, SyncPayload, TouchState, ChunkSteps
<1> DEFINE s == staging[op.id]
           i == op.index
           f == s.files[i]
<1>2. op.id \in Batches /\ StageOK(s) /\ i \in 1..Len(s.files) /\ FileOK(f)
  BY <1>1, ChunkFile
<1>3. f \in File /\ Len(f.data) \in Nat /\ f.acked <= f.synced /\ f.synced <= Len(f.data)
  BY <1>2, LenProperties DEF FileOK, File
<1>4. CASE WriteSuffix
  <2>1. op.step = "write" /\ Len(Suffix) \in 0..Len(Suffix)
    <3>1. op.step = "write"
      BY <1>4 DEF WriteSuffix
    <3>2. op.data \in Seq(Byte) /\ op.offset \in Nat /\ op.offset <= Len(f.data)
      BY <3>1 DEF IInv, Operation, SlotOK
    <3>3. Len(op.data) \in Nat
      BY <3>2, LenProperties
    <3>4. Overlap(Len(f.data), op.offset, op.data) \in 0..Len(op.data)
      BY <1>3, <3>2, OverlapRange
    <3>5. Suffix \in Seq(Byte)
      BY <3>2, <3>3, <3>4, SubSeqProperties DEF Suffix
    <3>6. QED
      BY <3>1, <3>5, LenProperties
  <2>2. StagingOK' /\ Len(staging'[op.id].files) = Len(s.files)
    BY <1>4, <2>1, Growth DEF WriteSuffix
  <2>3. DiskOK'
    BY <1>4, <2>2 DEF WriteSuffix, IInv, DiskOK, PublishedOK
  <2>4. Goto("fsync")
    BY <1>4 DEF WriteSuffix
  <2>5. QED
    BY <1>2, <2>1, <2>2, <2>3, <2>4, GotoStep
       DEF Steps, ChunkSteps, CancelSteps, PublishSteps
<1>5. CASE SyncPayload
  <2> DEFINE g == [f EXCEPT !.synced = Len(f.data)]
             t == [s EXCEPT !.files = [s.files EXCEPT ![i] = g]]
  <2>1. FileOK(g) /\ g.synced = Len(g.data)
    BY <1>3 DEF FileOK, File
  <2> HIDE DEF g
  <2>2. StageOK(t) /\ Len(t.files) = Len(s.files) /\ t.files[i] = g
    BY <1>2, <2>1, FileUpdate
  <2>3. staging' = [staging EXCEPT ![op.id] = t]
    BY <1>5 DEF SyncPayload, g
  <2> HIDE DEF t
  <2>4. StagingOK' /\ staging'[op.id] = t
    BY <1>2, <2>2, <2>3, StageUpdate DEF IInv, DiskOK
  <2>5. DiskOK'
    BY <1>5, <2>4 DEF SyncPayload, IInv, DiskOK, PublishedOK
  <2>6. Goto("touch")
    BY <1>5 DEF SyncPayload
  <2>7. op.step # "idle"
    BY <1>1 DEF ChunkSteps
  <2>8. QED
    BY <1>2, <2>1, <2>2, <2>4, <2>5, <2>6, <2>7, GotoStep
       DEF Steps, ChunkSteps, CancelSteps, PublishSteps
<1>6. CASE TouchState
  <2> DEFINE g == [f EXCEPT !.acked = Len(f.data)]
             t == [s EXCEPT !.files = [s.files EXCEPT ![i] = g]]
  <2>1. f.synced = Len(f.data)
    BY <1>6 DEF TouchState, IInv, SlotOK
  <2>2. FileOK(g)
    BY <1>3, <2>1 DEF FileOK, File
  <2> HIDE DEF g
  <2>3. StageOK(t)
    BY <1>2, <2>2, FileUpdate
  <2>4. staging' = [staging EXCEPT ![op.id] = t]
    BY <1>6 DEF TouchState, g
  <2> HIDE DEF t
  <2>5. StagingOK'
    BY <1>2, <2>3, <2>4, StageUpdate DEF IInv, DiskOK
  <2>6. DiskOK'
    BY <1>2, <1>6, <2>5, AgeReset DEF TouchState, IInv, DiskOK, PublishedOK
  <2>7. QED
    BY <1>6, <2>6, AnswerStep DEF TouchState, Answer, Results
<1>7. QED
  BY <1>4, <1>5, <1>6 DEF Chunk

LEMMA PublishStep ==
  ASSUME IInv, Publish
  PROVE  IInv'
<1>1. op.step \in PublishSteps \cup {"syncRoot"} /\ op.id \in Batches
  BY DEF Publish, PublishReceipt, PublishState, RenamePayload, PublishFolder,
     PublishDone, PublishSteps, IInv, SlotOK
<1> DEFINE s == staging[op.id]
<1>2. StageOK(s) /\ s \in Stage /\ FilesOK(s.files) /\ s.files \in Seq(File)
  BY <1>1 DEF IInv, DiskOK, StagingOK, StageOK, FilesOK
<1>3. Len(s.files) \in Nat /\ s.renamed \in Nat /\ s.renamed <= Len(s.files)
  BY <1>2, LenProperties DEF StageOK, Stage
<1>4. op.step \in PublishSteps => Len(s.files) = Len(s.manifest)
  BY DEF IInv, SlotOK
<1>5. CASE PublishReceipt
  <2> DEFINE t == [s EXCEPT !.receipt = TRUE]
  <2>1. t \in Stage /\ t.files = s.files /\ t.renamed = s.renamed /\ t.manifest = s.manifest
    BY <1>2 DEF Stage
  <2>2. StageOK(t) /\ staging' = [staging EXCEPT ![op.id] = t]
    BY <1>2, <1>5, <2>1 DEF StageOK, PublishReceipt
  <2> HIDE DEF t
  <2>3. StagingOK' /\ staging'[op.id] = t
    BY <1>1, <2>2, StageUpdate DEF IInv, DiskOK
  <2>4. DiskOK'
    BY <1>5, <2>3 DEF PublishReceipt, IInv, DiskOK, PublishedOK
  <2>5. op.step = "receipt" /\ Goto("restate")
    BY <1>5 DEF PublishReceipt
  <2>6. QED
    BY <1>4, <2>1, <2>3, <2>4, <2>5, GotoStep DEF Steps, ChunkSteps, CancelSteps, PublishSteps
<1>6. CASE PublishState
  <2>1. DiskOK'
    BY <1>1, <1>6, AgeReset DEF PublishState, IInv, DiskOK, StagingOK, PublishedOK
  <2>2. op.step = "restate" /\ Goto("rename") /\ staging'[op.id] = s
    BY <1>6 DEF PublishState
  <2>3. QED
    BY <1>4, <2>1, <2>2, GotoStep DEF Steps, ChunkSteps, CancelSteps, PublishSteps
<1>7. CASE RenamePayload /\ s.renamed < Len(s.manifest)
  <2> DEFINE t == [s EXCEPT !.renamed = s.renamed + 1]
  <2>1. op.step = "rename" /\ Len(s.files) = Len(s.manifest)
    BY <1>4, <1>7 DEF RenamePayload, PublishSteps
  <2>2. t \in Stage /\ t.files = s.files /\ t.renamed = s.renamed + 1 /\ t.manifest = s.manifest
    BY <1>2, <1>3 DEF Stage
  <2>3. t.renamed <= Len(t.files)
    BY <1>3, <1>7, <2>1, <2>2
  <2>4. StageOK(t) /\ staging' = [staging EXCEPT ![op.id] = t]
    BY <1>2, <1>7, <2>2, <2>3 DEF StageOK, RenamePayload
  <2> HIDE DEF t
  <2>5. StagingOK' /\ staging'[op.id] = t
    BY <1>1, <2>4, StageUpdate DEF IInv, DiskOK
  <2>6. UNCHANGED <<published, age, op, reply>>
    BY <1>7 DEF RenamePayload
  <2>7. SlotOK'
    BY <1>1, <2>1, <2>2, <2>5, <2>6 DEF IInv, SlotOK, ChunkSteps, CancelSteps, PublishSteps
  <2>8. QED
    BY <2>5, <2>6, <2>7 DEF IInv, DiskOK, PublishedOK
<1>8. CASE RenamePayload /\ ~(s.renamed < Len(s.manifest))
  <2>1. op.step = "rename" /\ Goto("publish") /\ UNCHANGED disk /\ staging'[op.id] = s
    BY <1>8 DEF RenamePayload, disk
  <2>2. DiskOK'
    BY <2>1, DiskSame DEF IInv
  <2>3. QED
    BY <1>4, <2>1, <2>2, GotoStep DEF Steps, ChunkSteps, CancelSteps, PublishSteps
<1>9. CASE PublishFolder
  <2> DEFINE f == [exists |-> TRUE, manifest |-> s.manifest, files |-> s.files]
  <2>1. FolderOK(f)
    BY <1>2 DEF FolderOK, Folder, Stage
  <2> HIDE DEF f
  <2>2. /\ published' = [published EXCEPT ![op.id] = f]
        /\ staging' = [staging EXCEPT ![op.id] = NoStage]
        /\ age' = [age EXCEPT ![op.id] = 0]
        /\ Goto("syncRoot") /\ op.step = "publish"
    BY <1>9 DEF PublishFolder, f
  <2>3. StagingOK'
    BY <1>1, <2>2, StageUpdate, ConstantTypes DEF IInv, DiskOK
  <2>4. PublishedOK'
    BY <1>1, <2>1, <2>2 DEF IInv, DiskOK, PublishedOK, FolderOK
  <2>5. DiskOK'
    BY <1>1, <2>2, <2>3, <2>4, AgeReset DEF IInv, DiskOK
  <2>6. QED
    BY <2>2, <2>5, GotoStep DEF Steps, ChunkSteps, CancelSteps, PublishSteps
<1>10. CASE PublishDone
  BY <1>10, DiskSame, AnswerStep DEF PublishDone, IInv, Results
<1>11. QED
  BY <1>5, <1>6, <1>7, <1>8, <1>9, <1>10 DEF Publish

LEMMA CancelStep ==
  ASSUME IInv, Cancel
  PROVE  IInv'
<1>1. op.step \in CancelSteps /\ op.id \in Batches
  BY DEF Cancel, WriteTombstone, SyncTombstone, CancelSteps, IInv, SlotOK
<1> DEFINE s == staging[op.id]
<1>2. StageOK(s) /\ s \in Stage /\ s.renamed = 0
  BY <1>1 DEF IInv, DiskOK, StagingOK, StageOK, SlotOK
<1>3. CASE WriteTombstone
  <2> DEFINE t == [s EXCEPT !.state = "cancelled"]
  <2>1. t \in Stage /\ t.files = s.files /\ t.renamed = 0
    BY <1>2 DEF Stage
  <2>2. StageOK(t) /\ staging' = [staging EXCEPT ![op.id] = t]
    BY <1>2, <1>3, <2>1 DEF StageOK, WriteTombstone
  <2> HIDE DEF t
  <2>3. StagingOK' /\ staging'[op.id] = t
    BY <1>1, <2>2, StageUpdate DEF IInv, DiskOK
  <2>4. DiskOK'
    BY <1>1, <1>3, <2>3, AgeReset DEF WriteTombstone, IInv, DiskOK, PublishedOK
  <2>5. op.step = "tombstone" /\ Goto("syncTomb")
    BY <1>3 DEF WriteTombstone
  <2>6. QED
    BY <2>1, <2>3, <2>4, <2>5, GotoStep DEF Steps, ChunkSteps, CancelSteps, PublishSteps
<1>4. CASE SyncTombstone
  <2>1. op.step = "syncTomb" /\ Goto("cleanup") /\ UNCHANGED disk /\ staging'[op.id] = s
    BY <1>4 DEF SyncTombstone, disk
  <2>2. DiskOK'
    BY <2>1, DiskSame DEF IInv
  <2>3. QED
    BY <1>2, <2>1, <2>2, GotoStep DEF Steps, ChunkSteps, CancelSteps, PublishSteps
<1>5. QED
  BY <1>3, <1>4 DEF Cancel

LEMMA RefuseStep ==
  ASSUME IInv, Refuse
  PROVE  IInv'
BY DiskSame, AnswerStep DEF Refuse, Answer, IInv, Results

\* An error return may leave part of a chunk or take an empty stage back.
LEMMA FailureStep ==
  ASSUME IInv, Failure
  PROVE  IInv'
<1>1. CASE FailCreate
  <2>1. op.step \in CreateSteps /\ op.id \in Batches /\ op.step # "idle"
    BY <1>1 DEF FailCreate, CreateSteps, IInv, SlotOK
  <2>2. UNCHANGED <<published, age>>
    BY <1>1 DEF FailCreate
  <2>3. CASE staging' = [staging EXCEPT ![op.id] = NoStage] /\ Answer("error", "none")
    <3>1. StagingOK'
      BY <2>1, <2>3, StageUpdate, ConstantTypes DEF IInv, DiskOK
    <3>2. DiskOK'
      BY <2>2, <3>1 DEF IInv, DiskOK, PublishedOK
    <3>3. QED
      BY <2>3, <3>2, AnswerStep DEF Answer, Results
  <2>4. CASE UNCHANGED staging /\ Answer("error", "none")
    BY <2>2, <2>4, DiskSame, AnswerStep DEF Answer, Results, disk, IInv
  <2>5. CASE UNCHANGED staging /\ StartRemoval(op.id, "rollback")
    BY <2>1, <2>2, <2>5, DiskSame, RemovalStep DEF disk, IInv
  <2>6. QED
    BY <1>1, <2>3, <2>4, <2>5 DEF FailCreate
<1>2. CASE FailChunk
  <2>1. op.step \in ChunkSteps /\ Answer("error", "receiving") /\ UNCHANGED published
    BY <1>2 DEF FailChunk, ChunkSteps
  <2>2. op.id \in Batches
    BY <2>1, ChunkFile
  <2>3. StagingOK'
    <3>1. CASE op.step = "write" /\ \E n \in 0..Len(Suffix) : staging' = Grown(n)
      BY <3>1, Growth
    <3>2. CASE UNCHANGED staging
      BY <3>2 DEF IInv, DiskOK, StagingOK
    <3>3. QED
      BY <1>2, <3>1, <3>2 DEF FailChunk
  <2>4. age' \in [Batches -> 0..TTL]
    BY <1>2, <2>2, AgeReset DEF FailChunk, IInv, DiskOK
  <2>5. DiskOK'
    BY <2>1, <2>3, <2>4 DEF IInv, DiskOK, PublishedOK
  <2>6. QED
    BY <2>1, <2>5, AnswerStep DEF Answer, Results
<1>3. CASE FailPublish
  <2>1. op.id \in Batches /\ UNCHANGED <<staging, published>>
    BY <1>3 DEF FailPublish, PublishSteps, IInv, SlotOK
  <2>2. age' \in [Batches -> 0..TTL]
    BY <1>3, <2>1, AgeReset DEF FailPublish, IInv, DiskOK
  <2>3. DiskOK'
    BY <2>1, <2>2 DEF IInv, DiskOK, StagingOK, PublishedOK
  <2>4. Answer("error", "none") \/ AnswerAs("error", "stored", TRUE)
    BY <1>3 DEF FailPublish
  <2>5. QED
    BY <2>3, <2>4, AnswerStep DEF Answer, Results
<1>4. CASE FailCancel
  BY <1>4, DiskSame, AnswerStep DEF FailCancel, Answer, Results, IInv
<1>5. CASE FailRemove
  <2>1. op.step = "remove" /\ UNCHANGED disk /\ DiskOK'
    BY <1>5, DiskSame DEF FailRemove, IInv
  <2>2. CASE Answer("error", "none")
    BY <2>1, <2>2, AnswerStep DEF Answer, Results
  <2>3. CASE /\ op' = [op EXCEPT !.step = "sweep", !.victim = NoBatch, !.why = "none"]
             /\ UNCHANGED reply
    <3>1. /\ op' \in Operation /\ reply' \in Reply /\ op'.step = "sweep"
          /\ op'.id = op.id /\ op'.index = op.index /\ op'.kind = op.kind
      BY <2>3 DEF IInv, Operation, Steps
    <3>2. SlotOK'
      BY <2>1, <3>1 DEF IInv, SlotOK, ChunkSteps, CancelSteps, PublishSteps
    <3>3. QED
      BY <2>1, <3>1, <3>2 DEF IInv
  <2>4. QED
    BY <1>5, <2>2, <2>3 DEF FailRemove
<1>6. QED
  BY <1>1, <1>2, <1>3, <1>4, <1>5 DEF Failure

LEMMA TickStep ==
  ASSUME IInv, Tick
  PROVE  IInv'
<1>1. age' \in [Batches -> 0..TTL]
  BY LimitAssumption DEF Tick, IInv, DiskOK
<1>2. UNCHANGED <<staging, published, op, reply>>
  BY DEF Tick
<1>3. QED
  BY <1>1, <1>2 DEF IInv, DiskOK, StagingOK, PublishedOK, SlotOK

\* A crash leaves a well-formed disk, whatever it interrupted.
LEMMA CrashStep ==
  ASSUME IInv, Crash
  PROVE  IInv'
<1>1. op.id \in Batches /\ staging' \in Wreckage /\ op' = Idle /\ reply' \in Reply
      /\ UNCHANGED <<published, age>>
  BY ConstantTypes DEF Crash, IInv, SlotOK
<1>2. StagingOK'
  <2>1. CASE UNCHANGED staging
    BY <2>1 DEF IInv, DiskOK, StagingOK
  <2>2. CASE staging' = [staging EXCEPT ![op.id].tmp = TRUE]
    <3> DEFINE s == staging[op.id]
               t == [s EXCEPT !.tmp = TRUE]
    <3>1. StageOK(s) /\ s \in Stage
      BY <1>1 DEF IInv, DiskOK, StagingOK, StageOK
    <3>2. t \in Stage /\ t.files = s.files /\ t.renamed = s.renamed
      BY <3>1 DEF Stage
    <3>3. StageOK(t) /\ staging' = [staging EXCEPT ![op.id] = t]
      BY <2>2, <3>1, <3>2 DEF StageOK
    <3> HIDE DEF t
    <3>4. QED
      BY <1>1, <3>3, StageUpdate DEF IInv, DiskOK
  <2>3. CASE op.step = "write" /\ \E n \in 0..Len(Suffix) : staging' = Grown(n)
    BY <2>3, Growth
  <2>4. QED
    BY <1>1, <2>1, <2>2, <2>3 DEF Wreckage
<1>3. QED
  BY <1>1, <1>2, Returned DEF IInv, DiskOK, PublishedOK

\* A power loss cuts files back to what was synced, never below what was
\* acknowledged.
LEMMA TruncatedOK ==
  ASSUME NEW files, FilesOK(files)
  PROVE  FilesOK(Truncated(files)) /\ Len(Truncated(files)) = Len(files)
<1> DEFINE n == Len(files)
           g(i) == [files[i] EXCEPT !.data = SubSeq(@, 1, files[i].synced)]
<1>1. files \in Seq(File) /\ n \in Nat /\ DOMAIN files = 1..n
  BY LenProperties DEF FilesOK
<1>2. ASSUME NEW i \in 1..n
      PROVE  FileOK(g(i))
  <2> DEFINE f == files[i]
             d == SubSeq(f.data, 1, f.synced)
  <2>1. f \in File /\ f.acked <= f.synced /\ f.synced <= Len(f.data)
    BY <1>2 DEF FilesOK, FileOK
  <2>2. f.data \in Seq(Byte) /\ f.synced \in Nat /\ Len(f.data) \in Nat
    BY <2>1, LenProperties DEF File
  <2>3. d \in Seq(Byte) /\ Len(d) = f.synced
    <3>1. f.synced \in (1 - 1)..Len(f.data)
      BY <2>1, <2>2
    <3>2. QED
      BY <2>2, <3>1, SubSeqProperties
  <2> HIDE DEF d
  <2>4. g(i) = [f EXCEPT !.data = d]
    BY DEF d
  <2>5. g(i) \in File /\ g(i).data = d /\ g(i).synced = f.synced /\ g(i).acked = f.acked
    BY <2>1, <2>3, <2>4 DEF File
  <2>6. QED
    BY <2>1, <2>2, <2>3, <2>5 DEF FileOK
<1> HIDE DEF g
<1>3. Truncated(files) = [i \in 1..n |-> g(i)]
  BY <1>1 DEF Truncated, g
<1>4. \A i \in 1..n : g(i) \in File
  BY <1>2 DEF FileOK
<1>5. Truncated(files) \in Seq(File) /\ Len(Truncated(files)) = n
  BY <1>1, <1>3, <1>4, IsASeq
<1>6. QED
  BY <1>2, <1>3, <1>5 DEF FilesOK

LEMMA PowerStep ==
  ASSUME IInv, PowerLoss
  PROVE  IInv'
<1>1. op' = Idle /\ reply' \in Reply /\ UNCHANGED age
  BY ConstantTypes DEF PowerLoss
<1>2. PICK lost \in SUBSET Batches :
        /\ staging' = [b \in Batches |->
             IF b \in lost THEN [staging[b] EXCEPT !.files = Truncated(@)] ELSE staging[b]]
        /\ published' = [b \in Batches |->
             IF b \in lost THEN [published[b] EXCEPT !.files = Truncated(@)] ELSE published[b]]
  BY DEF PowerLoss
<1>3. ASSUME NEW b \in Batches
      PROVE  StageOK(staging'[b]) /\ FolderOK(published'[b])
  <2>1. StageOK(staging[b]) /\ FolderOK(published[b])
    BY DEF IInv, DiskOK, StagingOK, PublishedOK
  <2>2. CASE b \notin lost
    BY <1>2, <2>1, <2>2
  <2>3. CASE b \in lost
    <3> DEFINE s == staging[b]
               f == published[b]
               d == Truncated(s.files)
               e == Truncated(f.files)
    <3>1. FilesOK(d) /\ Len(d) = Len(s.files) /\ FilesOK(e)
      BY <2>1, TruncatedOK DEF StageOK, FolderOK
    <3>2. d \in Seq(File) /\ e \in Seq(File)
      BY <3>1 DEF FilesOK
    <3>3. staging'[b] = [s EXCEPT !.files = d] /\ published'[b] = [f EXCEPT !.files = e]
      BY <1>2, <2>3
    <3> HIDE DEF d, e
    <3>4. /\ staging'[b] \in Stage /\ staging'[b].files = d
          /\ staging'[b].renamed = s.renamed
      BY <2>1, <3>2, <3>3 DEF StageOK, Stage
    <3>5. published'[b] \in Folder /\ published'[b].files = e
      BY <2>1, <3>2, <3>3 DEF FolderOK, Folder
    <3>6. QED
      BY <2>1, <3>1, <3>4, <3>5 DEF StageOK, FolderOK
  <2>4. QED
    BY <2>2, <2>3
<1>4. StagingOK' /\ PublishedOK'
  <2>1. staging' \in [Batches -> Stage] /\ published' \in [Batches -> Folder]
    BY <1>2, <1>3 DEF StageOK, FolderOK
  <2>2. QED
    BY <1>3, <2>1 DEF StagingOK, PublishedOK
<1>5. QED
  BY <1>1, <1>4, Returned DEF IInv, DiskOK

-----------------------------------------------------------------------------
(* The theorems.                                                           *)

\* The initial state satisfies the invariant.
LEMMA InitOK ==
  ASSUME Init
  PROVE  IInv
<1>1. StagingOK /\ PublishedOK
  BY ConstantTypes DEF Init, StagingOK, PublishedOK, StageOK, FolderOK
<1>2. age \in [Batches -> 0..TTL]
  BY LimitAssumption DEF Init
<1>3. op = Idle /\ op \in Operation /\ reply \in Reply
  BY ConstantTypes DEF Init
<1>4. SlotOK
  BY <1>3 DEF SlotOK, Idle, ChunkSteps, CancelSteps, PublishSteps
<1>5. QED
  BY <1>1, <1>2, <1>3, <1>4 DEF IInv, DiskOK

\* Every step of the store preserves the invariant.
LEMMA NextOK ==
  ASSUME IInv, [Next]_vars
  PROVE  IInv'
<1>1. CASE UNCHANGED vars
  BY <1>1 DEF vars, IInv, DiskOK, StagingOK, PublishedOK, SlotOK
<1>2. CASE Progress
  BY <1>2, SweepStep, RemoveStep, CleanupStep, DecideStep, CreateStep, ChunkStep,
     PublishStep, CancelStep DEF Progress
<1>3. CASE Request \/ Refuse \/ Failure \/ Tick \/ Crash \/ PowerLoss
  BY <1>3, RequestStep, RefuseStep, FailureStep, TickStep, CrashStep, PowerStep
<1>4. QED
  BY <1>1, <1>2, <1>3 DEF Next

\* The strengthened invariant holds in every reachable state.
THEOREM Invariance == Spec => []IInv
<1>1. Init => IInv
  BY InitOK
<1>2. IInv /\ [Next]_vars => IInv'
  BY NextOK
<1>3. QED
  BY <1>1, <1>2, PTL DEF Spec

\* The type invariant of the store, for every set of batches, bytes, manifests,
\* chunks and faults and every limit.
THEOREM TypeCorrect == Spec => []TypeOK
<1>1. IInv => TypeOK
  BY DEF IInv, DiskOK, StagingOK, PublishedOK, StageOK, TypeOK
<1>2. QED
  BY <1>1, Invariance, PTL

\* No error, crash or power loss takes back a byte a PUT has acknowledged:
\* what is acknowledged is synced (SlotOK at step touch), and what is synced
\* survives (TruncatedOK).
THEOREM AcknowledgedSafe == Spec => []AckedBytesSurvive
<1>1. IInv => AckedBytesSurvive
  <2>1. ASSUME IInv, NEW b \in Batches, NEW i \in 1..Len(staging[b].files)
        PROVE  Len(staging[b].files[i].data) >= staging[b].files[i].acked
    <3>1. FileOK(staging[b].files[i])
      BY <2>1 DEF IInv, DiskOK, StagingOK, StageOK, FilesOK
    <3> DEFINE f == staging[b].files[i]
    <3>2. /\ f.acked \in Nat /\ f.synced \in Nat /\ Len(f.data) \in Nat
          /\ f.acked <= f.synced /\ f.synced <= Len(f.data)
      BY <3>1, LenProperties DEF FileOK, File
    <3>3. QED
      BY <3>2
  <2>2. QED
    BY <2>1 DEF AckedBytesSurvive
<1>2. QED
  BY <1>1, Invariance, PTL

-----------------------------------------------------------------------------
(* Published folders are intact as long as no power is lost.               *)

\* The second conjunct is what makes PublishedIntact inductive: between the
\* verification and the rename of the directory nothing changes the payload.
IntactInv ==
  /\ PublishedIntact
  /\ op.step \in PublishSteps => Verified(staging[op.id])

\* A step that neither publishes nor decides a commit leaves the folders alone
\* and does not enter a publication.
LEMMA OtherSteps ==
  ASSUME IInv,
         \/ Request \/ Sweep \/ Remove \/ Cleanup \/ Create \/ Chunk \/ Cancel
         \/ DecideBegin \/ DecideStatus \/ DecideChunk \/ DecideCancel
         \/ Refuse \/ Failure \/ Tick \/ Crash
  PROVE  UNCHANGED published /\ op'.step \notin PublishSteps
<1>1. op \in Operation
  BY DEF IInv
<1>2. ASSUME NEW step \in Steps \ PublishSteps, Goto(step)
      PROVE  op'.step \notin PublishSteps
  BY <1>1, <1>2 DEF Goto, Operation
<1>3. ASSUME NEW b, NEW why, StartRemoval(b, why)
      PROVE  op'.step \notin PublishSteps
  BY <1>1, <1>3 DEF StartRemoval, Operation, PublishSteps
<1>4. ASSUME NEW r, NEW st, NEW fresh, AnswerAs(r, st, fresh)
      PROVE  op'.step \notin PublishSteps
  BY <1>4 DEF AnswerAs, Idle, PublishSteps
<1>5. CASE Request
  <2>1. PICK kind, b, m, i, off, data, first :
          Enter(kind, b, m, i, off, data, first) /\ first \in {"sweep", "decide"}
    BY <1>5 DEF Request, BeginRequest, StatusRequest, ChunkRequest, CommitRequest, CancelRequest
  <2>2. QED
    BY <2>1 DEF Enter, Idle, disk, PublishSteps
<1>6. CASE Sweep
  <2>1. CASE \E x \in Batches : SweepExpired(x)
    BY <1>3, <2>1 DEF SweepExpired, disk
  <2>2. CASE SweepDone
    BY <1>1, <2>2 DEF SweepDone, disk, Operation, PublishSteps
  <2>3. QED
    BY <1>6, <2>1, <2>2 DEF Sweep
<1>7. CASE Remove
  <2>1. CASE RemoveManifest \/ RemoveOwner
    BY <2>1 DEF RemoveManifest, RemoveOwner, PublishSteps
  <2>2. CASE RemoveRest
    <3>1. UNCHANGED published
      BY <2>2 DEF RemoveRest
    <3>2. CASE op' = [op EXCEPT !.step = "sweep", !.victim = NoBatch, !.why = "none"]
      BY <1>1, <3>1, <3>2 DEF Operation, PublishSteps
    <3>3. CASE Answer("expired", "none") \/ Answer("error", "none")
      BY <1>4, <3>1, <3>3 DEF Answer
    <3>4. QED
      BY <2>2, <3>2, <3>3 DEF RemoveRest
  <2>3. QED
    BY <1>7, <2>1, <2>2 DEF Remove
<1>8. CASE Cleanup
  BY <1>2, <1>8 DEF Cleanup, CleanupPayload, CleanupDone, disk, Steps, PublishSteps
<1>9. CASE Create
  <2>1. UNCHANGED published
    BY <1>9 DEF Create, CreateDirectory, CreateOwner, CreateManifest, CreatePayload,
       CreateState, CreateDone, disk
  <2>2. \/ \E step \in CreateSteps : Goto(step)
        \/ op.step = "payload" /\ UNCHANGED op
        \/ Answer("ok", "receiving")
    BY <1>9 DEF Create, CreateDirectory, CreateOwner, CreateManifest, CreatePayload,
       CreateState, CreateDone, CreateSteps
  <2>3. CreateSteps \subseteq Steps \ PublishSteps
    BY DEF CreateSteps, Steps, PublishSteps
  <2>4. QED
    BY <1>2, <1>4, <2>1, <2>2, <2>3 DEF Answer, PublishSteps
<1>10. CASE Chunk
  BY <1>2, <1>4, <1>10
     DEF Chunk, WriteSuffix, SyncPayload, TouchState, Answer, Steps, ChunkSteps, PublishSteps
<1>11. CASE Cancel
  BY <1>2, <1>11 DEF Cancel, WriteTombstone, SyncTombstone, disk, Steps, CancelSteps, PublishSteps
<1>12. CASE DecideBegin \/ DecideStatus \/ DecideChunk \/ DecideCancel
  <2>1. UNCHANGED published
    BY <1>12 DEF DecideBegin, DecideStatus, DecideChunk, DecideCancel, disk
  <2>2. \/ \E r, st : Answer(r, st)
        \/ \E step \in {"cleanup", "mkdir", "write", "tombstone"} : Goto(step)
        \/ \E b, why : StartRemoval(b, why)
    BY <1>12 DEF DecideBegin, DecideStatus, DecideChunk, DecideCancel, LeaveUnusable
  <2>3. {"cleanup", "mkdir", "write", "tombstone"} \subseteq Steps \ PublishSteps
    BY DEF Steps, CreateSteps, ChunkSteps, CancelSteps, PublishSteps
  <2>4. QED
    BY <1>2, <1>3, <1>4, <2>1, <2>2, <2>3 DEF Answer
<1>13. CASE Refuse \/ Crash \/ Tick
  <2>1. CASE Refuse
    BY <1>4, <2>1 DEF Refuse, Answer, disk
  <2>2. CASE Crash
    BY <2>2 DEF Crash, Idle, PublishSteps
  <2>3. CASE Tick
    BY <2>3 DEF Tick, PublishSteps
  <2>4. QED
    BY <1>13, <2>1, <2>2, <2>3
<1>14. CASE Failure
  <2>1. UNCHANGED published
    BY <1>14 DEF Failure, FailCreate, FailChunk, FailPublish, FailCancel, FailRemove, disk
  <2>2. \/ \E r, st, fresh : AnswerAs(r, st, fresh)
        \/ \E b, why : StartRemoval(b, why)
        \/ op' = [op EXCEPT !.step = "sweep", !.victim = NoBatch, !.why = "none"]
    BY <1>14 DEF Failure, FailCreate, FailChunk, FailPublish, FailCancel, FailRemove, Answer
  <2>3. CASE op' = [op EXCEPT !.step = "sweep", !.victim = NoBatch, !.why = "none"]
    BY <1>1, <2>1, <2>3 DEF Operation, PublishSteps
  <2>4. QED
    BY <1>3, <1>4, <2>1, <2>2, <2>3
<1>15. QED
  BY <1>5, <1>6, <1>7, <1>8, <1>9, <1>10, <1>11, <1>12, <1>13, <1>14

LEMMA IntactStep ==
  ASSUME IInv, IntactInv, [Next]_vars, "power" \notin Faults
  PROVE  IntactInv'
<1> DEFINE s == staging[op.id]
<1>1. op \in Operation
  BY DEF IInv
<1>2. CASE UNCHANGED vars
  BY <1>2 DEF vars, IntactInv, PublishedIntact, Verified
<1>3. ASSUME UNCHANGED published, op'.step \notin PublishSteps
      PROVE  IntactInv'
  BY <1>3 DEF IntactInv, PublishedIntact
<1>4. ASSUME UNCHANGED published, staging'[op'.id].files = s.files,
             staging'[op'.id].manifest = s.manifest, Verified(s)
      PROVE  IntactInv'
  BY <1>4 DEF IntactInv, PublishedIntact, Verified
<1>5. CASE DecideCommit
  <2>1. UNCHANGED <<staging, published>>
    BY <1>5 DEF DecideCommit, disk
  <2>2. CASE Goto("receipt") /\ Verified(s)
    <3>1. op'.id = op.id
      BY <1>1, <2>2 DEF Goto, Operation
    <3>2. QED
      BY <1>4, <2>1, <2>2, <3>1
  <2>3. CASE (\E r, st : Answer(r, st)) \/ Goto("cleanup") \/ (\E b, why : StartRemoval(b, why))
    <3>1. op'.step \notin PublishSteps
      <4>1. CASE \E r, st : Answer(r, st)
        BY <4>1 DEF Answer, AnswerAs, Idle, PublishSteps
      <4>2. CASE Goto("cleanup")
        BY <1>1, <4>2 DEF Goto, Operation, PublishSteps
      <4>3. CASE \E b, why : StartRemoval(b, why)
        BY <1>1, <4>3 DEF StartRemoval, Operation, PublishSteps
      <4>4. QED
        BY <2>3, <4>1, <4>2, <4>3
    <3>2. QED
      BY <1>3, <2>1, <3>1
  <2>4. QED
    BY <1>5, <2>2, <2>3 DEF DecideCommit, LeaveUnusable
<1>6. CASE Publish
  <2>1. op.step \in PublishSteps \cup {"syncRoot"} /\ op.id \in Batches
    BY <1>6 DEF Publish, PublishReceipt, PublishState, RenamePayload, PublishFolder,
       PublishDone, PublishSteps, IInv, SlotOK
  <2>2. CASE PublishReceipt \/ PublishState \/ RenamePayload
    <3>1. Verified(s) /\ UNCHANGED published
      BY <2>2 DEF PublishReceipt, PublishState, RenamePayload, PublishSteps, IntactInv
    <3>2. op'.id = op.id
      BY <1>1, <2>2 DEF PublishReceipt, PublishState, RenamePayload, Goto, Operation
    <3>3. s \in Stage /\ staging \in [Batches -> Stage]
      BY <2>1 DEF IInv, DiskOK, StagingOK
    <3>4. staging'[op.id].files = s.files /\ staging'[op.id].manifest = s.manifest
      BY <2>1, <2>2, <3>3 DEF PublishReceipt, PublishState, RenamePayload, Stage
    <3>5. QED
      BY <1>4, <3>1, <3>2, <3>4
  <2>3. CASE PublishFolder
    <3>1. /\ op.step \in PublishSteps /\ Goto("syncRoot")
          /\ published' = [published EXCEPT ![op.id] =
               [exists |-> TRUE, manifest |-> s.manifest, files |-> s.files]]
      BY <2>3 DEF PublishFolder, PublishSteps
    <3>2. Verified(s) /\ Len(s.files) = Len(s.manifest)
      BY <3>1 DEF IntactInv, IInv, SlotOK
    <3>3. PublishedIntact'
      BY <2>1, <3>1, <3>2 DEF IntactInv, PublishedIntact, Verified, IInv, DiskOK, PublishedOK
    <3>4. op'.step \notin PublishSteps
      BY <1>1, <3>1 DEF Goto, Operation, PublishSteps
    <3>5. QED
      BY <3>3, <3>4 DEF IntactInv
  <2>4. CASE PublishDone
    BY <1>3, <2>4 DEF PublishDone, AnswerAs, Idle, disk, PublishSteps
  <2>5. QED
    BY <1>6, <2>2, <2>3, <2>4 DEF Publish
<1>7. CASE PowerLoss
  BY <1>7 DEF PowerLoss
<1>8. QED
  BY <1>2, <1>3, <1>5, <1>6, <1>7, OtherSteps DEF Next, Progress, Decide

\* Whatever is repeated, refused, interrupted or crashed, a stored folder holds
\* exactly the files its receipt declares, provided no unsynced byte is lost.
THEOREM StoredIntact ==
  ASSUME "power" \notin Faults
  PROVE  Spec => []PublishedIntact
<1>1. Init => IntactInv
  BY DEF Init, IntactInv, PublishedIntact, NoFolder, Idle, PublishSteps
<1>2. IInv /\ IntactInv /\ [Next]_vars => IntactInv'
  BY IntactStep
<1>3. IntactInv => PublishedIntact
  BY DEF IntactInv
<1>4. QED
  BY <1>1, <1>2, <1>3, Invariance, PTL DEF Spec
=============================================================================
