-------------------------- MODULE InputQueueProofs --------------------------
(***************************************************************************)
(* Proofs about InputQueue, for any set of threads, any capacity and any   *)
(* number of calls: type correctness, that a call answered "rejected"      *)
(* never reaches the device, that a closed queue is quiet, and that the    *)
(* queue keeps the promise of SerialInput.                                 *)
(***************************************************************************)
EXTENDS InputQueue, TLAPS

-----------------------------------------------------------------------------
(* The inductive invariant.                                                *)

Holding == worker.at \in {"compare", "run"}
Sub(op) == op.kind \in Submissions

\* What the queue's own goroutines may assume of each other: the life of the
\* queue is the order none, senders, offer, closing, exit, done, and the close
\* operation is the last one that is ever in the channel.
LifeInv ==
  /\ closed <=> finisher # "none"
  /\ finisher \in {"offer", "closing", "exit", "done"} => Senders = {}
  /\ finisher \in {"none", "senders", "offer"} =>
       /\ ~innerClosed
       /\ \A i \in 1..Len(ch) : ch[i].kind # "close"
       /\ Holding => worker.op.kind # "close"
  /\ finisher = "closing" /\ ~innerClosed =>
       \/ /\ ch # <<>> /\ ch[Len(ch)].kind = "close"
          /\ \A i \in 1..(Len(ch) - 1) : ch[i].kind # "close"
          /\ Holding => worker.op.kind # "close"
       \/ Holding /\ worker.op.kind = "close" /\ ch = <<>>
  /\ finisher \in {"exit", "done"} => innerClosed
  /\ innerClosed => ch = <<>> /\ worker.at \in {"receive", "gone"}
  /\ chClosed <=> finisher \in {"exit", "done"}
  /\ worker.at = "gone" => chClosed
  /\ finisher = "done" => worker.at = "gone"
  /\ worker.at = "clear" => worker.op.kind = "reset"

\* An operation is at one place only: with its caller, in the channel, or with
\* the worker that has not called the device yet; and after that nowhere.
Pending(id) ==
  \/ \E i \in 1..Len(ch) : Sub(ch[i]) /\ ch[i].id = id
  \/ worker.at = "compare" /\ Sub(worker.op) /\ worker.op.id = id

\* The call an operation stands for has been made.
Made(id) == id \in Ids /\ id[2] <= count[id[1]]

QueuedInv ==
  /\ \A i \in 1..Len(ch) : Sub(ch[i]) => Made(ch[i].id)
  /\ \A i, j \in 1..Len(ch) :
       i # j /\ Sub(ch[i]) /\ Sub(ch[j]) => ch[i].id # ch[j].id

HeldInv ==
  Holding /\ Sub(worker.op) =>
    /\ Made(worker.op.id)
    /\ \A i \in 1..Len(ch) : Sub(ch[i]) => ch[i].id # worker.op.id
    /\ worker.at = "run" => worker.op.id \in began

HistoryInv ==
  /\ \A id \in began : Made(id)
  /\ \A id \in refused : Made(id)
  /\ \A id : Pending(id) => id \notin began /\ id \notin refused
  /\ refused \cap began = {}

\* What a caller that is inside a call may conclude.
CallOK(t) ==
  /\ ~At(t, "out") => count[t] >= 1
  /\ call[t].at \in {"enter", "barrier", "send"} =>
       /\ Id(t) \notin began /\ Id(t) \notin refused /\ ~Pending(Id(t))
       /\ receipt[t] = "none"
  /\ At(t, "barrier") => call[t].kind \in Submissions \cup {"reset"}
  /\ At(t, "send") => call[t].kind \in Submissions
  /\ ~At(t, "out") => Id(t) \notin refused
  /\ ~At(t, "out") /\ receipt[t] = "rejected" => Id(t) \notin began /\ ~Pending(Id(t))
  /\ receipt[t] = "executed" => Id(t) \in began
CallInv == \A t \in Threads : CallOK(t)

QInv == TypeOK /\ LifeInv /\ QueuedInv /\ HeldInv /\ HistoryInv /\ CallInv

-----------------------------------------------------------------------------
(* Footprints: what the helpers of the actions leave in call.              *)

Places == {"out", "enter", "barrier", "send", "await"}

\* WaitFor changes the place and the epoch of one thread's call.
LEMMA WaitForEffect ==
  ASSUME call \in [Threads -> Call], NEW t \in Threads, NEW place \in Places,
         NEW e \in Nat, WaitFor(t, place, e)
  PROVE  /\ call' \in [Threads -> Call]
         /\ \A u \in Threads : u # t => call'[u] = call[u]
         /\ call'[t].at = place /\ call'[t].kind = call[t].kind
<1>1. [call[t] EXCEPT !.at = place, !.epoch = e] \in Call
  BY DEF Call, Places
<1>2. call' = [call EXCEPT ![t] = [call[t] EXCEPT !.at = place, !.epoch = e]]
  BY DEF WaitFor
<1>3. [call[t] EXCEPT !.at = place, !.epoch = e].at = place
      /\ [call[t] EXCEPT !.at = place, !.epoch = e].kind = call[t].kind
  BY DEF Call
<1>4. QED
  BY <1>1, <1>2, <1>3

\* Move changes the place of one thread's call.
LEMMA MoveEffect ==
  ASSUME call \in [Threads -> Call], NEW t \in Threads, NEW place \in Places, Move(t, place)
  PROVE  /\ call' \in [Threads -> Call]
         /\ \A u \in Threads : u # t => call'[u] = call[u]
         /\ call'[t].at = place /\ call'[t].kind = call[t].kind
<1>1. [call[t] EXCEPT !.at = place] \in Call
  BY DEF Call, Places
<1>2. call' = [call EXCEPT ![t] = [call[t] EXCEPT !.at = place]]
  BY DEF Move
<1>3. [call[t] EXCEPT !.at = place].at = place
      /\ [call[t] EXCEPT !.at = place].kind = call[t].kind
  BY DEF Call
<1>4. QED
  BY <1>1, <1>2, <1>3

\* Return takes one thread outside and refuses at most its own call.
LEMMA ReturnEffect ==
  ASSUME call \in [Threads -> Call], count \in [Threads -> 0..MaxCalls],
         refused \subseteq Ids, expired \subseteq Ids,
         NEW t \in Threads, count[t] >= 1, NEW r, Return(t, r)
  PROVE  /\ call' \in [Threads -> Call] /\ refused' \subseteq Ids /\ expired' \subseteq Ids
         /\ \A u \in Threads : u # t => call'[u] = call[u]
         /\ call'[t].at = "out"
         /\ refused' = IF r = "rejected" THEN refused \cup {Id(t)} ELSE refused
         /\ count' = count /\ receipt' = receipt
<1>1. Outside \in Call /\ Outside.at = "out"
  BY DEF Call, Outside, CallKinds, Submissions
<1>2. call' = [call EXCEPT ![t] = Outside]
  BY DEF Return
<1>3. Id(t) \in Ids
  BY QueueAssumption DEF Id, Ids
<1>4. QED
  BY <1>1, <1>2, <1>3 DEF Return

-----------------------------------------------------------------------------
(* The invariant holds initially.                                          *)

LEMMA QInvInit == Init => QInv
<1> SUFFICES ASSUME Init PROVE QInv
  OBVIOUS
<1> USE QueueAssumption DEF Init
<1>1. TypeOK
  <2>1. Outside \in Call /\ NoOp \in Op
    BY DEF Op, NoOp, QueueOp, Call, Outside, CallKinds, Submissions
  <2>2. ch \in Seq(Op) /\ Len(ch) <= Capacity
    OBVIOUS
  <2>3. call \in [Threads -> Call] /\ count \in [Threads -> 0..MaxCalls]
    BY <2>1
  <2>4. worker \in [at: {"receive", "compare", "run", "clear", "gone"}, op: Op]
    BY <2>1
  <2>5. epoch \in Nat /\ barrier \in 0..epoch /\ applied \subseteq Nat
    OBVIOUS
  <2>6. receipt \in [Threads -> {"none", "executed", "rejected"}]
    OBVIOUS
  <2>7. QED
    BY <2>2, <2>3, <2>4, <2>5, <2>6 DEF TypeOK
<1>2. \A t \in Threads : call[t].at = "out"
  BY DEF Outside
<1>3. LifeInv
  BY <1>2 DEF LifeInv, Senders, At, Holding
<1>4. QueuedInv /\ HeldInv /\ HistoryInv
  BY DEF QueuedInv, HeldInv, HistoryInv, Holding, Pending
<1>5. CallInv
  BY <1>2 DEF CallInv, CallOK, At
<1>6. QED
  BY <1>1, <1>3, <1>4, <1>5 DEF QInv

\* A step that changes nothing keeps it.
LEMMA QInvStutter == QInv /\ UNCHANGED vars => QInv'
<1> SUFFICES ASSUME QInv, UNCHANGED vars PROVE QInv'
  OBVIOUS
<1>1. TypeOK' /\ LifeInv'
  BY DEF QInv, vars, TypeOK, LifeInv, Senders, At, Holding
<1>2. \A id : Pending(id)' <=> Pending(id)
  BY DEF Pending, vars
<1>3. \A id : Made(id)' <=> Made(id)
  BY DEF Made, vars
<1>4. QueuedInv' /\ HeldInv' /\ HistoryInv' /\ CallInv'
  BY <1>2, <1>3 DEF QInv, vars, QueuedInv, HeldInv, HistoryInv, CallInv, CallOK, Holding, At, Id
<1>5. QED
  BY <1>1, <1>4 DEF QInv

-----------------------------------------------------------------------------
(* Steps of a caller that move only that caller.                           *)

\* One thread has moved to a place where it holds nothing, and has refused at
\* most its own call, of which the device knows nothing.
Quiet(t) ==
  /\ UNCHANGED <<channel, state, applied, courier, finisher, worker, innerClosed, began,
                 count, receipt>>
  /\ call' \in [Threads -> Call] /\ expired' \subseteq Ids
  /\ \A u \in Threads : u # t => call'[u] = call[u]
  /\ \/ refused' = refused
     \/ /\ refused' = refused \cup {Id(t)} /\ call'[t].at = "out"
        /\ ~At(t, "out") /\ Id(t) \notin began /\ ~Pending(Id(t))

LEMMA QuietStep ==
  ASSUME QInv, NEW t \in Threads, Quiet(t), ~At(t, "out"),
         \/ call'[t].at = "out"
         \/ call'[t].at = "enter" /\ At(t, "barrier") /\ call'[t].kind = call[t].kind
         \/ call'[t].at = "barrier" /\ At(t, "enter") /\ call'[t].kind = call[t].kind
            /\ call[t].kind \in Submissions \cup {"reset"}
         \/ call'[t].at = "await" /\ call'[t].kind = call[t].kind /\ At(t, "enter")
  PROVE  QInv'
<1> USE QueueAssumption
<1>1. \A id : Pending(id)' <=> Pending(id)
  BY DEF Pending, Quiet, channel
<1>2. Id(t) \in Ids /\ Id(t)[1] = t /\ Id(t)[2] = count[t]
  BY DEF Id, Ids, QInv, CallInv, CallOK, TypeOK
<1>3. TypeOK'
  BY <1>2 DEF QInv, TypeOK, Quiet, channel, state
<1>4. Senders' \subseteq Senders
  BY DEF Senders, At, Quiet
<1>5. LifeInv'
  BY <1>4 DEF QInv, LifeInv, Quiet, channel, state, Holding
<1>6. QueuedInv' /\ HeldInv' /\ HistoryInv'
  <2>1. \A id : Made(id)' <=> Made(id)
    BY DEF Made, Quiet
  <2>2. Made(Id(t))
    BY <1>2 DEF Made, QInv, TypeOK
  <2>3. QueuedInv' /\ HeldInv'
    BY <2>1 DEF QInv, QueuedInv, HeldInv, Quiet, channel, Holding
  <2>4. HistoryInv'
    BY <1>1, <2>1, <2>2 DEF QInv, HistoryInv, Quiet
  <2>5. QED
    BY <2>3, <2>4
<1>7. CallInv'
  <2> SUFFICES ASSUME NEW u \in Threads PROVE CallOK(u)'
    BY DEF CallInv
  <2>1. /\ Id(u)' = Id(u) /\ receipt'[u] = receipt[u] /\ began' = began /\ count'[u] = count[u]
        /\ CallOK(u) /\ CallOK(t)
    BY DEF Id, Quiet, QInv, CallInv
  <2>2. u # t => Id(u) # Id(t)
    BY DEF Id
  <2>3. CASE u = t
    BY <1>1, <2>1, <2>3 DEF CallOK, At, Quiet
  <2>4. CASE u # t
    BY <1>1, <2>1, <2>2, <2>4 DEF CallOK, At, Quiet
  <2>5. QED
    BY <2>3, <2>4
<1>8. QED
  BY <1>3, <1>5, <1>6, <1>7 DEF QInv

\* A return is such a step.
LEMMA ReturnStep ==
  ASSUME QInv, NEW t \in Threads, NEW r, ~At(t, "out"), Return(t, r),
         r = "rejected" => Id(t) \notin began /\ ~Pending(Id(t)),
         UNCHANGED <<channel, state, applied, courier, finisher, worker, innerClosed, began>>
  PROVE  QInv'
<1>1. count[t] >= 1
  BY DEF QInv, CallInv, CallOK
<1>2. Quiet(t) /\ call'[t].at = "out"
  BY <1>1, ReturnEffect DEF QInv, TypeOK, Quiet
<1>3. QED
  BY <1>2, QuietStep

LEMMA AnswersStep ==
  ASSUME QInv, NEW t \in Threads,
         Withdraw(t) \/ Answer(t) \/ ResetReturn(t) \/ CloseReturn(t)
  PROVE  QInv'
<1>1. CallOK(t)
  BY DEF QInv, CallInv
<1>2. CASE Withdraw(t)
  BY <1>1, <1>2, ReturnStep DEF Withdraw, CallOK, At
<1>3. CASE Answer(t)
  BY <1>1, <1>3, ReturnStep DEF Answer, CallOK, At
<1>4. CASE ResetReturn(t)
  BY <1>1, <1>4, ReturnStep DEF ResetReturn, CallOK, At
<1>5. CASE CloseReturn(t)
  BY <1>1, <1>5, ReturnStep DEF CloseReturn, CallOK, At
<1>6. QED
  BY <1>2, <1>3, <1>4, <1>5

LEMMA BarrierLiftedStep ==
  ASSUME QInv, NEW t \in Threads, BarrierLifted(t)
  PROVE  QInv'
<1>1. /\ call' \in [Threads -> Call]
      /\ \A u \in Threads : u # t => call'[u] = call[u]
      /\ call'[t].at = "enter" /\ call'[t].kind = call[t].kind
  BY MoveEffect DEF BarrierLifted, QInv, TypeOK, Places
<1>2. Quiet(t)
  BY <1>1 DEF Quiet, BarrierLifted, QInv, TypeOK
<1>3. QED
  BY <1>1, <1>2, QuietStep DEF BarrierLifted, At

\* Submit and Reset find a barrier, and wait for it.
LEMMA BarrierStep ==
  ASSUME QInv, NEW t \in Threads, At(t, "enter"), call[t].kind \in Submissions \cup {"reset"},
         WaitFor(t, "barrier", barrier),
         UNCHANGED <<channel, state, applied, courier, finisher, worker, innerClosed, began,
                     count, receipt, expired, refused>>
  PROVE  QInv'
<1>1. /\ call' \in [Threads -> Call]
      /\ \A u \in Threads : u # t => call'[u] = call[u]
      /\ call'[t].at = "barrier" /\ call'[t].kind = call[t].kind
  <2>1. barrier \in Nat /\ call \in [Threads -> Call]
    BY DEF QInv, TypeOK
  <2>2. QED
    BY <2>1, WaitForEffect DEF Places
<1>2. Quiet(t)
  BY <1>1 DEF Quiet, QInv, TypeOK
<1>3. QED
  BY <1>1, <1>2, QuietStep DEF At

-----------------------------------------------------------------------------
(* Steps that move no operation.                                           *)

\* Where the operations are, and what is recorded of them, stays as it is.
LEMMA OperationsKept ==
  ASSUME QInv, UNCHANGED <<ch, worker, began, refused, count>>
  PROVE  /\ QueuedInv' /\ HeldInv' /\ HistoryInv'
         /\ \A id : Pending(id)' <=> Pending(id)
<1>1. \A id : Pending(id)' <=> Pending(id)
  BY DEF Pending
<1>2. \A id : Made(id)' <=> Made(id)
  BY DEF Made
<1>3. QED
  BY <1>1, <1>2 DEF QInv, QueuedInv, HeldInv, HistoryInv, Holding

\* The callers' part of the invariant, when no caller moves.
LEMMA CallersKept ==
  ASSUME QInv, UNCHANGED <<call, count, receipt, began, refused>>,
         \A id : Pending(id)' <=> Pending(id)
  PROVE  CallInv'
<1> SUFFICES ASSUME NEW u \in Threads PROVE CallOK(u)'
  BY DEF CallInv
<1>1. CallOK(u)
  BY DEF QInv, CallInv
<1>2. QED
  BY <1>1 DEF CallOK, At, Id

LEMMA ExpireStep ==
  ASSUME QInv, NEW t \in Threads, Expire(t)
  PROVE  QInv'
<1> USE QueueAssumption DEF Expire, channel, state
<1>1. Id(t) \in Ids
  BY DEF QInv, CallInv, CallOK, TypeOK, Id, Ids
<1>2. TypeOK'
  BY <1>1 DEF QInv, TypeOK
<1>3. LifeInv'
  BY DEF QInv, LifeInv, Senders, At, Holding
<1>4. QED
  BY <1>2, <1>3, OperationsKept, CallersKept DEF QInv

\* Submit admits an operation: the caller is a sender from now on.
LEMMA AdmitStep ==
  ASSUME QInv, NEW t \in Threads, At(t, "enter"), call[t].kind \in Submissions, ~closed,
         WaitFor(t, "send", epoch),
         UNCHANGED <<channel, state, applied, courier, finisher, worker, innerClosed, began,
                     count, receipt, expired, refused>>
  PROVE  QInv'
<1> USE QueueAssumption DEF channel, state
<1>1. /\ call' \in [Threads -> Call]
      /\ \A u \in Threads : u # t => call'[u] = call[u]
      /\ call'[t].at = "send" /\ call'[t].kind = call[t].kind
  <2>1. epoch \in Nat /\ call \in [Threads -> Call]
    BY DEF QInv, TypeOK
  <2>2. QED
    BY <2>1, WaitForEffect DEF Places
<1>2. TypeOK'
  BY <1>1 DEF QInv, TypeOK
<1>3. LifeInv'
  BY DEF QInv, LifeInv, Holding, TypeOK
<1>4. CallInv'
  <2> SUFFICES ASSUME NEW u \in Threads PROVE CallOK(u)'
    BY DEF CallInv
  <2>1. CallOK(u)
    BY DEF QInv, CallInv
  <2>2. QED
    BY <1>1, <2>1, OperationsKept DEF CallOK, At, Id
<1>5. QED
  BY <1>2, <1>3, <1>4, OperationsKept DEF QInv

LEMMA SubmitStep ==
  ASSUME QInv, NEW t \in Threads, Submit(t)
  PROVE  QInv'
<1>1. CallOK(t)
  BY DEF QInv, CallInv
<1>2. CASE closed /\ Return(t, "rejected")
  BY <1>1, <1>2, ReturnStep DEF Submit, CallOK, At
<1>3. CASE WaitFor(t, "barrier", barrier) /\ UNCHANGED <<count, receipt, expired, refused>>
  BY <1>3, BarrierStep DEF Submit
<1>4. CASE ~closed /\ WaitFor(t, "send", epoch) /\ UNCHANGED <<count, receipt, expired, refused>>
  BY <1>4, AdmitStep DEF Submit
<1>5. QED
  BY <1>2, <1>3, <1>4 DEF Submit

\* A reset is published: a courier is a sender from now on.
LEMMA PublishStep ==
  ASSUME QInv, NEW t \in Threads, At(t, "enter"), call[t].kind = "reset", ~closed,
         epoch' = epoch + 1, barrier' = epoch + 1, courier' = "lock",
         WaitFor(t, "await", epoch + 1),
         UNCHANGED <<channel, closed, applied, finisher, worker, innerClosed, began,
                     count, receipt, expired, refused>>
  PROVE  QInv'
<1> USE QueueAssumption DEF channel
<1>1. /\ call' \in [Threads -> Call]
      /\ \A u \in Threads : u # t => call'[u] = call[u]
      /\ call'[t].at = "await" /\ call'[t].kind = call[t].kind
  <2>1. epoch + 1 \in Nat /\ call \in [Threads -> Call]
    BY DEF QInv, TypeOK
  <2>2. QED
    BY <2>1, WaitForEffect DEF Places
<1>2. TypeOK'
  <2>1. barrier' \in 0..epoch' /\ applied' \subseteq Nat /\ epoch' \in Nat
    BY DEF QInv, TypeOK
  <2>2. QED
    BY <1>1, <2>1 DEF QInv, TypeOK
<1>3. LifeInv'
  BY DEF QInv, LifeInv, Holding, TypeOK
<1>4. CallInv'
  <2> SUFFICES ASSUME NEW u \in Threads PROVE CallOK(u)'
    BY DEF CallInv
  <2>1. CallOK(u)
    BY DEF QInv, CallInv
  <2>2. QED
    BY <1>1, <2>1, OperationsKept DEF CallOK, At, Id
<1>5. QED
  BY <1>2, <1>3, <1>4, OperationsKept DEF QInv

LEMMA ResetStep ==
  ASSUME QInv, NEW t \in Threads, Reset(t)
  PROVE  QInv'
<1>1. CASE closed /\ Return(t, "ok") /\ UNCHANGED <<state, courier>>
  BY <1>1, ReturnStep DEF Reset, At
<1>2. CASE WaitFor(t, "barrier", barrier)
           /\ UNCHANGED <<count, receipt, expired, refused, state, courier>>
  BY <1>2, BarrierStep DEF Reset
<1>3. CASE /\ ~closed /\ barrier = 0
           /\ epoch' = epoch + 1 /\ barrier' = epoch + 1 /\ courier' = "lock"
           /\ WaitFor(t, "await", epoch + 1)
           /\ UNCHANGED <<count, receipt, expired, refused, closed>>
  BY <1>3, PublishStep DEF Reset
<1>4. QED
  BY <1>1, <1>2, <1>3 DEF Reset

\* The first close ends admission, and starts the finisher.
LEMMA CloseStep ==
  ASSUME QInv, NEW t \in Threads, Close(t)
  PROVE  QInv'
<1> USE QueueAssumption DEF Close, channel
<1>1. /\ call' \in [Threads -> Call]
      /\ \A u \in Threads : u # t => call'[u] = call[u]
      /\ call'[t].at = "await" /\ call'[t].kind = call[t].kind
  BY MoveEffect DEF QInv, TypeOK, Places
<1>2. TypeOK'
  <2>1. barrier' \in 0..epoch' /\ applied' \subseteq Nat /\ epoch' \in Nat
    BY DEF QInv, TypeOK
  <2>2. closed' \in BOOLEAN
        /\ finisher' \in {"none", "senders", "offer", "closing", "exit", "done"}
    BY DEF QInv, TypeOK
  <2>3. QED
    BY <1>1, <2>1, <2>2 DEF QInv, TypeOK
<1>3. LifeInv'
  <2>1. Senders' \subseteq Senders
    BY <1>1 DEF Senders, At
  <2>2. CASE closed
    BY <2>1, <2>2 DEF QInv, LifeInv, Holding
  <2>3. CASE ~closed
    BY <2>3 DEF QInv, LifeInv, Holding
  <2>4. QED
    BY <2>2, <2>3
<1>4. CallInv'
  <2> SUFFICES ASSUME NEW u \in Threads PROVE CallOK(u)'
    BY DEF CallInv
  <2>1. CallOK(u)
    BY DEF QInv, CallInv
  <2>2. QED
    BY <1>1, <2>1, OperationsKept DEF CallOK, At, Id
<1>5. QED
  BY <1>2, <1>3, <1>4, OperationsKept DEF QInv

LEMMA InvokeStep ==
  ASSUME QInv, NEW t \in Threads, NEW kind \in Uses, Invoke(t, kind)
  PROVE  QInv'
<1> USE QueueAssumption DEF Invoke, channel, state
<1>1. /\ call' \in [Threads -> Call]
      /\ \A u \in Threads : u # t => call'[u] = call[u]
      /\ call'[t].at = "enter"
  <2>1. [Outside EXCEPT !.kind = kind, !.at = "enter"] \in Call
        /\ [Outside EXCEPT !.kind = kind, !.at = "enter"].at = "enter"
    BY DEF Outside, Call
  <2>2. QED
    BY <2>1 DEF QInv, TypeOK
<1>2. /\ count' \in [Threads -> 0..MaxCalls]
      /\ count'[t] = count[t] + 1
      /\ \A u \in Threads : u # t => count'[u] = count[u]
      /\ \A u \in Threads : count[u] \in Nat /\ count[u] <= count'[u]
  BY DEF QInv, TypeOK
<1>3. TypeOK'
  BY <1>1, <1>2 DEF QInv, TypeOK
<1>4. LifeInv'
  <2>1. Senders' \subseteq Senders
    BY <1>1 DEF Senders, At
  <2>2. QED
    BY <2>1 DEF QInv, LifeInv, Holding
<1>5. \A id : Made(id) => Made(id)'
  BY <1>2 DEF Made, Ids
<1>6. \A id : Pending(id)' <=> Pending(id)
  BY DEF Pending
<1>7. QueuedInv' /\ HeldInv' /\ HistoryInv'
  BY <1>5, <1>6 DEF QInv, QueuedInv, HeldInv, HistoryInv, Holding
<1>8. \A id : Pending(id) => Made(id)
  BY DEF QInv, QueuedInv, HeldInv, Pending, Holding
<1>9. CallInv'
  <2> SUFFICES ASSUME NEW u \in Threads PROVE CallOK(u)'
    BY DEF CallInv
  <2>1. CallOK(u)
    BY DEF QInv, CallInv
  <2>2. CASE u = t
    <3>1. \A id : id = Id(t)' => ~Made(id)
      BY <1>2 DEF Made, Id
    <3>2. \A id : id = Id(t)' => id \notin began /\ id \notin refused /\ ~Pending(id)
      BY <1>8, <3>1 DEF QInv, HistoryInv
    <3>3. receipt'[t] = "none"
      BY DEF QInv, TypeOK
    <3>4. \A id : id = Id(t)' => ~Pending(id)'
      BY <1>6, <3>2
    <3>5. QED
      BY <1>1, <1>2, <2>2, <3>2, <3>3, <3>4 DEF CallOK, At
  <2>3. CASE u # t
    <3>1. receipt'[u] = receipt[u] /\ Id(u)' = Id(u)
      BY <1>2, <2>3 DEF Id, QInv, TypeOK
    <3>2. QED
      BY <1>1, <1>2, <1>6, <2>1, <2>3, <3>1 DEF CallOK, At
  <2>4. QED
    BY <2>2, <2>3
<1>10. QED
  BY <1>3, <1>4, <1>7, <1>9 DEF QInv

-----------------------------------------------------------------------------
(* Steps of the goroutines that are not callers.                           *)

LEMMA CourierLockStep == QInv /\ CourierLock => QInv'
<1> SUFFICES ASSUME QInv, CourierLock PROVE QInv'
  OBVIOUS
<1> USE QueueAssumption DEF CourierLock, channel, state, threads
<1>1. TypeOK'
  BY DEF QInv, TypeOK
<1>2. LifeInv'
  BY DEF QInv, LifeInv, Senders, At, Holding
<1>3. QED
  BY <1>1, <1>2, OperationsKept, CallersKept DEF QInv

LEMMA SendersGoneStep == QInv /\ SendersGone => QInv'
<1> SUFFICES ASSUME QInv, SendersGone PROVE QInv'
  OBVIOUS
<1> USE QueueAssumption DEF SendersGone, channel, state, threads
<1>1. TypeOK'
  BY DEF QInv, TypeOK
<1>2. LifeInv'
  BY DEF QInv, LifeInv, Senders, At, Holding
<1>3. QED
  BY <1>1, <1>2, OperationsKept, CallersKept DEF QInv

LEMMA CloseChannelStep == QInv /\ CloseChannel => QInv'
<1> SUFFICES ASSUME QInv, CloseChannel PROVE QInv'
  OBVIOUS
<1> USE QueueAssumption DEF CloseChannel, channel, state, threads
<1>1. TypeOK'
  BY DEF QInv, TypeOK
<1>2. LifeInv'
  BY DEF QInv, LifeInv, Senders, At, Holding
<1>3. QED
  BY <1>1, <1>2, OperationsKept, CallersKept DEF QInv

LEMMA CloseDoneStep == QInv /\ CloseDone => QInv'
<1> SUFFICES ASSUME QInv, CloseDone PROVE QInv'
  OBVIOUS
<1> USE QueueAssumption DEF CloseDone, channel, state, threads
<1>1. TypeOK'
  BY DEF QInv, TypeOK
<1>2. LifeInv'
  BY DEF QInv, LifeInv, Senders, At, Holding
<1>3. QED
  BY <1>1, <1>2, OperationsKept, CallersKept DEF QInv

\* The queue's own operation goes to the end of the channel.
LEMMA OwnOperation ==
  ASSUME QInv, NEW op \in Op, ~Sub(op), ch' = Append(ch, op),
         UNCHANGED <<worker, began, refused, count, call, receipt>>
  PROVE  /\ QueuedInv' /\ HeldInv' /\ HistoryInv' /\ CallInv'
         /\ ch' \in Seq(Op) /\ Len(ch') = Len(ch) + 1 /\ ch'[Len(ch) + 1] = op
         /\ \A i \in 1..Len(ch) : ch'[i] = ch[i]
<1>1. /\ ch' \in Seq(Op) /\ Len(ch') = Len(ch) + 1 /\ ch'[Len(ch) + 1] = op
      /\ \A i \in 1..Len(ch) : ch'[i] = ch[i]
      /\ Len(ch) \in Nat
  BY DEF QInv, TypeOK
<1>2. \A i \in 1..Len(ch') : Sub(ch'[i]) => i \in 1..Len(ch)
  BY <1>1
<1>3. \A id : Pending(id)' <=> Pending(id)
  BY <1>1, <1>2 DEF Pending, Sub
<1>4. \A id : Made(id)' <=> Made(id)
  BY DEF Made
<1>5. QueuedInv' /\ HeldInv'
  BY <1>1, <1>2, <1>4 DEF QInv, QueuedInv, HeldInv, Holding, Sub
<1>6. HistoryInv'
  BY <1>3, <1>4 DEF QInv, HistoryInv
<1>7. QED
  BY <1>1, <1>3, <1>5, <1>6, CallersKept

LEMMA CourierSendStep == QInv /\ CourierSend => QInv'
<1> SUFFICES ASSUME QInv, CourierSend PROVE QInv'
  OBVIOUS
<1> USE QueueAssumption DEF CourierSend, state, threads
<1>1. QueueOp("reset", barrier) \in Op /\ ~Sub(QueueOp("reset", barrier))
      /\ QueueOp("reset", barrier).kind = "reset"
  BY DEF QueueOp, Op, Sub, Submissions, QInv, TypeOK
<1>2. /\ QueuedInv' /\ HeldInv' /\ HistoryInv' /\ CallInv'
      /\ ch' \in Seq(Op) /\ Len(ch') = Len(ch) + 1
      /\ ch'[Len(ch) + 1] = QueueOp("reset", barrier)
      /\ \A i \in 1..Len(ch) : ch'[i] = ch[i]
  BY <1>1, OwnOperation
<1>3. Len(ch) \in Nat
  BY DEF QInv, TypeOK
<1>4. TypeOK'
  BY <1>2, <1>3 DEF QInv, TypeOK, Room
<1>5. finisher \in {"none", "senders"}
  BY DEF QInv, LifeInv, Senders, TypeOK
<1>6. Senders' \subseteq Senders
  BY DEF Senders, At
<1>7. LifeInv'
  BY <1>1, <1>2, <1>3, <1>5, <1>6 DEF QInv, LifeInv, Holding
<1>8. QED
  BY <1>2, <1>4, <1>7 DEF QInv

LEMMA OfferCloseStep == QInv /\ OfferClose => QInv'
<1> SUFFICES ASSUME QInv, OfferClose PROVE QInv'
  OBVIOUS
<1> USE QueueAssumption DEF OfferClose, state, threads
<1>1. QueueOp("close", epoch) \in Op /\ ~Sub(QueueOp("close", epoch))
      /\ QueueOp("close", epoch).kind = "close"
  BY DEF QueueOp, Op, Sub, Submissions, QInv, TypeOK
<1>2. /\ QueuedInv' /\ HeldInv' /\ HistoryInv' /\ CallInv'
      /\ ch' \in Seq(Op) /\ Len(ch') = Len(ch) + 1
      /\ ch'[Len(ch) + 1] = QueueOp("close", epoch)
      /\ \A i \in 1..Len(ch) : ch'[i] = ch[i]
  BY <1>1, OwnOperation
<1>3. Len(ch) \in Nat
  BY DEF QInv, TypeOK
<1>4. TypeOK'
  BY <1>2, <1>3 DEF QInv, TypeOK, Room
<1>5. Senders' = Senders
  BY DEF Senders, At
<1>6. ch' # <<>> /\ ch'[Len(ch')].kind = "close"
      /\ \A i \in 1..(Len(ch') - 1) : ch'[i].kind # "close"
  BY <1>1, <1>2, <1>3 DEF QInv, LifeInv
<1>7. LifeInv'
  BY <1>5, <1>6 DEF QInv, LifeInv, Holding
<1>8. QED
  BY <1>2, <1>4, <1>7 DEF QInv

\* An operation goes from its caller to the end of the channel.
LEMMA SendStep ==
  ASSUME QInv, NEW t \in Threads, Send(t)
  PROVE  QInv'
<1> DEFINE op == [kind |-> call[t].kind, id |-> Id(t), epoch |-> call[t].epoch]
<1> USE QueueAssumption
<1>1. /\ CallOK(t) /\ At(t, "send") /\ Id(t) \in Ids /\ Made(Id(t)) /\ count[t] >= 1
      /\ Id(t)[1] = t /\ Id(t)[2] = count[t]
  BY DEF QInv, CallInv, CallOK, TypeOK, Send, At, Id, Ids, Made
<1>2. op \in Op /\ Sub(op) /\ op.id = Id(t) /\ op.kind # "close"
  BY <1>1 DEF QInv, TypeOK, CallOK, Op, Call, Sub, Submissions
<1>3. /\ ch' \in Seq(Op) /\ Len(ch') = Len(ch) + 1 /\ ch'[Len(ch) + 1] = op
      /\ \A i \in 1..Len(ch) : ch'[i] = ch[i]
      /\ Len(ch) \in Nat
  <2>1. ch' = Append(ch, op)
    BY DEF Send
  <2>2. QED
    BY <1>2, <2>1 DEF QInv, TypeOK
<1>4. /\ call' \in [Threads -> Call] /\ refused' = refused /\ expired' \subseteq Ids
      /\ \A u \in Threads : u # t => call'[u] = call[u]
      /\ call'[t].at \in {"out", "await"}
      /\ count' = count /\ receipt' = receipt
  <2>1. CASE call[t].kind = "action"
    BY <2>1, MoveEffect DEF Send, QInv, TypeOK, Places
  <2>2. CASE call[t].kind # "action"
    BY <1>1, <2>2, ReturnEffect DEF Send, QInv, TypeOK
  <2>3. QED
    BY <2>1, <2>2
<1>5. UNCHANGED <<chClosed, state, applied, courier, finisher, worker, innerClosed, began>>
  BY DEF Send
<1>6. TypeOK'
  BY <1>3, <1>4, <1>5 DEF QInv, TypeOK, Send, Room, state
<1>7. finisher \in {"none", "senders"}
  BY <1>1 DEF QInv, LifeInv, Senders, TypeOK
<1>8. LifeInv'
  <2>1. Senders' \subseteq Senders
    BY <1>4, <1>5 DEF Senders, At
  <2>2. \A i \in 1..Len(ch') : ch'[i].kind # "close"
    BY <1>2, <1>3, <1>7 DEF QInv, LifeInv
  <2>3. QED
    BY <1>5, <1>7, <2>2 DEF QInv, LifeInv, Holding, state
<1>9. \A id : Pending(id)' <=> Pending(id) \/ id = Id(t)
  BY <1>2, <1>3, <1>5 DEF Pending, Sub
<1>10. \A id : Made(id)' <=> Made(id)
  BY <1>4 DEF Made
<1>11. \A i \in 1..Len(ch) : Sub(ch[i]) => ch[i].id # Id(t)
  BY <1>1 DEF CallOK, Pending, At
<1>12. QueuedInv'
  <2>1. \A i \in 1..Len(ch') : Sub(ch'[i]) => Made(ch'[i].id)
    BY <1>1, <1>2, <1>3 DEF QInv, QueuedInv, Sub
  <2>2. \A i, j \in 1..Len(ch') :
          i # j /\ Sub(ch'[i]) /\ Sub(ch'[j]) => ch'[i].id # ch'[j].id
    BY <1>2, <1>3, <1>11 DEF QInv, QueuedInv, Sub
  <2>3. QED
    BY <1>10, <2>1, <2>2 DEF QueuedInv, Sub
<1>13. HeldInv'
  <2> SUFFICES ASSUME Holding, Sub(worker.op)
               PROVE  /\ Made(worker.op.id)
                      /\ \A i \in 1..Len(ch') : Sub(ch'[i]) => ch'[i].id # worker.op.id
                      /\ worker.at = "run" => worker.op.id \in began
    BY <1>5, <1>10 DEF HeldInv, Holding, Sub
  <2>1. worker.op.id # Id(t)
    <3>1. CASE worker.at = "compare"
      BY <1>1, <3>1 DEF CallOK, Pending, At
    <3>2. CASE worker.at = "run"
      BY <1>1, <3>2 DEF CallOK, QInv, HeldInv, At
    <3>3. QED
      BY <3>1, <3>2 DEF Holding
  <2>2. QED
    BY <1>2, <1>3, <2>1 DEF QInv, HeldInv, Sub
<1>14. HistoryInv'
  BY <1>1, <1>4, <1>5, <1>9, <1>10 DEF QInv, HistoryInv, CallOK, At
<1>15. CallInv'
  <2> SUFFICES ASSUME NEW u \in Threads PROVE CallOK(u)'
    BY DEF CallInv
  <2>1. CallOK(u) /\ Id(u)' = Id(u) /\ receipt'[u] = receipt[u] /\ (u # t => Id(u) # Id(t))
    BY <1>4 DEF QInv, CallInv, Id
  <2>2. CASE u = t
    BY <1>1, <1>4, <1>5, <2>1, <2>2 DEF CallOK, At
  <2>3. CASE u # t
    BY <1>4, <1>5, <1>9, <2>1, <2>3 DEF CallOK, At
  <2>4. QED
    BY <2>2, <2>3
<1>16. QED
  BY <1>6, <1>8, <1>12, <1>13, <1>14, <1>15 DEF QInv

-----------------------------------------------------------------------------
(* Steps of the worker.                                                    *)

LEMMA ReceiveStep == QInv /\ Receive => QInv'
<1> SUFFICES ASSUME QInv, Receive PROVE QInv'
  OBVIOUS
<1> USE QueueAssumption
<1>1. /\ ch # <<>> /\ ch \in Seq(Op) /\ ch' \in Seq(Op)
      /\ Len(ch) \in Nat \ {0} /\ Len(ch') = Len(ch) - 1
      /\ \A i \in 1..Len(ch') : ch'[i] = ch[i + 1]
      /\ ch[1] \in Op
  BY DEF Receive, QInv, TypeOK
<1>2. /\ worker.at = "receive" /\ worker'.at = "compare" /\ worker'.op = ch[1]
      /\ worker' \in [at: {"receive", "compare", "run", "clear", "gone"}, op: Op]
  BY <1>1 DEF Receive
<1>3. UNCHANGED <<chClosed, state, applied, courier, finisher, innerClosed, threads, began>>
  BY DEF Receive
<1>4. TypeOK'
  BY <1>1, <1>2, <1>3 DEF QInv, TypeOK, state, threads
<1>5. LifeInv'
  <2>1. Senders' = Senders
    BY <1>3 DEF Senders, At, threads
  <2>2. CASE finisher \in {"none", "senders", "offer"}
    <3>1. \A i \in 1..Len(ch') : ch'[i].kind # "close"
      BY <1>1, <2>2 DEF QInv, LifeInv
    <3>2. worker'.op.kind # "close"
      BY <1>1, <1>2, <2>2 DEF QInv, LifeInv
    <3>3. QED
      BY <1>2, <1>3, <2>1, <2>2, <3>1, <3>2 DEF QInv, LifeInv, Holding, state
  <2>3. CASE finisher = "closing"
    <3>1. ~innerClosed /\ ch[Len(ch)].kind = "close"
          /\ \A i \in 1..(Len(ch) - 1) : ch[i].kind # "close"
      BY <1>1, <1>2, <2>3 DEF QInv, LifeInv, Holding
    <3>2. CASE Len(ch) = 1
      <4>1. ch' = <<>> /\ worker'.op.kind = "close"
        BY <1>1, <1>2, <3>1, <3>2
      <4>2. QED
        BY <1>2, <1>3, <2>1, <2>3, <3>1, <4>1 DEF QInv, LifeInv, Holding, state
    <3>3. CASE Len(ch) # 1
      <4>1. ch' # <<>> /\ ch'[Len(ch')].kind = "close" /\ worker'.op.kind # "close"
            /\ \A i \in 1..(Len(ch') - 1) : ch'[i].kind # "close"
        <5>1. Len(ch') \in 1..Len(ch') /\ ch'[Len(ch')] = ch[Len(ch)] /\ 1 \in 1..(Len(ch) - 1)
          BY <1>1, <3>3
        <5>2. \A i \in 1..(Len(ch') - 1) : i + 1 \in 1..(Len(ch) - 1) /\ ch'[i] = ch[i + 1]
          BY <1>1
        <5>3. QED
          BY <1>2, <3>1, <5>1, <5>2
      <4>2. QED
        BY <1>2, <1>3, <2>1, <2>3, <3>1, <4>1 DEF QInv, LifeInv, Holding, state
    <3>4. QED
      BY <3>2, <3>3
  <2>4. CASE finisher \in {"exit", "done"}
    BY <1>1, <2>4 DEF QInv, LifeInv
  <2>5. QED
    BY <2>2, <2>3, <2>4 DEF QInv, TypeOK
<1>6. \A id : Pending(id)' <=> Pending(id)
  <2> SUFFICES ASSUME NEW id PROVE Pending(id)' <=> Pending(id)
    OBVIOUS
  <2>1. (\E i \in 1..Len(ch) : Sub(ch[i]) /\ ch[i].id = id)
        <=> \/ Sub(ch[1]) /\ ch[1].id = id
            \/ \E i \in 1..Len(ch') : Sub(ch'[i]) /\ ch'[i].id = id
    <3>1. ASSUME NEW i \in 1..Len(ch), Sub(ch[i]), ch[i].id = id, i # 1
          PROVE  \E j \in 1..Len(ch') : Sub(ch'[j]) /\ ch'[j].id = id
      <4>1. i - 1 \in 1..Len(ch') /\ ch'[i - 1] = ch[i]
        BY <1>1, <3>1
      <4>2. QED
        BY <3>1, <4>1
    <3>2. ASSUME NEW j \in 1..Len(ch'), Sub(ch'[j]), ch'[j].id = id
          PROVE  \E i \in 1..Len(ch) : Sub(ch[i]) /\ ch[i].id = id
      <4>1. j + 1 \in 1..Len(ch) /\ ch'[j] = ch[j + 1]
        BY <1>1, <3>2
      <4>2. QED
        BY <3>2, <4>1
    <3>3. 1 \in 1..Len(ch)
      BY <1>1
    <3>4. QED
      BY <3>1, <3>2, <3>3
  <2>2. Pending(id)' <=> \/ Sub(ch[1]) /\ ch[1].id = id
                        \/ \E i \in 1..Len(ch') : Sub(ch'[i]) /\ ch'[i].id = id
    BY <1>2 DEF Pending, Sub
  <2>3. Pending(id) <=> \E i \in 1..Len(ch) : Sub(ch[i]) /\ ch[i].id = id
    BY <1>2 DEF Pending
  <2>4. QED
    BY <2>1, <2>2, <2>3
<1>7. \A id : Made(id)' <=> Made(id)
  BY <1>3 DEF Made, threads
<1>8. QueuedInv'
  <2>1. \A i \in 1..Len(ch') : i + 1 \in 1..Len(ch) /\ ch'[i] = ch[i + 1]
    BY <1>1
  <2>2. \A i \in 1..Len(ch') : Sub(ch'[i]) => Made(ch'[i].id)
    BY <2>1 DEF QInv, QueuedInv
  <2>3. ASSUME NEW i \in 1..Len(ch'), NEW j \in 1..Len(ch'), i # j, Sub(ch'[i]), Sub(ch'[j])
        PROVE  ch'[i].id # ch'[j].id
    <3>1. i + 1 # j + 1
      BY <2>3
    <3>2. QED
      BY <2>1, <2>3, <3>1 DEF QInv, QueuedInv
  <2>4. QED
    BY <1>7, <2>2, <2>3 DEF QueuedInv, Sub
<1>9. HeldInv'
  <2>1. \A i \in 1..Len(ch') : i + 1 \in 1..Len(ch) /\ ch'[i] = ch[i + 1] /\ i + 1 # 1
    BY <1>1
  <2>2. 1 \in 1..Len(ch)
    BY <1>1
  <2>3. QED
    BY <1>2, <1>7, <2>1, <2>2 DEF QInv, QueuedInv, HeldInv, Holding, Sub
<1>10. HistoryInv'
  BY <1>3, <1>6, <1>7 DEF QInv, HistoryInv, threads
<1>11. CallInv'
  BY <1>3, <1>6, CallersKept DEF threads
<1>12. QED
  BY <1>4, <1>5, <1>8, <1>9, <1>10, <1>11 DEF QInv

\* The worker waits for the next operation again, or has gone.
LEMMA ExitStep == QInv /\ Exit => QInv'
<1> SUFFICES ASSUME QInv, Exit PROVE QInv'
  OBVIOUS
<1> USE QueueAssumption DEF Exit, channel, state, threads
<1>1. TypeOK'
  BY DEF QInv, TypeOK
<1>2. worker.at = "receive" /\ worker'.at = "gone" /\ worker'.op = worker.op
  BY DEF QInv, TypeOK
<1>3. LifeInv'
  BY <1>2 DEF QInv, LifeInv, Senders, At, Holding
<1>4. (\A id : Pending(id)' <=> Pending(id)) /\ (\A id : Made(id)' <=> Made(id))
  BY <1>2 DEF Pending, Made
<1>5. QueuedInv' /\ HeldInv' /\ HistoryInv'
  BY <1>2, <1>4 DEF QInv, QueuedInv, HeldInv, HistoryInv, Holding
<1>6. QED
  BY <1>1, <1>3, <1>4, <1>5, CallersKept DEF QInv

LEMMA ClearBarrierStep == QInv /\ ClearBarrier => QInv'
<1> SUFFICES ASSUME QInv, ClearBarrier PROVE QInv'
  OBVIOUS
<1> USE QueueAssumption DEF ClearBarrier, channel, threads
<1>1. /\ worker.at = "clear" /\ worker'.at = "receive"
      /\ worker' \in [at: {"receive", "compare", "run", "clear", "gone"}, op: Op]
  BY DEF NoOp, QueueOp, Op
<1>2. TypeOK'
  BY <1>1 DEF QInv, TypeOK
<1>3. LifeInv'
  BY <1>1 DEF QInv, LifeInv, Senders, At, Holding
<1>4. (\A id : Pending(id)' <=> Pending(id)) /\ (\A id : Made(id)' <=> Made(id))
  BY <1>1 DEF Pending, Made
<1>5. QueuedInv' /\ HeldInv' /\ HistoryInv'
  BY <1>1, <1>4 DEF QInv, QueuedInv, HeldInv, HistoryInv, Holding
<1>6. QED
  BY <1>2, <1>3, <1>4, <1>5, CallersKept DEF QInv

\* A receipt goes to the one call its operation belongs to.
LEMMA ReceiptEffect ==
  ASSUME receipt \in [Threads -> {"none", "executed", "rejected"}],
         NEW op, NEW r \in {"executed", "rejected"}, Receipt(op, r)
  PROVE  /\ receipt' \in [Threads -> {"none", "executed", "rejected"}]
         /\ \A t \in Threads : \/ receipt'[t] = receipt[t]
                              \/ /\ op.kind = "action" /\ op.id = Id(t)
                                 /\ receipt'[t] = r
BY DEF Receipt

LEMMA DiscardStep == QInv /\ Discard => QInv'
<1> SUFFICES ASSUME QInv, Discard PROVE QInv'
  OBVIOUS
<1> USE QueueAssumption
<1>1. /\ worker.at = "compare" /\ worker'.at = "receive"
      /\ worker' \in [at: {"receive", "compare", "run", "clear", "gone"}, op: Op]
  BY DEF Discard, NoOp, QueueOp, Op
<1>2. /\ receipt' \in [Threads -> {"none", "executed", "rejected"}]
      /\ \A t \in Threads : \/ receipt'[t] = receipt[t]
                           \/ /\ worker.op.kind = "action" /\ worker.op.id = Id(t)
                              /\ receipt'[t] = "rejected"
  BY ReceiptEffect DEF Discard, QInv, TypeOK
<1>3. UNCHANGED <<channel, state, applied, courier, finisher, innerClosed, call, count,
                  expired, refused, began>>
  BY DEF Discard
<1>4. TypeOK'
  BY <1>1, <1>2, <1>3 DEF QInv, TypeOK, channel, state
<1>5. Sub(worker.op) /\ worker.op.kind # "close"
  BY DEF Discard, Stale, Withdrawn, Sub, Submissions
<1>6. Senders' = Senders
  BY <1>3 DEF Senders, At
<1>7. LifeInv'
  BY <1>1, <1>3, <1>5, <1>6 DEF QInv, LifeInv, Holding, channel, state
<1>8. \A id : Pending(id)' <=> Pending(id) /\ id # worker.op.id
  BY <1>1, <1>3, <1>5 DEF Pending, QInv, HeldInv, Holding, channel
<1>9. \A id : Made(id)' <=> Made(id)
  BY <1>3 DEF Made
<1>10. QueuedInv' /\ HeldInv' /\ HistoryInv'
  BY <1>1, <1>3, <1>8, <1>9 DEF QInv, QueuedInv, HeldInv, HistoryInv, Holding, channel
<1>11. Pending(worker.op.id) /\ worker.op.id \notin began
  BY <1>1, <1>5 DEF Pending, QInv, HistoryInv
<1>12. CallInv'
  <2> SUFFICES ASSUME NEW u \in Threads PROVE CallOK(u)'
    BY DEF CallInv
  <2>1. CallOK(u) /\ Id(u)' = Id(u)
    BY <1>3 DEF QInv, CallInv, Id
  <2>2. CASE receipt'[u] = receipt[u]
    BY <1>3, <1>8, <2>1, <2>2 DEF CallOK, At
  <2>3. CASE worker.op.id = Id(u) /\ receipt'[u] = "rejected"
    BY <1>3, <1>8, <1>11, <2>1, <2>3 DEF CallOK, At
  <2>4. QED
    BY <1>2, <2>2, <2>3
<1>13. QED
  BY <1>4, <1>7, <1>10, <1>12 DEF QInv

LEMMA BeginStep == QInv /\ Begin => QInv'
<1> SUFFICES ASSUME QInv, Begin PROVE QInv'
  OBVIOUS
<1> USE QueueAssumption
<1>1. /\ worker.at = "compare" /\ worker'.at = "run" /\ worker'.op = worker.op
      /\ worker' \in [at: {"receive", "compare", "run", "clear", "gone"}, op: Op]
  BY DEF Begin, QInv, TypeOK
<1>2. began' = IF Sub(worker.op) THEN began \cup {worker.op.id} ELSE began
  BY DEF Begin, Sub
<1>3. UNCHANGED <<channel, state, applied, courier, finisher, innerClosed, threads>>
  BY DEF Begin
<1>4. Sub(worker.op) => Made(worker.op.id) /\ Pending(worker.op.id)
  BY <1>1 DEF QInv, HeldInv, Holding, Pending
<1>5. TypeOK'
  BY <1>1, <1>2, <1>3, <1>4 DEF QInv, TypeOK, channel, state, threads, Made
<1>6. Senders' = Senders
  BY <1>3 DEF Senders, At, threads
<1>7. LifeInv'
  BY <1>1, <1>3, <1>6 DEF QInv, LifeInv, Holding, channel, state
<1>8. \A id : Pending(id)' <=> Pending(id) /\ ~(Sub(worker.op) /\ id = worker.op.id)
  BY <1>1, <1>3 DEF Pending, QInv, HeldInv, Holding, channel
<1>9. \A id : Made(id)' <=> Made(id)
  BY <1>3 DEF Made, threads
<1>10. QueuedInv' /\ HeldInv'
  BY <1>1, <1>2, <1>3, <1>9 DEF QInv, QueuedInv, HeldInv, Holding, channel, Sub
<1>11. HistoryInv'
  BY <1>2, <1>3, <1>4, <1>8, <1>9 DEF QInv, HistoryInv, threads
<1>12. CallInv'
  <2> SUFFICES ASSUME NEW u \in Threads PROVE CallOK(u)'
    BY DEF CallInv
  <2>1. CallOK(u) /\ Id(u)' = Id(u) /\ receipt'[u] = receipt[u]
    BY <1>3 DEF QInv, CallInv, Id, threads
  <2>2. QED
    BY <1>2, <1>3, <1>4, <1>8, <2>1 DEF CallOK, At, threads
<1>13. QED
  BY <1>5, <1>7, <1>10, <1>11, <1>12 DEF QInv

LEMMA FinishStep == QInv /\ Finish => QInv'
<1> SUFFICES ASSUME QInv, Finish PROVE QInv'
  OBVIOUS
<1> USE QueueAssumption
<1>1. /\ worker.at = "run" /\ worker.op \in Op
      /\ \/ worker'.at = "clear" /\ worker'.op = worker.op /\ worker.op.kind = "reset"
         \/ worker'.at = "receive" /\ worker.op.kind # "reset"
      /\ worker' \in [at: {"receive", "compare", "run", "clear", "gone"}, op: Op]
  BY DEF Finish, NoOp, QueueOp, Op, QInv, TypeOK
<1>2. /\ receipt' \in [Threads -> {"none", "executed", "rejected"}]
      /\ \A t \in Threads : \/ receipt'[t] = receipt[t]
                           \/ /\ worker.op.kind = "action" /\ worker.op.id = Id(t)
                              /\ receipt'[t] = "executed"
  BY ReceiptEffect DEF Finish, QInv, TypeOK
<1>3. UNCHANGED <<channel, state, courier, finisher, call, count, expired, refused, began>>
  BY DEF Finish
<1>4. innerClosed' = (innerClosed \/ worker.op.kind = "close")
  BY DEF Finish
<1>5. Senders' = Senders
  BY <1>3 DEF Senders, At
<1>6. LifeInv'
  <2>1. finisher \in {"none", "senders", "offer", "closing"} /\ ~innerClosed /\ ~chClosed
    BY <1>1 DEF QInv, LifeInv, TypeOK
  <2>2. CASE worker.op.kind = "close"
    <3>1. finisher = "closing" /\ ch = <<>>
      BY <1>1, <2>1, <2>2 DEF QInv, LifeInv, Holding
    <3>2. innerClosed' /\ worker'.at = "receive"
      BY <1>1, <1>4, <2>2
    <3>3. QED
      BY <1>3, <1>5, <3>1, <3>2 DEF QInv, LifeInv, Holding, channel, state
  <2>3. CASE worker.op.kind # "close"
    <3>1. ~innerClosed' /\ worker'.at \in {"receive", "clear"}
          /\ (worker'.at = "clear" => worker'.op.kind = "reset")
      BY <1>1, <1>4, <2>1, <2>3
    <3>2. QED
      BY <1>1, <1>3, <1>5, <2>1, <2>3, <3>1 DEF QInv, LifeInv, Holding, channel, state
  <2>4. QED
    BY <2>2, <2>3
<1>7. \A id : Pending(id)' <=> Pending(id)
  BY <1>1, <1>3 DEF Pending, channel
<1>8. \A id : Made(id)' <=> Made(id)
  BY <1>3 DEF Made
<1>9. QueuedInv' /\ HeldInv' /\ HistoryInv'
  BY <1>1, <1>3, <1>7, <1>8 DEF QInv, QueuedInv, HeldInv, HistoryInv, Holding, channel
<1>10. CallInv'
  <2> SUFFICES ASSUME NEW u \in Threads PROVE CallOK(u)'
    BY DEF CallInv
  <2>1. CallOK(u) /\ Id(u)' = Id(u)
    BY <1>3 DEF QInv, CallInv, Id
  <2>2. CASE receipt'[u] = receipt[u]
    BY <1>3, <1>7, <2>1, <2>2 DEF CallOK, At
  <2>3. CASE /\ worker.op.kind = "action" /\ worker.op.id = Id(u)
             /\ receipt'[u] = "executed"
    <3>1. Id(u) \in began
      BY <1>1, <2>3 DEF QInv, HeldInv, Holding, Sub, Submissions
    <3>2. QED
      BY <1>3, <1>7, <2>1, <2>3, <3>1 DEF CallOK, At
  <2>4. QED
    BY <1>2, <2>2, <2>3
<1>11. TypeOK'
  <2>1. applied' \subseteq Nat
    BY <1>1 DEF QInv, TypeOK, Op, Finish
  <2>2. QED
    BY <1>1, <1>2, <1>3, <1>4, <2>1 DEF QInv, TypeOK, channel, state
<1>12. QED
  BY <1>6, <1>9, <1>10, <1>11 DEF QInv

-----------------------------------------------------------------------------
(* The theorems.                                                           *)

LEMMA QInvNext == QInv /\ [Next]_vars => QInv'
<1> SUFFICES ASSUME QInv, [Next]_vars PROVE QInv'
  OBVIOUS
<1>1. CASE UNCHANGED vars
  BY <1>1, QInvStutter
<1>2. ASSUME NEW t \in Threads, NEW kind \in Uses, Invoke(t, kind) PROVE QInv'
  BY <1>2, InvokeStep
<1>3. ASSUME NEW t \in Threads, Expire(t) PROVE QInv'
  BY <1>3, ExpireStep
<1>4. ASSUME NEW t \in Threads, CallerStep(t) PROVE QInv'
  BY <1>4, SubmitStep, BarrierLiftedStep, SendStep, AnswersStep, ResetStep, CloseStep
     DEF CallerStep
<1>5. CASE CourierStep
  BY <1>5, CourierLockStep, CourierSendStep DEF CourierStep
<1>6. CASE FinisherStep
  BY <1>6, SendersGoneStep, OfferCloseStep, CloseChannelStep, CloseDoneStep DEF FinisherStep
<1>7. CASE WorkerStep
  BY <1>7, ReceiveStep, ExitStep, DiscardStep, BeginStep, ClearBarrierStep DEF WorkerStep
<1>8. CASE Finish
  BY <1>8, FinishStep
<1>9. QED
  BY <1>1, <1>2, <1>3, <1>4, <1>5, <1>6, <1>7, <1>8 DEF Next

\* The strengthened invariant holds in every reachable state of the queue,
\* whatever its threads call and however long the device takes (async.go).
THEOREM QueueInvariance == Spec => []QInv
<1>1. QED
  BY QInvInit, QInvNext, PTL DEF Spec

\* Type correctness of the queue; the FIFO never holds more than its capacity
\* (NewAsyncText's buf).
THEOREM QueueTypeCorrect == Spec => []TypeOK
<1>1. QInv => TypeOK
  BY DEF QInv
<1>2. QED
  BY <1>1, QueueInvariance, PTL

\* A call that was answered "rejected" never reaches the device, for any number
\* of threads and calls: no receipt of LiteralText, SpecialAction or
\* ComboAction says "rejected" of an operation that took effect.
THEOREM RefusedSafe == Spec => []RefusedNeverRuns
<1>1. QInv => RefusedNeverRuns
  BY DEF QInv, HistoryInv, RefusedNeverRuns
<1>2. QED
  BY <1>1, QueueInvariance, PTL

\* A closed queue is quiet: finishClose closes the channel only when nobody is
\* about to send on it, and returns only when the device is closed, nothing is
\* queued and the worker has gone.
THEOREM ClosedSafe == Spec => []ClosedQuiet
<1>1. QInv => ClosedQuiet
  BY DEF QInv, LifeInv, ClosedQuiet
<1>2. QED
  BY <1>1, QueueInvariance, PTL

-----------------------------------------------------------------------------
(* The queue keeps SerialInput's promise: the strengthening.               *)

\* The queue's own operations are nobody's call.
OwnInv ==
  /\ \A i \in 1..Len(ch) : Sub(ch[i]) \/ ch[i].id = NoCall
  /\ Holding => Sub(worker.op) \/ worker.op.id = NoCall

\* A reset is at one place only: with its courier, in the channel, or with the
\* worker until the barrier is lifted; and nothing is behind it that was
\* submitted.
Resetting == worker.at \in {"compare", "run", "clear"} /\ worker.op.kind = "reset"
NoneQueued == \A i \in 1..Len(ch) : ch[i].kind # "reset"
NobodySending == \A t \in Threads : ~At(t, "send")
CourierInv ==
  courier # "none" =>
    /\ barrier # 0 /\ NoneQueued /\ ~Resetting
    /\ courier = "send" => NobodySending
QueuedResetInv ==
  \A i \in 1..Len(ch) :
    ch[i].kind = "reset" =>
      /\ barrier # 0 /\ ch[i].epoch = barrier /\ ~Resetting /\ NobodySending
      /\ \A j \in 1..Len(ch) : j > i => ~Sub(ch[j]) /\ ch[j].kind # "reset"
HeldResetInv ==
  Resetting =>
    /\ barrier # 0 /\ worker.op.epoch = barrier /\ NoneQueued /\ NobodySending
    /\ \A j \in 1..Len(ch) : ~Sub(ch[j])
    /\ worker.at = "clear" => barrier \in applied

\* Epochs only grow, and a queue without a barrier is not cut off.
EpochInv ==
  /\ \A e \in applied : e <= epoch
  /\ ~closed => (barrier = 0 /\ ~Cutting) \/ barrier = epoch

\* What was admitted is of this epoch unless there has been a cut since then.
Admitted(e) == e <= epoch /\ (e = epoch <=> ~Cutting)
AdmittedInv ==
  /\ \A i \in 1..Len(ch) : Sub(ch[i]) => Admitted(ch[i].epoch)
  /\ worker.at = "compare" /\ Sub(worker.op) => Admitted(worker.op.epoch)
  /\ \A t \in Threads : At(t, "send") => Admitted(call[t].epoch)

PInv == OwnInv /\ CourierInv /\ QueuedResetInv /\ HeldResetInv /\ EpochInv /\ AdmittedInv

-----------------------------------------------------------------------------
(* What waits, and what of it is older.                                    *)

Kept == [Promise!Next]_(Promise!visible)

\* A step that SerialInput does not see.
LEMMA UnseenStep ==
  ASSUME UNCHANGED <<Waiting, Before, Running, Cutting, innerClosed>>
  PROVE  Kept
BY DEF Kept, Promise!visible, Promise!line

\* What is in the channel and with the worker is the line.
LEMMA LineSame ==
  ASSUME UNCHANGED <<ch, worker>>
  PROVE  UNCHANGED <<Waiting, Before, Running>>
BY DEF Waiting, Before, Running, Held, Queued, Older, InChannel

\* The queue's own operations are not of the line.
LEMMA OwnAppended ==
  ASSUME Len(ch) \in Nat, Len(ch') = Len(ch) + 1, \A i \in 1..Len(ch) : ch'[i] = ch[i],
         ~Sub(ch'[Len(ch) + 1]), worker' = worker
  PROVE  UNCHANGED <<Waiting, Before, Running>>
<1>1. InChannel' = InChannel /\ \A i \in InChannel : ch'[i] = ch[i]
  BY DEF InChannel, Sub
<1>2. Queued' = Queued
  BY <1>1 DEF Queued
<1>3. Older' = Older
  BY <1>1, <1>2 DEF Older
<1>4. Held' = Held /\ Running' = Running
  BY DEF Held, Running
<1>5. QED
  BY <1>2, <1>3, <1>4 DEF Waiting, Before

\* What is sent is younger than all that waits.
LEMMA SubmittedAppended ==
  ASSUME Len(ch) \in Nat, Len(ch') = Len(ch) + 1, \A i \in 1..Len(ch) : ch'[i] = ch[i],
         Sub(ch'[Len(ch) + 1]), worker' = worker, NEW id, ch'[Len(ch) + 1].id = id
  PROVE  /\ Waiting' = Waiting \cup {id} /\ Before' = Before \cup (Waiting \X {id})
         /\ Running' = Running
<1> DEFINE n == Len(ch) + 1
<1>1. /\ InChannel' = InChannel \cup {n} /\ ch'[n].id = id
      /\ \A i \in InChannel : ch'[i] = ch[i] /\ i < n
  BY DEF InChannel, Sub
<1>2. \A i \in InChannel : i \in Nat
  BY DEF InChannel
<1>3. n \in Nat
  OBVIOUS
<1> HIDE DEF n
<1>4. Queued' = Queued \cup {id}
  BY <1>1 DEF Queued
<1>5. Older' = Older \cup (Queued \X {id})
  <2>1. ASSUME NEW p \in Older' PROVE p \in Older \cup (Queued \X {id})
    <3>1. PICK i \in InChannel \cup {n}, j \in InChannel \cup {n} :
            i < j /\ p = <<ch'[i].id, ch'[j].id>>
      BY <1>1, <2>1 DEF Older
    <3>2. i \in InChannel
      BY <1>1, <1>2, <1>3, <3>1
    <3>3. CASE j = n
      BY <1>1, <3>1, <3>2, <3>3 DEF Queued
    <3>4. CASE j \in InChannel
      BY <1>1, <3>1, <3>2, <3>4 DEF Queued, Older
    <3>5. QED
      BY <3>1, <3>3, <3>4
  <2>2. ASSUME NEW p \in Older PROVE p \in Older'
    BY <1>1, <1>4, <2>2 DEF Older
  <2>3. ASSUME NEW a \in Queued PROVE <<a, id>> \in Older'
    <3>1. PICK i \in InChannel : a = ch[i].id
      BY <2>3 DEF Queued
    <3>2. i \in InChannel' /\ n \in InChannel' /\ i < n /\ <<a, id>> = <<ch'[i].id, ch'[n].id>>
      BY <1>1, <3>1
    <3>3. <<a, id>> \in Queued' \X Queued'
      BY <1>4
    <3>4. QED
      BY <3>2, <3>3 DEF Older
  <2>4. QED
    BY <2>1, <2>2, <2>3
<1>6. Held' = Held /\ Running' = Running
  BY DEF Held, Running
<1>7. QED
  BY <1>4, <1>5, <1>6 DEF Waiting, Before

\* The worker takes the first operation: the line is as it was.
LEMMA HeadTaken ==
  ASSUME QInv, Receive
  PROVE  UNCHANGED <<Waiting, Before, Running>>
<1>1. /\ Len(ch) \in Nat \ {0} /\ Len(ch') = Len(ch) - 1
      /\ \A i \in 1..Len(ch') : ch'[i] = ch[i + 1]
  BY DEF Receive, QInv, TypeOK
<1>2. worker.at = "receive" /\ worker'.at = "compare" /\ worker'.op = ch[1]
  BY <1>1 DEF Receive, QInv, TypeOK
<1>3. \A i \in InChannel' : i + 1 \in InChannel /\ ch'[i] = ch[i + 1] /\ i \in Nat \ {0}
  BY <1>1 DEF InChannel
<1>4. \A i \in InChannel : i = 1 \/ (i - 1 \in InChannel' /\ ch'[i - 1] = ch[i] /\ i \in Nat)
  BY <1>1 DEF InChannel
<1>5. 1 \in InChannel <=> Sub(ch[1])
  BY <1>1 DEF InChannel, Sub
<1>6. Held = {} /\ Held' = (IF Sub(ch[1]) THEN {ch[1].id} ELSE {}) /\ Running' = Running
  BY <1>2 DEF Held, Running, Sub
<1>7. Queued = Held' \cup Queued'
  <2>1. ASSUME NEW i \in InChannel PROVE ch[i].id \in Held' \cup Queued'
    BY <1>4, <1>5, <1>6 DEF Queued
  <2>2. ASSUME NEW i \in InChannel' PROVE ch'[i].id \in Queued
    BY <1>3 DEF Queued
  <2>3. Held' \subseteq Queued
    BY <1>5, <1>6 DEF Queued
  <2>4. QED
    BY <2>1, <2>2, <2>3 DEF Queued
<1>8. Older = Older' \cup (Held' \X Queued')
  <2>1. ASSUME NEW p \in Older PROVE p \in Older' \cup (Held' \X Queued')
    <3>1. PICK i \in InChannel, j \in InChannel : i < j /\ p = <<ch[i].id, ch[j].id>>
      BY <2>1 DEF Older
    <3>2. j # 1 /\ j - 1 \in InChannel' /\ ch'[j - 1] = ch[j] /\ j \in Nat /\ i \in Nat
      <4>1. i \in 1..Len(ch) /\ j \in 1..Len(ch)
        BY DEF InChannel
      <4>2. j # 1
        BY <1>1, <3>1, <4>1
      <4>3. QED
        BY <1>1, <1>4, <4>1, <4>2
    <3>3. ch[j].id \in Queued'
      BY <3>2 DEF Queued
    <3>4. CASE i = 1
      BY <1>5, <1>6, <3>1, <3>3, <3>4
    <3>5. CASE i # 1
      <4>1. i - 1 \in InChannel' /\ ch'[i - 1] = ch[i]
        BY <1>4, <3>5
      <4>2. i - 1 < j - 1
        BY <3>1, <3>2
      <4>3. ch[i].id \in Queued'
        BY <4>1 DEF Queued
      <4>4. p \in Queued' \X Queued' /\ p = <<ch'[i - 1].id, ch'[j - 1].id>>
        BY <3>1, <3>2, <3>3, <4>1, <4>3
      <4>5. p \in Older'
        BY <3>2, <4>1, <4>2, <4>4 DEF Older
      <4>6. QED
        BY <4>5
    <3>6. QED
      BY <3>4, <3>5
  <2>2. ASSUME NEW p \in Older' PROVE p \in Older
    <3>1. PICK i \in InChannel', j \in InChannel' : i < j /\ p = <<ch'[i].id, ch'[j].id>>
      BY <2>2 DEF Older
    <3>2. i + 1 \in InChannel /\ j + 1 \in InChannel /\ i + 1 < j + 1
          /\ p = <<ch[i + 1].id, ch[j + 1].id>>
      BY <1>3, <3>1
    <3>3. p \in Queued \X Queued
      BY <3>2 DEF Queued
    <3>4. QED
      BY <3>2, <3>3 DEF Older
  <2>3. ASSUME NEW a \in Held', NEW b \in Queued' PROVE <<a, b>> \in Older
    <3>1. 1 \in InChannel /\ a = ch[1].id
      BY <1>5, <1>6
    <3>2. PICK j \in InChannel' : b = ch'[j].id
      BY DEF Queued
    <3>3. j + 1 \in InChannel /\ 1 < j + 1 /\ b = ch[j + 1].id
      BY <1>3, <3>2
    <3>4. <<a, b>> \in Queued \X Queued
      BY <3>1, <3>3 DEF Queued
    <3>5. QED
      BY <3>1, <3>3, <3>4 DEF Older
  <2>4. QED
    BY <2>1, <2>2, <2>3
<1>9. Waiting' = Waiting
  BY <1>6, <1>7 DEF Waiting
<1>10. Before' = Before
  BY <1>6, <1>8 DEF Before
<1>11. QED
  BY <1>6, <1>9, <1>10

\* What the worker holds is the first of the line, and leaves it.
LEMMA HeldLeaves ==
  ASSUME QInv, worker.at = "compare", Sub(worker.op), ch' = ch, worker'.at # "compare"
  PROVE  Promise!Leave(worker.op.id)
<1> DEFINE id == worker.op.id
<1>1. Held = {id} /\ Held' = {} /\ Queued' = Queued /\ Older' = Older
  BY DEF Held, Queued, Older, InChannel, Sub
<1>2. id \notin Queued
  BY DEF QInv, HeldInv, Holding, Queued, InChannel, Sub
<1>3. Older \subseteq Queued \X Queued
  BY DEF Older
<1> HIDE DEF id
<1>4. id \in Waiting /\ Waiting' = Waiting \ {id}
  BY <1>1, <1>2 DEF Waiting
<1>5. \A other \in Waiting : <<other, id>> \notin Before
  BY <1>1, <1>2, <1>3 DEF Before
<1>6. Before' = Before \ ({id} \X Waiting)
  BY <1>1, <1>2, <1>3 DEF Before, Waiting
<1>7. QED
  BY <1>4, <1>5, <1>6 DEF Promise!Leave, id
-----------------------------------------------------------------------------
(* The steps.                                                              *)

\* A thread moves, or the finisher does, and the channel, the worker and the
\* barrier stay as they are.
LEMMA Unmoved ==
  ASSUME PInv, UNCHANGED <<ch, worker, epoch, barrier, applied, closed, courier, innerClosed>>,
         \A t \in Threads : call'[t].at = "send" => call'[t] = call[t]
  PROVE  PInv' /\ Kept
<1>1. Cutting' = Cutting /\ \A e : Admitted(e)' <=> Admitted(e)
  BY DEF Cutting, Admitted
<1>2. (NobodySending => NobodySending') /\ Resetting' = Resetting /\ NoneQueued' = NoneQueued
  BY DEF NobodySending, At, Resetting, NoneQueued
<1>3. OwnInv' /\ CourierInv' /\ QueuedResetInv' /\ HeldResetInv'
  BY <1>2 DEF PInv, OwnInv, Holding, CourierInv, QueuedResetInv, HeldResetInv
<1>4. EpochInv'
  BY <1>1 DEF PInv, EpochInv
<1>5. AdmittedInv'
  BY <1>1 DEF PInv, AdmittedInv, At
<1>6. Kept
  BY <1>1, LineSame, UnseenStep
<1>7. QED
  BY <1>3, <1>4, <1>5, <1>6 DEF PInv

LEMMA ThreadUnmoved ==
  ASSUME PInv, UNCHANGED <<ch, worker, epoch, barrier, applied, closed, courier, innerClosed>>,
         NEW t \in Threads, \A u \in Threads : u # t => call'[u] = call[u],
         call'[t].at # "send"
  PROVE  PInv' /\ Kept
BY Unmoved

\* A return is such a step.
LEMMA ReturnKept ==
  ASSUME QInv, PInv, NEW t \in Threads, NEW r, ~At(t, "out"), Return(t, r),
         UNCHANGED <<ch, worker, epoch, barrier, applied, closed, courier, innerClosed>>
  PROVE  PInv' /\ Kept
<1>1. count[t] >= 1
  BY DEF QInv, CallInv, CallOK
<1>2. call'[t].at = "out" /\ \A u \in Threads : u # t => call'[u] = call[u]
  BY <1>1, ReturnEffect DEF QInv, TypeOK
<1>3. QED
  BY <1>2, ThreadUnmoved

\* So is a wait for a barrier.
LEMMA WaitKept ==
  ASSUME QInv, PInv, NEW t \in Threads, WaitFor(t, "barrier", barrier),
         UNCHANGED <<ch, worker, epoch, barrier, applied, closed, courier, innerClosed>>
  PROVE  PInv' /\ Kept
<1>1. barrier \in Nat /\ call \in [Threads -> Call]
  BY DEF QInv, TypeOK
<1>2. call'[t].at = "barrier" /\ \A u \in Threads : u # t => call'[u] = call[u]
  BY <1>1, WaitForEffect DEF Places
<1>3. QED
  BY <1>2, ThreadUnmoved

LEMMA AnswersKept ==
  ASSUME QInv, PInv, NEW t \in Threads,
         Withdraw(t) \/ Answer(t) \/ ResetReturn(t) \/ CloseReturn(t)
  PROVE  PInv' /\ Kept
<1> USE DEF channel, state
<1>1. CASE Withdraw(t)
  BY <1>1, ReturnKept DEF Withdraw, At
<1>2. CASE Answer(t)
  BY <1>2, ReturnKept DEF Answer, At
<1>3. CASE ResetReturn(t)
  BY <1>3, ReturnKept DEF ResetReturn, At
<1>4. CASE CloseReturn(t)
  BY <1>4, ReturnKept DEF CloseReturn, At
<1>5. QED
  BY <1>1, <1>2, <1>3, <1>4

LEMMA BarrierLiftedKept ==
  ASSUME QInv, PInv, NEW t \in Threads, BarrierLifted(t)
  PROVE  PInv' /\ Kept
<1>1. call'[t].at = "enter" /\ \A u \in Threads : u # t => call'[u] = call[u]
  BY MoveEffect DEF BarrierLifted, QInv, TypeOK, Places
<1>2. QED
  BY <1>1, ThreadUnmoved DEF BarrierLifted, channel, state

LEMMA InvokeKept ==
  ASSUME QInv, PInv, NEW t \in Threads, NEW kind \in Uses, Invoke(t, kind)
  PROVE  PInv' /\ Kept
<1>1. [Outside EXCEPT !.kind = kind, !.at = "enter"].at = "enter"
  BY DEF Outside
<1>2. call'[t].at = "enter" /\ \A u \in Threads : u # t => call'[u] = call[u]
  BY <1>1 DEF Invoke, QInv, TypeOK
<1>3. QED
  BY <1>2, ThreadUnmoved DEF Invoke, channel, state

LEMMA ExpireKept ==
  ASSUME PInv, NEW t \in Threads, Expire(t)
  PROVE  PInv' /\ Kept
BY Unmoved DEF Expire, channel, state

\* What is admitted is of this epoch, and no cut is in force.
LEMMA AdmitKept ==
  ASSUME QInv, PInv, NEW t \in Threads, ~closed, barrier = 0, WaitFor(t, "send", epoch),
         UNCHANGED <<ch, worker, epoch, barrier, applied, closed, courier, innerClosed>>
  PROVE  PInv' /\ Kept
<1>1. epoch \in Nat /\ call \in [Threads -> Call]
  BY DEF QInv, TypeOK
<1>2. [call[t] EXCEPT !.at = "send", !.epoch = epoch].epoch = epoch
  BY <1>1 DEF Call
<1>3. call' = [call EXCEPT ![t] = [call[t] EXCEPT !.at = "send", !.epoch = epoch]]
  BY DEF WaitFor
<1>4. call'[t].epoch = epoch /\ \A u \in Threads : u # t => call'[u] = call[u]
  BY <1>1, <1>2, <1>3
<1>5. ~Cutting
  BY DEF PInv, EpochInv, Cutting
<1>6. Cutting' = Cutting /\ \A e : Admitted(e)' <=> Admitted(e)
  BY DEF Cutting, Admitted
<1>7. courier = "none" /\ NoneQueued /\ ~Resetting
  BY DEF PInv, CourierInv, QueuedResetInv, HeldResetInv, NoneQueued
<1>8. OwnInv' /\ CourierInv' /\ QueuedResetInv' /\ HeldResetInv' /\ EpochInv'
  BY <1>6, <1>7 DEF PInv, OwnInv, Holding, CourierInv, QueuedResetInv, HeldResetInv, EpochInv,
     NoneQueued, Resetting
<1>9. Admitted(epoch)
  BY <1>1, <1>5 DEF Admitted
<1>10. AdmittedInv'
  BY <1>4, <1>6, <1>9 DEF PInv, AdmittedInv, At
<1>11. QED
  BY <1>6, <1>8, <1>10, LineSame, UnseenStep DEF PInv

LEMMA SubmitKept ==
  ASSUME QInv, PInv, NEW t \in Threads, Submit(t)
  PROVE  PInv' /\ Kept
<1> USE DEF channel, state
<1>1. CASE Return(t, "rejected")
  BY <1>1, ReturnKept DEF Submit, At
<1>2. CASE WaitFor(t, "barrier", barrier)
  BY <1>2, WaitKept DEF Submit
<1>3. CASE ~closed /\ barrier = 0 /\ WaitFor(t, "send", epoch)
  BY <1>3, AdmitKept DEF Submit
<1>4. QED
  BY <1>1, <1>2, <1>3 DEF Submit

\* A send is the acceptance.
LEMMA SendKept ==
  ASSUME QInv, PInv, NEW t \in Threads, Send(t)
  PROVE  PInv' /\ Kept
<1> DEFINE op == [kind |-> call[t].kind, id |-> Id(t), epoch |-> call[t].epoch]
<1>1. /\ CallOK(t) /\ At(t, "send") /\ Id(t) \in Ids /\ Made(Id(t)) /\ count[t] >= 1
  BY DEF QInv, CallInv, CallOK, TypeOK, Send, At, Id, Ids, Made
<1>2. op \in Op /\ Sub(op) /\ op.id = Id(t) /\ op.kind # "reset" /\ op.epoch = call[t].epoch
  BY <1>1 DEF QInv, TypeOK, CallOK, Op, Call, Sub, Submissions
<1>3. /\ Len(ch') = Len(ch) + 1 /\ ch'[Len(ch) + 1] = op
      /\ \A i \in 1..Len(ch) : ch'[i] = ch[i]
      /\ Len(ch) \in Nat
  <2>1. ch' = Append(ch, op)
    BY DEF Send
  <2>2. QED
    BY <1>2, <2>1 DEF QInv, TypeOK
<1>4. /\ \A u \in Threads : u # t => call'[u] = call[u]
      /\ call'[t].at \in {"out", "await"}
  <2>1. CASE call[t].kind = "action"
    BY <2>1, MoveEffect DEF Send, QInv, TypeOK, Places
  <2>2. CASE call[t].kind # "action"
    BY <1>1, <2>2, ReturnEffect DEF Send, QInv, TypeOK
  <2>3. QED
    BY <2>1, <2>2
<1>5. UNCHANGED <<worker, epoch, barrier, applied, closed, courier, innerClosed>>
  BY DEF Send, state
<1> HIDE DEF op
<1>6. courier # "send" /\ NoneQueued /\ ~Resetting
  BY <1>1 DEF PInv, CourierInv, QueuedResetInv, HeldResetInv, NoneQueued, NobodySending
<1>7. NoneQueued' /\ ~Resetting'
  BY <1>2, <1>3, <1>5, <1>6 DEF NoneQueued, Resetting
<1>8. Cutting' = Cutting /\ \A e : Admitted(e)' <=> Admitted(e)
  BY <1>5 DEF Cutting, Admitted
<1>9. OwnInv'
  BY <1>2, <1>3, <1>5 DEF PInv, OwnInv, Holding, Sub
<1>10. CourierInv' /\ QueuedResetInv' /\ HeldResetInv'
  BY <1>5, <1>6, <1>7 DEF PInv, CourierInv, QueuedResetInv, HeldResetInv, NoneQueued
<1>11. EpochInv'
  BY <1>5, <1>8 DEF PInv, EpochInv
<1>12. AdmittedInv'
  <2>1. Admitted(op.epoch)
    BY <1>1, <1>2 DEF PInv, AdmittedInv
  <2>2. \A i \in 1..Len(ch') : Sub(ch'[i]) => Admitted(ch'[i].epoch)
    BY <1>3, <2>1 DEF PInv, AdmittedInv, Sub
  <2>3. QED
    BY <1>4, <1>5, <1>8, <2>2 DEF PInv, AdmittedInv, At, Sub
<1>13. ~innerClosed
  BY <1>1 DEF QInv, LifeInv, Senders, TypeOK
<1>14. Id(t) \notin Waiting
  BY <1>1 DEF CallOK, Pending, Waiting, Held, Queued, InChannel, At, Sub
<1>15. /\ Waiting' = Waiting \cup {Id(t)} /\ Before' = Before \cup (Waiting \X {Id(t)})
       /\ Running' = Running
  <2>1. Sub(ch'[Len(ch) + 1]) /\ ch'[Len(ch) + 1].id = Id(t)
    BY <1>2, <1>3
  <2>2. QED
    BY <1>3, <1>5, <2>1, SubmittedAppended
<1>16. Promise!Accept(Id(t))
  BY <1>5, <1>8, <1>13, <1>14, <1>15 DEF Promise!Accept
<1>17. QED
  BY <1>1, <1>9, <1>10, <1>11, <1>12, <1>16 DEF PInv, Kept, Promise!Next

\* Epochs are numbers, wherever they are.
LEMMA Epochs ==
  ASSUME QInv
  PROVE  /\ \A i \in 1..Len(ch) : ch[i].epoch \in Nat
         /\ worker.op.epoch \in Nat
         /\ \A t \in Threads : call[t].epoch \in Nat
<1>1. \A i \in 1..Len(ch) : ch[i] \in Op
  BY DEF QInv, TypeOK
<1>2. worker.op \in Op /\ \A t \in Threads : call[t] \in Call
  BY DEF QInv, TypeOK
<1>3. \A op \in Op : op.epoch \in Nat
  BY DEF Op
<1>4. \A c \in Call : c.epoch \in Nat
  BY DEF Call
<1>5. QED
  BY <1>1, <1>2, <1>3, <1>4

\* A reset, and a close that invalidates, is a cut.
LEMMA ResetKept ==
  ASSUME QInv, PInv, NEW t \in Threads, Reset(t)
  PROVE  PInv' /\ Kept
<1> USE DEF channel, state
<1>1. CASE Return(t, "ok") /\ UNCHANGED <<state, courier>>
  BY <1>1, ReturnKept DEF Reset, At
<1>2. CASE WaitFor(t, "barrier", barrier) /\ UNCHANGED <<state, courier>>
  BY <1>2, WaitKept DEF Reset
<1>3. CASE /\ ~closed /\ barrier = 0
           /\ epoch' = epoch + 1 /\ barrier' = epoch + 1 /\ courier' = "lock"
           /\ WaitFor(t, "await", epoch + 1) /\ closed' = closed
  <2>1. epoch \in Nat /\ applied \subseteq Nat
    BY DEF QInv, TypeOK
  <2>2. call'[t].at = "await" /\ \A u \in Threads : u # t => call'[u] = call[u]
    BY <1>3, <2>1, WaitForEffect DEF QInv, TypeOK, Places
  <2>3. UNCHANGED <<ch, worker, applied, innerClosed>>
    BY DEF Reset
  <2>4. NoneQueued /\ ~Resetting
    BY <1>3 DEF PInv, QueuedResetInv, HeldResetInv, NoneQueued
  <2>5. NoneQueued' /\ ~Resetting'
    BY <2>3, <2>4 DEF NoneQueued, Resetting
  <2>6. OwnInv' /\ CourierInv' /\ QueuedResetInv' /\ HeldResetInv'
    BY <1>3, <2>1, <2>3, <2>5 DEF PInv, OwnInv, Holding, CourierInv, QueuedResetInv, HeldResetInv,
       NoneQueued
  <2>7. Cutting'
    BY <1>3, <2>1, <2>3 DEF PInv, EpochInv, Cutting
  <2>8. EpochInv'
    BY <1>3, <2>1, <2>3 DEF PInv, EpochInv
  <2>9. ASSUME NEW e \in Nat, Admitted(e) PROVE Admitted(e)'
    BY <1>3, <2>1, <2>7, <2>9 DEF Admitted
  <2>10. AdmittedInv'
    BY <2>2, <2>3, <2>9, Epochs DEF PInv, AdmittedInv, At
  <2>11. ~innerClosed
    BY <1>3 DEF QInv, LifeInv
  <2>12. Promise!Cut
    BY <2>3, <2>7, <2>11, LineSame DEF Promise!Cut, Promise!line
  <2>13. QED
    BY <2>6, <2>8, <2>10, <2>12 DEF PInv, Kept, Promise!Next
<1>4. QED
  BY <1>1, <1>2, <1>3 DEF Reset

LEMMA CloseKept ==
  ASSUME QInv, PInv, NEW t \in Threads, Close(t)
  PROVE  PInv' /\ Kept
<1> USE DEF channel
<1>1. call'[t].at = "await" /\ \A u \in Threads : u # t => call'[u] = call[u]
  BY MoveEffect DEF Close, QInv, TypeOK, Places
<1>2. UNCHANGED <<ch, worker, applied, barrier, courier, innerClosed>>
  BY DEF Close
<1>3. CASE closed
  BY <1>1, <1>2, <1>3, ThreadUnmoved DEF Close
<1>4. CASE ~closed
  <2>1. closed' /\ epoch \in Nat /\ applied \subseteq Nat
    BY <1>4 DEF Close, QInv, TypeOK
  <2>2. (NobodySending => NobodySending') /\ Resetting' = Resetting /\ NoneQueued' = NoneQueued
    BY <1>1, <1>2 DEF NobodySending, At, Resetting, NoneQueued
  <2>3. OwnInv' /\ CourierInv' /\ QueuedResetInv' /\ HeldResetInv'
    BY <1>2, <2>2 DEF PInv, OwnInv, Holding, CourierInv, QueuedResetInv, HeldResetInv
  <2>4. UNCHANGED <<Waiting, Before, Running>>
    BY <1>2, LineSame
  <2>5. CASE epoch' = epoch
    <3>1. Cutting' = Cutting /\ \A e : Admitted(e)' <=> Admitted(e)
      BY <1>2, <2>5 DEF Cutting, Admitted
    <3>2. EpochInv' /\ AdmittedInv'
      BY <1>1, <1>2, <2>1, <2>5, <3>1 DEF PInv, EpochInv, AdmittedInv, At
    <3>3. QED
      BY <1>2, <2>3, <2>4, <3>1, <3>2, UnseenStep DEF PInv
  <2>6. CASE epoch' = epoch + 1
    <3>1. Cutting'
      BY <1>2, <2>1, <2>6 DEF PInv, EpochInv, Cutting
    <3>2. EpochInv'
      BY <1>2, <2>1, <2>6 DEF PInv, EpochInv
    <3>3. ASSUME NEW e \in Nat, Admitted(e) PROVE Admitted(e)'
      BY <2>1, <2>6, <3>1, <3>3 DEF Admitted
    <3>4. AdmittedInv'
      BY <1>1, <1>2, <3>3, Epochs DEF PInv, AdmittedInv, At
    <3>5. ~innerClosed
      BY <1>4 DEF QInv, LifeInv
    <3>6. Promise!Cut
      BY <1>2, <2>4, <3>1, <3>5 DEF Promise!Cut, Promise!line
    <3>7. QED
      BY <2>3, <3>2, <3>4, <3>6 DEF PInv, Kept, Promise!Next
  <2>7. QED
    BY <1>4, <2>5, <2>6 DEF Close
<1>5. QED
  BY <1>3, <1>4
LEMMA CourierLockKept ==
  ASSUME PInv, CourierLock
  PROVE  PInv' /\ Kept
<1> USE DEF CourierLock, channel, state, threads
<1>1. NobodySending
  BY DEF EnqueueFree, NobodySending
<1>2. Cutting' = Cutting /\ \A e : Admitted(e)' <=> Admitted(e)
  BY DEF Cutting, Admitted
<1>3. NobodySending' /\ Resetting' = Resetting /\ NoneQueued' = NoneQueued
  BY <1>1 DEF NobodySending, At, Resetting, NoneQueued
<1>4. OwnInv' /\ CourierInv' /\ QueuedResetInv' /\ HeldResetInv'
  BY <1>3 DEF PInv, OwnInv, Holding, CourierInv, QueuedResetInv, HeldResetInv
<1>5. EpochInv' /\ AdmittedInv'
  BY <1>2 DEF PInv, EpochInv, AdmittedInv, At
<1>6. QED
  BY <1>2, <1>4, <1>5, LineSame, UnseenStep DEF PInv

LEMMA FinisherKept ==
  ASSUME PInv, SendersGone \/ CloseChannel \/ CloseDone
  PROVE  PInv' /\ Kept
<1>1. UNCHANGED <<ch, worker, epoch, barrier, applied, closed, courier, innerClosed, call>>
  BY DEF SendersGone, CloseChannel, CloseDone, channel, state, threads
<1>2. QED
  BY <1>1, Unmoved

\* The reset goes to the end of the channel, and nobody is to send after it.
LEMMA CourierSendKept ==
  ASSUME QInv, PInv, CourierSend
  PROVE  PInv' /\ Kept
<1> DEFINE op == QueueOp("reset", barrier)
<1>1. /\ op \in Op /\ ~Sub(op) /\ op.kind = "reset" /\ op.id = NoCall /\ op.epoch = barrier
  BY DEF QueueOp, Op, Sub, Submissions, QInv, TypeOK
<1>2. /\ Len(ch') = Len(ch) + 1 /\ ch'[Len(ch) + 1] = op
      /\ \A i \in 1..Len(ch) : ch'[i] = ch[i]
      /\ Len(ch) \in Nat
  <2>1. ch' = Append(ch, op)
    BY DEF CourierSend
  <2>2. QED
    BY <1>1, <2>1 DEF QInv, TypeOK
<1> HIDE DEF op
<1>3. courier = "send" /\ courier' = "none"
      /\ UNCHANGED <<worker, epoch, barrier, applied, closed, innerClosed, call>>
  BY DEF CourierSend, state, threads
<1>4. barrier # 0 /\ NoneQueued /\ ~Resetting /\ NobodySending
  BY <1>3 DEF PInv, CourierInv
<1>5. ~Resetting' /\ NobodySending'
  BY <1>3, <1>4 DEF Resetting, NobodySending, At
<1>6. Cutting' = Cutting /\ \A e : Admitted(e)' <=> Admitted(e)
  BY <1>3 DEF Cutting, Admitted
<1>7. OwnInv'
  BY <1>1, <1>2, <1>3 DEF PInv, OwnInv, Holding, Sub
<1>8. QueuedResetInv'
  <2>1. \A i \in 1..Len(ch') : ch'[i].kind = "reset" => i = Len(ch') /\ ch'[i].epoch = barrier
    BY <1>1, <1>2, <1>4 DEF NoneQueued
  <2>2. \A i, j \in 1..Len(ch') : i = Len(ch') => ~(j > i)
    BY <1>2
  <2>3. QED
    BY <1>3, <1>4, <1>5, <2>1, <2>2 DEF QueuedResetInv
<1>9. CourierInv' /\ HeldResetInv'
  BY <1>3, <1>5 DEF CourierInv, HeldResetInv
<1>10. EpochInv'
  BY <1>3, <1>6 DEF PInv, EpochInv
<1>11. AdmittedInv'
  <2>1. \A i \in 1..Len(ch') : Sub(ch'[i]) => Admitted(ch'[i].epoch)
    BY <1>1, <1>2 DEF PInv, AdmittedInv, Sub
  <2>2. QED
    BY <1>3, <1>6, <2>1 DEF PInv, AdmittedInv, At, Sub
<1>12. UNCHANGED <<Waiting, Before, Running>>
  BY <1>1, <1>2, <1>3, OwnAppended
<1>13. QED
  BY <1>3, <1>6, <1>7, <1>8, <1>9, <1>10, <1>11, <1>12, UnseenStep DEF PInv

LEMMA OfferCloseKept ==
  ASSUME QInv, PInv, OfferClose
  PROVE  PInv' /\ Kept
<1> DEFINE op == QueueOp("close", epoch)
<1>1. /\ op \in Op /\ ~Sub(op) /\ op.kind = "close" /\ op.id = NoCall
  BY DEF QueueOp, Op, Sub, Submissions, QInv, TypeOK
<1>2. /\ Len(ch') = Len(ch) + 1 /\ ch'[Len(ch) + 1] = op
      /\ \A i \in 1..Len(ch) : ch'[i] = ch[i]
      /\ Len(ch) \in Nat
  <2>1. ch' = Append(ch, op)
    BY DEF OfferClose
  <2>2. QED
    BY <1>1, <2>1 DEF QInv, TypeOK
<1> HIDE DEF op
<1>3. UNCHANGED <<worker, epoch, barrier, applied, closed, courier, innerClosed, call>>
  BY DEF OfferClose, state, threads
<1>4. /\ Resetting' = Resetting /\ NobodySending' = NobodySending /\ (NoneQueued => NoneQueued')
      /\ \A i \in 1..Len(ch') : ch'[i].kind = "reset" => i \in 1..Len(ch)
      /\ \A i \in 1..Len(ch') : Sub(ch'[i]) => i \in 1..Len(ch)
  BY <1>1, <1>2, <1>3 DEF Resetting, NobodySending, At, NoneQueued, Sub
<1>5. Cutting' = Cutting /\ \A e : Admitted(e)' <=> Admitted(e)
  BY <1>3 DEF Cutting, Admitted
<1>6. OwnInv'
  BY <1>1, <1>2, <1>3 DEF PInv, OwnInv, Holding, Sub
<1>7. CourierInv' /\ HeldResetInv'
  BY <1>2, <1>3, <1>4 DEF PInv, CourierInv, HeldResetInv, Sub
<1>8. QueuedResetInv'
  <2>1. ASSUME NEW i \in 1..Len(ch'), ch'[i].kind = "reset"
        PROVE  /\ barrier # 0 /\ ch'[i].epoch = barrier /\ ~Resetting /\ NobodySending
               /\ \A j \in 1..Len(ch') : j > i => ~Sub(ch'[j]) /\ ch'[j].kind # "reset"
    BY <1>2, <1>4, <2>1 DEF PInv, QueuedResetInv
  <2>2. QED
    BY <1>3, <1>4, <2>1 DEF QueuedResetInv, Sub
<1>9. EpochInv'
  BY <1>3, <1>5 DEF PInv, EpochInv
<1>10. AdmittedInv'
  <2>1. \A i \in 1..Len(ch') : Sub(ch'[i]) => Admitted(ch'[i].epoch)
    BY <1>2, <1>4 DEF PInv, AdmittedInv
  <2>2. QED
    BY <1>3, <1>5, <2>1 DEF PInv, AdmittedInv, At, Sub
<1>11. UNCHANGED <<Waiting, Before, Running>>
  BY <1>1, <1>2, <1>3, OwnAppended
<1>12. QED
  BY <1>3, <1>5, <1>6, <1>7, <1>8, <1>9, <1>10, <1>11, UnseenStep DEF PInv

LEMMA ReceiveKept ==
  ASSUME QInv, PInv, Receive
  PROVE  PInv' /\ Kept
<1>1. /\ Len(ch) \in Nat \ {0} /\ Len(ch') = Len(ch) - 1
      /\ \A i \in 1..Len(ch') : ch'[i] = ch[i + 1]
  BY DEF Receive, QInv, TypeOK
<1>2. worker.at = "receive" /\ worker'.at = "compare" /\ worker'.op = ch[1]
  BY <1>1 DEF Receive, QInv, TypeOK
<1>3. UNCHANGED <<epoch, barrier, applied, closed, courier, innerClosed, call>>
  BY DEF Receive, state, threads
<1>4. /\ \A i \in 1..Len(ch') : i + 1 \in 1..Len(ch) /\ i + 1 > 1 /\ ch'[i] = ch[i + 1]
      /\ 1 \in 1..Len(ch)
      /\ \A i, j \in 1..Len(ch') : j > i => j + 1 > i + 1
  BY <1>1
<1>5. /\ NobodySending' = NobodySending
      /\ NoneQueued => NoneQueued' /\ ~Resetting'
  BY <1>2, <1>3, <1>4 DEF NobodySending, At, NoneQueued, Resetting
<1>6. Resetting' <=> ch[1].kind = "reset"
  BY <1>2 DEF Resetting
<1>7. Cutting' = Cutting /\ \A e : Admitted(e)' <=> Admitted(e)
  BY <1>3 DEF Cutting, Admitted
<1>8. OwnInv'
  BY <1>2, <1>4 DEF PInv, OwnInv, Holding, Sub
<1>9. CourierInv'
  BY <1>3, <1>5 DEF PInv, CourierInv
<1>10. QueuedResetInv'
  <2>1. ASSUME NEW i \in 1..Len(ch'), ch'[i].kind = "reset"
        PROVE  /\ barrier # 0 /\ ch'[i].epoch = barrier /\ ch[1].kind # "reset" /\ NobodySending
               /\ \A j \in 1..Len(ch') : j > i => ~Sub(ch'[j]) /\ ch'[j].kind # "reset"
    <3>1. i + 1 \in 1..Len(ch) /\ ch[i + 1].kind = "reset" /\ i + 1 > 1
      BY <1>4, <2>1
    <3>2. ch[1].kind # "reset"
      BY <1>4, <3>1 DEF PInv, QueuedResetInv
    <3>3. \A j \in 1..Len(ch') : j > i => ~Sub(ch[j + 1]) /\ ch[j + 1].kind # "reset"
      BY <1>4, <3>1 DEF PInv, QueuedResetInv
    <3>4. QED
      BY <1>4, <3>1, <3>2, <3>3 DEF PInv, QueuedResetInv
  <2>2. QED
    BY <1>3, <1>5, <1>6, <2>1 DEF QueuedResetInv, Sub
<1>11. HeldResetInv'
  <2>1. ASSUME ch[1].kind = "reset"
        PROVE  /\ barrier # 0 /\ ch[1].epoch = barrier /\ NobodySending
               /\ \A j \in 1..Len(ch') : ~Sub(ch'[j]) /\ ch'[j].kind # "reset"
    BY <1>4, <2>1 DEF PInv, QueuedResetInv
  <2>2. QED
    BY <1>2, <1>3, <1>5, <1>6, <2>1 DEF HeldResetInv, NoneQueued, Sub
<1>12. EpochInv'
  BY <1>3, <1>7 DEF PInv, EpochInv
<1>13. AdmittedInv'
  BY <1>2, <1>3, <1>4, <1>7 DEF PInv, AdmittedInv, At, Sub
<1>14. QED
  BY <1>3, <1>7, <1>8, <1>9, <1>10, <1>11, <1>12, <1>13, HeadTaken, UnseenStep DEF PInv

\* The worker holds another thing, and it is not a reset.
LEMMA WorkerMoves ==
  ASSUME PInv, ~Resetting, ~Resetting', worker'.at # "compare",
         Holding' => Sub(worker'.op) \/ worker'.op.id = NoCall,
         UNCHANGED <<ch, epoch, barrier, applied, closed, courier, call>>
  PROVE  PInv' /\ Cutting' = Cutting
<1>1. /\ NobodySending' = NobodySending /\ NoneQueued' = NoneQueued /\ Cutting' = Cutting
      /\ \A e : Admitted(e)' <=> Admitted(e)
  BY DEF NobodySending, At, NoneQueued, Cutting, Admitted
<1>2. OwnInv' /\ CourierInv' /\ QueuedResetInv' /\ HeldResetInv'
  BY <1>1 DEF PInv, OwnInv, CourierInv, QueuedResetInv, HeldResetInv, Sub
<1>3. EpochInv' /\ AdmittedInv'
  BY <1>1 DEF PInv, EpochInv, AdmittedInv, At, Sub
<1>4. QED
  BY <1>1, <1>2, <1>3 DEF PInv

LEMMA ExitKept ==
  ASSUME QInv, PInv, Exit
  PROVE  PInv' /\ Kept
<1>1. /\ worker.at = "receive" /\ worker'.at = "gone"
      /\ UNCHANGED <<ch, epoch, barrier, applied, closed, courier, call, innerClosed>>
  BY DEF Exit, QInv, TypeOK, channel, state, threads
<1>2. PInv' /\ Cutting' = Cutting
  BY <1>1, WorkerMoves DEF Resetting, Holding
<1>3. UNCHANGED <<Waiting, Before, Running>>
  BY <1>1 DEF Waiting, Before, Running, Held, Queued, Older, InChannel
<1>4. QED
  BY <1>1, <1>2, <1>3, UnseenStep

\* What the worker drops was withdrawn, or is from before a cut.
LEMMA DiscardKept ==
  ASSUME QInv, PInv, Discard
  PROVE  PInv' /\ Kept
<1>1. /\ worker.at = "compare" /\ worker'.at = "receive"
      /\ UNCHANGED <<ch, epoch, barrier, applied, closed, courier, call, innerClosed>>
  BY DEF Discard, channel, state
<1>2. Sub(worker.op) /\ worker.op.kind # "reset"
  BY DEF Discard, Stale, Withdrawn, Sub, Submissions
<1>3. PInv' /\ Cutting' = Cutting
  BY <1>1, <1>2, WorkerMoves DEF Resetting, Holding
<1>4. Cutting \/ worker.op.id \in expired
  BY <1>1, <1>2 DEF Discard, Stale, Withdrawn, PInv, AdmittedInv, Admitted
<1>5. Promise!Leave(worker.op.id)
  BY <1>1, <1>2, HeldLeaves
<1>6. Running' = Running
  BY <1>1 DEF Running
<1>7. Promise!Drop(worker.op.id)
  BY <1>1, <1>3, <1>4, <1>5, <1>6 DEF Promise!Drop
<1>8. worker.op.id \in Ids
  BY <1>1, <1>2 DEF QInv, HeldInv, Holding, Made
<1>9. QED
  BY <1>3, <1>7, <1>8 DEF Kept, Promise!Next

\* What begins was admitted after the last cut.
LEMMA BeginKept ==
  ASSUME QInv, PInv, Begin
  PROVE  PInv' /\ Kept
<1>1. worker.at = "compare" /\ worker'.at = "run" /\ worker'.op = worker.op
  BY DEF Begin, QInv, TypeOK
<1>2. UNCHANGED <<ch, epoch, barrier, applied, closed, courier, call, innerClosed>>
  BY DEF Begin, channel, state, threads
<1>3. CASE Sub(worker.op)
  <2>1. worker.op.kind # "reset" /\ worker.op.epoch = epoch
    BY <1>3 DEF Begin, Stale, Sub, Submissions
  <2>2. PInv' /\ Cutting' = Cutting
    BY <1>1, <1>2, <1>3, <2>1, WorkerMoves DEF Resetting
  <2>3. ~Cutting
    BY <1>1, <1>3, <2>1 DEF PInv, AdmittedInv, Admitted
  <2>4. ~innerClosed
    BY <1>1 DEF QInv, LifeInv
  <2>5. Promise!Leave(worker.op.id)
    BY <1>1, <1>2, <1>3, HeldLeaves
  <2>6. Running = NoCall /\ Running' = worker.op.id
    BY <1>1 DEF Running
  <2>7. Promise!Begin(worker.op.id)
    BY <1>2, <2>2, <2>3, <2>4, <2>5, <2>6 DEF Promise!Begin
  <2>8. worker.op.id \in Ids
    BY <1>1, <1>3 DEF QInv, HeldInv, Holding, Made
  <2>9. QED
    BY <2>2, <2>7, <2>8 DEF Kept, Promise!Next
<1>4. CASE ~Sub(worker.op)
  <2>1. worker.op.id = NoCall
    BY <1>1, <1>4 DEF PInv, OwnInv, Holding
  <2>2. UNCHANGED <<Waiting, Before, Running>>
    BY <1>1, <1>2, <1>4, <2>1 DEF Waiting, Before, Running, Held, Queued, Older, InChannel, Sub
  <2>3. /\ Resetting' = Resetting /\ NobodySending' = NobodySending /\ NoneQueued' = NoneQueued
        /\ Cutting' = Cutting /\ \A e : Admitted(e)' <=> Admitted(e)
    BY <1>1, <1>2 DEF Resetting, NobodySending, At, NoneQueued, Cutting, Admitted
  <2>4. OwnInv' /\ CourierInv' /\ QueuedResetInv' /\ HeldResetInv'
    BY <1>1, <1>2, <2>1, <2>3 DEF PInv, OwnInv, CourierInv, QueuedResetInv, HeldResetInv, Sub
  <2>5. EpochInv' /\ AdmittedInv'
    BY <1>1, <1>2, <2>3 DEF PInv, EpochInv, AdmittedInv, At, Sub
  <2>6. QED
    BY <1>2, <2>2, <2>3, <2>4, <2>5, UnseenStep DEF PInv
<1>5. QED
  BY <1>3, <1>4

LEMMA ClearBarrierKept ==
  ASSUME QInv, PInv, ClearBarrier
  PROVE  PInv' /\ Kept
<1>1. worker.at = "clear" /\ worker'.at = "receive"
  BY DEF ClearBarrier
<1>2. UNCHANGED <<ch, epoch, applied, closed, courier, call, innerClosed>>
  BY DEF ClearBarrier, channel, threads
<1>3. Resetting
  BY <1>1 DEF QInv, LifeInv, Resetting
<1>4. /\ barrier # 0 /\ worker.op.epoch = barrier /\ NoneQueued /\ NobodySending
      /\ barrier \in applied
  BY <1>1, <1>3 DEF PInv, HeldResetInv
<1>5. barrier' = 0
  BY <1>4 DEF ClearBarrier
<1>6. ~Resetting' /\ courier = "none" /\ NoneQueued'
  BY <1>1, <1>2, <1>3, <1>4 DEF PInv, CourierInv, Resetting, NoneQueued
<1>7. Cutting' = Cutting /\ \A e : Admitted(e)' <=> Admitted(e)
  BY <1>2 DEF Cutting, Admitted
<1>8. OwnInv' /\ CourierInv' /\ QueuedResetInv' /\ HeldResetInv'
  BY <1>1, <1>2, <1>6 DEF PInv, OwnInv, Holding, CourierInv, QueuedResetInv, HeldResetInv, NoneQueued
<1>9. EpochInv'
  BY <1>2, <1>4, <1>5, <1>7 DEF PInv, EpochInv, Cutting
<1>10. AdmittedInv'
  BY <1>1, <1>2, <1>7 DEF PInv, AdmittedInv, At, Sub
<1>11. UNCHANGED <<Waiting, Before, Running>>
  BY <1>1, <1>2 DEF Waiting, Before, Running, Held, Queued, Older, InChannel
<1>12. QED
  BY <1>2, <1>7, <1>8, <1>9, <1>10, <1>11, UnseenStep DEF PInv

\* The device returns: from a call, from a reset, which ends a cut unless there
\* has been another since, or from the close.
LEMMA FinishKept ==
  ASSUME QInv, PInv, Finish
  PROVE  PInv' /\ Kept
<1>1. worker.at = "run" /\ Holding /\ ~innerClosed
  BY DEF Finish, Holding, QInv, LifeInv
<1>2. UNCHANGED <<ch, epoch, barrier, closed, courier, call>>
  BY DEF Finish, channel, state
<1>3. Held = {} /\ (worker'.at # "compare" => Held' = {}) /\ Queued' = Queued /\ Older' = Older
  BY <1>1, <1>2 DEF Held, Queued, Older, InChannel
<1>4. CASE worker.op.kind = "reset"
  <2>1. /\ worker'.at = "clear" /\ worker'.op = worker.op
        /\ applied' = applied \cup {worker.op.epoch} /\ innerClosed' = innerClosed
    BY <1>4 DEF Finish, QInv, TypeOK
  <2>2. Resetting /\ Resetting'
    BY <1>1, <1>4, <2>1 DEF Resetting
  <2>3. /\ barrier # 0 /\ worker.op.epoch = barrier /\ NoneQueued /\ NobodySending
        /\ \A j \in 1..Len(ch) : ~Sub(ch[j])
    BY <2>2 DEF PInv, HeldResetInv
  <2>4. courier = "none" /\ NoneQueued' /\ NobodySending'
    BY <1>2, <2>2, <2>3 DEF PInv, CourierInv, NoneQueued, NobodySending, At
  <2>5. OwnInv'
    BY <1>1, <1>2, <2>1 DEF PInv, OwnInv, Holding
  <2>6. CourierInv' /\ QueuedResetInv'
    BY <1>2, <2>4 DEF CourierInv, QueuedResetInv, NoneQueued
  <2>7. HeldResetInv'
    BY <1>2, <2>1, <2>3, <2>4 DEF HeldResetInv, Sub
  <2>8. EpochInv'
    <3>1. barrier \in 0..epoch /\ epoch \in Nat
      BY DEF QInv, TypeOK
    <3>2. ~closed => barrier = epoch
      BY <2>3 DEF PInv, EpochInv
    <3>3. QED
      BY <1>2, <2>1, <2>3, <3>1, <3>2 DEF PInv, EpochInv
  <2>9. AdmittedInv'
    BY <1>2, <2>1, <2>3, <2>4 DEF AdmittedInv, NobodySending, Sub
  <2>10. Waiting = {} /\ Queued = {}
    BY <1>3, <2>3 DEF Waiting, Queued, InChannel, Sub
  <2>11. UNCHANGED <<Waiting, Before>>
    BY <1>3, <2>1 DEF Waiting, Before
  <2>12. Running = NoCall /\ Running' = NoCall
    BY <1>1, <1>4, <2>1 DEF Running, PInv, OwnInv, Sub, Submissions
  <2>13. CASE Cutting' = Cutting
    BY <2>1, <2>5, <2>6, <2>7, <2>8, <2>9, <2>11, <2>12, <2>13, UnseenStep DEF PInv
  <2>14. CASE Cutting' # Cutting
    <3>1. Cutting /\ Cutting' = FALSE
      BY <1>2, <2>1, <2>14 DEF Cutting
    <3>2. Promise!Neutral
      BY <2>1, <2>10, <2>11, <2>12, <3>1 DEF Promise!Neutral, Promise!line
    <3>3. QED
      BY <2>5, <2>6, <2>7, <2>8, <2>9, <3>2 DEF PInv, Kept, Promise!Next
  <2>15. QED
    BY <2>13, <2>14
<1>5. CASE worker.op.kind # "reset"
  <2>1. /\ worker'.at = "receive" /\ applied' = applied
        /\ innerClosed' = (innerClosed \/ worker.op.kind = "close")
    BY <1>5 DEF Finish
  <2>2. PInv' /\ Cutting' = Cutting
    BY <1>1, <1>2, <1>5, <2>1, WorkerMoves DEF Resetting, Holding
  <2>3. UNCHANGED <<Waiting, Before>> /\ Waiting = Queued
    BY <1>3, <2>1 DEF Waiting, Before
  <2>4. Running = worker.op.id /\ Running' = NoCall
    BY <1>1, <2>1 DEF Running
  <2>5. CASE Sub(worker.op)
    <3>1. worker.op.id # NoCall
      BY <1>1, <2>5, QueueAssumption DEF QInv, HeldInv, Made, Ids
    <3>2. innerClosed' = innerClosed
      <4>1. worker.op.kind # "close" /\ innerClosed \in BOOLEAN
        BY <2>5 DEF Sub, Submissions, QInv, TypeOK
      <4>2. QED
        BY <1>1, <2>1, <4>1
    <3>3. Promise!Finish
      BY <2>2, <2>3, <2>4, <3>1, <3>2 DEF Promise!Finish, Promise!line
    <3>4. QED
      BY <2>2, <3>3 DEF Kept, Promise!Next
  <2>6. CASE ~Sub(worker.op)
    <3>1. worker.op.kind = "close"
      BY <1>5, <2>6 DEF QInv, TypeOK, Op, Sub
    <3>2. Running = NoCall
      BY <1>1, <2>4, <2>6 DEF PInv, OwnInv
    <3>3. ch = <<>>
      BY <1>1, <3>1 DEF QInv, LifeInv, TypeOK
    <3>4. Waiting = {}
      BY <2>3, <3>3 DEF Queued, InChannel
    <3>5. innerClosed' = TRUE
      BY <2>1, <3>1
    <3>6. Promise!Close
      BY <1>1, <2>2, <2>3, <2>4, <3>2, <3>4, <3>5 DEF Promise!Close, Promise!line
    <3>7. QED
      BY <2>2, <3>6 DEF Kept, Promise!Next
  <2>7. QED
    BY <2>5, <2>6
<1>6. QED
  BY <1>4, <1>5

-----------------------------------------------------------------------------
(* The promise is kept.                                                    *)

LEMMA PInvInit == Init => PInv /\ Promise!Init
<1> SUFFICES ASSUME Init PROVE PInv /\ Promise!Init
  OBVIOUS
<1> USE DEF Init
<1>1. \A t \in Threads : call[t].at = "out"
  BY DEF Outside
<1>2. ~Cutting
  BY DEF Cutting
<1>3. PInv
  BY <1>1, <1>2 DEF PInv, OwnInv, CourierInv, QueuedResetInv, HeldResetInv, EpochInv, AdmittedInv,
     Holding, Resetting, At
<1>4. Waiting = {} /\ Before = {} /\ Running = NoCall
  BY DEF Waiting, Before, Running, Held, Queued, Older, InChannel
<1>5. QED
  BY <1>2, <1>3, <1>4 DEF Promise!Init

LEMMA PInvNext == QInv /\ PInv /\ [Next]_vars => PInv' /\ Kept
<1> SUFFICES ASSUME QInv, PInv, [Next]_vars PROVE PInv' /\ Kept
  OBVIOUS
<1>1. CASE UNCHANGED vars
  BY <1>1, Unmoved DEF vars
<1>2. ASSUME NEW t \in Threads, NEW kind \in Uses, Invoke(t, kind) PROVE PInv' /\ Kept
  BY <1>2, InvokeKept
<1>3. ASSUME NEW t \in Threads, Expire(t) PROVE PInv' /\ Kept
  BY <1>3, ExpireKept
<1>4. ASSUME NEW t \in Threads, CallerStep(t) PROVE PInv' /\ Kept
  BY <1>4, SubmitKept, BarrierLiftedKept, SendKept, AnswersKept, ResetKept, CloseKept
     DEF CallerStep
<1>5. CASE CourierStep
  BY <1>5, CourierLockKept, CourierSendKept DEF CourierStep
<1>6. CASE FinisherStep
  BY <1>6, FinisherKept, OfferCloseKept DEF FinisherStep
<1>7. CASE WorkerStep
  BY <1>7, ReceiveKept, ExitKept, DiscardKept, BeginKept, ClearBarrierKept DEF WorkerStep
<1>8. CASE Finish
  BY <1>8, FinishKept
<1>9. QED
  BY <1>1, <1>2, <1>3, <1>4, <1>5, <1>6, <1>7, <1>8 DEF Next

\* The barrier keeps apart what came before a reset and what comes after it: a
\* reset is at one place only and nothing submitted is behind it, and what is
\* admitted is of the current epoch unless there has been a cut since then
\* (submit, ResetContext and the worker's comparison, async.go).
THEOREM BarrierInvariance == Spec => []PInv
<1>1. Init => PInv
  BY PInvInit
<1>2. QInv /\ PInv /\ [Next]_vars => PInv'
  BY PInvNext
<1>3. QED
  BY <1>1, <1>2, QueueInvariance, PTL DEF Spec

\* The queue keeps the promise of SerialInput: one operation at a time, in the
\* order of acceptance, nothing from before a cut after it, and nothing after
\* the close, for any number of threads and calls (async.go).
THEOREM PromiseKept == Spec => ImplementsPromise
<1>1. Init => Promise!Init
  BY PInvInit
<1>2. QInv /\ PInv /\ [Next]_vars => [Promise!Next]_(Promise!visible)
  BY PInvNext DEF Kept
<1>3. QED
  BY <1>1, <1>2, QueueInvariance, BarrierInvariance, PTL DEF Spec, ImplementsPromise, Promise!Spec

-----------------------------------------------------------------------------
(* Nobody waits for nothing.                                               *)

\* The action a caller waits for an answer to is in the channel or with the worker.
Asked(id) ==
  \/ \E i \in 1..Len(ch) : ch[i].kind = "action" /\ ch[i].id = id
  \/ Holding /\ worker.op.kind = "action" /\ worker.op.id = id

\* What a caller waits for is under way: the answer to its action, the reset that it asked
\* for or that another caller did, the close.
CallerWaitsOK(t) ==
  /\ At(t, "await") => call[t].kind # "input"
  /\ At(t, "await") /\ call[t].kind \in Closings => closed
  /\ At(t, "await") /\ call[t].kind = "action" /\ receipt[t] = "none" => Asked(Id(t))
  /\ (At(t, "barrier") \/ (At(t, "await") /\ call[t].kind = "reset"))
       => call[t].epoch \in applied \/ (barrier # 0 /\ barrier = call[t].epoch)

\* While there is a barrier its reset is with its courier, in the channel or with the worker.
ResetUnderWay ==
  barrier # 0 => courier # "none" \/ ~NoneQueued \/ Resetting

WaitInv == (\A t \in Threads : CallerWaitsOK(t)) /\ ResetUnderWay

\* A caller, and each of the queue's own goroutines, where it need not wait.
CallerReady(t) ==
  \/ At(t, "enter") /\ (call[t].kind \in Submissions => EnqueueFree)
  \/ At(t, "barrier") /\ call[t].epoch \in applied
  \/ At(t, "send") /\ Room
  \/ At(t, "await") /\ call[t].kind = "action" /\ receipt[t] # "none"
  \/ At(t, "await") /\ call[t].kind = "reset" /\ call[t].epoch \in applied
  \/ At(t, "await") /\ call[t].kind \in Closings /\ finisher = "done"
CourierReady == (courier = "lock" /\ EnqueueFree) \/ (courier = "send" /\ Room)
FinisherReady ==
  \/ finisher = "senders" /\ Senders = {}
  \/ finisher = "offer" /\ Room
  \/ finisher = "closing" /\ innerClosed
  \/ finisher = "exit" /\ worker.at = "gone"
WorkerReady ==
  \/ worker.at \in {"compare", "clear"}
  \/ worker.at = "receive" /\ (ch # <<>> \/ chClosed)

\* While there is anything to do, somebody need not wait, or the device is at work.
Unfinished ==
  \/ \E t \in Threads : ~At(t, "out")
  \/ barrier # 0 \/ ch # <<>> \/ courier # "none" \/ finisher \notin {"none", "done"}
NeverStuck ==
  Unfinished =>
    \/ \E t \in Threads : CallerReady(t)
    \/ CourierReady \/ FinisherReady \/ WorkerReady \/ worker.at = "run"

\* A caller that does not move goes on waiting for the same.
LEMMA WaitsOn ==
  ASSUME NEW t \in Threads, CallerWaitsOK(t), UNCHANGED <<call[t], count[t]>>,
         closed => closed', applied \subseteq applied',
         barrier' = barrier \/ barrier = 0 \/ barrier \in applied',
         receipt'[t] = "none" => receipt[t] = "none",
         NEW id, id = Id(t), receipt'[t] = "none" => (Asked(id) => Asked(id)')
  PROVE  CallerWaitsOK(t)'
<1>1. Id(t)' = id /\ Id(t) = id
  BY DEF Id
<1>2. CallerWaitsOK(t)' <=>
        /\ At(t, "await") => call[t].kind # "input"
        /\ At(t, "await") /\ call[t].kind \in Closings => closed'
        /\ At(t, "await") /\ call[t].kind = "action" /\ receipt'[t] = "none" => Asked(id)'
        /\ (At(t, "barrier") \/ (At(t, "await") /\ call[t].kind = "reset"))
             => call[t].epoch \in applied' \/ (barrier' # 0 /\ barrier' = call[t].epoch)
  BY <1>1 DEF CallerWaitsOK, At
<1> QED
  BY <1>1, <1>2 DEF CallerWaitsOK

LEMMA LineStays ==
  ASSUME UNCHANGED <<ch, worker>>
  PROVE  (\A id : Asked(id)' <=> Asked(id)) /\ NoneQueued' = NoneQueued /\ Resetting' = Resetting
BY DEF Asked, Holding, NoneQueued, Resetting

\* A step of one caller by which nothing else changes but its call and, perhaps, a close.
LEMMA CallerMoved ==
  ASSUME QInv, WaitInv, NEW t \in Threads,
         \A u \in Threads : u # t => UNCHANGED <<call[u], count[u], receipt[u]>>,
         UNCHANGED <<ch, worker, barrier, applied, courier>>, closed => closed',
         CallerWaitsOK(t)'
  PROVE  WaitInv'
<1>1. ASSUME NEW u \in Threads, u # t
      PROVE  CallerWaitsOK(u)'
  BY <1>1, WaitsOn, LineStays DEF WaitInv
<1>2. ResetUnderWay'
  BY LineStays DEF WaitInv, ResetUnderWay
<1> QED
  BY <1>1, <1>2 DEF WaitInv

\* Where a caller waits for nothing.
LEMMA WaitsForNothing ==
  ASSUME NEW t \in Threads, call'[t].at \in {"out", "enter", "send"}
  PROVE  CallerWaitsOK(t)'
BY DEF CallerWaitsOK, At

LEMMA ReturnWaits ==
  ASSUME QInv, WaitInv, NEW t \in Threads, NEW r, Return(t, r),
         UNCHANGED <<ch, worker, barrier, applied, courier, closed>>
  PROVE  WaitInv'
<1>1. call'[t].at = "out" /\ \A u \in Threads : u # t => call'[u] = call[u]
  BY DEF Return, Outside, QInv, TypeOK
<1>2. count' = count /\ receipt' = receipt
  BY DEF Return
<1> QED
  BY <1>1, <1>2, WaitsForNothing, CallerMoved

LEMMA WaitForIs ==
  ASSUME QInv, NEW t \in Threads, NEW place, NEW e, WaitFor(t, place, e)
  PROVE  /\ call'[t].at = place /\ call'[t].epoch = e /\ call'[t].kind = call[t].kind
         /\ \A u \in Threads : u # t => call'[u] = call[u]
<1>1. call \in [Threads -> Call] /\ call[t] \in Call
  BY DEF QInv, TypeOK
<1>2. call'[t] = [call[t] EXCEPT !.at = place, !.epoch = e]
  BY <1>1 DEF WaitFor
<1> QED
  BY <1>1, <1>2 DEF WaitFor, Call

LEMMA MoveIs ==
  ASSUME QInv, NEW t \in Threads, NEW place, Move(t, place)
  PROVE  /\ call'[t].at = place /\ call'[t].kind = call[t].kind
         /\ \A u \in Threads : u # t => call'[u] = call[u]
<1>1. call \in [Threads -> Call] /\ call[t] \in Call
  BY DEF QInv, TypeOK
<1>2. call'[t] = [call[t] EXCEPT !.at = place]
  BY <1>1 DEF Move
<1> QED
  BY <1>1, <1>2 DEF Move, Call

LEMMA SubmitWaits ==
  ASSUME QInv, WaitInv, NEW t \in Threads, Submit(t)
  PROVE  WaitInv'
<1>1. UNCHANGED <<ch, worker, barrier, applied, courier, closed>> /\ call[t].kind \in Submissions
  BY DEF Submit, channel, state
<1>2. CASE Return(t, "rejected")
  BY <1>1, <1>2, ReturnWaits
<1>3. CASE WaitFor(t, "send", epoch) /\ UNCHANGED <<count, receipt>>
  BY <1>1, <1>3, WaitForIs, WaitsForNothing, CallerMoved
<1>4. CASE barrier # 0 /\ WaitFor(t, "barrier", barrier) /\ UNCHANGED <<count, receipt>>
  <2>1. CallerWaitsOK(t)'
    BY <1>1, <1>4, WaitForIs DEF CallerWaitsOK, At
  <2> QED
    BY <1>1, <1>4, <2>1, WaitForIs, CallerMoved
<1> QED
  BY <1>2, <1>3, <1>4 DEF Submit

LEMMA InvokeWaits ==
  ASSUME QInv, WaitInv, NEW t \in Threads, NEW kind \in Uses, Invoke(t, kind)
  PROVE  WaitInv'
<1>1. [Outside EXCEPT !.kind = kind, !.at = "enter"].at = "enter"
  BY DEF Outside
<1>2. call'[t].at = "enter" /\ \A u \in Threads : u # t => UNCHANGED <<call[u], count[u], receipt[u]>>
  BY <1>1 DEF Invoke, QInv, TypeOK
<1>3. UNCHANGED <<ch, worker, barrier, applied, courier, closed>>
  BY DEF Invoke, channel, state
<1> QED
  BY <1>2, <1>3, WaitsForNothing, CallerMoved

LEMMA AnswersWait ==
  ASSUME QInv, WaitInv, NEW t \in Threads,
         Withdraw(t) \/ Answer(t) \/ ResetReturn(t) \/ CloseReturn(t) \/ BarrierLifted(t)
  PROVE  WaitInv'
<1>1. UNCHANGED <<ch, worker, barrier, applied, courier, closed>>
  BY DEF Withdraw, Answer, ResetReturn, CloseReturn, BarrierLifted, channel, state
<1>2. CASE \E r : Return(t, r)
  BY <1>1, <1>2, ReturnWaits
<1>3. CASE Move(t, "enter") /\ UNCHANGED <<count, receipt>>
  BY <1>1, <1>3, MoveIs, WaitsForNothing, CallerMoved
<1> QED
  BY <1>2, <1>3 DEF Withdraw, Answer, ResetReturn, CloseReturn, BarrierLifted

LEMMA CloseWaits ==
  ASSUME QInv, WaitInv, NEW t \in Threads, Close(t)
  PROVE  WaitInv'
<1>1. /\ UNCHANGED <<ch, worker, barrier, applied, courier, count, receipt>> /\ closed'
      /\ Move(t, "await") /\ call[t].kind \in Closings
  BY DEF Close, channel, QInv, TypeOK
<1>2. CallerWaitsOK(t)'
  BY <1>1, MoveIs DEF CallerWaitsOK, At, Closings
<1> QED
  BY <1>1, <1>2, MoveIs, CallerMoved

LEMMA ResetWaits ==
  ASSUME QInv, WaitInv, NEW t \in Threads, Reset(t)
  PROVE  WaitInv'
<1>1. UNCHANGED <<ch, worker, applied, closed>> /\ call[t].kind = "reset"
  BY DEF Reset, channel, state
<1>2. CASE Return(t, "ok") /\ UNCHANGED <<state, courier>>
  BY <1>1, <1>2, ReturnWaits DEF state
<1>3. CASE barrier # 0 /\ WaitFor(t, "barrier", barrier) /\ UNCHANGED <<count, receipt, state, courier>>
  <2>1. CallerWaitsOK(t)'
    BY <1>1, <1>3, WaitForIs DEF CallerWaitsOK, At, state
  <2> QED
    BY <1>1, <1>3, <2>1, WaitForIs, CallerMoved DEF state
<1>4. CASE /\ barrier = 0 /\ barrier' = epoch + 1 /\ courier' = "lock"
           /\ WaitFor(t, "await", epoch + 1) /\ UNCHANGED <<count, receipt>>
  <2>1. barrier' # 0
    BY <1>4 DEF QInv, TypeOK
  <2>2. CallerWaitsOK(t)'
    BY <1>1, <1>4, <2>1, WaitForIs DEF CallerWaitsOK, At, Closings
  <2>3. ASSUME NEW u \in Threads, u # t
        PROVE  CallerWaitsOK(u)'
    BY <1>1, <1>4, <2>3, WaitForIs, WaitsOn, LineStays DEF WaitInv
  <2>4. ResetUnderWay'
    BY <1>4 DEF ResetUnderWay
  <2> QED
    BY <2>2, <2>3, <2>4 DEF WaitInv
<1> QED
  BY <1>2, <1>3, <1>4 DEF Reset

\* What is in the channel stays there when something is put behind it.
LEMMA Behind ==
  ASSUME QInv, NEW op, ch' = Append(ch, op), worker' = worker
  PROVE  /\ \A id : Asked(id) => Asked(id)'
         /\ ~NoneQueued => ~NoneQueued'
         /\ op.kind = "reset" => ~NoneQueued'
         /\ op.kind = "action" => Asked(op.id)'
         /\ Resetting' = Resetting
<1>1. ch \in Seq(Op) /\ Len(ch) \in Nat
  BY DEF QInv, TypeOK
<1>2. Len(ch') = Len(ch) + 1 /\ ch'[Len(ch')] = op /\ \A i \in 1..Len(ch) : ch'[i] = ch[i]
  BY <1>1
<1>3. 1..Len(ch) \subseteq 1..Len(ch') /\ Len(ch') \in 1..Len(ch')
  BY <1>1, <1>2
<1>4. \A id : Asked(id) => Asked(id)'
  BY <1>2, <1>3 DEF Asked, Holding
<1>5. ~NoneQueued => ~NoneQueued'
  BY <1>2, <1>3 DEF NoneQueued
<1>6. op.kind = "reset" => ~NoneQueued'
  BY <1>2, <1>3 DEF NoneQueued
<1>7. op.kind = "action" => Asked(op.id)'
  BY <1>2, <1>3 DEF Asked
<1> QED
  BY <1>4, <1>5, <1>6, <1>7 DEF Resetting

LEMMA SendWaits ==
  ASSUME QInv, WaitInv, NEW t \in Threads, Send(t)
  PROVE  WaitInv'
<1> DEFINE op == [kind |-> call[t].kind, id |-> Id(t), epoch |-> call[t].epoch]
<1>1. ch' = Append(ch, op) /\ UNCHANGED <<worker, barrier, applied, courier, closed, count, receipt>>
  BY DEF Send, state, Return
<1>2. \A u \in Threads : u # t => call'[u] = call[u]
  BY MoveIs DEF Send, Return, QInv, TypeOK
<1>3. op.kind = call[t].kind /\ op.id = Id(t)
  OBVIOUS
<1> HIDE DEF op
<1>4. CallerWaitsOK(t)'
  <2>1. CASE call[t].kind = "action"
    <3>1. call'[t].at = "await" /\ call'[t].kind = "action"
      BY <2>1, MoveIs DEF Send
    <3>2. Asked(Id(t))'
      BY <1>1, <1>3, <2>1, Behind DEF Id
    <3> QED
      BY <3>1, <3>2 DEF CallerWaitsOK, At, Closings
  <2>2. CASE call[t].kind # "action"
    <3>1. call'[t].at = "out"
      BY <2>2 DEF Send, Return, Outside, QInv, TypeOK
    <3> QED
      BY <3>1, WaitsForNothing
  <2> QED
    BY <2>1, <2>2
<1>5. ASSUME NEW u \in Threads, u # t
      PROVE  CallerWaitsOK(u)'
  BY <1>1, <1>2, <1>5, Behind, WaitsOn DEF WaitInv
<1>6. ResetUnderWay'
  BY <1>1, Behind DEF WaitInv, ResetUnderWay
<1> QED
  BY <1>4, <1>5, <1>6 DEF WaitInv

\* A step of the queue's own goroutines.
LEMMA OwnStepWaits ==
  ASSUME QInv, WaitInv, UNCHANGED <<call, count, closed>>,
         applied \subseteq applied', barrier' = barrier \/ barrier \in applied',
         \A t \in Threads : receipt'[t] = "none" => receipt[t] = "none",
         \A t \in Threads : \A id :
           id = Id(t) /\ receipt'[t] = "none" => (Asked(id) => Asked(id)'),
         ResetUnderWay'
  PROVE  WaitInv'
<1>1. ASSUME NEW t \in Threads
      PROVE  CallerWaitsOK(t)'
  BY WaitsOn DEF WaitInv
<1> QED
  BY <1>1 DEF WaitInv

LEMMA QueueOwnWaits ==
  ASSUME QInv, WaitInv, CourierStep \/ FinisherStep
  PROVE  WaitInv'
<1>1. UNCHANGED <<call, count, closed, applied, barrier, receipt, worker>>
  BY DEF CourierStep, CourierLock, CourierSend, FinisherStep, SendersGone, OfferClose, CloseChannel,
         CloseDone, state, threads
<1>2. CASE ch' = ch /\ (courier # "none" => courier' # "none")
  BY <1>1, <1>2, LineStays, OwnStepWaits DEF WaitInv, ResetUnderWay
<1>3. CASE CourierSend
  <2>1. ch' = Append(ch, QueueOp("reset", barrier)) /\ QueueOp("reset", barrier).kind = "reset"
    BY <1>3 DEF CourierSend, QueueOp
  <2> QED
    BY <1>1, <2>1, Behind, OwnStepWaits DEF ResetUnderWay
<1>4. CASE OfferClose
  <2>1. ch' = Append(ch, QueueOp("close", epoch)) /\ courier' = courier
    BY <1>4 DEF OfferClose
  <2> QED
    BY <1>1, <2>1, Behind, OwnStepWaits DEF WaitInv, ResetUnderWay
<1> QED
  BY <1>2, <1>3, <1>4 DEF CourierStep, CourierLock, FinisherStep, SendersGone, CloseChannel,
     CloseDone, channel

\* The worker takes the head of the channel.
LEMMA ReceiveWaits ==
  ASSUME QInv, WaitInv, Receive
  PROVE  WaitInv'
<1>1. /\ ch \in Seq(Op) /\ ch # <<>> /\ ch' = Tail(ch)
      /\ worker.at = "receive" /\ worker' = [at |-> "compare", op |-> ch[1]]
  BY DEF Receive, QInv, TypeOK
<1>2. ASSUME NEW i \in 1..Len(ch)
      PROVE  ch[i] = worker'.op \/ \E j \in 1..Len(ch') : ch'[j] = ch[i]
  <2>1. CASE i = 1
    BY <1>1, <2>1
  <2>2. CASE i # 1
    <3>1. i - 1 \in 1..Len(ch') /\ ch'[i - 1] = ch[i]
      BY <1>1, <2>2
    <3> QED
      BY <3>1
  <2> QED
    BY <2>1, <2>2
<1>3. \A id : Asked(id) => Asked(id)'
  BY <1>1, <1>2 DEF Asked, Holding
<1>4. ~NoneQueued => ~NoneQueued' \/ Resetting'
  BY <1>1, <1>2 DEF NoneQueued, Resetting
<1>5. UNCHANGED <<call, count, closed, applied, barrier, receipt, courier>> /\ ~Resetting
  BY <1>1 DEF Receive, state, threads, Resetting
<1> QED
  BY <1>3, <1>4, <1>5, OwnStepWaits DEF WaitInv, ResetUnderWay

\* Whoever's action the worker is done with has an answer.
LEMMA Answered ==
  ASSUME QInv, NEW r \in {"executed", "rejected"}, Receipt(worker.op, r), ch' = ch, count' = count,
         NEW t \in Threads, NEW id, id = Id(t), receipt'[t] = "none"
  PROVE  receipt[t] = "none" /\ (Asked(id) => Asked(id)')
<1>1. ~(worker.op.kind = "action" /\ worker.op.id = id) /\ receipt'[t] = receipt[t]
  BY DEF Receipt
<1> QED
  BY <1>1 DEF Asked

LEMMA DiscardWaits ==
  ASSUME QInv, WaitInv, Discard
  PROVE  WaitInv'
<1>1. /\ UNCHANGED <<ch, call, count, closed, applied, barrier, courier>>
      /\ Receipt(worker.op, "rejected")
  BY DEF Discard, channel, state
<1>2. ~Resetting
  BY DEF Discard, Stale, Withdrawn, Submissions, Resetting
<1>3. ResetUnderWay'
  BY <1>1, <1>2 DEF WaitInv, ResetUnderWay, NoneQueued
<1> QED
  BY <1>1, <1>3, Answered, OwnStepWaits

LEMMA FinishWaits ==
  ASSUME QInv, WaitInv, Finish
  PROVE  WaitInv'
<1>1. /\ UNCHANGED <<ch, call, count, closed, barrier, courier>> /\ applied \subseteq applied'
      /\ Receipt(worker.op, "executed")
  BY DEF Finish, channel, state
<1>2. Resetting => Resetting'
  BY DEF Finish, Resetting, QInv, TypeOK
<1>3. ResetUnderWay'
  BY <1>1, <1>2 DEF WaitInv, ResetUnderWay, NoneQueued
<1> QED
  BY <1>1, <1>3, Answered, OwnStepWaits

LEMMA WorkerWaits ==
  ASSUME QInv, PInv, WaitInv, Exit \/ Begin \/ ClearBarrier
  PROVE  WaitInv'
<1>1. UNCHANGED <<ch, call, count, closed, applied, courier, receipt>>
  BY DEF Exit, Begin, ClearBarrier, channel, state, threads
<1>2. worker \in [at: {"receive", "compare", "run", "clear", "gone"}, op: Op]
  BY DEF QInv, TypeOK
<1>3. \A id : Asked(id) => Asked(id)'
  BY <1>1, <1>2 DEF Asked, Holding, Exit, Begin, ClearBarrier
<1>4. CASE Exit \/ Begin
  <2>1. barrier' = barrier /\ (Resetting => Resetting') /\ NoneQueued' = NoneQueued
    BY <1>1, <1>2, <1>4 DEF Exit, Begin, state, Resetting, NoneQueued
  <2> QED
    BY <1>1, <1>3, <2>1, OwnStepWaits DEF WaitInv, ResetUnderWay
<1>5. CASE ClearBarrier
  <2>1. Resetting /\ worker.at = "clear"
    BY <1>5 DEF ClearBarrier, Resetting, QInv, LifeInv
  <2>2. barrier' = 0 /\ barrier \in applied
    BY <1>5, <2>1 DEF ClearBarrier, PInv, HeldResetInv
  <2> QED
    BY <1>1, <1>3, <2>2, OwnStepWaits DEF ResetUnderWay
<1> QED
  BY <1>4, <1>5

LEMMA WaitInvInit == Init => WaitInv
BY DEF Init, WaitInv, CallerWaitsOK, ResetUnderWay, At, Outside

LEMMA WaitInvNext == QInv /\ PInv /\ WaitInv /\ [Next]_vars => WaitInv'
<1> SUFFICES ASSUME QInv, PInv, WaitInv, [Next]_vars
             PROVE  WaitInv'
  OBVIOUS
<1>1. CASE UNCHANGED vars
  BY <1>1, LineStays, OwnStepWaits DEF vars, WaitInv, ResetUnderWay
<1>2. ASSUME NEW t \in Threads, NEW kind \in Uses, Invoke(t, kind)
      PROVE  WaitInv'
  BY <1>2, InvokeWaits
<1>3. ASSUME NEW t \in Threads, Expire(t)
      PROVE  WaitInv'
  <2>1. UNCHANGED <<ch, worker, call, count, closed, applied, barrier, receipt, courier>>
    BY <1>3 DEF Expire, channel, state
  <2> QED
    BY <2>1, LineStays, OwnStepWaits DEF WaitInv, ResetUnderWay
<1>4. ASSUME NEW t \in Threads, CallerStep(t)
      PROVE  WaitInv'
  BY <1>4, SubmitWaits, AnswersWait, SendWaits, ResetWaits, CloseWaits DEF CallerStep
<1>5. CASE CourierStep \/ FinisherStep
  BY <1>5, QueueOwnWaits
<1>6. CASE WorkerStep \/ Finish
  BY <1>6, ReceiveWaits, DiscardWaits, FinishWaits, WorkerWaits DEF WorkerStep
<1> QED
  BY <1>1, <1>2, <1>3, <1>4, <1>5, <1>6 DEF Next

\* Where nothing moves, nothing is queued and nobody is to send.
LEMMA StillQueue ==
  ASSUME QInv, PInv, WaitInv, ~CourierReady, ~FinisherReady, ~WorkerReady, worker.at # "run",
         \A t \in Threads : ~CallerReady(t)
  PROVE  /\ ch = <<>> /\ ~Holding /\ courier = "none" /\ barrier = 0 /\ EnqueueFree
         /\ finisher \in {"none", "done"}
<1>1. worker.at \in {"receive", "gone"}
  BY DEF QInv, TypeOK, WorkerReady
<1>2. ch = <<>>
  BY <1>1 DEF WorkerReady, QInv, LifeInv
<1>3. Room
  BY <1>2, QueueAssumption DEF Room
<1>4. courier # "send" /\ \A t \in Threads : ~At(t, "send")
  BY <1>3 DEF CourierReady, CallerReady
<1>5. EnqueueFree /\ courier = "none"
  BY <1>4 DEF EnqueueFree, CourierReady, QInv, TypeOK
<1>6. Senders = {}
  BY <1>4, <1>5 DEF Senders
<1>7. barrier = 0
  BY <1>1, <1>2, <1>5 DEF WaitInv, ResetUnderWay, NoneQueued, Resetting
<1>8. ~Holding
  BY <1>1 DEF Holding
<1>9. finisher \notin {"senders", "offer", "closing"}
  BY <1>2, <1>3, <1>6, <1>8 DEF FinisherReady, QInv, LifeInv
<1>10. finisher # "exit"
  BY <1>1 DEF FinisherReady, WorkerReady, QInv, LifeInv
<1> QED
  BY <1>2, <1>5, <1>7, <1>8, <1>9, <1>10 DEF QInv, TypeOK

\* The queue never stops with something to do: as long as a call has not returned, or a
\* reset or a close is under way, some goroutine is at none of the waits of the code
\* (enqueueMu, the barrier, a place in the FIFO, the senders, a receipt, the end of the
\* close), or the device is at work; for any number of threads, any capacity, and whichever
\* callers have given up (submit, ResetContext, finishClose, run, async.go).
THEOREM QueueNeverStuck == Spec => []NeverStuck
<1>1. QInv /\ PInv /\ WaitInv => NeverStuck
  <2> SUFFICES ASSUME QInv, PInv, WaitInv, ~CourierReady, ~FinisherReady, ~WorkerReady,
                      worker.at # "run", \A t \in Threads : ~CallerReady(t)
               PROVE  ~Unfinished
    BY DEF NeverStuck
  <2>1. ASSUME NEW t \in Threads
        PROVE  At(t, "out")
    <3>1. call[t] \in Call /\ CallerWaitsOK(t) /\ ~CallerReady(t)
      BY DEF QInv, TypeOK, WaitInv
    <3>2. ~At(t, "enter") /\ ~At(t, "barrier") /\ ~At(t, "send")
      BY <3>1, StillQueue DEF CallerReady, CallerWaitsOK, EnqueueFree
    <3>3. ~Asked(Id(t))
      BY StillQueue DEF Asked
    <3>4. CASE At(t, "await")
      <4>1. call[t].kind \in {"action", "reset"} \cup Closings
        BY <3>1, <3>4 DEF CallerWaitsOK, Call, CallKinds, Submissions
      <4>2. call[t].kind # "action"
        BY <3>1, <3>3, <3>4 DEF CallerReady, CallerWaitsOK
      <4>3. call[t].kind # "reset"
        BY <3>1, <3>4, StillQueue DEF CallerReady, CallerWaitsOK
      <4>4. call[t].kind \notin Closings
        BY <3>1, <3>4, StillQueue DEF CallerReady, CallerWaitsOK, QInv, LifeInv
      <4> QED
        BY <4>1, <4>2, <4>3, <4>4
    <3> QED
      BY <3>1, <3>2, <3>4 DEF Call, At
  <2> QED
    BY <2>1, StillQueue DEF Unfinished
<1>2. QInv /\ PInv /\ WaitInv /\ [Next]_vars => WaitInv'
  BY WaitInvNext
<1> QED
  BY <1>1, <1>2, WaitInvInit, QueueInvariance, BarrierInvariance, PTL DEF Spec
=============================================================================
