------------------------------ MODULE InputQueue ------------------------------
(***************************************************************************)
(* The injector's serialiser (daemon/internal/input/async.go): a bounded   *)
(* FIFO of operations between any number of calling threads and the one    *)
(* worker that drives the input device.  Its hard part is the lifecycle:   *)
(* a reset must cut off everything older and wait for the device, a close  *)
(* must not lose a sender nor send on a closed channel, and none of them   *)
(* may wait for a device that is stuck longer than its caller allows.      *)
(*                                                                         *)
(* A critical section of a.mu is one action.  enqueueMu is held across the *)
(* wait for a place in the FIFO; who holds it is the caller, or the        *)
(* reset's goroutine, that is at "send".  An operation is "input" (Move,   *)
(* Button, Touch, Text...: no context, no receipt) or "action"             *)
(* (LiteralText, SpecialAction, ComboAction: a context and a receipt).     *)
(***************************************************************************)
EXTENDS Naturals, Sequences, FiniteSets

CONSTANTS
  Threads,   \* the goroutines that call the injector
  Capacity,  \* buf of NewAsyncText: places in the FIFO
  MaxCalls,  \* bound: calls a thread makes
  Uses,      \* the calls threads make, see CallKinds
  NoCall     \* no call: the identity of the queue's own operations

Submissions == {"input", "action"}
Closings == {"drain", "close"}    \* Close and CloseContext
CallKinds == Submissions \cup Closings \cup {"reset"}

\* The calls whose context may end.
Bounded == {"action", "reset", "close"}

ASSUME QueueAssumption ==
  /\ Capacity \in Nat \ {0}
  /\ MaxCalls \in Nat
  /\ Uses \subseteq CallKinds
  /\ NoCall \notin Threads \X Nat

VARIABLES
  ch, chClosed,     \* the channel a.ch
  epoch, closed,    \* a.epoch and a.closed
  barrier,          \* a.resetBarrier: the epoch of the reset it stands for, 0 if nil
  applied,          \* the resets whose done channel is closed
  courier,          \* the goroutine of ResetContext that enqueues the reset
  finisher,         \* the goroutine of finishClose
  worker,           \* the worker's place and the operation it holds
  innerClosed,      \* inner.Close has returned
  call, count,      \* each thread's call, and how many it has made
  receipt,          \* the receipt channel of each thread's call
  expired,          \* calls whose context has ended
  began, refused    \* history: calls the device began, calls answered "rejected"

vars == <<ch, chClosed, epoch, closed, barrier, applied, courier, finisher, worker,
          innerClosed, call, count, receipt, expired, began, refused>>
channel == <<ch, chClosed>>
state == <<epoch, closed, barrier>>
threads == <<call, count, receipt, expired, refused>>

-----------------------------------------------------------------------------
(* Types.                                                                  *)

Ids == Threads \X (1..MaxCalls)

Op == [kind: Submissions \cup {"reset", "close"}, id: Ids \cup {NoCall}, epoch: Nat]
QueueOp(kind, e) == [kind |-> kind, id |-> NoCall, epoch |-> e]

\* What the worker holds between two operations.
NoOp == QueueOp("close", 0)

\* Where a thread is: outside, about to take a.mu, waiting for a reset,
\* waiting for a place in the FIFO, or waiting for its answer.
Call == [kind: CallKinds, at: {"out", "enter", "barrier", "send", "await"},
         epoch: Nat]
Outside == [kind |-> "input", at |-> "out", epoch |-> 0]

TypeOK ==
  /\ ch \in Seq(Op) /\ Len(ch) <= Capacity /\ chClosed \in BOOLEAN
  /\ epoch \in Nat /\ closed \in BOOLEAN /\ barrier \in 0..epoch
  /\ applied \subseteq Nat
  /\ courier \in {"none", "lock", "send"}
  /\ finisher \in {"none", "senders", "offer", "closing", "exit", "done"}
  /\ worker \in [at: {"receive", "compare", "run", "clear", "gone"}, op: Op]
  /\ innerClosed \in BOOLEAN
  /\ call \in [Threads -> Call]
  /\ count \in [Threads -> 0..MaxCalls]
  /\ receipt \in [Threads -> {"none", "executed", "rejected"}]
  /\ expired \subseteq Ids /\ began \subseteq Ids /\ refused \subseteq Ids

Init ==
  /\ ch = <<>> /\ chClosed = FALSE
  /\ epoch = 0 /\ closed = FALSE /\ barrier = 0 /\ applied = {}
  /\ courier = "none" /\ finisher = "none"
  /\ worker = [at |-> "receive", op |-> NoOp]
  /\ innerClosed = FALSE
  /\ call = [t \in Threads |-> Outside]
  /\ count = [t \in Threads |-> 0]
  /\ receipt = [t \in Threads |-> "none"]
  /\ expired = {} /\ began = {} /\ refused = {}

-----------------------------------------------------------------------------
(* Helpers.                                                                *)

Id(t) == <<t, count[t]>>
At(t, place) == call[t].at = place
EnqueueFree == courier # "send" /\ \A t \in Threads : ~At(t, "send")

\* Wrong: the goroutine of a reset is not counted as a sender.
ThreadsSending == {t \in Threads : At(t, "send")}

\* a.senders: threads and couriers that are to send, and have not yet.
Senders == {t \in Threads : At(t, "send")}
           \cup (IF courier = "none" THEN {} ELSE {NoCall})

\* Wrong: one place too many.
RoomForOneMore == Len(ch) <= Capacity

Room == Len(ch) < Capacity
Move(t, place) == call' = [call EXCEPT ![t].at = place]
WaitFor(t, place, e) == call' = [call EXCEPT ![t].at = place, ![t].epoch = e]

\* The call returns.  The context of an action lives on in its operation.
Return(t, result) ==
  /\ call' = [call EXCEPT ![t] = Outside]
  /\ refused' = IF result = "rejected" THEN refused \cup {Id(t)} ELSE refused
  /\ expired' = IF call[t].kind = "action" THEN expired ELSE expired \ {Id(t)}
  /\ UNCHANGED <<count, receipt>>

-----------------------------------------------------------------------------
(* Callers.                                                                *)

\* A thread calls the injector.
Invoke(t, kind) ==
  /\ At(t, "out") /\ count[t] < MaxCalls
  /\ call' = [call EXCEPT ![t] = [Outside EXCEPT !.kind = kind, !.at = "enter"]]
  /\ count' = [count EXCEPT ![t] = @ + 1]
  /\ receipt' = [receipt EXCEPT ![t] = "none"]
  /\ UNCHANGED <<expired, refused, channel, state, applied, courier, finisher, worker,
                 innerClosed, began>>

\* A call's context ends: a deadline, or a cancellation.
Expire(t) ==
  /\ call[t].kind \in Bounded /\ ~At(t, "out") /\ Id(t) \notin expired
  /\ expired' = expired \cup {Id(t)}
  /\ UNCHANGED <<call, count, receipt, refused, channel, state, applied, courier,
                 finisher, worker, innerClosed, began>>

\* Wrong: submit does not look at the barrier.
SubmitPastReset(t) ==
  /\ At(t, "enter") /\ call[t].kind \in Submissions /\ EnqueueFree
  /\ \/ closed /\ Return(t, "rejected")
     \/ ~closed /\ WaitFor(t, "send", epoch) /\ UNCHANGED <<count, receipt, expired, refused>>
  /\ UNCHANGED <<channel, state, applied, courier, finisher, worker, innerClosed, began>>

\* submit, once it has enqueueMu: refused by a closed queue, sent to wait for a
\* reset in progress, or admitted under the current epoch.
Submit(t) ==
  /\ At(t, "enter") /\ call[t].kind \in Submissions /\ EnqueueFree
  /\ \/ closed /\ Return(t, "rejected")
     \/ /\ ~closed /\ barrier # 0
        /\ WaitFor(t, "barrier", barrier) /\ UNCHANGED <<count, receipt, expired, refused>>
     \/ /\ ~closed /\ barrier = 0
        /\ WaitFor(t, "send", epoch) /\ UNCHANGED <<count, receipt, expired, refused>>
  /\ UNCHANGED <<channel, state, applied, courier, finisher, worker, innerClosed, began>>

\* A wait for a reset is over: look again.
BarrierLifted(t) ==
  /\ At(t, "barrier") /\ call[t].epoch \in applied
  /\ Move(t, "enter")
  /\ UNCHANGED <<count, receipt, expired, refused, channel, state, applied, courier,
                 finisher, worker, innerClosed, began>>

\* The operation takes a place in the FIFO; enqueueMu and the sender's count
\* are released.
Send(t) ==
  /\ At(t, "send") /\ Room
  /\ ch' = Append(ch, [kind |-> call[t].kind, id |-> Id(t), epoch |-> call[t].epoch])
  /\ IF call[t].kind = "action"
     THEN Move(t, "await") /\ UNCHANGED <<count, receipt, expired, refused>>
     ELSE Return(t, "ok")
  /\ UNCHANGED <<chClosed, state, applied, courier, finisher, worker, innerClosed, began>>

\* The context of an action ends before it is in the FIFO: it never will be.
Withdraw(t) ==
  /\ call[t].kind = "action" /\ (At(t, "barrier") \/ At(t, "send"))
  /\ Id(t) \in expired
  /\ Return(t, "rejected")
  /\ UNCHANGED <<channel, state, applied, courier, finisher, worker, innerClosed, began>>

\* Wrong: an interrupted wait is reported as a rejection.
AnswerRejected(t) ==
  /\ call[t].kind = "action" /\ At(t, "await")
  /\ \/ receipt[t] = "executed" /\ Return(t, "ok")
     \/ receipt[t] = "rejected" /\ Return(t, "rejected")
     \/ Id(t) \in expired /\ Return(t, "rejected")
  /\ UNCHANGED <<channel, state, applied, courier, finisher, worker, innerClosed, began>>

\* LiteralText, SpecialAction and ComboAction answer with the receipt, or with
\* "uncertain" when their context ends first.
Answer(t) ==
  /\ call[t].kind = "action" /\ At(t, "await")
  /\ \/ receipt[t] = "executed" /\ Return(t, "ok")
     \/ receipt[t] = "rejected" /\ Return(t, "rejected")
     \/ Id(t) \in expired /\ Return(t, "uncertain")
  /\ UNCHANGED <<channel, state, applied, courier, finisher, worker, innerClosed, began>>

-----------------------------------------------------------------------------
(* Reset and close.                                                        *)

\* ResetContext under a.mu: nothing to do on a closed queue, another reset to
\* wait for, or a new epoch whose barrier a goroutine will enqueue.
Reset(t) ==
  /\ At(t, "enter") /\ call[t].kind = "reset"
  /\ \/ closed /\ Return(t, "ok") /\ UNCHANGED <<state, courier>>
     \/ /\ ~closed /\ barrier # 0
        /\ WaitFor(t, "barrier", barrier)
        /\ UNCHANGED <<count, receipt, expired, refused, state, courier>>
     \/ /\ ~closed /\ barrier = 0
        /\ epoch' = epoch + 1 /\ barrier' = epoch + 1 /\ courier' = "lock"
        /\ WaitFor(t, "await", epoch + 1)
        /\ UNCHANGED <<count, receipt, expired, refused, closed>>
  /\ UNCHANGED <<channel, applied, finisher, worker, innerClosed, began>>

\* Wrong: the wait for another caller's reset is not bounded.
ResetReturnLate(t) ==
  /\ call[t].kind = "reset" /\ At(t, "await")
  /\ \/ call[t].epoch \in applied /\ Return(t, "ok")
     \/ Id(t) \in expired /\ Return(t, "timeout")
  /\ UNCHANGED <<channel, state, applied, courier, finisher, worker, innerClosed, began>>

\* The reset a caller asked for has been applied, or its context ended first.
ResetReturn(t) ==
  /\ call[t].kind = "reset"
  /\ \/ At(t, "await") /\ call[t].epoch \in applied /\ Return(t, "ok")
     \/ /\ At(t, "await") \/ At(t, "barrier")
        /\ Id(t) \in expired /\ Return(t, "timeout")
  /\ UNCHANGED <<channel, state, applied, courier, finisher, worker, innerClosed, began>>

\* The goroutine of ResetContext: enqueueMu, then a place in the FIFO.
CourierLock ==
  /\ courier = "lock" /\ EnqueueFree
  /\ courier' = "send"
  /\ UNCHANGED <<channel, state, applied, finisher, worker, innerClosed, threads, began>>

CourierSend ==
  /\ courier = "send" /\ Room
  /\ ch' = Append(ch, QueueOp("reset", barrier))
  /\ courier' = "none"
  /\ UNCHANGED <<chClosed, state, applied, finisher, worker, innerClosed, threads, began>>

\* Close and CloseContext under a.mu: the first one starts finishClose, and
\* CloseContext invalidates what is queued.
Close(t) ==
  /\ At(t, "enter") /\ call[t].kind \in Closings
  /\ Move(t, "await")
  /\ IF closed
     THEN UNCHANGED <<closed, epoch, finisher>>
     ELSE /\ closed' = TRUE /\ finisher' = "senders"
          /\ epoch' = IF call[t].kind = "close" THEN epoch + 1 ELSE epoch
  /\ UNCHANGED <<barrier, count, receipt, expired, refused, channel, applied, courier,
                 worker, innerClosed, began>>

CloseReturn(t) ==
  /\ call[t].kind \in Closings /\ At(t, "await")
  /\ \/ finisher = "done" /\ Return(t, "ok")
     \/ Id(t) \in expired /\ Return(t, "timeout")
  /\ UNCHANGED <<channel, state, applied, courier, finisher, worker, innerClosed, began>>

\* finishClose: wait for the senders, send the close, wait for it, close the
\* channel, wait for the worker.
SendersGone ==
  /\ finisher = "senders" /\ Senders = {}
  /\ finisher' = "offer"
  /\ UNCHANGED <<channel, state, applied, courier, worker, innerClosed, threads, began>>

OfferClose ==
  /\ finisher = "offer" /\ Room
  /\ ch' = Append(ch, QueueOp("close", epoch))
  /\ finisher' = "closing"
  /\ UNCHANGED <<chClosed, state, applied, courier, worker, innerClosed, threads, began>>

CloseChannel ==
  /\ finisher = "closing" /\ innerClosed
  /\ chClosed' = TRUE /\ finisher' = "exit"
  /\ UNCHANGED <<ch, state, applied, courier, worker, innerClosed, threads, began>>

CloseDone ==
  /\ finisher = "exit" /\ worker.at = "gone"
  /\ finisher' = "done"
  /\ UNCHANGED <<channel, state, applied, courier, worker, innerClosed, threads, began>>

-----------------------------------------------------------------------------
(* The worker.                                                             *)

Receive ==
  /\ worker.at = "receive" /\ ch # <<>>
  /\ worker' = [at |-> "compare", op |-> Head(ch)]
  /\ ch' = Tail(ch)
  /\ UNCHANGED <<chClosed, state, applied, courier, finisher, innerClosed, threads, began>>

Exit ==
  /\ worker.at = "receive" /\ ch = <<>> /\ chClosed
  /\ worker' = [worker EXCEPT !.at = "gone"]
  /\ UNCHANGED <<channel, state, applied, courier, finisher, innerClosed, threads, began>>

\* The receipt channel belongs to one call: nobody reads it once that is over.
Receipt(op, r) ==
  receipt' = [t \in Threads |->
                IF op.kind = "action" /\ op.id = Id(t) THEN r ELSE receipt[t]]

\* An operation of an older epoch; resets and closes are exempt.
Stale(op) == op.epoch # epoch /\ op.kind \in Submissions

Withdrawn(op) == op.kind = "action" /\ op.id \in expired

\* Wrong: an operation is dropped without an answer.
DiscardSilently ==
  /\ worker.at = "compare"
  /\ Stale(worker.op) \/ Withdrawn(worker.op)
  /\ worker' = [at |-> "receive", op |-> NoOp]
  /\ UNCHANGED <<channel, state, applied, courier, finisher, innerClosed, threads, began>>

Discard ==
  /\ worker.at = "compare"
  /\ Stale(worker.op) \/ Withdrawn(worker.op)
  /\ Receipt(worker.op, "rejected")
  /\ worker' = [at |-> "receive", op |-> NoOp]
  /\ UNCHANGED <<channel, state, applied, courier, finisher, innerClosed, call, count,
                 expired, refused, began>>

\* The device is called.  What happens between the worker's last look at the
\* epoch and this call does not matter to it, so the two are one step.
Begin ==
  /\ worker.at = "compare"
  /\ ~Stale(worker.op) /\ ~Withdrawn(worker.op)
  /\ worker' = [worker EXCEPT !.at = "run"]
  /\ began' = IF worker.op.kind \in Submissions THEN began \cup {worker.op.id} ELSE began
  /\ UNCHANGED <<channel, state, applied, courier, finisher, innerClosed, threads>>

\* The device returns.
Finish ==
  /\ worker.at = "run"
  /\ worker' = IF worker.op.kind = "reset" THEN [worker EXCEPT !.at = "clear"]
                ELSE [at |-> "receive", op |-> NoOp]
  /\ applied' = IF worker.op.kind = "reset" THEN applied \cup {worker.op.epoch} ELSE applied
  /\ innerClosed' = (innerClosed \/ worker.op.kind = "close")
  /\ Receipt(worker.op, "executed")
  /\ UNCHANGED <<channel, state, courier, finisher, call, count, expired, refused, began>>

\* Wrong: the barrier is lifted only if no close has invalidated the queue.
ClearCurrent ==
  /\ worker.at = "clear"
  /\ barrier' = IF barrier = epoch THEN 0 ELSE barrier
  /\ worker' = [at |-> "receive", op |-> NoOp]
  /\ UNCHANGED <<channel, epoch, closed, applied, courier, finisher, innerClosed,
                 threads, began>>

\* The barrier is lifted only after its done channel is closed.
ClearBarrier ==
  /\ worker.at = "clear"
  /\ barrier' = IF barrier = worker.op.epoch THEN 0 ELSE barrier
  /\ worker' = [at |-> "receive", op |-> NoOp]
  /\ UNCHANGED <<channel, epoch, closed, applied, courier, finisher, innerClosed,
                 threads, began>>

-----------------------------------------------------------------------------
CallerStep(t) ==
  \/ Submit(t) \/ BarrierLifted(t) \/ Send(t) \/ Withdraw(t) \/ Answer(t)
  \/ Reset(t) \/ ResetReturn(t) \/ Close(t) \/ CloseReturn(t)
CourierStep == CourierLock \/ CourierSend
FinisherStep == SendersGone \/ OfferClose \/ CloseChannel \/ CloseDone
WorkerStep == Receive \/ Exit \/ Discard \/ Begin \/ ClearBarrier

Next ==
  \/ \E t \in Threads : \E kind \in Uses : Invoke(t, kind)
  \/ \E t \in Threads : Expire(t) \/ CallerStep(t)
  \/ CourierStep \/ FinisherStep \/ WorkerStep \/ Finish

Spec == Init /\ [][Next]_vars

\* Every goroutine is scheduled, and enqueueMu is granted in the end; whether
\* the device ever returns from a call is another matter.
FairSpec ==
  /\ Spec
  /\ \A t \in Threads : WF_vars(CallerStep(t))
  /\ WF_vars(CourierStep) /\ WF_vars(FinisherStep) /\ WF_vars(WorkerStep)
DeviceReturns == WF_vars(Finish)

-----------------------------------------------------------------------------
(* Properties.                                                             *)

\* A call that was answered "rejected" never reaches the device, not even after
\* the answer: its sender may report it as having had no effect (submit and the
\* worker's discards, async.go).
RefusedNeverRuns == refused \cap began = {}

\* When a close has returned the device is closed, the worker is gone and
\* nothing is queued; and once the channel is closed nobody is about to send on
\* it, which would be a panic (finishClose).
ClosedQuiet ==
  /\ chClosed => Senders = {} /\ ch = <<>> /\ innerClosed
  /\ innerClosed => worker.at \in {"receive", "gone"}
  /\ finisher = "done" => worker.at = "gone"

\* A reset whose caller may have given up is still applied by the worker, as
\* long as the device returns (ResetContext's comment).
ResetsApply == DeviceReturns => (barrier # 0 ~> barrier = 0)

\* Every call returns, as long as the device does: no thread waits for ever for
\* enqueueMu, a barrier, a place, a receipt, or the end of a close.
CallsEnd == DeviceReturns => \A t \in Threads : ~At(t, "out") ~> At(t, "out")

\* A reset or a close whose context ends returns even if the device never does
\* (ResetContext and CloseContext keep every wait outside a.mu).
TimedCallsEnd ==
  \A t \in Threads : (call[t].kind \in {"reset", "close"} /\ Id(t) \in expired) ~> At(t, "out")

\* The queue implements SerialInput: acceptance is the send into the FIFO, an
\* operation has begun when it has passed the worker's comparison, and a cut is
\* in force while the current epoch is not that of a reset already applied: for
\* ever if a close invalidated the queue.
InChannel == {i \in 1..Len(ch) : ch[i].kind \in Submissions}
Queued == {ch[i].id : i \in InChannel}
Held == IF worker.at = "compare" /\ worker.op.kind \in Submissions THEN {worker.op.id} ELSE {}
Older == {p \in Queued \X Queued : \E i, j \in InChannel : i < j /\ p = <<ch[i].id, ch[j].id>>}
Waiting == Held \cup Queued
Before == Older \cup (Held \X Queued)
Running == IF worker.at = "run" THEN worker.op.id ELSE NoCall
Cutting == epoch # 0 /\ epoch \notin applied
Promise == INSTANCE SerialInput WITH
  NoId <- NoCall,
  waiting <- Waiting, before <- Before, running <- Running, cutting <- Cutting,
  ended <- innerClosed, withdrawn <- expired
ImplementsPromise == Promise!Spec
=============================================================================
