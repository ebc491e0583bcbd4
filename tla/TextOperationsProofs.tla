------------------------ MODULE TextOperationsProofs ------------------------
(***************************************************************************)
(* Proofs about TextOperations, for any handlers, texts, targets and       *)
(* policies and any number of leases and transitions: that receipts are    *)
(* true and no text is typed twice, that a text the client discarded is    *)
(* never typed, that a text begins only under the session and the policy   *)
(* of its commit and goes where it was bound, and that no transition       *)
(* leaves a text of another session with the device.                       *)
(***************************************************************************)
EXTENDS TextOperations, FiniteSetTheorems, SequenceTheorems, WellFoundedInduction, TLAPS

-----------------------------------------------------------------------------
(* The inductive invariant.                                                *)

\* Where a handler has the gate, where its request has been admitted as one
\* that writes, and where it has claimed the text and not reported it yet.
Gated == {"focus", "typing"}
Admitted == {"register", "probe", "focus", "append", "seal", "claim", "dispatch", "typing"}
Claimed == {"dispatch", "typing", "finish"}
Begun == {"probe", "focus", "drop", "reply"}
Settled == {<<>>, <<"geometry">>}
Plans == Settled \cup {<<"reset">>, <<"reset", "geometry">>}
         \cup {<<whose, "reset">> : whose \in {"mine", "theirs"}}
         \cup {<<"geometry", whose, "reset">> : whose \in {"mine", "theirs"}}

\* Whoever has the gate is where it needs it.
GateInv ==
  /\ todo \in Plans /\ (todo # <<>> => gate = "control")
  /\ \A h \in Handlers : gate = h <=> req[h].at \in Gated

\* What a request carries from one step to the next.
RequestOK(h) ==
  /\ req[h].at \notin {"idle", "answered"} => req[h].op \in Operations
  /\ req[h].permit.scope = "input"
  /\ req[h].at \in Admitted => req[h].permit.epoch # 0
  /\ req[h].at \in Begun => ops[req[h].op].state # "absent"
  /\ req[h].at = "answered" => req[h].reply.state # "absent"
  /\ req[h].at = "finish" => req[h].reply.state \in Results
  /\ req[h].at = "focus" => target[req[h].op] = NoTarget
RequestInv == \A h \in Handlers : RequestOK(h)

\* The permit and the policy of the one who types still hold: the gate has been
\* its since they were checked.
PermitOK(h) ==
  req[h].at = "typing" =>
    /\ Honoured(req[h].permit)
    /\ req[h].target = Clipboard => Allowed("clipboard")
PermitInv == \A h \in Handlers : PermitOK(h)

\* A text has one claim, and whoever has it knows what became of the text.
Untold(h) ==
  LET o == req[h].op IN
  /\ ops[o].state \in {"dispatching", "uncertain"}
  /\ req[h].at = "dispatch" => typed[o] = <<>>
  /\ req[h].at = "typing" =>
       /\ queued # 0 \/ answer = "rejected" => typed[o] = <<>>
       /\ answer = "dispatched" => Len(typed[o]) = 1 /\ running # o
  /\ req[h].at = "finish" =>
       /\ req[h].reply.state = "rejected" => typed[o] = <<>>
       /\ req[h].reply.state = "dispatched" => Len(typed[o]) = 1 /\ running # o
Sole == \A g, h \in Handlers :
          req[g].at \in Claimed /\ req[h].at \in Claimed /\ req[g].op = req[h].op => g = h
ClaimInv == Sole /\ \A h \in Handlers : req[h].at \in Claimed => Untold(h)

\* The injector works for whoever waits for it, and types no text twice.
DeviceInv ==
  /\ queued # 0 => gate \in Handlers /\ req[gate].at = "typing" /\ req[gate].op = queued
  /\ answer # "none" => gate \in Handlers /\ req[gate].at = "typing" /\ queued = 0
  /\ running # 0 => Len(typed[running]) = 1

\* The client waits for a request of its operation, and an end it was told of
\* is the operation's.
Ends == {"rejected", "cancelled"}
Waiting(h) ==
  /\ client.step # "rest" /\ req[h].at # "idle"
  /\ req[h].at # "answered" => req[h].op = client.op
  /\ req[h].at = "answered" /\ req[h].reply.state \in Ends =>
       ops[client.op].state = req[h].reply.state
ClientInv ==
  /\ client.step # "rest" => client.op # 0
  /\ client.receipt \in Ends => client.op # 0 /\ ops[client.op].state = client.receipt
  /\ \A h \in Handlers : client.waits = h => Waiting(h)
  /\ \A o \in discarded : ops[o].state \in Ends

\* No reset to come, and none that failed: what is typed is of this session.
QuietInv ==
  running # 0 /\ ~incomplete /\ closing # "closed" /\ todo \in Settled =>
    "input" \in granted /\ typed[running][1] = gen

TInv == /\ TypeOK /\ GateInv /\ RequestInv /\ PermitInv
        /\ ClaimInv /\ DeviceInv /\ ReceiptsTruthful /\ ClientInv /\ QuietInv

\* Some element of a set of numbers is the least one.
LEMMA LeastExists ==
  ASSUME NEW S \in SUBSET Nat, S # {}
  PROVE  \E m \in S : \A n \in S : m <= n
<1> DEFINE R == {p \in Nat \X Nat : p[1] < p[2]}
<1>1. IsWellFoundedOn(R, Nat)
  BY NatLessThanWellFounded DEF OpToRel
<1>2. PICK m \in S : \A n \in S : ~(<<n, m>> \in R)
  BY <1>1, WFMin
<1>3. \A n \in S : m <= n
  <2>1. SUFFICES ASSUME NEW n \in S PROVE m <= n
    OBVIOUS
  <2>2. m \in Nat /\ n \in Nat /\ <<n, m>> \in Nat \X Nat /\ <<n, m>>[1] = n /\ <<n, m>>[2] = m
    OBVIOUS
  <2>3. ~(n < m)
    BY <1>2, <2>2
  <2>4. QED
    BY <2>2, <2>3
<1>4. QED
  BY <1>3


\* The types, by what the steps leave alone together.
GateTypes == GateTypeOK(Handlers)
LeaseTypes == /\ lease \in 0..leases /\ leases \in Nat
              /\ known \subseteq 1..leases /\ retired \subseteq 1..leases
              /\ expired \subseteq retired
              /\ Cardinality(known) <= Kept
OpTypes == ops \in [Operations -> Receipt]
TargetTypes == target \in [Operations -> Targets \cup {NoTarget}]
RequestTypes == req \in [Handlers -> Request]
DeviceTypes == /\ queued \in 0..Texts /\ running \in 0..Texts
               /\ answer \in {"none"} \cup Results
               /\ typed \in [Operations -> Seq(Nat)]
ClientTypes == client \in Client /\ discarded \subseteq Operations
HeardTypes == /\ mine \in BOOLEAN /\ heard \in [epoch: Nat, lease: 0..leases]
              /\ manifest \in [Operations -> 0..leases]

LEMMA TypeParts ==
  TypeOK <=> /\ GateTypes /\ LeaseTypes /\ OpTypes /\ TargetTypes /\ RequestTypes
             /\ DeviceTypes /\ ClientTypes /\ HeardTypes
BY DEF TypeOK, GateTypes, LeaseTypes, OpTypes, TargetTypes, RequestTypes, DeviceTypes,
       ClientTypes, HeardTypes

LEMMA TypePartsNext ==
  TypeOK' <=> /\ GateTypes' /\ LeaseTypes' /\ OpTypes' /\ TargetTypes' /\ RequestTypes'
              /\ DeviceTypes' /\ ClientTypes' /\ HeardTypes'
BY DEF TypeOK, GateTypes, LeaseTypes, OpTypes, TargetTypes, RequestTypes, DeviceTypes,
       ClientTypes, HeardTypes

\* A handler is none of the other holders of the gate, nor nobody.
LEMMA HandlerNames ==
  ASSUME NEW h \in Handlers
  PROVE  h # "free" /\ h # "control" /\ h # "nobody"
BY TextAssumption DEF TextAssumption

LEMMA RecordTypes ==
  /\ Absent \in Receipt /\ Error \in Receipt /\ Idle \in Request
  /\ \A o \in Operations : o \in 0..Texts /\ o # 0
  /\ \A o \in 0..Texts : o # 0 => o \in Operations
<1>1. Texts \in Nat /\ Chunks \in Nat
  BY TextAssumption DEF TextAssumption
<1>2. 0 \in 0..Chunks /\ 0 \in 0..Texts
  BY <1>1
<1>3. Absent \in Receipt /\ Error \in Receipt
  BY <1>2 DEF Absent, Error, Receipt
<1>4. [scope |-> "input", revision |-> 0, gen |-> 0, epoch |-> 0]
        \in [scope: Scopes, revision: Nat, gen: Nat, epoch: Nat]
  BY DEF Scopes
<1>5. Idle \in Request
  BY <1>2, <1>3, <1>4 DEF Idle, Request, Places, Kinds
<1>6. QED
  BY <1>1, <1>3, <1>5 DEF Operations

-----------------------------------------------------------------------------
(* What the steps of a handler do to req.                                  *)

Elsewhere(h) == /\ req' \in [Handlers -> Request]
                /\ \A g \in Handlers : g # h => req'[g] = req[g]
Carries(h) == /\ req'[h].op = req[h].op /\ req'[h].permit = req[h].permit
              /\ req'[h].target = req[h].target /\ req'[h].reply = req[h].reply

\* Serve moves one request.
LEMMA ServeEffect ==
  ASSUME RequestTypes, NEW h \in Handlers, NEW place \in Places, Serve(h, place)
  PROVE  Elsewhere(h) /\ Carries(h) /\ req'[h].at = place
<1>1. req[h] \in Request
  BY DEF RequestTypes
<1>2. [req[h] EXCEPT !.at = place] \in Request
  BY <1>1 DEF Request
<1>3. req' = [req EXCEPT ![h] = [req[h] EXCEPT !.at = place]]
  BY DEF Serve
<1>4. QED
  BY <1>1, <1>2, <1>3 DEF Elsewhere, Carries, Request, RequestTypes

\* Answer ends a request: if the client waits for it, with the receipt.
Reports(h, receipt) ==
  /\ Elsewhere(h)
  /\ req'[h].permit.scope = "input"
  /\ client.waits = h => req'[h].at = "answered" /\ req'[h].reply = receipt
  /\ client.waits # h => req'[h].at = "idle"

LEMMA AnswerEffect ==
  ASSUME RequestTypes, NEW h \in Handlers, NEW receipt \in Receipt, Answer(h, receipt)
  PROVE  Reports(h, receipt)
<1> DEFINE r == [Idle EXCEPT !.at = "answered", !.reply = receipt]
<1>1. Idle \in Request /\ Idle.at = "idle" /\ Idle.permit.scope = "input"
  BY RecordTypes DEF Idle
<1>2. r \in Request /\ r.at = "answered" /\ r.reply = receipt /\ r.permit.scope = "input"
  BY <1>1 DEF Request, Idle, Places
<1>3. req' = [req EXCEPT ![h] = IF client.waits # h THEN Idle ELSE r]
  BY DEF Answer
<1> HIDE DEF r
<1>4. QED
  BY <1>1, <1>2, <1>3 DEF Reports, Elsewhere, RequestTypes

\* Conclude keeps the operation and the injector's result.
LEMMA ConcludeEffect ==
  ASSUME RequestTypes, NEW h \in Handlers, NEW result \in Results, Conclude(h, result)
  PROVE  /\ Elsewhere(h) /\ req'[h].op = req[h].op /\ req'[h].permit.scope = "input"
         /\ req'[h].at = "finish" /\ req'[h].reply.state = result
<1> DEFINE r == [Idle EXCEPT !.at = "finish", !.op = req[h].op,
                             !.reply = [state |-> result, chunks |-> 0]]
<1>1. Idle \in Request /\ req[h].op \in 0..Texts
  BY RecordTypes DEF RequestTypes, Request
<1>2. [state |-> result, chunks |-> 0] \in Receipt
  <2>1. 0 \in 0..Chunks
    BY TextAssumption DEF TextAssumption
  <2>2. QED
    BY <2>1 DEF Receipt, Results, States
<1>3. r \in Request /\ r.at = "finish" /\ r.op = req[h].op /\ r.reply.state = result
      /\ r.permit.scope = "input"
  BY <1>1, <1>2 DEF Request, Idle, Places
<1>4. req' = [req EXCEPT ![h] = r]
  BY DEF Conclude
<1> HIDE DEF r
<1>5. QED
  BY <1>1, <1>3, <1>4 DEF Elsewhere, RequestTypes

-----------------------------------------------------------------------------
(* The frame of a step of a handler, and what it keeps of the invariant.   *)

\* Registries never lose an operation, and an operation that has ended without
\* effect stays so.
Lasts == /\ OpTypes'
         /\ \A o \in Operations :
              /\ ops[o].state \in Ends => ops'[o].state = ops[o].state
              /\ ops[o].state # "absent" => ops'[o].state # "absent"

\* Before it is claimed an operation is staged, or it ends without effect.
Early == Staged \cup {"absent"}
Advances == /\ OpTypes'
            /\ \A o \in Operations :
                 \/ ops'[o] = ops[o]
                 \/ ops[o].state \in Early /\ ops'[o].state \in Staged \cup Ends

GateMoves(h) ==
  \/ gate' = gate /\ req[h].at \notin Gated /\ req'[h].at \notin Gated
  \/ gate = "free" /\ gate' = h /\ req'[h].at \in Gated
  \/ req[h].at \in Gated /\ gate' = "free" /\ req'[h].at \notin Gated

TargetMoves(h) ==
  /\ TargetTypes'
  /\ target' = target \/ req[h].at = "focus"

\* The request is answered, or goes on.
Reaches(h) ==
  \/ client.waits = h =>
       /\ req'[h].at = "answered"
       /\ req'[h].reply.state \in Ends => ops'[req[h].op].state = req'[h].reply.state
  \/ req'[h].op = req[h].op /\ req'[h].at \notin {"idle", "answered"}

HandlerFrame(h) ==
  /\ req[h].at \notin {"idle", "answered"}
  /\ Elsewhere(h) /\ RequestOK(h)' /\ PermitOK(h)'
  /\ GateMoves(h) /\ TargetMoves(h) /\ Lasts /\ Reaches(h)
  /\ UNCHANGED <<todo, session, incomplete, closing, server, typed, running, mine, phone>>

LEMMA AdvancesLasts ==
  ASSUME Advances
  PROVE  Lasts
BY DEF Advances, Lasts, Early, Staged, Ends

LEMMA SameAdvances ==
  ASSUME OpTypes, UNCHANGED ops
  PROVE  Advances
BY DEF Advances, OpTypes

LEMMA EffectMoves ==
  ASSUME OpTypes, NEW o \in Operations, NEW state \in States, Effect(o, state)
  PROVE  /\ OpTypes' /\ ops'[o] = [ops[o] EXCEPT !.state = state]
         /\ ops'[o] \in Receipt /\ ops'[o].state = state
         /\ \A p \in Operations : p # o => ops'[p] = ops[p]
<1>1. ops[o] \in Receipt
  BY DEF OpTypes
<1> DEFINE e == [ops[o] EXCEPT !.state = state]
<1>2. e \in Receipt /\ e.state = state
  BY <1>1 DEF Receipt
<1>3. ops' = [ops EXCEPT ![o] = e]
  BY DEF Effect
<1> HIDE DEF e
<1>4. OpTypes' /\ ops'[o] = e /\ \A p \in Operations : p # o => ops'[p] = ops[p]
  BY <1>2, <1>3 DEF OpTypes
<1>5. QED
  BY <1>2, <1>4 DEF e

LEMMA EffectAdvances ==
  ASSUME OpTypes, NEW o \in Operations, NEW state \in Staged \cup Ends, Effect(o, state),
         ops[o].state \in Early
  PROVE  Advances
<1>1. state \in States
  BY DEF States, Staged, Ends, Results
<1>2. QED
  BY <1>1, EffectMoves DEF Advances

LEMMA FrameTypes ==
  ASSUME TInv, NEW h \in Handlers, HandlerFrame(h)
  PROVE  /\ GateTypes' /\ LeaseTypes' /\ OpTypes' /\ TargetTypes' /\ RequestTypes'
         /\ ClientTypes' /\ HeardTypes'
<1>1. /\ GateTypes /\ LeaseTypes /\ OpTypes /\ TargetTypes /\ RequestTypes
      /\ ClientTypes /\ HeardTypes
  BY TypeParts DEF TInv
<1>2. gate' \in {"free", "control"} \cup Handlers
  BY <1>1 DEF HandlerFrame, GateMoves, GateTypes, GateTypeOK
<1>3. GateTypes'
  BY <1>1, <1>2 DEF HandlerFrame, GateTypes, GateTypeOK, session
<1>4. LeaseTypes' /\ HeardTypes' /\ ClientTypes'
  BY <1>1 DEF HandlerFrame, LeaseTypes, HeardTypes, ClientTypes, server, phone
<1>5. OpTypes' /\ TargetTypes' /\ RequestTypes'
  BY DEF HandlerFrame, Lasts, TargetMoves, Elsewhere, RequestTypes
<1>6. QED
  BY <1>3, <1>4, <1>5

LEMMA FrameGate ==
  ASSUME TInv, NEW h \in Handlers, HandlerFrame(h)
  PROVE  GateInv'
<1>1. GateInv /\ RequestTypes
  BY TypeParts DEF TInv
<1>2. todo' = todo /\ (todo # <<>> => gate = "control")
  BY <1>1 DEF HandlerFrame, GateInv
<1>3. gate = "control" => gate' = "control"
  BY <1>1, HandlerNames DEF HandlerFrame, GateMoves, GateInv
<1>4. ASSUME NEW g \in Handlers PROVE gate' = g <=> req'[g].at \in Gated
  <2>1. gate = g <=> req[g].at \in Gated
    BY <1>1 DEF GateInv
  <2>2. gate = h <=> req[h].at \in Gated
    BY <1>1 DEF GateInv
  <2>3. CASE g = h
    BY <2>1, <2>3, HandlerNames DEF HandlerFrame, GateMoves
  <2>4. CASE g # h
    <3>1. req'[g] = req[g]
      BY <2>4 DEF HandlerFrame, Elsewhere
    <3>2. gate' = g <=> gate = g
      BY <2>2, <2>4, HandlerNames DEF HandlerFrame, GateMoves
    <3>3. QED
      BY <2>1, <3>1, <3>2
  <2>5. QED
    BY <2>3, <2>4
<1>5. QED
  BY <1>1, <1>2, <1>3, <1>4 DEF GateInv

LEMMA FrameRequests ==
  ASSUME TInv, NEW h \in Handlers, HandlerFrame(h)
  PROVE  RequestInv' /\ PermitInv'
<1>1. GateInv /\ RequestInv /\ PermitInv
  BY DEF TInv
<1>2. ASSUME NEW g \in Handlers PROVE RequestOK(g)' /\ PermitOK(g)'
  <2>1. CASE g = h
    BY <2>1 DEF HandlerFrame
  <2>2. CASE g # h
    <3>1. req'[g] = req[g]
      BY <2>2 DEF HandlerFrame, Elsewhere
    <3>2. PermitOK(g)'
      BY <1>1, <3>1 DEF HandlerFrame, PermitInv, PermitOK, Honoured, Allowed, session
    <3>3. req[g].at = "focus" => target' = target
      <4>1. ASSUME req[g].at = "focus", req[h].at = "focus" PROVE FALSE
        BY <1>1, <2>2, <4>1 DEF GateInv, Gated
      <4>2. QED
        BY <4>1 DEF HandlerFrame, TargetMoves
    <3>4. req[g].at \in Begun => ops'[req[g].op].state # "absent"
      BY <1>1 DEF HandlerFrame, Lasts, RequestInv, RequestOK, Begun
    <3>5. RequestOK(g)'
      BY <1>1, <3>1, <3>3, <3>4 DEF RequestInv, RequestOK
    <3>6. QED
      BY <3>2, <3>5
  <2>3. QED
    BY <2>1, <2>2
<1>3. QED
  BY <1>2 DEF RequestInv, PermitInv

LEMMA FrameClient ==
  ASSUME TInv, NEW h \in Handlers, HandlerFrame(h)
  PROVE  ClientInv'
<1>1. ClientInv /\ ClientTypes
  BY TypeParts DEF TInv
<1>2. client' = client /\ discarded' = discarded
  BY DEF HandlerFrame, phone
<1>3. client.op \in 0..Texts /\ discarded \subseteq Operations
  BY <1>1 DEF ClientTypes, Client
<1>4. \A o \in Operations : ops[o].state \in Ends => ops'[o].state = ops[o].state
  BY DEF HandlerFrame, Lasts
<1>5. client.op # 0 /\ ops[client.op].state \in Ends => ops'[client.op].state = ops[client.op].state
  BY <1>3, <1>4, RecordTypes
<1>6. ASSUME NEW g \in Handlers, client.waits = g PROVE Waiting(g)'
  <2>1. Waiting(g) /\ client.op # 0
    BY <1>1, <1>6 DEF ClientInv, Waiting
  <2>2. CASE g # h
    <3>1. req'[g] = req[g]
      BY <2>2 DEF HandlerFrame, Elsewhere
    <3>2. QED
      BY <1>2, <1>5, <2>1, <3>1 DEF Waiting
  <2>3. CASE g = h
    <3>1. req[h].op = client.op
      BY <2>1, <2>3 DEF HandlerFrame, Waiting
    <3>2. \/ /\ req'[h].at = "answered"
             /\ req'[h].reply.state \in Ends => ops'[client.op].state = req'[h].reply.state
          \/ req'[h].op = client.op /\ req'[h].at \notin {"idle", "answered"}
      BY <1>6, <2>3, <3>1 DEF HandlerFrame, Reaches
    <3>3. QED
      BY <1>2, <2>1, <2>3, <3>2 DEF Waiting
  <2>4. QED
    BY <2>2, <2>3
<1>7. \A o \in discarded : ops'[o].state \in Ends
  BY <1>1, <1>3, <1>4 DEF ClientInv
<1>8. QED
  BY <1>1, <1>2, <1>5, <1>6, <1>7 DEF ClientInv

LEMMA FrameQuiet ==
  ASSUME TInv, NEW h \in Handlers, HandlerFrame(h)
  PROVE  QuietInv'
BY DEF TInv, QuietInv, HandlerFrame, session

LEMMA FrameKeeps ==
  ASSUME TInv, NEW h \in Handlers, HandlerFrame(h), DeviceTypes', ClaimInv', DeviceInv',
         ReceiptsTruthful'
  PROVE  TInv'
<1>1. TypeOK'
  BY FrameTypes, TypePartsNext
<1>2. GateInv' /\ RequestInv' /\ PermitInv' /\ ClientInv' /\ QuietInv'
  BY FrameGate, FrameRequests, FrameClient, FrameQuiet
<1>3. QED
  BY <1>1, <1>2 DEF TInv

\* A step that claims nothing, and leaves the injector alone.
PlainStep(h) ==
  /\ HandlerFrame(h) /\ Advances /\ UNCHANGED device
  /\ req[h].at \notin Claimed /\ req'[h].at \notin Claimed

LEMMA PlainKeeps ==
  ASSUME TInv, NEW h \in Handlers, PlainStep(h)
  PROVE  TInv'
<1>1. /\ HandlerFrame(h) /\ Advances /\ UNCHANGED <<queued, running, answer, typed>>
      /\ req[h].at \notin Claimed /\ req'[h].at \notin Claimed
  BY DEF PlainStep, device
<1>2. /\ DeviceTypes /\ GateInv /\ RequestInv /\ ClaimInv /\ DeviceInv /\ ReceiptsTruthful
  BY TypeParts DEF TInv
<1>3. DeviceTypes'
  BY <1>1, <1>2 DEF DeviceTypes
<1>4. \A g \in Handlers : req'[g].at \in Claimed => g # h /\ req'[g] = req[g]
  BY <1>1 DEF HandlerFrame, Elsewhere
<1>5. ASSUME NEW g \in Handlers, req'[g].at \in Claimed PROVE Untold(g)'
  <2>1. req'[g] = req[g] /\ req[g].at \in Claimed
    BY <1>4, <1>5
  <2>2. Untold(g) /\ req[g].op \in Operations
    BY <1>2, <2>1 DEF ClaimInv, RequestInv, RequestOK, Claimed
  <2>3. ops'[req[g].op] = ops[req[g].op]
    BY <1>1, <2>2 DEF Advances, Untold, Early, Staged
  <2>4. QED
    BY <1>1, <2>1, <2>2, <2>3 DEF Untold
<1>6. Sole'
  BY <1>2, <1>4 DEF ClaimInv, Sole
<1>7. ClaimInv'
  BY <1>5, <1>6 DEF ClaimInv
<1>8. ASSUME gate \in Handlers, req[gate].at = "typing"
      PROVE  gate' = gate /\ req'[gate] = req[gate]
  <2>1. gate # h
    BY <1>1, <1>8 DEF Claimed
  <2>2. req[h].at \notin Gated /\ gate # "free"
    BY <1>2, <1>8, <2>1, HandlerNames DEF GateInv
  <2>3. QED
    BY <1>1, <1>8, <2>1, <2>2 DEF HandlerFrame, GateMoves, Elsewhere
<1>9. DeviceInv'
  BY <1>1, <1>2, <1>8 DEF DeviceInv
<1>10. ReceiptsTruthful'
  <2>1. ASSUME NEW o \in Operations
        PROVE /\ Len(typed'[o]) <= 1
              /\ ops'[o].state = "dispatched" => Len(typed'[o]) = 1 /\ running' # o
              /\ ops'[o].state \in Staged \cup {"absent", "cancelled", "rejected"} =>
                   typed'[o] = <<>> /\ queued' # o
    <3>1. /\ Len(typed[o]) <= 1
          /\ ops[o].state = "dispatched" => Len(typed[o]) = 1 /\ running # o
          /\ ops[o].state \in Staged \cup {"absent", "cancelled", "rejected"} =>
               typed[o] = <<>> /\ queued # o
      BY <1>2 DEF ReceiptsTruthful
    <3>2. CASE ops'[o] = ops[o]
      BY <1>1, <3>1, <3>2
    <3>3. CASE ops[o].state \in Early /\ ops'[o].state \in Staged \cup Ends
      <4>1. typed[o] = <<>> /\ queued # o
        BY <3>1, <3>3 DEF Early
      <4>2. ops'[o].state # "dispatched"
        BY <3>3 DEF Staged, Ends
      <4>3. QED
        BY <1>1, <3>1, <4>1, <4>2
    <3>4. QED
      BY <1>1, <3>2, <3>3 DEF Advances
  <2>2. QED
    BY <2>1 DEF ReceiptsTruthful
<1>11. QED
  BY <1>1, <1>3, <1>7, <1>9, <1>10, FrameKeeps

-----------------------------------------------------------------------------
(* The steps of a handler that claim nothing.                              *)

Aside == UNCHANGED <<todo, session, incomplete, closing, server, typed, running, mine, phone>>

\* A request is answered with the receipt of its operation, or with an error.
LEMMA AnswerFrame ==
  ASSUME TInv, NEW h \in Handlers, NEW receipt \in Receipt, Answer(h, receipt),
         req[h].at \notin {"idle", "answered"} \cup Gated,
         receipt.state # "absent",
         receipt.state \in Ends => ops'[req[h].op].state = receipt.state,
         Lasts, UNCHANGED <<gate, target>>, Aside
  PROVE  HandlerFrame(h) /\ req'[h].at \in {"idle", "answered"}
<1>1. RequestTypes /\ TargetTypes
  BY TypeParts DEF TInv
<1>2. Reports(h, receipt)
  BY <1>1, AnswerEffect
<1>3. req'[h].at \in {"idle", "answered"}
  BY <1>2 DEF Reports
<1>4. RequestOK(h)' /\ PermitOK(h)'
  <2>1. req'[h].at = "answered" => req'[h].reply = receipt
    BY <1>2 DEF Reports
  <2>2. req'[h].permit.scope = "input"
    BY <1>2 DEF Reports
  <2>3. QED
    BY <1>3, <2>1, <2>2 DEF RequestOK, PermitOK, Admitted, Begun
<1>5. GateMoves(h)
  BY <1>3 DEF GateMoves, Gated
<1>6. Reaches(h)
  BY <1>2 DEF Reports, Reaches
<1>7. QED
  BY <1>1, <1>2, <1>3, <1>4, <1>5, <1>6
     DEF HandlerFrame, Reports, TargetMoves, TargetTypes, Aside

LEMMA AnswerPlain ==
  ASSUME TInv, NEW h \in Handlers, NEW receipt \in Receipt, Answer(h, receipt),
         req[h].at \notin {"idle", "answered"} \cup Gated \cup Claimed,
         receipt.state # "absent",
         receipt.state \in Ends => ops'[req[h].op].state = receipt.state,
         Advances, UNCHANGED <<control, server, target, device, mine, phone>>
  PROVE  PlainStep(h)
<1>1. UNCHANGED <<gate, target>> /\ Aside
  BY DEF control, device, Aside
<1>2. HandlerFrame(h) /\ req'[h].at \in {"idle", "answered"}
  BY <1>1, AdvancesLasts, AnswerFrame
<1>3. QED
  BY <1>2 DEF PlainStep, Claimed

\* A request goes on.
LEMMA ServePlain ==
  ASSUME TInv, NEW h \in Handlers, NEW place \in Places, Serve(h, place),
         req[h].at \notin {"idle", "answered"} \cup Claimed,
         place \notin {"idle", "answered", "focus"} \cup Claimed,
         place \in Admitted => req[h].at \in Admitted,
         place \in Begun => ops'[req[h].op].state # "absent",
         gate' = IF req[h].at = "focus" THEN "free" ELSE gate,
         Advances, TargetMoves(h), Ungated, UNCHANGED <<server, device, mine, phone>>
  PROVE  PlainStep(h)
<1>1. RequestTypes /\ RequestInv
  BY TypeParts DEF TInv
<1>2. Elsewhere(h) /\ Carries(h) /\ req'[h].at = place
  BY <1>1, ServeEffect
<1>3. RequestOK(h)' /\ PermitOK(h)'
  <2>1. RequestOK(h)
    BY <1>1 DEF RequestInv
  <2>2. place # "typing" /\ place # "finish"
    BY DEF Claimed
  <2>3. req'[h].permit.scope = "input" /\ (place \in Admitted => req'[h].permit.epoch # 0)
    BY <1>2, <2>1 DEF Carries, RequestOK
  <2>4. req'[h].op = req[h].op /\ req[h].op \in Operations
    BY <1>2, <2>1 DEF Carries, RequestOK
  <2>5. PermitOK(h)'
    BY <1>2, <2>2 DEF PermitOK
  <2>6. QED
    BY <1>2, <2>1, <2>2, <2>3, <2>4, <2>5 DEF RequestOK
<1>4. GateMoves(h)
  <2>1. req[h].at # "typing" /\ place \notin Gated
    BY DEF Gated, Claimed
  <2>2. QED
    BY <1>2, <2>1 DEF GateMoves, Gated
<1>5. Reaches(h) /\ Lasts
  BY <1>2, AdvancesLasts DEF Reaches, Carries
<1>6. HandlerFrame(h)
  BY <1>2, <1>3, <1>4, <1>5 DEF HandlerFrame, Ungated, device
<1>7. QED
  BY <1>2, <1>6 DEF PlainStep, Claimed

\* The facts about a handler and its operation that its steps need.
LEMMA Serving ==
  ASSUME TInv, NEW h \in Handlers, req[h].at \notin {"idle", "answered"}
  PROVE  /\ req[h].op \in Operations /\ ops[req[h].op] \in Receipt
         /\ RequestOK(h) /\ req[h] \in Request /\ OpTypes /\ RequestTypes /\ TargetTypes
BY TypeParts DEF TInv, RequestInv, RequestOK, OpTypes, RequestTypes

LEMMA ErrorFacts == Error \in Receipt /\ Error.state = "error" /\ "error" \notin Ends
BY RecordTypes DEF Error, Ends

LEMMA CancelPlain ==
  ASSUME TInv, NEW h \in Handlers, CancelOperation(h)
  PROVE  PlainStep(h)
<1> DEFINE o == req[h].op
<1>1. req[h].at = "cancel"
  BY DEF CancelOperation
<1>2. o \in Operations /\ ops[o] \in Receipt /\ OpTypes
  BY <1>1, Serving
<1>3. req[h].at \notin {"idle", "answered"} \cup Gated \cup Claimed
  BY <1>1 DEF Gated, Claimed
<1>4. UNCHANGED <<control, server, target, device, mine, phone>>
  BY DEF CancelOperation
<1>5. CASE ops[o].state \in Staged /\ Effect(o, "cancelled")
           /\ Answer(h, [ops[o] EXCEPT !.state = "cancelled"])
  <2>1. "cancelled" \in States /\ "cancelled" \in Staged \cup Ends
    BY DEF States, Ends
  <2>2. ops'[o] = [ops[o] EXCEPT !.state = "cancelled"] /\ ops'[o] \in Receipt
        /\ ops'[o].state = "cancelled"
    BY <1>2, <1>5, <2>1, EffectMoves
  <2>3. Advances
    BY <1>2, <1>5, <2>1, EffectAdvances DEF Early
  <2>4. Answer(h, ops'[o])
    BY <1>5, <2>2
  <2>5. \A receipt \in Receipt : receipt = ops'[o] => Answer(h, receipt)
    BY <2>4
  <2>6. PICK receipt \in Receipt : receipt = ops'[o] /\ Answer(h, receipt)
    BY <2>2, <2>5
  <2>7. receipt.state = "cancelled"
    BY <2>2, <2>6
  <2>8. QED
    BY <1>3, <1>4, <2>2, <2>3, <2>6, <2>7, AnswerPlain
<1>6. CASE ops[o].state = "cancelled" /\ Answer(h, ops[o]) /\ UNCHANGED ops
  <2>1. Advances
    BY <1>2, <1>6, SameAdvances
  <2>2. QED
    BY <1>2, <1>3, <1>4, <1>6, <2>1, AnswerPlain
<1>7. CASE ops[o].state \notin Staged \cup {"cancelled"} /\ Answer(h, Error) /\ UNCHANGED ops
  <2>1. Advances
    BY <1>2, <1>7, SameAdvances
  <2>2. QED
    BY <1>3, <1>4, <1>7, <2>1, ErrorFacts, AnswerPlain
<1>8. QED
  BY <1>5, <1>6, <1>7 DEF CancelOperation

\* A step of one request leaves the others alone.
LEMMA RequestChanged ==
  ASSUME req \in [Handlers -> Request], NEW h \in Handlers, NEW r \in Request,
         req' = [req EXCEPT ![h] = r]
  PROVE  /\ req' \in [Handlers -> Request] /\ req'[h] = r
         /\ \A g \in Handlers : g # h => req'[g] = req[g]
OBVIOUS

\* A request that writes is given a permit of this session.
LEMMA AdmitEffect ==
  ASSUME TInv, NEW h \in Handlers, req[h].at = "body", Writes(req[h]), epoch # 0,
         req' = [req EXCEPT ![h].at = First[req[h].kind], ![h].permit = Permit("input"),
                            ![h].epoch = 0, ![h].target = target[req[h].op]]
  PROVE  /\ Elsewhere(h) /\ req'[h].at \in {"register", "append", "seal"}
         /\ req'[h].op = req[h].op /\ req'[h].permit.scope = "input"
         /\ req'[h].permit.epoch # 0
<1> DEFINE place == First[req[h].kind]
           allowed == Permit("input")
           focus == target[req[h].op]
           r == [req[h] EXCEPT !.at = place, !.permit = allowed, !.epoch = 0, !.target = focus]
<1>1. req[h].op \in Operations /\ req[h] \in Request /\ RequestTypes /\ TargetTypes
  BY Serving
<1>2. GateTypes
  BY TypeParts DEF TInv
<1>3. req[h].kind \in {"begin", "chunk", "commit"}
  BY <1>1 DEF Request, Kinds, Writes
<1>4. place \in {"register", "append", "seal"}
  BY <1>3 DEF First
<1>5. /\ allowed \in [scope: Scopes, revision: Nat, gen: Nat, epoch: Nat]
      /\ allowed.scope = "input" /\ allowed.epoch # 0
  BY <1>2 DEF Permit, GateTypes, GateTypeOK, Scopes
<1>6. focus \in Targets \cup {NoTarget}
  BY <1>1 DEF TargetTypes
<1>7. req' = [req EXCEPT ![h] = r]
  OBVIOUS
<1> HIDE DEF place, allowed, focus
<1>8. r \in Request /\ r.at = place /\ r.op = req[h].op /\ r.permit = allowed
  BY <1>1, <1>4, <1>5, <1>6 DEF Request, Places
<1> HIDE DEF r
<1>9. req' \in [Handlers -> Request] /\ req'[h] = r
      /\ \A g \in Handlers : g # h => req'[g] = req[g]
  <2>1. req \in [Handlers -> Request] /\ r \in Request
    BY <1>1, <1>8 DEF RequestTypes
  <2>2. QED
    BY <1>7, <2>1, RequestChanged, Zenon
<1>10. QED
  BY <1>4, <1>5, <1>8, <1>9 DEF Elsewhere

LEMMA ArrivePlain ==
  ASSUME TInv, NEW h \in Handlers, Arrive(h)
  PROVE  PlainStep(h)
<1> DEFINE o == req[h].op
<1>1. req[h].at = "body"
  BY DEF Arrive
<1>2. o \in Operations /\ ops[o] \in Receipt /\ OpTypes /\ TargetTypes
  BY <1>1, Serving
<1>3. req[h].at \notin {"idle", "answered"} \cup Gated \cup Claimed
  BY <1>1 DEF Gated, Claimed
<1>4. UNCHANGED <<control, server, ops, target, device, mine, phone>>
  BY DEF Arrive
<1>5. Advances /\ UNCHANGED <<gate, target>> /\ Ungated /\ TargetMoves(h)
  BY <1>2, <1>4, SameAdvances DEF control, Ungated, TargetMoves, TargetTypes
<1>6. CASE Answer(h, Error)
  BY <1>3, <1>4, <1>5, <1>6, ErrorFacts, AnswerPlain
<1>7. CASE Admissible(req[h]) /\ req[h].kind = "status" /\ Answer(h, ops[o])
  <2>1. ops[o].state # "absent"
    BY <1>7 DEF Admissible, Writes
  <2>2. QED
    BY <1>2, <1>3, <1>4, <1>5, <1>7, <2>1, AnswerPlain
<1>8. CASE Serve(h, "cancel")
  <2>1. "cancel" \in Places \ ({"idle", "answered", "focus"} \cup Claimed \cup Admitted \cup Begun)
    BY DEF Places, Claimed, Admitted, Begun
  <2>2. QED
    BY <1>1, <1>3, <1>4, <1>5, <1>8, <2>1, ServePlain
<1>9. CASE /\ Admissible(req[h]) /\ Writes(req[h])
           /\ req' = [req EXCEPT ![h].at = First[req[h].kind], ![h].permit = Permit("input"),
                                 ![h].epoch = 0, ![h].target = target[req[h].op]]
  <2>1. epoch # 0
    BY <1>9 DEF Admissible
  <2>2. /\ Elsewhere(h) /\ req'[h].at \in {"register", "append", "seal"}
        /\ req'[h].op = o /\ req'[h].permit.scope = "input" /\ req'[h].permit.epoch # 0
    BY <1>1, <1>9, <2>1, AdmitEffect
  <2>3. RequestOK(h)' /\ PermitOK(h)'
    BY <1>2, <2>2 DEF RequestOK, PermitOK, Begun
  <2>4. GateMoves(h)
    BY <1>1, <1>5, <2>2 DEF GateMoves, Gated
  <2>5. Reaches(h)
    BY <2>2 DEF Reaches
  <2>6. HandlerFrame(h)
    BY <1>3, <1>4, <1>5, <2>2, <2>3, <2>4, <2>5, AdvancesLasts DEF HandlerFrame, Ungated, device
  <2>7. QED
    BY <1>3, <1>4, <1>5, <2>2, <2>6 DEF PlainStep, Claimed
<1>10. QED
  BY <1>6, <1>7, <1>8, <1>9 DEF Arrive

LEMMA RegisterPlain ==
  ASSUME TInv, NEW h \in Handlers, Register(h)
  PROVE  PlainStep(h)
<1> DEFINE o == req[h].op
           new == ops[o].state = "absent"
           fresh == [state |-> "receiving", chunks |-> 0]
           receipt == IF new THEN fresh ELSE ops[o]
<1>1. req[h].at = "register"
  BY DEF Register
<1>2. o \in Operations /\ ops[o] \in Receipt /\ OpTypes /\ TargetTypes
  BY <1>1, Serving
<1>3. req[h].at \notin {"idle", "answered", "focus"} \cup Gated \cup Claimed
  BY <1>1 DEF Gated, Claimed
<1>4. UNCHANGED <<control, server, target, device, mine, phone>>
  BY DEF Register
<1>5. UNCHANGED <<gate, target>> /\ Ungated /\ TargetMoves(h)
  BY <1>2, <1>4 DEF control, Ungated, TargetMoves, TargetTypes
<1>6. CASE Answer(h, Error) /\ UNCHANGED ops
  <2>1. Advances
    BY <1>2, <1>6, SameAdvances
  <2>2. QED
    BY <1>3, <1>4, <1>6, <2>1, ErrorFacts, AnswerPlain
<1>7. CASE /\ ops' = [ops EXCEPT ![o] = receipt]
           /\ IF req[h].target = NoTarget /\ receipt.state = "receiving"
              THEN Serve(h, "probe") ELSE Answer(h, receipt)
  <2>1. 0 \in 0..Chunks
    BY TextAssumption DEF TextAssumption
  <2>2. fresh \in Receipt /\ fresh.state = "receiving"
    BY <2>1 DEF Receipt, States, Staged
  <2> HIDE DEF fresh
  <2>3. receipt \in Receipt /\ receipt.state # "absent"
    BY <1>2, <2>2
  <2>4. new => receipt.state = "receiving"
    BY <2>2
  <2>5. ~new => receipt = ops[o]
    OBVIOUS
  <2> HIDE DEF receipt
  <2>6. ops'[o] = receipt /\ OpTypes' /\ \A p \in Operations : p # o => ops'[p] = ops[p]
    BY <1>2, <1>7, <2>3 DEF OpTypes
  <2>7. Advances
    BY <2>4, <2>5, <2>6 DEF Advances, Early, Staged
  <2>8. CASE Answer(h, receipt)
    BY <1>3, <1>4, <2>3, <2>6, <2>7, <2>8, AnswerPlain
  <2>9. CASE Serve(h, "probe")
    <3>1. "probe" \in Places \ ({"idle", "answered", "focus"} \cup Claimed)
      BY DEF Places, Claimed
    <3>2. req[h].at \in Admitted
      BY <1>1 DEF Admitted
    <3>3. QED
      BY <1>3, <1>4, <1>5, <2>3, <2>6, <2>7, <2>9, <3>1, <3>2, ServePlain
  <2>10. QED
    BY <1>7, <2>8, <2>9
<1>8. QED
  BY <1>6, <1>7 DEF Register

LEMMA ProbePlain ==
  ASSUME TInv, NEW h \in Handlers, Probe(h)
  PROVE  PlainStep(h)
<1> DEFINE o == req[h].op
<1>1. req[h].at = "probe"
  BY DEF Probe
<1>2. o \in Operations /\ OpTypes /\ TargetTypes /\ RequestTypes /\ RequestOK(h)
  BY <1>1, Serving
<1>3. req[h].at \notin {"idle", "answered", "focus"} \cup Gated \cup Claimed
  BY <1>1 DEF Gated, Claimed
<1>4. Ungated /\ UNCHANGED <<server, ops, target, device, mine, phone>>
  BY DEF Probe
<1>5. Advances /\ TargetMoves(h)
  BY <1>2, <1>4, SameAdvances DEF TargetMoves, TargetTypes
<1>6. ops'[o].state # "absent"
  BY <1>1, <1>2, <1>4 DEF RequestOK, Begun
<1>7. CASE Serve(h, "drop") /\ UNCHANGED gate
  <2>1. "drop" \in Places \ ({"idle", "answered", "focus"} \cup Claimed \cup Admitted)
    BY DEF Places, Claimed, Admitted
  <2>2. QED
    BY <1>3, <1>4, <1>5, <1>6, <1>7, <2>1, ServePlain
<1>8. CASE Serve(h, "reply") /\ UNCHANGED gate
  <2>1. "reply" \in Places \ ({"idle", "answered", "focus"} \cup Claimed \cup Admitted)
    BY DEF Places, Claimed, Admitted
  <2>2. QED
    BY <1>3, <1>4, <1>5, <1>6, <1>8, <2>1, ServePlain
<1>9. CASE Enter(h) /\ target[o] = NoTarget /\ Serve(h, "focus") /\ gate' = h
  <2>1. Elsewhere(h) /\ Carries(h) /\ req'[h].at = "focus"
    BY <1>2, <1>9, ServeEffect DEF Places
  <2>2. RequestOK(h)' /\ PermitOK(h)'
    BY <1>1, <1>2, <1>4, <1>6, <1>9, <2>1
       DEF RequestOK, PermitOK, Carries, Admitted, Begun
  <2>3. GateMoves(h) /\ Reaches(h)
    BY <1>9, <2>1 DEF GateMoves, Gated, Enter, Reaches, Carries
  <2>4. HandlerFrame(h)
    BY <1>3, <1>4, <1>5, <2>1, <2>2, <2>3, AdvancesLasts DEF HandlerFrame, Ungated, device
  <2>5. QED
    BY <1>3, <1>4, <1>5, <2>1, <2>4 DEF PlainStep, Claimed
<1>10. QED
  BY <1>7, <1>8, <1>9 DEF Probe

LEMMA FocusPlain ==
  ASSUME TInv, NEW h \in Handlers, NEW t \in Targets \cup {NoTarget}, Focus(h, t)
  PROVE  PlainStep(h)
<1> DEFINE o == req[h].op
<1>1. req[h].at = "focus" /\ gate' = "free"
  BY DEF Focus
<1>2. o \in Operations /\ OpTypes /\ TargetTypes /\ RequestTypes /\ RequestOK(h)
  BY <1>1, Serving
<1>3. req[h].at \notin {"idle", "answered"} \cup Claimed
  BY <1>1 DEF Claimed
<1>4. Ungated /\ UNCHANGED <<server, ops, device, mine, phone>>
  BY DEF Focus
<1>5. target' = target \/ target' = [target EXCEPT ![o] = t]
  BY DEF Focus
<1>6. Advances /\ TargetMoves(h)
  BY <1>1, <1>2, <1>4, <1>5, SameAdvances DEF TargetMoves, TargetTypes
<1>7. ops'[o].state # "absent"
  BY <1>1, <1>2, <1>4 DEF RequestOK, Begun
<1>8. PICK place \in {"reply", "drop"} : Serve(h, place)
  BY DEF Focus
<1>9. place \in Places \ ({"idle", "answered", "focus"} \cup Claimed \cup Admitted)
  BY DEF Places, Claimed, Admitted
<1>10. QED
  BY <1>1, <1>3, <1>4, <1>6, <1>7, <1>8, <1>9, ServePlain

LEMMA DropPlain ==
  ASSUME TInv, NEW h \in Handlers, Drop(h)
  PROVE  PlainStep(h)
<1> DEFINE o == req[h].op
<1>1. req[h].at = "drop"
  BY DEF Drop
<1>2. o \in Operations /\ ops[o] \in Receipt /\ OpTypes /\ RequestOK(h)
  BY <1>1, Serving
<1>3. req[h].at \notin {"idle", "answered"} \cup Gated \cup Claimed
  BY <1>1 DEF Gated, Claimed
<1>4. UNCHANGED <<control, server, target, device, mine, phone>>
  BY DEF Drop
<1>5. CASE ops[o].state \in Staged /\ Effect(o, "cancelled")
           /\ Answer(h, [ops[o] EXCEPT !.state = "cancelled"])
  <2>1. "cancelled" \in States /\ "cancelled" \in Staged \cup Ends
    BY DEF States, Ends
  <2>2. ops'[o] = [ops[o] EXCEPT !.state = "cancelled"] /\ ops'[o] \in Receipt
        /\ ops'[o].state = "cancelled"
    BY <1>2, <1>5, <2>1, EffectMoves
  <2>3. Advances
    BY <1>2, <1>5, <2>1, EffectAdvances DEF Early
  <2>4. \A receipt \in Receipt : receipt = ops'[o] => Answer(h, receipt)
    BY <1>5, <2>2
  <2>5. PICK receipt \in Receipt : receipt = ops'[o] /\ Answer(h, receipt)
    BY <2>2, <2>4
  <2>6. receipt.state = "cancelled"
    BY <2>2, <2>5
  <2>7. QED
    BY <1>3, <1>4, <2>2, <2>3, <2>5, <2>6, AnswerPlain
<1>6. CASE Answer(h, ops[o]) /\ UNCHANGED ops
  <2>1. Advances
    BY <1>2, <1>6, SameAdvances
  <2>2. ops[o].state # "absent"
    BY <1>1, <1>2 DEF RequestOK, Begun
  <2>3. QED
    BY <1>2, <1>3, <1>4, <1>6, <2>1, <2>2, AnswerPlain
<1>7. QED
  BY <1>5, <1>6 DEF Drop

LEMMA ReplyPlain ==
  ASSUME TInv, NEW h \in Handlers, Reply(h)
  PROVE  PlainStep(h)
<1> DEFINE o == req[h].op
<1>1. req[h].at = "reply"
  BY DEF Reply
<1>2. o \in Operations /\ ops[o] \in Receipt /\ OpTypes /\ RequestOK(h)
  BY <1>1, Serving
<1>3. req[h].at \notin {"idle", "answered"} \cup Gated \cup Claimed
  BY <1>1 DEF Gated, Claimed
<1>4. UNCHANGED <<control, server, ops, target, device, mine, phone>> /\ Answer(h, ops[o])
  BY DEF Reply
<1>5. Advances
  BY <1>2, <1>4, SameAdvances
<1>6. ops[o].state # "absent"
  BY <1>1, <1>2 DEF RequestOK, Begun
<1>7. QED
  BY <1>2, <1>3, <1>4, <1>5, <1>6, AnswerPlain

LEMMA AppendPlain ==
  ASSUME TInv, NEW h \in Handlers, AppendChunk(h)
  PROVE  PlainStep(h)
<1> DEFINE o == req[h].op
           grown == [ops[o] EXCEPT !.chunks = @ + 1]
<1>1. req[h].at = "append"
  BY DEF AppendChunk
<1>2. o \in Operations /\ ops[o] \in Receipt /\ OpTypes
  BY <1>1, Serving
<1>3. req[h].at \notin {"idle", "answered"} \cup Gated \cup Claimed
  BY <1>1 DEF Gated, Claimed
<1>4. UNCHANGED <<control, server, target, device, mine, phone>>
  BY DEF AppendChunk
<1>5. CASE Answer(h, Error) /\ UNCHANGED ops
  <2>1. Advances
    BY <1>2, <1>5, SameAdvances
  <2>2. QED
    BY <1>3, <1>4, <1>5, <2>1, ErrorFacts, AnswerPlain
<1>6. CASE ops[o].state # "absent" /\ Answer(h, ops[o]) /\ UNCHANGED ops
  <2>1. Advances
    BY <1>2, <1>6, SameAdvances
  <2>2. QED
    BY <1>2, <1>3, <1>4, <1>6, <2>1, AnswerPlain
<1>7. CASE /\ ops[o].state = "receiving" /\ ops[o].chunks < Chunks
           /\ ops' = [ops EXCEPT ![o] = grown] /\ Answer(h, grown)
  <2>1. ops[o].chunks + 1 \in 0..Chunks
    BY <1>2, <1>7, TextAssumption DEF Receipt, TextAssumption
  <2>2. grown \in Receipt /\ grown.state = "receiving"
    BY <1>2, <1>7, <2>1 DEF Receipt
  <2> HIDE DEF grown
  <2>3. ops'[o] = grown /\ OpTypes' /\ \A p \in Operations : p # o => ops'[p] = ops[p]
    BY <1>2, <1>7, <2>2 DEF OpTypes
  <2>4. Advances
    BY <1>7, <2>2, <2>3 DEF Advances, Early, Staged
  <2>5. QED
    BY <1>3, <1>4, <1>7, <2>2, <2>3, <2>4, AnswerPlain
<1>8. QED
  BY <1>5, <1>6, <1>7 DEF AppendChunk

LEMMA SealPlain ==
  ASSUME TInv, NEW h \in Handlers, Seal(h)
  PROVE  PlainStep(h)
<1> DEFINE o == req[h].op
<1>1. req[h].at = "seal"
  BY DEF Seal
<1>2. o \in Operations /\ ops[o] \in Receipt /\ OpTypes /\ TargetTypes
  BY <1>1, Serving
<1>3. req[h].at \notin {"idle", "answered", "focus"} \cup Gated \cup Claimed
  BY <1>1 DEF Gated, Claimed
<1>4. UNCHANGED <<control, server, target, device, mine, phone>>
  BY DEF Seal
<1>5. UNCHANGED gate /\ Ungated /\ TargetMoves(h)
  BY <1>2, <1>4 DEF control, Ungated, TargetMoves, TargetTypes
<1>6. "claim" \in Places \ ({"idle", "answered", "focus"} \cup Claimed \cup Begun)
      /\ req[h].at \in Admitted
  BY <1>1 DEF Places, Claimed, Begun, Admitted
<1>7. CASE UNCHANGED ops
  <2>1. Advances
    BY <1>2, <1>7, SameAdvances
  <2>2. CASE Answer(h, Error)
    BY <1>3, <1>4, <2>1, <2>2, ErrorFacts, AnswerPlain
  <2>3. CASE Serve(h, "claim")
    BY <1>3, <1>4, <1>5, <1>6, <2>1, <2>3, ServePlain
  <2>4. CASE ops[o].state # "absent" /\ Answer(h, ops[o])
    BY <1>2, <1>3, <1>4, <1>7, <2>1, <2>4, AnswerPlain
  <2>5. ASSUME ops[o].state = "receiving", Effect(o, "rejected") \/ Effect(o, "ready")
        PROVE  FALSE
    <3>1. "rejected" \in States /\ "ready" \in States
      BY DEF States, Staged, Results
    <3>2. ops'[o].state \in {"rejected", "ready"}
      BY <1>2, <2>5, <3>1, EffectMoves
    <3>3. QED
      BY <1>7, <2>5, <3>2
  <2>6. QED
    BY <2>2, <2>3, <2>4, <2>5 DEF Seal
<1>8. CASE ops[o].state = "receiving" /\ Effect(o, "rejected") /\ Answer(h, Error)
  <2>1. "rejected" \in Staged \cup Ends /\ ops[o].state \in Early
    BY <1>8 DEF Ends, Early, Staged
  <2>2. Advances
    BY <1>2, <1>8, <2>1, EffectAdvances
  <2>3. QED
    BY <1>3, <1>4, <1>8, <2>2, ErrorFacts, AnswerPlain
<1>9. CASE ops[o].state = "receiving" /\ Effect(o, "ready") /\ Serve(h, "claim")
  <2>1. "ready" \in Staged \cup Ends /\ ops[o].state \in Early
    BY <1>9 DEF Ends, Early, Staged
  <2>2. Advances
    BY <1>2, <1>9, <2>1, EffectAdvances
  <2>3. QED
    BY <1>3, <1>4, <1>5, <1>6, <1>9, <2>2, ServePlain
<1>10. QED
  BY <1>7, <1>8, <1>9 DEF Seal

-----------------------------------------------------------------------------
(* The steps of a handler that claim a text, and report what became of it.  *)

\* What a handler knows of its text, from the facts about the injector.
LEMMA Watching ==
  ASSUME TInv, NEW h \in Handlers, req[h].at = "typing"
  PROVE  /\ gate = h
         /\ queued # 0 => queued = req[h].op /\ answer = "none"
         /\ \A g \in Handlers : g # h => req[g].at # "typing"
<1>1. GateInv /\ DeviceInv
  BY DEF TInv
<1>2. gate = h
  BY <1>1 DEF GateInv, Gated
<1>3. \A g \in Handlers : g # h => req[g].at # "typing"
  BY <1>1, <1>2 DEF GateInv, Gated
<1>4. QED
  BY <1>1, <1>2, <1>3 DEF DeviceInv

\* Nobody types: the injector has been given nothing, and owes no answer.
LEMMA NobodyTypes ==
  ASSUME TInv, \A g \in Handlers : req[g].at # "typing"
  PROVE  queued = 0 /\ answer = "none"
BY DEF TInv, DeviceInv

\* Who has claimed a text is the only one, and knows of it.
LEMMA Claiming ==
  ASSUME TInv, NEW h \in Handlers, req[h].at \in Claimed
  PROVE  /\ Untold(h) /\ req[h].op \in Operations
         /\ \A g \in Handlers : g # h /\ req[g].at \in Claimed => req[g].op # req[h].op
<1>1. ClaimInv /\ RequestInv
  BY DEF TInv
<1>2. req[h].op \in Operations
  BY <1>1 DEF RequestInv, RequestOK, Claimed
<1>3. QED
  BY <1>1, <1>2 DEF ClaimInv, Sole

LEMMA ReceiptOf ==
  ASSUME TInv, NEW o \in Operations
  PROVE  /\ Len(typed[o]) <= 1
         /\ ops[o].state = "dispatched" => Len(typed[o]) = 1 /\ running # o
         /\ ops[o].state \in Staged \cup {"absent", "cancelled", "rejected"} =>
              typed[o] = <<>> /\ queued # o
BY DEF TInv, ReceiptsTruthful

\* Only the registry moves, by one operation: what the injector does is left
\* alone, and so is what the other handlers know.
LEMMA OthersUntold ==
  ASSUME TInv, NEW h \in Handlers, Elsewhere(h), UNCHANGED <<queued, running, answer, typed>>,
         \A o \in Operations : o # req[h].op => ops'[o] = ops[o],
         \A g \in Handlers : g # h /\ req[g].at \in Claimed => req[g].op # req[h].op,
         NEW g \in Handlers, g # h, req'[g].at \in Claimed
  PROVE  Untold(g)' /\ req[g].op # req[h].op
<1>1. req'[g] = req[g]
  BY DEF Elsewhere
<1>2. Untold(g) /\ req[g].op \in Operations /\ req[g].op # req[h].op
  BY <1>1, Claiming
<1>3. ops'[req[g].op] = ops[req[g].op]
  BY <1>2
<1>4. QED
  BY <1>1, <1>2, <1>3 DEF Untold

LEMMA ClaimStep ==
  ASSUME TInv, NEW h \in Handlers, Claim(h)
  PROVE  TInv'
<1> DEFINE o == req[h].op
<1>1. req[h].at = "claim"
  BY DEF Claim
<1>2. o \in Operations /\ ops[o] \in Receipt /\ OpTypes /\ TargetTypes /\ RequestTypes /\ RequestOK(h)
  BY <1>1, Serving
<1>3. req[h].at \notin {"idle", "answered", "focus"} \cup Gated \cup Claimed
  BY <1>1 DEF Gated, Claimed
<1>4. UNCHANGED <<control, server, target, device, mine, phone>>
  BY DEF Claim
<1>5. CASE Answer(h, Error) /\ UNCHANGED ops
  <2>1. Advances
    BY <1>2, <1>5, SameAdvances
  <2>2. PlainStep(h)
    BY <1>3, <1>4, <1>5, <2>1, ErrorFacts, AnswerPlain
  <2>3. QED
    BY <2>2, PlainKeeps
<1>6. CASE ops[o].state = "ready" /\ Effect(o, "dispatching") /\ Serve(h, "dispatch")
  <2>1. "dispatching" \in States /\ "dispatch" \in Places
    BY DEF States, Places
  <2>2. /\ OpTypes' /\ ops'[o].state = "dispatching"
        /\ \A p \in Operations : p # o => ops'[p] = ops[p]
    BY <1>2, <1>6, <2>1, EffectMoves
  <2>3. Elsewhere(h) /\ Carries(h) /\ req'[h].at = "dispatch"
    BY <1>2, <1>6, <2>1, ServeEffect
  <2>4. Lasts
    BY <1>6, <2>2 DEF Lasts, Ends
  <2>5. RequestOK(h)' /\ PermitOK(h)'
    BY <1>1, <1>2, <2>3 DEF RequestOK, PermitOK, Carries, Admitted, Begun
  <2>6. GateMoves(h) /\ Reaches(h) /\ TargetMoves(h)
    BY <1>2, <1>3, <1>4, <2>3
       DEF GateMoves, Gated, Reaches, Carries, TargetMoves, TargetTypes, control
  <2>7. HandlerFrame(h)
    BY <1>3, <1>4, <2>3, <2>4, <2>5, <2>6 DEF HandlerFrame, control, device
  <2>8. UNCHANGED <<queued, running, answer, typed>>
    BY <1>4 DEF device
  <2>9. typed[o] = <<>> /\ queued # o
    BY <1>2, <1>6, ReceiptOf DEF Staged
  <2>10. \A g \in Handlers : g # h /\ req[g].at \in Claimed => req[g].op # o
    BY <1>6, Claiming DEF Untold
  <2>11. \A g \in Handlers : g # h /\ req'[g].at \in Claimed => Untold(g)'
    BY <2>2, <2>3, <2>8, <2>10, OthersUntold
  <2>12. Untold(h)'
    BY <2>2, <2>3, <2>8, <2>9 DEF Untold, Carries
  <2>13. Sole'
    <3>1. Sole
      BY DEF TInv, ClaimInv
    <3>2. req'[h].op = o /\ \A g \in Handlers : g # h => req'[g] = req[g]
      BY <2>3 DEF Carries, Elsewhere
    <3>3. QED
      BY <2>10, <3>1, <3>2 DEF Sole
  <2>14. ClaimInv'
    BY <2>11, <2>12, <2>13 DEF ClaimInv
  <2>15. DeviceInv'
    <3>1. DeviceInv
      BY DEF TInv
    <3>2. ASSUME gate \in Handlers, req[gate].at = "typing"
          PROVE  gate' = gate /\ req'[gate] = req[gate]
      BY <1>1, <1>4, <2>3, <3>2 DEF Elsewhere, control
    <3>3. QED
      BY <2>8, <3>1, <3>2 DEF DeviceInv
  <2>16. ReceiptsTruthful'
    <3>1. ASSUME NEW p \in Operations
          PROVE /\ Len(typed'[p]) <= 1
                /\ ops'[p].state = "dispatched" => Len(typed'[p]) = 1 /\ running' # p
                /\ ops'[p].state \in Staged \cup {"absent", "cancelled", "rejected"} =>
                     typed'[p] = <<>> /\ queued' # p
      <4>1. CASE p = o
        BY <2>2, <2>8, <4>1, ReceiptOf DEF Staged
      <4>2. CASE p # o
        BY <2>2, <2>8, <4>2, ReceiptOf
      <4>3. QED
        BY <4>1, <4>2
    <3>2. QED
      BY <3>1 DEF ReceiptsTruthful
  <2>17. DeviceTypes'
    BY <2>8, TypeParts DEF TInv, DeviceTypes
  <2>18. QED
    BY <2>7, <2>14, <2>15, <2>16, <2>17, FrameKeeps
<1>7. QED
  BY <1>5, <1>6 DEF Claim

\* The handler has a result that it has not reported yet.
LEMMA ConcludeKeeps ==
  ASSUME TInv, NEW h \in Handlers, req[h].at \in {"dispatch", "typing"},
         NEW result \in Results, Conclude(h, result), Ungated,
         UNCHANGED <<server, ops, target, running, typed, mine, phone>>,
         req[h].at = "dispatch" => UNCHANGED <<gate, queued, answer>>,
         req[h].at = "typing" => gate' = "free" /\ answer' = "none" /\ queued' = 0,
         result = "rejected" => typed[req[h].op] = <<>>,
         result = "dispatched" => Len(typed[req[h].op]) = 1 /\ running # req[h].op
  PROVE  TInv'
<1> DEFINE o == req[h].op
<1>1. /\ o \in Operations /\ OpTypes /\ TargetTypes /\ RequestTypes /\ RequestOK(h)
      /\ Untold(h)
      /\ \A g \in Handlers : g # h /\ req[g].at \in Claimed => req[g].op # o
  BY Serving, Claiming DEF Claimed
<1>2. /\ Elsewhere(h) /\ req'[h].op = o /\ req'[h].permit.scope = "input"
      /\ req'[h].at = "finish" /\ req'[h].reply.state = result
  BY <1>1, ConcludeEffect
<1>3. UNCHANGED <<server, ops, target, running, typed, mine, phone>>
  OBVIOUS
<1>4. Lasts /\ TargetMoves(h)
  BY <1>1, <1>3, SameAdvances, AdvancesLasts DEF TargetMoves, TargetTypes
<1>5. RequestOK(h)' /\ PermitOK(h)'
  BY <1>1, <1>2 DEF RequestOK, PermitOK, Admitted, Begun
<1>6. GateMoves(h) /\ Reaches(h)
  BY <1>2 DEF GateMoves, Gated, Reaches
<1>7. HandlerFrame(h)
  BY <1>2, <1>3, <1>4, <1>5, <1>6 DEF HandlerFrame, Ungated
<1>8. queued' \in {0, queued} /\ (answer' = answer \/ answer' = "none")
  OBVIOUS
<1>9. ASSUME NEW g \in Handlers, g # h, req'[g].at \in Claimed PROVE Untold(g)'
  <2>1. req'[g] = req[g]
    BY <1>2, <1>9 DEF Elsewhere
  <2>2. Untold(g)
    BY <1>9, <2>1, Claiming
  <2>3. req[g].at = "typing" => UNCHANGED <<queued, answer>>
    BY <1>9, Watching
  <2>4. QED
    BY <1>3, <2>1, <2>2, <2>3 DEF Untold
<1>10. Untold(h)'
  BY <1>1, <1>2, <1>3 DEF Untold
<1>11. Sole'
  <2>1. Sole
    BY DEF TInv, ClaimInv
  <2>2. QED
    BY <1>1, <1>2, <2>1 DEF Sole, Elsewhere
<1>12. ClaimInv'
  BY <1>9, <1>10, <1>11 DEF ClaimInv
<1>13. DeviceInv'
  <2>1. DeviceInv
    BY DEF TInv
  <2>2. CASE req[h].at = "typing"
    BY <1>3, <2>1, <2>2 DEF DeviceInv
  <2>3. CASE req[h].at = "dispatch"
    <3>1. ASSUME gate \in Handlers, req[gate].at = "typing" PROVE req'[gate] = req[gate]
      BY <1>2, <2>3, <3>1 DEF Elsewhere
    <3>2. QED
      BY <1>3, <2>1, <2>3, <3>1 DEF DeviceInv
  <2>4. QED
    BY <2>2, <2>3
<1>14. DeviceTypes'
  <2>1. DeviceTypes /\ 0 \in 0..Texts
    BY TypeParts, TextAssumption DEF TInv, TextAssumption
  <2>2. QED
    BY <1>3, <1>8, <2>1 DEF DeviceTypes
<1>15. ReceiptsTruthful'
  <2>1. \A p \in Operations : p # 0
    BY RecordTypes
  <2>2. ReceiptsTruthful
    BY DEF TInv
  <2>3. QED
    BY <1>3, <1>8, <2>1, <2>2 DEF ReceiptsTruthful
<1>16. QED
  BY <1>7, <1>12, <1>13, <1>14, <1>15, FrameKeeps

LEMMA DispatchStep ==
  ASSUME TInv, NEW h \in Handlers, Dispatch(h)
  PROVE  TInv'
<1> DEFINE o == req[h].op
           pastes == req[h].target = Clipboard /\ ~Allowed("clipboard")
<1>1. req[h].at = "dispatch"
  BY DEF Dispatch
<1>2. /\ o \in Operations /\ OpTypes /\ TargetTypes /\ RequestTypes /\ RequestOK(h)
      /\ req[h].at \in Claimed /\ Untold(h)
      /\ \A g \in Handlers : g # h /\ req[g].at \in Claimed => req[g].op # o
  BY <1>1, Serving, Claiming DEF Claimed
<1>3. Ungated /\ UNCHANGED <<server, ops, target, running, typed, mine, phone>>
  BY DEF Dispatch
<1>4. CASE /\ Conclude(h, "uncertain") \/ Conclude(h, "rejected")
           /\ UNCHANGED <<gate, queued, answer>>
  <2>1. PICK result \in {"uncertain", "rejected"} : Conclude(h, result)
    BY <1>4
  <2>2. typed[o] = <<>> /\ result \in Results /\ result # "dispatched"
    BY <1>1, <1>2 DEF Untold, Results
  <2>3. QED
    BY <1>1, <1>3, <1>4, <2>1, <2>2, ConcludeKeeps
<1>5. CASE /\ Enter(h) /\ ~pastes
           /\ Serve(h, "typing") /\ gate' = h /\ queued' = o /\ answer' = "none"
  <2>1. Elsewhere(h) /\ Carries(h) /\ req'[h].at = "typing"
    BY <1>2, <1>5, ServeEffect DEF Places
  <2>2. gate = "free" /\ \A g \in Handlers : req[g].at # "typing"
    BY <1>5, HandlerNames DEF Enter, TInv, GateInv, Gated
  <2>3. Lasts /\ TargetMoves(h)
    BY <1>2, <1>3, SameAdvances, AdvancesLasts DEF TargetMoves, TargetTypes
  <2>4. RequestOK(h)'
    BY <1>1, <1>2, <2>1 DEF RequestOK, Carries, Admitted, Begun
  <2>5. PermitOK(h)'
    <3>1. Honoured(req[h].permit)
      BY <1>5 DEF Enter
    <3>2. req[h].target = Clipboard => Allowed("clipboard")
      BY <1>5
    <3>3. QED
      BY <1>3, <2>1, <3>1, <3>2
         DEF PermitOK, Carries, Honoured, Allowed, Ungated, session
  <2>6. GateMoves(h) /\ Reaches(h)
    BY <1>5, <2>1, <2>2 DEF GateMoves, Gated, Reaches, Carries
  <2>7. HandlerFrame(h)
    BY <1>1, <1>3, <2>1, <2>3, <2>4, <2>5, <2>6 DEF HandlerFrame, Ungated
  <2>8. ASSUME NEW g \in Handlers, g # h, req'[g].at \in Claimed PROVE Untold(g)'
    <3>1. req'[g] = req[g]
      BY <2>1, <2>8 DEF Elsewhere
    <3>2. Untold(g) /\ req[g].at # "typing"
      BY <2>2, <2>8, <3>1, Claiming
    <3>3. QED
      BY <1>3, <3>1, <3>2 DEF Untold
  <2>9. Untold(h)'
    BY <1>1, <1>2, <1>3, <1>5, <2>1 DEF Untold, Carries
  <2>10. Sole'
    <3>1. Sole
      BY DEF TInv, ClaimInv
    <3>2. QED
      BY <1>2, <2>1, <3>1 DEF Sole, Elsewhere, Carries
  <2>11. ClaimInv'
    BY <2>8, <2>9, <2>10 DEF ClaimInv
  <2>12. DeviceInv'
    BY <1>3, <1>5, <2>1 DEF TInv, DeviceInv, Carries
  <2>13. DeviceTypes'
    BY <1>2, <1>3, <1>5, TypeParts, RecordTypes DEF TInv, DeviceTypes
  <2>14. ReceiptsTruthful'
    <3>1. ReceiptsTruthful /\ ops[o].state \in {"dispatching", "uncertain"}
      BY <1>2 DEF TInv, Untold
    <3>2. QED
      BY <1>3, <1>5, <3>1 DEF ReceiptsTruthful, Staged
  <2>15. QED
    BY <2>7, <2>11, <2>12, <2>13, <2>14, FrameKeeps
<1>6. QED
  BY <1>4, <1>5 DEF Dispatch

LEMMA TypedStep ==
  ASSUME TInv, NEW h \in Handlers, Typed(h)
  PROVE  TInv'
<1>1. /\ req[h].at = "typing" /\ answer # "none" /\ gate' = "free" /\ answer' = "none"
      /\ Conclude(h, answer) /\ Ungated
      /\ UNCHANGED <<server, ops, target, queued, running, typed, mine, phone>>
  BY DEF Typed
<1>2. Untold(h)
  BY <1>1, Claiming DEF Claimed
<1>3. queued = 0
  BY <1>1, Watching
<1>4. PICK result \in Results : result = answer
  BY <1>1, TypeParts DEF TInv, DeviceTypes
<1>5. /\ Conclude(h, result)
      /\ result = "rejected" => typed[req[h].op] = <<>>
      /\ result = "dispatched" => Len(typed[req[h].op]) = 1 /\ running # req[h].op
  BY <1>1, <1>2, <1>4 DEF Untold
<1>6. QED
  BY <1>1, <1>3, <1>5, ConcludeKeeps

LEMMA InterruptStep ==
  ASSUME TInv, NEW h \in Handlers, Interrupt(h)
  PROVE  TInv'
<1>1. /\ req[h].at = "typing" /\ gate' = "free" /\ answer' = "none" /\ queued' = 0
      /\ Conclude(h, "uncertain") /\ Ungated
      /\ UNCHANGED <<server, ops, target, running, typed, mine, phone>>
  BY DEF Interrupt
<1>2. "uncertain" \in Results
  BY DEF Results
<1>3. QED
  BY <1>1, <1>2, ConcludeKeeps

LEMMA FinishStep ==
  ASSUME TInv, NEW h \in Handlers, Finish(h)
  PROVE  TInv'
<1> DEFINE o == req[h].op
           done == [ops[o] EXCEPT !.state = req[h].reply.state]
           receipt == IF ops[o].state = "dispatching" THEN done ELSE ops[o]
<1>1. /\ req[h].at = "finish"
      /\ ops' = [ops EXCEPT ![o] = receipt] /\ Answer(h, receipt)
      /\ UNCHANGED <<control, server, target, device, mine, phone>>
  BY DEF Finish
<1>2. /\ o \in Operations /\ ops[o] \in Receipt /\ OpTypes /\ TargetTypes /\ RequestTypes
      /\ RequestOK(h) /\ Untold(h)
      /\ \A g \in Handlers : g # h /\ req[g].at \in Claimed => req[g].op # o
  BY <1>1, Serving, Claiming DEF Claimed
<1>3. req[h].reply.state \in Results
  BY <1>1, <1>2 DEF RequestOK
<1>4. done \in Receipt /\ done.state = req[h].reply.state
  BY <1>2, <1>3 DEF Receipt, States
<1> HIDE DEF done
<1>5. /\ receipt \in Receipt
      /\ receipt.state = "uncertain" \/ receipt.state = req[h].reply.state
  BY <1>2, <1>4 DEF Untold
<1> HIDE DEF receipt
<1>6. receipt.state \in Results
  BY <1>3, <1>5 DEF Results
<1>7. /\ OpTypes' /\ ops'[o] = receipt
      /\ \A p \in Operations : p # o => ops'[p] = ops[p]
  BY <1>1, <1>2, <1>5 DEF OpTypes
<1>8. Lasts
  BY <1>2, <1>6, <1>7 DEF Lasts, Results, Untold, Ends
<1>9. UNCHANGED <<gate, target>> /\ Aside
  BY <1>1 DEF control, device, Aside
<1>10. HandlerFrame(h) /\ req'[h].at \in {"idle", "answered"}
  <2>1. req[h].at \notin {"idle", "answered"} \cup Gated
    BY <1>1 DEF Gated
  <2>2. receipt.state # "absent"
    BY <1>6 DEF Results
  <2>3. QED
    BY <1>1, <1>5, <1>7, <1>8, <1>9, <2>1, <2>2, AnswerFrame
<1>11. UNCHANGED <<queued, running, answer, typed>>
  BY <1>1 DEF device
<1>12. \A g \in Handlers : req'[g].at \in Claimed => g # h /\ req'[g] = req[g]
  BY <1>10 DEF HandlerFrame, Elsewhere, Claimed
<1>13. \A g \in Handlers : req'[g].at \in Claimed => Untold(g)'
  BY <1>2, <1>7, <1>10, <1>11, <1>12, OthersUntold DEF HandlerFrame
<1>14. ClaimInv'
  BY <1>12, <1>13 DEF TInv, ClaimInv, Sole
<1>15. DeviceInv'
  <2>1. DeviceInv
    BY DEF TInv
  <2>2. ASSUME gate \in Handlers, req[gate].at = "typing" PROVE req'[gate] = req[gate]
    BY <1>1, <1>10, <2>2 DEF HandlerFrame, Elsewhere
  <2>3. QED
    BY <1>9, <1>11, <2>1, <2>2 DEF DeviceInv
<1>16. DeviceTypes'
  BY <1>11, TypeParts DEF TInv, DeviceTypes
<1>17. ReceiptsTruthful'
  <2>1. queued # o
    <3>1. ASSUME queued = o PROVE FALSE
      <4>1. queued # 0
        BY <1>2, <3>1, RecordTypes
      <4>2. gate \in Handlers /\ req[gate].at = "typing" /\ req[gate].op = o
        BY <3>1, <4>1 DEF TInv, DeviceInv
      <4>3. gate # h /\ req[gate].at \in Claimed
        BY <1>1, <4>2 DEF Claimed
      <4>4. QED
        BY <1>2, <4>2, <4>3
    <3>2. QED
      BY <3>1
  <2>2. ASSUME NEW p \in Operations
        PROVE /\ Len(typed'[p]) <= 1
              /\ ops'[p].state = "dispatched" => Len(typed'[p]) = 1 /\ running' # p
              /\ ops'[p].state \in Staged \cup {"absent", "cancelled", "rejected"} =>
                   typed'[p] = <<>> /\ queued' # p
    <3>1. CASE p # o
      BY <1>7, <1>11, <3>1, ReceiptOf
    <3>2. CASE p = o
      <4>1. Len(typed[o]) <= 1
        BY <1>2, ReceiptOf
      <4>2. /\ receipt.state = "dispatched" => Len(typed[o]) = 1 /\ running # o
            /\ receipt.state = "rejected" => typed[o] = <<>>
        BY <1>1, <1>2, <1>5 DEF Untold
      <4>3. receipt.state \in Staged \cup {"absent", "cancelled", "rejected"} =>
              receipt.state = "rejected"
        BY <1>6 DEF Results, Staged
      <4>4. QED
        BY <1>7, <1>11, <2>1, <3>2, <4>1, <4>2, <4>3
    <3>3. QED
      BY <3>1, <3>2
  <2>3. QED
    BY <2>2 DEF ReceiptsTruthful
<1>18. QED
  BY <1>10, <1>14, <1>15, <1>16, <1>17, FrameKeeps

LEMMA HandlerKeeps ==
  ASSUME TInv, NEW h \in Handlers, HandlerStep(h)
  PROVE  TInv'
<1>1. CASE \/ Arrive(h) \/ CancelOperation(h) \/ Register(h) \/ Probe(h) \/ Drop(h) \/ Reply(h)
           \/ (\E t \in Targets \cup {NoTarget} : Focus(h, t))
           \/ AppendChunk(h) \/ Seal(h)
  <2>1. PlainStep(h)
    BY <1>1, ArrivePlain, CancelPlain, RegisterPlain, ProbePlain, DropPlain, ReplyPlain,
       FocusPlain, AppendPlain, SealPlain
  <2>2. QED
    BY <2>1, PlainKeeps
<1>2. CASE Claim(h) \/ Dispatch(h) \/ Typed(h) \/ Interrupt(h) \/ Finish(h)
  BY <1>2, ClaimStep, DispatchStep, TypedStep, InterruptStep, FinishStep
<1>3. QED
  BY <1>1, <1>2 DEF HandlerStep

-----------------------------------------------------------------------------
(* The injector.                                                           *)

\* What the injector does is its own affair, and that of who waits for it.
LEMMA UndisturbedKeeps ==
  ASSUME TInv, Undisturbed, DeviceTypes', \A h \in Handlers : req[h].at \in Claimed => Untold(h)',
         DeviceInv', ReceiptsTruthful', QuietInv'
  PROVE  TInv'
<1>1. UNCHANGED <<control, server, ops, target, req, mine, phone>>
  BY DEF Undisturbed
<1>2. TypeOK'
  <2>1. /\ GateTypes /\ LeaseTypes /\ OpTypes /\ TargetTypes /\ RequestTypes
        /\ ClientTypes /\ HeardTypes
    BY TypeParts DEF TInv
  <2>2. GateTypes' /\ LeaseTypes' /\ HeardTypes' /\ ClientTypes'
    BY <1>1, <2>1 DEF GateTypes, GateTypeOK, LeaseTypes, HeardTypes, ClientTypes,
                      control, session, server, phone
  <2>3. OpTypes' /\ TargetTypes' /\ RequestTypes'
    BY <1>1, <2>1 DEF OpTypes, TargetTypes, RequestTypes
  <2>4. QED
    BY <2>2, <2>3, TypePartsNext
<1>3. GateInv' /\ RequestInv'
  BY <1>1 DEF TInv, GateInv, RequestInv, RequestOK, control
<1>4. PermitInv'
  BY <1>1 DEF TInv, PermitInv, PermitOK, Honoured, Allowed, control, session
<1>5. ClaimInv'
  BY <1>1 DEF TInv, ClaimInv, Sole
<1>6. ClientInv'
  BY <1>1 DEF TInv, ClientInv, Waiting, phone
<1>7. QED
  BY <1>2, <1>3, <1>4, <1>5, <1>6 DEF TInv

\* Whoever waits for the operation that the injector has been given.
LEMMA Waits ==
  ASSUME TInv, queued # 0
  PROVE  /\ gate \in Handlers /\ req[gate].at = "typing" /\ req[gate].op = queued
         /\ queued \in Operations /\ typed[queued] = <<>> /\ answer = "none"
         /\ ops[queued].state \in {"dispatching", "uncertain"}
         /\ \A g \in Handlers : g # gate /\ req[g].at \in Claimed =>
              req[g].op # queued /\ req[g].at # "typing"
<1>1. gate \in Handlers /\ req[gate].at = "typing" /\ req[gate].op = queued
  BY DEF TInv, DeviceInv
<1>2. PICK h \in Handlers : h = gate
  BY <1>1
<1>3. req[h].at \in Claimed
  BY <1>1, <1>2 DEF Claimed
<1>4. Untold(h) /\ req[h].op \in Operations
      /\ \A g \in Handlers : g # h /\ req[g].at \in Claimed => req[g].op # req[h].op
  BY <1>3, Claiming
<1>5. \A g \in Handlers : g # h => req[g].at # "typing"
  BY <1>1, <1>2, Watching
<1>6. answer = "none"
  BY <1>1, <1>2, Watching
<1>7. QED
  BY <1>1, <1>2, <1>4, <1>5, <1>6 DEF Untold

LEMMA RefuseStep ==
  ASSUME TInv, InjectorRefuses
  PROVE  TInv'
<1>1. /\ queued # 0 /\ queued' = 0 /\ answer' = "rejected"
      /\ UNCHANGED <<running, typed>> /\ Undisturbed
  BY DEF InjectorRefuses
<1>2. /\ gate \in Handlers /\ req[gate].at = "typing" /\ req[gate].op = queued
      /\ typed[queued] = <<>>
      /\ \A g \in Handlers : g # gate /\ req[g].at \in Claimed =>
           req[g].op # queued /\ req[g].at # "typing"
  BY <1>1, Waits
<1>3. UNCHANGED <<gate, req, ops>>
  BY <1>1 DEF Undisturbed, control
<1>4. DeviceTypes'
  <2>1. DeviceTypes /\ 0 \in 0..Texts
    BY TypeParts, TextAssumption DEF TInv, TextAssumption
  <2>2. QED
    BY <1>1, <2>1 DEF DeviceTypes, Results
<1>5. \A h \in Handlers : req[h].at \in Claimed => Untold(h)'
  BY <1>1, <1>2, <1>3, Claiming DEF Untold
<1>6. DeviceInv'
  BY <1>1, <1>2, <1>3 DEF TInv, DeviceInv
<1>7. ReceiptsTruthful'
  BY <1>1, <1>3, RecordTypes DEF TInv, ReceiptsTruthful
<1>8. QuietInv'
  BY <1>1 DEF TInv, QuietInv, Undisturbed, control, session
<1>9. QED
  BY <1>1, <1>4, <1>5, <1>6, <1>7, <1>8, UndisturbedKeeps

\* Where a text begins, the permit of its commit still holds.
LEMMA Permitted ==
  ASSUME TInv, queued # 0
  PROVE  /\ req[gate].permit = Permit("input") /\ Allowed("input")
         /\ req[gate].target = Clipboard => Allowed("clipboard")
<1>1. gate \in Handlers /\ req[gate].at = "typing"
  BY Waits
<1>2. PICK h \in Handlers : h = gate
  BY <1>1
<1>3. req[h] \in Request /\ RequestOK(h) /\ PermitOK(h)
  BY TypeParts DEF TInv, RequestInv, PermitInv, RequestTypes
<1>4. /\ Honoured(req[h].permit) /\ req[h].permit.scope = "input" /\ req[h].permit.epoch # 0
      /\ req[h].target = Clipboard => Allowed("clipboard")
  BY <1>1, <1>2, <1>3 DEF RequestOK, PermitOK, Admitted
<1>5. req[h].permit \in [scope: Scopes, revision: Nat, gen: Nat, epoch: Nat]
  BY <1>3 DEF Request
<1>6. req[h].permit = Permit("input") /\ Allowed("input")
  BY <1>4, <1>5 DEF Honoured, Permit
<1>7. QED
  BY <1>2, <1>4, <1>6

LEMMA BeginStep ==
  ASSUME TInv, InjectorBegins
  PROVE  TInv'
<1>1. /\ queued # 0 /\ running = 0 /\ queued' = 0 /\ running' = queued
      /\ typed' = [typed EXCEPT ![queued] = Append(@, gen)]
      /\ UNCHANGED answer /\ Undisturbed
  BY DEF InjectorBegins
<1>2. /\ gate \in Handlers /\ req[gate].at = "typing" /\ req[gate].op = queued
      /\ queued \in Operations /\ typed[queued] = <<>> /\ answer = "none"
      /\ ops[queued].state \in {"dispatching", "uncertain"}
      /\ \A g \in Handlers : g # gate /\ req[g].at \in Claimed =>
           req[g].op # queued /\ req[g].at # "typing"
  BY <1>1, Waits
<1>3. UNCHANGED <<gate, req, ops, gen, granted, incomplete, closing, todo>>
  BY <1>1 DEF Undisturbed, control, session
<1>4. gen \in Nat /\ DeviceTypes
  BY TypeParts DEF TInv, GateTypes, GateTypeOK
<1>5. /\ Append(<<>>, gen) \in Seq(Nat) /\ Len(Append(<<>>, gen)) = 1
      /\ Append(<<>>, gen)[1] = gen
  <2>1. <<>> \in Seq(Nat) /\ Len(<<>>) = 0
    OBVIOUS
  <2>2. QED
    BY <1>4, <2>1, AppendProperties
<1>6. PICK s : s = Append(<<>>, gen)
  OBVIOUS
<1>7. /\ typed'[queued] = s /\ \A o \in Operations : o # queued => typed'[o] = typed[o]
      /\ typed' \in [Operations -> Seq(Nat)] /\ Len(s) = 1 /\ s[1] = gen
  <2>1. typed \in [Operations -> Seq(Nat)] /\ s \in Seq(Nat)
    BY <1>4, <1>5, <1>6 DEF DeviceTypes
  <2>2. typed' = [typed EXCEPT ![queued] = s]
    BY <1>1, <1>2, <1>6
  <2>3. QED
    BY <1>2, <1>5, <1>6, <2>1, <2>2
<1>8. DeviceTypes'
  <2>1. 0 \in 0..Texts /\ queued \in 0..Texts
    BY <1>4, TextAssumption DEF TextAssumption, DeviceTypes
  <2>2. QED
    BY <1>1, <1>4, <1>7, <2>1 DEF DeviceTypes
<1>9. \A h \in Handlers : req[h].at \in Claimed => Untold(h)'
  <2>1. SUFFICES ASSUME NEW h \in Handlers, req[h].at \in Claimed PROVE Untold(h)'
    OBVIOUS
  <2>2. Untold(h) /\ req[h].op \in Operations
    BY <2>1, Claiming
  <2>3. CASE h = gate
    BY <1>1, <1>2, <1>3, <2>2, <2>3 DEF Untold
  <2>4. CASE h # gate
    <3>1. req[h].op # queued /\ req[h].at # "typing" /\ typed'[req[h].op] = typed[req[h].op]
      BY <1>2, <1>7, <2>1, <2>2, <2>4
    <3>2. QED
      BY <1>1, <1>3, <2>2, <3>1 DEF Untold
  <2>5. QED
    BY <2>3, <2>4
<1>10. DeviceInv'
  BY <1>1, <1>2, <1>3, <1>7 DEF DeviceInv
<1>11. ReceiptsTruthful'
  <2>1. ASSUME NEW o \in Operations
        PROVE /\ Len(typed'[o]) <= 1
              /\ ops'[o].state = "dispatched" => Len(typed'[o]) = 1 /\ running' # o
              /\ ops'[o].state \in Staged \cup {"absent", "cancelled", "rejected"} =>
                   typed'[o] = <<>> /\ queued' # o
    <3>1. CASE o = queued
      <4>1. Len(typed'[o]) = 1 /\ ops'[o].state \in {"dispatching", "uncertain"}
        BY <1>2, <1>3, <1>7, <3>1
      <4>2. QED
        BY <4>1 DEF Staged
    <3>2. CASE o # queued
      BY <1>1, <1>3, <1>7, <3>2, ReceiptOf, RecordTypes
    <3>3. QED
      BY <3>1, <3>2
  <2>2. QED
    BY <2>1 DEF ReceiptsTruthful
<1>12. QuietInv'
  <2>1. "input" \in granted
    BY <1>1, Permitted DEF Allowed
  <2>2. QED
    BY <1>1, <1>3, <1>7, <2>1 DEF QuietInv
<1>13. QED
  BY <1>1, <1>8, <1>9, <1>10, <1>11, <1>12, UndisturbedKeeps

LEMMA EndStep ==
  ASSUME TInv, InjectorEnds
  PROVE  TInv'
<1>1. /\ running # 0 /\ running' = 0
      /\ answer' \in IF Awaited(running) THEN {"dispatched", "uncertain"} ELSE {answer}
      /\ UNCHANGED <<queued, typed>> /\ Undisturbed
  BY DEF InjectorEnds
<1>2. UNCHANGED <<gate, req, ops>>
  BY <1>1 DEF Undisturbed, control
<1>3. Len(typed[running]) = 1 /\ DeviceTypes /\ DeviceInv
  BY <1>1, TypeParts DEF TInv, DeviceInv
<1>4. 0 \in 0..Texts /\ \A o \in Operations : o # 0
  BY TextAssumption, RecordTypes DEF TextAssumption
<1>5. DeviceTypes'
  BY <1>1, <1>3, <1>4 DEF DeviceTypes, Results
<1>6. ASSUME Awaited(running)
      PROVE  /\ gate \in Handlers /\ req[gate].at = "typing" /\ req[gate].op = running
             /\ queued = 0
  <2>1. PICK h \in Handlers : req[h].at = "typing" /\ req[h].op = running
    BY <1>6 DEF Awaited
  <2>2. gate = h
    BY <2>1, Watching
  <2>3. Untold(h)
    BY <2>1, Claiming DEF Claimed
  <2>4. queued = 0
    <3>1. Len(<<>>) = 0
      OBVIOUS
    <3>2. queued # 0 => typed[running] = <<>>
      BY <2>1, <2>3 DEF Untold
    <3>3. typed[running] # <<>>
      BY <1>3, <3>1
    <3>4. QED
      BY <3>2, <3>3
  <2>5. QED
    BY <2>1, <2>2, <2>4
<1>7. \A h \in Handlers : req[h].at \in Claimed => Untold(h)'
  <2>1. SUFFICES ASSUME NEW h \in Handlers, req[h].at \in Claimed PROVE Untold(h)'
    OBVIOUS
  <2>2. Untold(h) /\ req[h].op \in Operations
    BY <2>1, Claiming
  <2>3. req[h].at = "typing" => gate = h
    BY Watching
  <2>4. CASE ~Awaited(running)
    BY <1>1, <1>2, <1>4, <2>2, <2>4 DEF Untold
  <2>5. CASE Awaited(running)
    <3>1. answer' \in {"dispatched", "uncertain"}
      BY <1>1, <2>5
    <3>2. req[h].at = "typing" => req[h].op = running
      BY <1>6, <2>3, <2>5
    <3>3. queued = 0
      BY <1>6, <2>5
    <3>4. QED
      BY <1>1, <1>2, <1>3, <1>4, <2>2, <3>1, <3>2, <3>3 DEF Untold
  <2>6. QED
    BY <2>4, <2>5
<1>8. DeviceInv'
  BY <1>1, <1>2, <1>3, <1>6 DEF DeviceInv
<1>9. ReceiptsTruthful'
  BY <1>1, <1>2, <1>4 DEF TInv, ReceiptsTruthful
<1>10. QuietInv'
  BY <1>1 DEF QuietInv
<1>11. QED
  BY <1>1, <1>5, <1>7, <1>8, <1>9, <1>10, UndisturbedKeeps

-----------------------------------------------------------------------------
(* The client.                                                             *)

\* The client takes answers, and sends requests to handlers that are free.
ClientFrame ==
  /\ Others /\ RequestTypes'
  /\ \A g \in Handlers :
       \/ req'[g] = req[g]
       \/ /\ req[g].at \in {"idle", "answered"} /\ req'[g].at \in {"idle", "body"}
          /\ RequestOK(g)'

LEMMA ClientFrameKeeps ==
  ASSUME TInv, ClientFrame, ClientTypes', HeardTypes', ClientInv'
  PROVE  TInv'
<1>1. UNCHANGED <<control, server, ops, target, device, mine>>
  BY DEF ClientFrame, Others
<1>2. /\ GateTypes /\ LeaseTypes /\ OpTypes /\ TargetTypes /\ DeviceTypes
      /\ GateInv /\ RequestInv /\ PermitInv /\ ClaimInv /\ DeviceInv /\ ReceiptsTruthful
      /\ QuietInv
  BY TypeParts DEF TInv
<1>3. TypeOK'
  <2>1. GateTypes' /\ LeaseTypes'
    BY <1>1, <1>2 DEF GateTypes, GateTypeOK, LeaseTypes, control, session, server
  <2>2. OpTypes' /\ TargetTypes' /\ DeviceTypes'
    BY <1>1, <1>2 DEF OpTypes, TargetTypes, DeviceTypes, device
  <2>3. QED
    BY <2>1, <2>2, TypePartsNext DEF ClientFrame
<1>4. ASSUME NEW g \in Handlers
      PROVE  /\ req'[g].at \in Gated <=> req[g].at \in Gated
             /\ req'[g].at \in Claimed => req'[g] = req[g]
             /\ req[g].at \in Claimed => req'[g] = req[g]
             /\ RequestOK(g)' /\ PermitOK(g)'
  <2>1. RequestOK(g) /\ PermitOK(g)
    BY <1>2 DEF RequestInv, PermitInv
  <2>2. CASE req'[g] = req[g]
    <3>1. RequestOK(g)'
      BY <1>1, <2>1, <2>2 DEF RequestOK
    <3>2. PermitOK(g)'
      BY <1>1, <2>1, <2>2 DEF PermitOK, Honoured, Allowed, control, session
    <3>3. QED
      BY <2>2, <3>1, <3>2
  <2>3. CASE /\ req[g].at \in {"idle", "answered"} /\ req'[g].at \in {"idle", "body"}
             /\ RequestOK(g)'
    BY <2>3 DEF Gated, Claimed, PermitOK
  <2>4. QED
    BY <2>2, <2>3 DEF ClientFrame
<1>5. GateInv'
  BY <1>1, <1>2, <1>4 DEF GateInv, control
<1>6. RequestInv' /\ PermitInv'
  BY <1>4 DEF RequestInv, PermitInv
<1>7. ClaimInv'
  <2>1. \A g \in Handlers : req'[g].at \in Claimed => Untold(g)'
    BY <1>1, <1>2, <1>4 DEF ClaimInv, Untold, device
  <2>2. Sole'
    BY <1>2, <1>4 DEF ClaimInv, Sole
  <2>3. QED
    BY <2>1, <2>2 DEF ClaimInv
<1>8. DeviceInv'
  <2>1. ASSUME gate \in Handlers, req[gate].at = "typing" PROVE req'[gate] = req[gate]
    BY <1>4, <2>1 DEF Claimed
  <2>2. QED
    BY <1>1, <1>2, <2>1 DEF DeviceInv, control, device
<1>9. ReceiptsTruthful' /\ QuietInv'
  BY <1>1, <1>2 DEF ReceiptsTruthful, QuietInv, control, session, device
<1>10. QED
  BY <1>3, <1>5, <1>6, <1>7, <1>8, <1>9 DEF TInv

LEMMA IdleOK ==
  ASSUME NEW h \in Handlers, req'[h] = Idle
  PROVE  RequestOK(h)'
BY DEF RequestOK, Idle, Admitted, Begun

\* The client waits for nobody, and what it was told of is true.
LEMMA KeepClient ==
  ASSUME TInv, NEW step \in ClientSteps, NEW receipt \in States \cup {"none"},
         NEW index \in Nat, UNCHANGED <<ops, discarded>>,
         client' = [client EXCEPT !.step = step, !.receipt = receipt, !.waits = "nobody",
                                  !.index = index],
         client.op # 0, receipt \in Ends => ops[client.op].state = receipt
  PROVE  ClientTypes' /\ ClientInv'
<1>1. ClientTypes /\ ClientInv
  BY TypeParts DEF TInv
<1>2. /\ client' \in Client /\ client'.op = client.op /\ client'.receipt = receipt
      /\ client'.waits = "nobody"
  BY <1>1 DEF ClientTypes, Client
<1>3. ClientTypes'
  BY <1>1, <1>2 DEF ClientTypes
<1>4. ClientInv'
  BY <1>1, <1>2, HandlerNames DEF ClientInv
<1>5. QED
  BY <1>3, <1>4

LEMMA KeepKeeps ==
  ASSUME TInv, NEW step \in ClientSteps, NEW receipt \in States \cup {"none"}, UNCHANGED ops,
         Keep(step, receipt), client.op # 0, receipt \in Ends => ops[client.op].state = receipt
  PROVE  ClientTypes' /\ ClientInv'
<1>1. client \in Client
  BY TypeParts DEF TInv, ClientTypes
<1>2. PICK index \in Nat : index = client.index
  BY <1>1 DEF Client
<1>3. client' = [client EXCEPT !.step = step, !.receipt = receipt, !.waits = "nobody",
                               !.index = index]
  BY <1>1, <1>2 DEF Keep, Client
<1>4. QED
  BY <1>2, <1>3, KeepClient DEF Keep

LEMMA ForgetKeeps ==
  ASSUME TInv, NEW receipt, UNCHANGED ops, Forget(receipt), client.op # 0,
         receipt \in Ends => ops[client.op].state = receipt
  PROVE  ClientTypes' /\ ClientInv'
<1>1. ClientTypes /\ ClientInv
  BY TypeParts DEF TInv
<1>2. client.op \in Operations
  BY <1>1, RecordTypes DEF ClientTypes, Client
<1>3. /\ discarded' \subseteq Operations
      /\ \A o \in discarded' : ops[o].state \in Ends
  BY <1>1, <1>2 DEF Forget, ClientTypes, ClientInv, Ends
<1>4. NoText \in Client /\ NoText.step = "rest" /\ NoText.receipt = "none" /\ NoText.waits = "nobody"
  <2>1. 0 \in 0..Texts
    BY TextAssumption DEF TextAssumption
  <2>2. QED
    BY <2>1 DEF NoText, Client, ClientSteps
<1>5. client' = NoText
  BY DEF Forget
<1>6. ClientTypes'
  BY <1>3, <1>4, <1>5 DEF ClientTypes
<1>7. ClientInv'
  BY <1>3, <1>4, <1>5, HandlerNames DEF ClientInv, Ends
<1>8. QED
  BY <1>6, <1>7

LEMMA FailedKeeps ==
  ASSUME TInv, UNCHANGED ops, client.step # "rest", Failed
  PROVE  ClientTypes' /\ ClientInv'
<1>1. client \in Client /\ ClientInv
  BY TypeParts DEF TInv, ClientTypes
<1>2. PICK step \in ClientSteps : Keep(step, client.receipt)
  BY DEF Failed, ClientSteps
<1>3. PICK receipt \in States \cup {"none"} : receipt = client.receipt
  BY <1>1 DEF Client
<1>4. QED
  BY <1>1, <1>2, <1>3, KeepKeeps DEF ClientInv

\* Whatever the reply, the client takes it for what it is.
LEMMA ContinueKeeps ==
  ASSUME TInv, NEW reply \in Receipt, UNCHANGED ops, client.step # "rest",
         reply.state # "absent", reply.state \in Ends => ops[client.op].state = reply.state,
         Continue(reply)
  PROVE  ClientTypes' /\ ClientInv'
<1> DEFINE s == reply.state
<1>1. client \in Client /\ client.op # 0
  BY TypeParts DEF TInv, ClientTypes, ClientInv
<1>2. CASE s = "error"
  <2>1. Failed
    BY <1>2 DEF Continue
  <2>2. QED
    BY <2>1, FailedKeeps
<1>3. CASE s # "error"
  <2>1. s \in States
    BY <1>3 DEF Receipt
  <2>2. \A step \in ClientSteps : Keep(step, s) => ClientTypes' /\ ClientInv'
    BY <1>1, <2>1, KeepKeeps
  <2>3. Forget(s) => ClientTypes' /\ ClientInv'
    BY <1>1, ForgetKeeps
  <2>4. "rest" \in ClientSteps /\ "cancel" \in ClientSteps /\ "commit" \in ClientSteps
        /\ "chunk" \in ClientSteps /\ client.step \in ClientSteps
    BY <1>1 DEF ClientSteps, Client
  <2>5. CASE client.step = "begin"
    <3>1. CASE s = "receiving"
      <4>1. client' = [client EXCEPT !.step = "chunk", !.receipt = s, !.waits = "nobody"]
            /\ UNCHANGED discarded
        BY <2>5, <3>1 DEF Continue
      <4>2. Keep("chunk", s)
        BY <4>1 DEF Keep
      <4>3. QED
        BY <2>2, <2>4, <4>2
    <3>2. CASE s # "receiving"
      <4>1. Forget(s) \/ Keep("rest", s)
        BY <1>3, <2>5, <3>2 DEF Continue
      <4>2. QED
        BY <2>2, <2>3, <2>4, <4>1
    <3>3. QED
      BY <3>1, <3>2
  <2>6. CASE client.step = "chunk"
    <3>1. \/ Keep("rest", s)
          \/ /\ client' = [client EXCEPT
                             !.step = IF reply.chunks = Chunks THEN "commit" ELSE "chunk",
                             !.receipt = s, !.waits = "nobody", !.index = @ + 1]
             /\ UNCHANGED discarded
      BY <1>3, <2>6 DEF Continue
    <3>2. CASE /\ client' = [client EXCEPT
                               !.step = IF reply.chunks = Chunks THEN "commit" ELSE "chunk",
                               !.receipt = s, !.waits = "nobody", !.index = @ + 1]
               /\ UNCHANGED discarded
      <4>1. PICK step \in ClientSteps :
              client' = [client EXCEPT !.step = step, !.receipt = s, !.waits = "nobody",
                                       !.index = client.index + 1]
        BY <2>4, <3>2
      <4>2. PICK index \in Nat : index = client.index + 1
        BY <1>1 DEF Client
      <4>3. PICK receipt \in States \cup {"none"} : receipt = s
        BY <2>1
      <4>4. client' = [client EXCEPT !.step = step, !.receipt = receipt, !.waits = "nobody",
                                     !.index = index]
        BY <4>1, <4>2, <4>3
      <4>5. receipt \in Ends => ops[client.op].state = receipt
        BY <4>3
      <4>6. QED
        BY <1>1, <3>2, <4>4, <4>5, KeepClient
    <3>3. QED
      BY <2>2, <2>4, <3>1, <3>2
  <2>7. CASE client.step \in {"commit", "status"}
    <3>1. Forget(s) \/ Keep("rest", s)
      BY <1>3, <2>7 DEF Continue
    <3>2. QED
      BY <2>2, <2>3, <2>4, <3>1
  <2>8. CASE client.step = "review"
    <3>1. Forget(s) \/ Keep("rest", s) \/ Keep("cancel", s)
      BY <1>3, <2>8 DEF Continue
    <3>2. QED
      BY <2>2, <2>3, <2>4, <3>1
  <2>9. CASE client.step \in {"cancel", "check"}
    <3>1. Forget(s) \/ Keep("rest", s)
      BY <1>3, <2>9 DEF Continue
    <3>2. QED
      BY <2>2, <2>3, <2>4, <3>1
  <2>10. QED
    BY <2>4, <2>5, <2>6, <2>7, <2>8, <2>9 DEF ClientSteps
<1>4. QED
  BY <1>2, <1>3

LEMMA SameHeard ==
  ASSUME TInv, Others, UNCHANGED <<heard, manifest>>
  PROVE  HeardTypes' /\ UNCHANGED ops
BY TypeParts DEF TInv, HeardTypes, Others, server

LEMMA SameRequests ==
  ASSUME TInv, Others, UNCHANGED req
  PROVE  ClientFrame
BY TypeParts DEF TInv, ClientFrame, RequestTypes

\* The client's record and what it waits for stay as they are.
LEMMA SameClient ==
  ASSUME TInv, Others, UNCHANGED <<client, discarded, req>>
  PROVE  ClientTypes' /\ ClientInv'
<1>1. ClientTypes /\ ClientInv /\ UNCHANGED ops
  BY TypeParts DEF TInv, Others
<1>2. QED
  BY <1>1 DEF ClientTypes, ClientInv, Waiting

LEMMA HearStep ==
  ASSUME TInv, Hear
  PROVE  TInv'
<1>1. Others /\ UNCHANGED <<manifest, client, discarded, req>>
  BY DEF Hear
<1>2. LeaseTypes /\ HeardTypes /\ GateTypes
  BY TypeParts DEF TInv
<1>3. HeardTypes'
  <2>1. epoch \in Nat /\ lease \in 0..leases /\ 0 \in 0..leases
    BY <1>2 DEF GateTypes, GateTypeOK, LeaseTypes
  <2>2. heard' \in [epoch: Nat, lease: 0..leases]
    BY <2>1 DEF Hear
  <2>3. QED
    BY <1>1, <1>2, <2>2 DEF HeardTypes, Others, server
<1>4. QED
  BY <1>1, <1>3, SameRequests, SameClient, ClientFrameKeeps

LEMMA SendStep ==
  ASSUME TInv, Send
  PROVE  TInv'
<1> DEFINE o == Cardinality(Sent) + 1
<1>1. /\ o <= Texts /\ manifest' = [manifest EXCEPT ![o] = heard.lease]
      /\ client' = [NoText EXCEPT !.op = o, !.step = "begin"]
      /\ Others /\ UNCHANGED <<heard, discarded, req>>
  BY DEF Send
<1>2. ClientTypes /\ ClientInv /\ HeardTypes
  BY TypeParts DEF TInv
<1>3. o \in Operations
  <2>1. IsFiniteSet(Operations)
    BY FS_Interval, TextAssumption DEF Operations, TextAssumption
  <2>2. IsFiniteSet(Sent)
    BY <2>1, FS_Subset DEF Sent
  <2>3. Cardinality(Sent) \in Nat
    BY <2>2, FS_CardinalityType
  <2>4. QED
    BY <1>1, <2>3, TextAssumption DEF Operations, TextAssumption
<1> HIDE DEF o
<1>4. HeardTypes'
  BY <1>1, <1>2, <1>3 DEF HeardTypes, Others, server
<1>5. /\ client' \in Client /\ client'.op = o /\ client'.receipt = "none"
      /\ client'.waits = "nobody"
  <2>1. o \in 0..Texts
    BY <1>3, RecordTypes
  <2>2. QED
    BY <1>1, <2>1 DEF NoText, Client, ClientSteps
<1>6. ClientTypes'
  BY <1>1, <1>2, <1>5 DEF ClientTypes
<1>7. ClientInv'
  <2>1. o # 0 /\ "nobody" \notin Handlers
    BY <1>3, RecordTypes, TextAssumption DEF TextAssumption
  <2>2. UNCHANGED ops
    BY <1>1 DEF Others
  <2>3. QED
    BY <1>1, <1>2, <1>5, <2>1, <2>2 DEF ClientInv, Ends
<1>8. QED
  BY <1>1, <1>4, <1>6, <1>7, SameRequests, ClientFrameKeeps

LEMMA AskStep ==
  ASSUME TInv, NEW h \in Handlers, Ask(h)
  PROVE  TInv'
<1> DEFINE kind == KindOf[client.step]
           r == [Idle EXCEPT !.at = "body", !.kind = kind, !.op = client.op,
                             !.epoch = heard.epoch, !.index = client.index]
           next == [client EXCEPT !.waits = h]
<1>1. /\ client.step # "rest" /\ client.waits = "nobody" /\ req[h].at = "idle"
      /\ req' = [req EXCEPT ![h] = r] /\ client' = next
      /\ UNCHANGED <<heard, manifest, discarded>> /\ Others
  BY DEF Ask
<1>2. ClientTypes /\ ClientInv /\ HeardTypes /\ RequestTypes
  BY TypeParts DEF TInv
<1>3. client \in Client /\ client.op \in Operations
  BY <1>1, <1>2, RecordTypes DEF ClientTypes, ClientInv, Client
<1>4. kind \in Kinds
  BY <1>1, <1>3 DEF KindOf, Kinds, Client, ClientSteps
<1> HIDE DEF kind
<1>5. r \in Request /\ r.at = "body" /\ r.op = client.op /\ r.permit.scope = "input"
  <2>1. client.op \in 0..Texts /\ client.index \in Nat /\ heard.epoch \in Nat
    BY <1>2, <1>3 DEF Client, HeardTypes
  <2>2. Idle \in Request
    BY RecordTypes
  <2>3. QED
    BY <1>4, <2>1, <2>2 DEF Request, Idle, Places
<1> HIDE DEF r
<1>6. /\ RequestTypes' /\ req'[h] = r
      /\ \A g \in Handlers : g # h => req'[g] = req[g]
  BY <1>1, <1>2, <1>5 DEF RequestTypes
<1>7. RequestOK(h)'
  BY <1>3, <1>5, <1>6 DEF RequestOK, Admitted, Begun
<1>8. ClientFrame
  BY <1>1, <1>5, <1>6, <1>7 DEF ClientFrame
<1>9. /\ next \in Client /\ next.op = client.op /\ next.step = client.step
      /\ next.receipt = client.receipt /\ next.waits = h
  BY <1>3 DEF Client
<1> HIDE DEF next
<1>10. ClientTypes'
  BY <1>1, <1>2, <1>9 DEF ClientTypes
<1>11. ClientInv'
  <2>1. UNCHANGED ops
    BY <1>1 DEF Others
  <2>2. Waiting(h)'
    BY <1>1, <1>5, <1>6, <1>9 DEF Waiting
  <2>3. QED
    BY <1>1, <1>2, <1>9, <2>1, <2>2 DEF ClientInv
<1>12. QED
  BY <1>1, <1>8, <1>10, <1>11, SameHeard, ClientFrameKeeps

LEMMA RepeatStep ==
  ASSUME TInv, NEW h \in Handlers, NEW again \in Handlers, Repeat(h, again)
  PROVE  TInv'
<1>1. /\ req[h].at = "body" /\ req[again].at = "idle"
      /\ req' = [req EXCEPT ![again] = req[h]]
      /\ UNCHANGED <<heard, manifest, client, discarded>> /\ Others
  BY DEF Repeat, phone
<1>2. ClientTypes /\ ClientInv /\ RequestTypes /\ RequestInv
  BY TypeParts DEF TInv
<1>3. /\ RequestTypes' /\ req'[again] = req[h]
      /\ \A g \in Handlers : g # again => req'[g] = req[g]
  BY <1>1, <1>2 DEF RequestTypes
<1>4. RequestOK(again)'
  BY <1>1, <1>2, <1>3 DEF RequestInv, RequestOK, Admitted, Begun
<1>5. ClientFrame
  BY <1>1, <1>3, <1>4 DEF ClientFrame
<1>6. ClientTypes' /\ ClientInv'
  <2>1. UNCHANGED ops
    BY <1>1 DEF Others
  <2>2. client.waits # again
    BY <1>1, <1>2 DEF ClientInv, Waiting
  <2>3. ASSUME NEW g \in Handlers, client.waits = g PROVE Waiting(g)'
    BY <1>1, <1>2, <1>3, <2>1, <2>2, <2>3 DEF ClientInv, Waiting
  <2>4. QED
    BY <1>1, <1>2, <2>1, <2>3 DEF ClientTypes, ClientInv
<1>7. QED
  BY <1>1, <1>5, <1>6, SameHeard, ClientFrameKeeps

LEMMA GiveUpStep ==
  ASSUME TInv, GiveUp
  PROVE  TInv'
<1>1. /\ client.step # "rest" /\ Failed
      /\ req' = [h \in Handlers |-> IF client.waits = h /\ req[h].at = "answered"
                                    THEN Idle ELSE req[h]]
      /\ UNCHANGED <<heard, manifest>> /\ Others
  BY DEF GiveUp
<1>2. RequestTypes /\ Idle \in Request
  BY TypeParts, RecordTypes DEF TInv
<1>3. RequestTypes'
  BY <1>1, <1>2 DEF RequestTypes
<1>4. ASSUME NEW g \in Handlers
      PROVE  \/ req'[g] = req[g]
             \/ /\ req[g].at \in {"idle", "answered"} /\ req'[g].at \in {"idle", "body"}
                /\ RequestOK(g)'
  BY <1>1, IdleOK DEF Idle
<1>5. ClientFrame
  BY <1>1, <1>3, <1>4 DEF ClientFrame
<1>6. QED
  BY <1>1, <1>5, FailedKeeps, SameHeard, ClientFrameKeeps

LEMMA HearkenStep ==
  ASSUME TInv, NEW h \in Handlers, Hearken(h)
  PROVE  TInv'
<1>1. /\ client.waits = h /\ req[h].at = "answered" /\ Continue(req[h].reply)
      /\ req' = [req EXCEPT ![h] = Idle]
      /\ UNCHANGED <<heard, manifest>> /\ Others
  BY DEF Hearken
<1>2. RequestTypes /\ RequestInv /\ ClientInv /\ Idle \in Request /\ Idle.at = "idle"
  BY TypeParts, RecordTypes DEF TInv, Idle
<1>3. /\ RequestTypes' /\ req'[h] = Idle
      /\ \A g \in Handlers : g # h => req'[g] = req[g]
  BY <1>1, <1>2 DEF RequestTypes
<1>4. ClientFrame
  BY <1>1, <1>2, <1>3, IdleOK DEF ClientFrame
<1>5. PICK reply \in Receipt : reply = req[h].reply
  BY <1>2 DEF RequestTypes, Request
<1>6. /\ client.step # "rest" /\ reply.state # "absent" /\ Continue(reply)
      /\ reply.state \in Ends => ops[client.op].state = reply.state
  BY <1>1, <1>2, <1>5 DEF ClientInv, Waiting, RequestInv, RequestOK
<1>7. HeardTypes' /\ UNCHANGED ops
  BY <1>1, SameHeard
<1>8. QED
  BY <1>4, <1>6, <1>7, ContinueKeeps, ClientFrameKeeps

LEMMA UserStep ==
  ASSUME TInv, AskStatus \/ Review
  PROVE  TInv'
<1>1. client.op # 0 /\ UNCHANGED <<heard, manifest, req>> /\ Others
  BY DEF AskStatus, Review
<1>2. client \in Client /\ ClientInv
  BY TypeParts DEF TInv, ClientTypes
<1>3. PICK receipt \in States \cup {"none"} : receipt = client.receipt
  BY <1>2 DEF Client
<1>4. receipt \in Ends => ops[client.op].state = receipt
  BY <1>2, <1>3 DEF ClientInv
<1>5. \/ Forget(receipt)
      \/ \E step \in ClientSteps : Keep(step, receipt)
  BY <1>3 DEF AskStatus, Review, ClientSteps
<1>6. HeardTypes' /\ UNCHANGED ops
  BY <1>1, SameHeard
<1>7. ClientTypes' /\ ClientInv'
  BY <1>1, <1>4, <1>5, <1>6, KeepKeeps, ForgetKeeps
<1>8. QED
  BY <1>1, <1>6, <1>7, SameRequests, ClientFrameKeeps

LEMMA ClientKeeps ==
  ASSUME TInv, ClientStep
  PROVE  TInv'
BY HearStep, SendStep, GiveUpStep, UserStep, AskStep, HearkenStep, RepeatStep DEF ClientStep

-----------------------------------------------------------------------------
(* Leases.                                                                 *)

\* Retiring leases cancels what is staged, and leaves what is claimed uncertain.
Lapses == /\ OpTypes'
          /\ \A o \in Operations :
               \/ ops'[o] = ops[o]
               \/ ops[o].state \in Staged /\ ops'[o].state = "cancelled"
               \/ ops[o].state = "dispatching" /\ ops'[o].state = "uncertain"

LEMMA RetiredLapses ==
  ASSUME OpTypes, NEW ls, ops' = Retired(ls)
  PROVE  Lapses
<1>1. ASSUME NEW o \in Operations
      PROVE  /\ [ops[o] EXCEPT !.state = "cancelled"] \in Receipt
             /\ [ops[o] EXCEPT !.state = "cancelled"].state = "cancelled"
             /\ [ops[o] EXCEPT !.state = "uncertain"] \in Receipt
             /\ [ops[o] EXCEPT !.state = "uncertain"].state = "uncertain"
  <2>1. ops[o] \in Receipt
    BY DEF OpTypes
  <2>2. QED
    BY <2>1 DEF Receipt, States, Results
<1>2. ASSUME NEW o \in Operations
      PROVE  /\ ops'[o] \in Receipt
             /\ \/ ops'[o] = ops[o]
                \/ ops[o].state \in Staged /\ ops'[o].state = "cancelled"
                \/ ops[o].state = "dispatching" /\ ops'[o].state = "uncertain"
  <2>1. ops'[o] = IF manifest[o] \notin ls THEN ops[o]
                  ELSE IF ops[o].state \in Staged THEN [ops[o] EXCEPT !.state = "cancelled"]
                  ELSE IF ops[o].state = "dispatching"
                       THEN [ops[o] EXCEPT !.state = "uncertain"]
                  ELSE ops[o]
    BY DEF Retired
  <2>2. ops[o] \in Receipt
    BY DEF OpTypes
  <2>3. QED
    BY <1>1, <2>1, <2>2
<1>3. ops' = [o \in Operations |-> ops'[o]]
  BY DEF Retired
<1>4. OpTypes'
  BY <1>2, <1>3 DEF OpTypes
<1>5. QED
  BY <1>2, <1>4 DEF Lapses

LEMMA SameLapses ==
  ASSUME TInv, UNCHANGED ops
  PROVE  Lapses
BY TypeParts DEF TInv, Lapses, OpTypes

LEMMA KnownFinite ==
  ASSUME LeaseTypes
  PROVE  IsFiniteSet(known) /\ known \subseteq Nat /\ leases + 1 \in Nat /\ leases + 1 # 0
<1>1. leases \in Nat /\ known \subseteq 1..leases
  BY DEF LeaseTypes
<1>2. IsFiniteSet(1..leases)
  BY <1>1, FS_Interval
<1>3. IsFiniteSet(known)
  BY <1>1, <1>2, FS_Subset
<1>4. QED
  BY <1>1, <1>3

\* Where as many leases are kept as may be, the oldest one makes room.
LEMMA RoomLeft ==
  ASSUME NEW kept, NEW rest, IsFiniteSet(kept), kept \subseteq Nat, Cardinality(kept) <= Kept,
         rest = IF Cardinality(kept) >= Kept THEN kept \ Oldest(kept) ELSE kept
  PROVE  /\ IsFiniteSet(rest) /\ rest \subseteq kept
         /\ Cardinality(rest) \in Nat /\ Cardinality(rest) < Kept
<1>1. Cardinality(kept) \in Nat /\ Kept \in Nat /\ Kept # 0
  BY FS_CardinalityType, TextAssumption DEF TextAssumption
<1>2. CASE Cardinality(kept) >= Kept
  <2>1. kept # {}
    BY <1>1, <1>2, FS_EmptySet
  <2>2. PICK m \in kept : m \in Oldest(kept)
    BY <2>1, LeastExists DEF Oldest
  <2>3. IsFiniteSet(kept \ {m}) /\ Cardinality(kept \ {m}) = Cardinality(kept) - 1
    BY FS_RemoveElement
  <2>4. rest \in SUBSET (kept \ {m})
    BY <1>2, <2>2
  <2>5. IsFiniteSet(rest) /\ Cardinality(rest) <= Cardinality(kept \ {m})
        /\ Cardinality(rest) \in Nat
    BY <2>3, <2>4, FS_Subset, FS_CardinalityType
  <2>6. rest \subseteq kept
    BY <2>4
  <2>7. QED
    BY <1>1, <2>3, <2>5, <2>6
<1>3. CASE ~(Cardinality(kept) >= Kept)
  BY <1>1, <1>3
<1>4. QED
  BY <1>2, <1>3

\* A server never keeps more leases than it may.
LEMMA NewLeaseTypes ==
  ASSUME LeaseTypes, NEW gone \in SUBSET known, NewLease(gone)
  PROVE  LeaseTypes' /\ leases' = leases + 1
<1> DEFINE kept == known \ (expired \ {lease})
           rest == IF Cardinality(kept) >= Kept THEN kept \ Oldest(kept) ELSE kept
<1>1. /\ lease \in 0..leases /\ leases \in Nat
      /\ known \subseteq 1..leases /\ retired \subseteq 1..leases /\ expired \subseteq retired
      /\ Kept \in Nat /\ Kept # 0
  BY TextAssumption DEF LeaseTypes, TextAssumption
<1>2. /\ retired' = retired \cup (gone \cup ({lease} \cap known))
      /\ leases' = leases + 1 /\ lease' = leases + 1
      /\ known' = rest \cup {leases + 1} /\ expired' = expired \ {lease}
  BY DEF NewLease
<1>3. IsFiniteSet(kept) /\ Cardinality(kept) \in Nat /\ kept \subseteq Nat
      /\ kept \subseteq 1..leases
  BY <1>1, KnownFinite, FS_Subset, FS_CardinalityType
<1>4. IsFiniteSet(rest) /\ Cardinality(rest) \in Nat /\ Cardinality(rest) < Kept
      /\ rest \subseteq 1..leases
  <2>1. Cardinality(kept) <= Kept
    <3>1. Cardinality(kept) <= Cardinality(known) /\ Cardinality(known) \in Nat
      BY KnownFinite, FS_Subset, FS_CardinalityType
    <3>2. QED
      BY <1>1, <1>3, <3>1 DEF LeaseTypes
  <2>2. PICK k : k = kept
    OBVIOUS
  <2>3. PICK r : r = rest
    OBVIOUS
  <2>4. r = IF Cardinality(k) >= Kept THEN k \ Oldest(k) ELSE k
    BY <2>2, <2>3
  <2>5. IsFiniteSet(k) /\ k \subseteq Nat /\ Cardinality(k) <= Kept /\ k \subseteq 1..leases
    BY <1>3, <2>1, <2>2
  <2>6. /\ IsFiniteSet(r) /\ r \subseteq k
        /\ Cardinality(r) \in Nat /\ Cardinality(r) < Kept
    BY <2>4, <2>5, RoomLeft
  <2>7. QED
    BY <2>3, <2>5, <2>6, Zenon
<1> HIDE DEF kept, rest
<1>5. Cardinality(known') <= Kept
  <2>1. Cardinality(rest \cup {leases + 1}) <= Cardinality(rest) + 1
    BY <1>4, FS_AddElement
  <2>2. IsFiniteSet(rest \cup {leases + 1})
    BY <1>4, FS_AddElement
  <2>3. Cardinality(rest \cup {leases + 1}) \in Nat
    BY <2>2, FS_CardinalityType
  <2>4. QED
    BY <1>1, <1>2, <1>4, <2>1, <2>3
<1>6. 1..leases \subseteq 1..(leases + 1) /\ leases + 1 \in 1..(leases + 1)
      /\ leases + 1 \in 0..(leases + 1)
  BY <1>1
<1>7. known' \subseteq 1..leases' /\ retired' \subseteq 1..leases' /\ lease' \in 0..leases'
      /\ leases' \in Nat
  BY <1>1, <1>2, <1>4, <1>6
<1>8. expired' \subseteq retired'
  BY <1>1, <1>2
<1>9. QED
  BY <1>2, <1>5, <1>7, <1>8 DEF LeaseTypes

LEMMA NewLeaseEffect ==
  ASSUME TInv, NEW gone \in SUBSET known, NewLease(gone)
  PROVE  LeaseTypes' /\ leases' = leases + 1 /\ Lapses
<1>1. LeaseTypes /\ OpTypes
  BY TypeParts DEF TInv
<1>2. ops' = Retired(gone \cup ({lease} \cap known))
  BY DEF NewLease
<1>3. QED
  BY <1>1, <1>2, NewLeaseTypes, RetiredLapses

LEMMA RetireEffect ==
  ASSUME TInv, NEW gone \in SUBSET known, ops' = Retired(gone), retired' = retired \cup gone,
         lease' \in {0, lease}, UNCHANGED <<leases, known, expired>>
  PROVE  LeaseTypes' /\ leases' = leases /\ Lapses
<1>1. LeaseTypes /\ OpTypes
  BY TypeParts DEF TInv
<1>2. LeaseTypes'
  <2>1. 0 \in 0..leases
    BY <1>1 DEF LeaseTypes
  <2>2. QED
    BY <1>1, <2>1 DEF LeaseTypes
<1>3. QED
  BY <1>1, <1>2, RetiredLapses

-----------------------------------------------------------------------------
(* The transitions of the control session.                                 *)

Beyond == UNCHANGED <<target, req, device, phone>>

LEMMA LapsesKeep ==
  ASSUME TInv, Lapses, Beyond, GateTypes', LeaseTypes', leases' \in {leases, leases + 1},
         mine' \in BOOLEAN, GateInv', PermitInv', QuietInv'
  PROVE  TInv'
<1>1. /\ LeaseTypes /\ OpTypes /\ TargetTypes /\ RequestTypes /\ DeviceTypes /\ ClientTypes
      /\ HeardTypes /\ RequestInv /\ ClaimInv /\ DeviceInv /\ ReceiptsTruthful /\ ClientInv
      /\ GateInv
  BY TypeParts DEF TInv
<1>2. UNCHANGED <<target, req, queued, running, answer, typed, heard, manifest, client, discarded>>
  BY DEF Beyond, device, phone
<1>3. TypeOK'
  <2>1. 0..leases \subseteq 0..leases'
    BY <1>1 DEF LeaseTypes
  <2>2. HeardTypes'
    <3>1. heard \in [epoch: Nat, lease: 0..leases'] /\ manifest \in [Operations -> 0..leases']
      BY <1>1, <2>1 DEF HeardTypes
    <3>2. QED
      BY <1>2, <3>1 DEF HeardTypes
  <2>3. TargetTypes' /\ RequestTypes' /\ DeviceTypes' /\ ClientTypes'
    BY <1>1, <1>2 DEF TargetTypes, RequestTypes, DeviceTypes, ClientTypes
  <2>4. QED
    BY <2>2, <2>3, TypePartsNext DEF Lapses
<1>4. \A o \in Operations : ops[o].state # "absent" => ops'[o].state # "absent"
  BY DEF Lapses
<1>5. \A o \in Operations : ops[o].state \in Ends => ops'[o].state = ops[o].state
  BY DEF Lapses, Ends, Staged
<1>6. RequestInv'
  <2>1. SUFFICES ASSUME NEW h \in Handlers PROVE RequestOK(h)'
    BY DEF RequestInv
  <2>2. RequestOK(h)
    BY <1>1 DEF RequestInv
  <2>3. req[h].at \in Begun => req[h].op \in Operations
    BY <2>2 DEF RequestOK, Begun
  <2>4. QED
    BY <1>2, <1>4, <2>2, <2>3 DEF RequestOK
<1>7. ClaimInv'
  <2>1. ASSUME NEW h \in Handlers, req'[h].at \in Claimed PROVE Untold(h)'
    <3>1. Untold(h) /\ req[h].op \in Operations
      BY <1>2, <2>1, Claiming
    <3>2. ops'[req[h].op].state \in {"dispatching", "uncertain"}
      BY <3>1 DEF Untold, Lapses, Staged
    <3>3. QED
      BY <1>2, <3>1, <3>2 DEF Untold
  <2>2. Sole'
    BY <1>1, <1>2 DEF ClaimInv, Sole
  <2>3. QED
    BY <2>1, <2>2 DEF ClaimInv
<1>8. DeviceInv'
  <2>1. ASSUME gate \in Handlers, req[gate].at = "typing" PROVE gate' = gate
    BY <1>2, <2>1 DEF GateInv, Gated
  <2>2. QED
    BY <1>1, <1>2, <2>1 DEF DeviceInv
<1>9. ReceiptsTruthful'
  <2>1. ASSUME NEW o \in Operations
        PROVE /\ Len(typed'[o]) <= 1
              /\ ops'[o].state = "dispatched" => Len(typed'[o]) = 1 /\ running' # o
              /\ ops'[o].state \in Staged \cup {"absent", "cancelled", "rejected"} =>
                   typed'[o] = <<>> /\ queued' # o
    <3>1. CASE ops'[o] = ops[o]
      BY <1>2, <3>1, ReceiptOf
    <3>2. CASE ops[o].state \in Staged /\ ops'[o].state = "cancelled"
      BY <1>2, <3>2, ReceiptOf
    <3>3. CASE ops'[o].state = "uncertain"
      BY <1>2, <3>3, ReceiptOf DEF Staged
    <3>4. QED
      BY <3>1, <3>2, <3>3 DEF Lapses
  <2>2. QED
    BY <2>1 DEF ReceiptsTruthful
<1>10. ClientInv'
  <2>1. client.op \in 0..Texts /\ discarded \subseteq Operations
    BY <1>1 DEF ClientTypes, Client
  <2>2. client.op # 0 /\ ops[client.op].state \in Ends =>
          ops'[client.op].state = ops[client.op].state
    BY <1>5, <2>1, RecordTypes
  <2>3. ASSUME NEW h \in Handlers, client.waits = h PROVE Waiting(h)'
    BY <1>1, <1>2, <2>2, <2>3 DEF ClientInv, Waiting
  <2>4. \A o \in discarded : ops'[o].state \in Ends
    BY <1>1, <1>5, <2>1 DEF ClientInv
  <2>5. QED
    BY <1>1, <1>2, <2>2, <2>3, <2>4 DEF ClientInv
<1>11. QED
  BY <1>3, <1>6, <1>7, <1>8, <1>9, <1>10 DEF TInv

\* Nobody serves under the gate before a transition, nor after it.
LEMMA HeldByNone ==
  ASSUME TInv, gate \in {"free", "control"}, gate' \in {"free", "control"}, todo' \in Plans,
         todo' # <<>> => gate' = "control", UNCHANGED req
  PROVE  GateInv' /\ PermitInv'
<1>1. \A h \in Handlers : req[h].at \notin Gated
  BY HandlerNames DEF TInv, GateInv
<1>2. PermitInv'
  BY <1>1 DEF PermitInv, PermitOK, Gated
<1>3. GateInv'
  BY <1>1, HandlerNames DEF GateInv
<1>4. QED
  BY <1>2, <1>3

LEMMA SameSession ==
  ASSUME TInv, UNCHANGED <<gate, todo, session, incomplete, req>>
  PROVE  GateInv' /\ PermitInv'
BY DEF TInv, GateInv, PermitInv, PermitOK, Honoured, Allowed, session

\* What the plans of the transitions begin with, and what remains.
LEMMA PlanHeads ==
  ASSUME NEW p \in Plans, p # <<>>
  PROVE  /\ Tail(p) \in Plans
         /\ Head(p) = "geometry" /\ Tail(p) \in Settled => p \in Settled
         /\ Head(p) \in {"mine", "theirs"} => Tail(p) \notin Settled
<1>1. CASE p = <<"geometry">>
  <2>1. Head(p) = "geometry" /\ Tail(p) = <<>>
    BY <1>1
  <2>2. QED
    BY <1>1, <2>1 DEF Plans, Settled
<1>2. CASE p = <<"reset">>
  <2>1. Head(p) = "reset" /\ Tail(p) = <<>>
    BY <1>2
  <2>2. QED
    BY <1>2, <2>1 DEF Plans, Settled
<1>3. CASE p = <<"reset", "geometry">>
  <2>1. Head(p) = "reset" /\ Tail(p) = <<"geometry">>
    BY <1>3
  <2>2. QED
    BY <1>3, <2>1 DEF Plans, Settled
<1>4. CASE \E whose \in {"mine", "theirs"} : p = <<whose, "reset">>
  <2>1. PICK whose \in {"mine", "theirs"} : p = <<whose, "reset">>
    BY <1>4
  <2>2. Head(p) = whose /\ Tail(p) = <<"reset">>
    BY <2>1
  <2>3. <<"reset">> # <<>> /\ <<"reset">> # <<"geometry">>
    <3>1. <<"reset">>[1] = "reset" /\ <<"geometry">>[1] = "geometry" /\ Len(<<"reset">>) = 1
          /\ Len(<<>>) = 0
      OBVIOUS
    <3>2. QED
      BY <3>1
  <2>4. QED
    BY <2>1, <2>2, <2>3 DEF Plans, Settled
<1>5. CASE \E whose \in {"mine", "theirs"} : p = <<"geometry", whose, "reset">>
  <2>1. PICK whose \in {"mine", "theirs"} : p = <<"geometry", whose, "reset">>
    BY <1>5
  <2>2. Head(p) = "geometry" /\ Tail(p) = <<whose, "reset">>
    BY <2>1
  <2>3. <<whose, "reset">> # <<>> /\ <<whose, "reset">> # <<"geometry">>
    <3>1. Len(<<whose, "reset">>) = 2 /\ Len(<<"geometry">>) = 1 /\ Len(<<>>) = 0
      OBVIOUS
    <3>2. QED
      BY <3>1
  <2>4. QED
    BY <2>1, <2>2, <2>3 DEF Plans, Settled
<1>6. QED
  BY <1>1, <1>2, <1>3, <1>4, <1>5 DEF Plans, Settled

\* The plans that begin with a reset, or a session, are not over.
LEMMA Unsettled ==
  ASSUME NEW whose \in {"mine", "theirs"}
  PROVE  /\ <<"geometry", whose, "reset">> \in Plans \ Settled
         /\ <<"reset", "geometry">> \in Plans \ Settled
         /\ <<"geometry", whose, "reset">> # <<>> /\ <<"reset", "geometry">> # <<>>
<1>1. /\ Len(<<"geometry", whose, "reset">>) = 3 /\ Len(<<"reset", "geometry">>) = 2
      /\ Len(<<"geometry">>) = 1 /\ Len(<<>>) = 0
  OBVIOUS
<1>2. QED
  BY <1>1 DEF Plans, Settled

LEMMA PlanJoins ==
  /\ <<>> \o <<>> = <<>> /\ <<"reset">> \o <<>> = <<"reset">>
  /\ <<>> \o <<"geometry">> = <<"geometry">>
  /\ <<"reset">> \o <<"geometry">> = <<"reset", "geometry">>
<1>1. /\ <<>> \in Seq(Step) /\ <<"reset">> \in Seq(Step) /\ <<"geometry">> \in Seq(Step)
      /\ <<"reset", "geometry">> \in Seq(Step)
  BY DEF Step
<1>2. \A s \in Seq(Step) : s \o <<>> = s /\ <<>> \o s = s
  BY ConcatEmptySeq, Zenon
<1>3. PICK s : s = <<"reset">> \o <<"geometry">>
  OBVIOUS
<1>4. /\ s \in Seq(Step) /\ Len(s) = 2
      /\ \A i \in 1..2 : s[i] = IF i <= 1 THEN <<"reset">>[i] ELSE <<"geometry">>[i - 1]
  <2> DEFINE x == <<"reset">>
             y == <<"geometry">>
  <2>1. x \in Seq(Step) /\ y \in Seq(Step) /\ Len(x) = 1 /\ Len(y) = 1
    BY <1>1
  <2> HIDE DEF x, y
  <2>2. s = x \o y
    BY <1>3 DEF x, y
  <2>3. /\ s \in Seq(Step) /\ Len(s) = Len(x) + Len(y)
        /\ \A i \in 1..(Len(x) + Len(y)) : s[i] = IF i <= Len(x) THEN x[i] ELSE y[i - Len(x)]
    BY <2>1, <2>2, ConcatProperties, ZenonT(30)
  <2>4. Len(x) + Len(y) = 2
    BY <2>1
  <2>5. s \in Seq(Step) /\ Len(s) = 2
        /\ \A i \in 1..2 : s[i] = IF i <= 1 THEN x[i] ELSE y[i - 1]
    BY <2>1, <2>3, <2>4, Zenon
  <2>6. QED
    BY <2>5 DEF x, y
<1>5. s[1] = "reset" /\ s[2] = "geometry"
  BY <1>4
<1>6. s = <<"reset", "geometry">>
  BY <1>4, <1>5
<1>7. QED
  BY <1>1, <1>2, <1>3, <1>6

LEMMA PlanTypes == Plans \subseteq Seq(Step)
<1>1. <<>> \in Seq(Step)
  OBVIOUS
<1>2. /\ <<"geometry">> \in Seq(Step) /\ <<"reset">> \in Seq(Step)
      /\ <<"reset", "geometry">> \in Seq(Step)
  BY DEF Step
<1>3. \A whose \in {"mine", "theirs"} : <<whose, "reset">> \in Seq(Step)
  <2>1. /\ <<"mine", "reset">> \in Seq(Step) /\ <<"theirs", "reset">> \in Seq(Step)
    BY DEF Step
  <2>2. QED
    BY <2>1
<1>4. \A whose \in {"mine", "theirs"} : <<"geometry", whose, "reset">> \in Seq(Step)
  <2>1. /\ <<"geometry", "mine", "reset">> \in Seq(Step)
        /\ <<"geometry", "theirs", "reset">> \in Seq(Step)
    BY DEF Step
  <2>2. QED
    BY <2>1
<1>5. QED
  BY <1>1, <1>2, <1>3, <1>4, Zenon DEF Plans, Settled

\* A change of policy plans a reset if it takes input away, or gives it again
\* although the last reset has failed.
LEMMA PolicyPlan ==
  ASSUME NEW policy \in Policies, SetPermissions(policy)
  PROVE  /\ todo' \in Plans
         /\ todo' \in Settled => ~Revokes(policy) /\ ~(incomplete /\ "input" \in policy)
<1> DEFINE resets == Revokes(policy) \/ (incomplete /\ "input" \in policy)
           a == IF resets THEN <<"reset">> ELSE <<>>
           b == IF Revokes(policy) \/ Restores(policy) THEN <<"geometry">> ELSE <<>>
<1>1. todo' = a \o b
  BY DEF SetPermissions
<1>2. CASE resets
  <2>1. todo' \in {<<"reset">>, <<"reset", "geometry">>}
    BY <1>1, <1>2, PlanJoins
  <2>2. <<"reset">> \notin Settled /\ <<"reset", "geometry">> \notin Settled
    BY DEF Settled
  <2>3. QED
    BY <2>1, <2>2 DEF Plans
<1>3. CASE ~resets
  <2>1. todo' \in {<<>>, <<"geometry">>}
    BY <1>1, <1>3, PlanJoins
  <2>2. QED
    BY <1>3, <2>1 DEF Plans, Settled
<1>4. QED
  BY <1>2, <1>3

\* A section of a transition that leaves leases and operations alone.
LEMMA SectionKeeps ==
  ASSUME TInv, Untouched, GateTypes', GateInv', PermitInv', QuietInv'
  PROVE  TInv'
<1>1. LeaseTypes /\ HeardTypes
  BY TypeParts DEF TInv
<1>2. UNCHANGED <<server, ops, target, req, device, mine, phone>>
  BY DEF Untouched
<1>3. LeaseTypes' /\ mine' \in BOOLEAN /\ leases' \in {leases, leases + 1}
  BY <1>1, <1>2 DEF LeaseTypes, HeardTypes, server
<1>4. Lapses /\ Beyond
  BY <1>2, SameLapses DEF Beyond
<1>5. QED
  BY <1>3, <1>4, LapsesKeep

LEMMA ResetStep ==
  ASSUME TInv, Reset(Idleness), Untouched
  PROVE  TInv'
<1>1. /\ todo # <<>> /\ todo' = Tail(todo) /\ UNCHANGED <<gate, session, closing>>
      /\ incomplete' \in BOOLEAN /\ (~Idleness => incomplete')
      /\ running' = running /\ req' = req
  BY DEF Reset, Untouched, device
<1>2. GateTypes /\ GateInv
  BY TypeParts DEF TInv
<1>3. gate = "control" /\ todo' \in Plans
  BY <1>1, <1>2, PlanHeads DEF GateInv
<1>4. GateTypes'
  BY <1>1, <1>2, <1>3, PlanTypes DEF GateTypes, GateTypeOK, session
<1>5. GateInv' /\ PermitInv'
  BY <1>1, <1>3, HeldByNone
<1>6. QuietInv'
  BY <1>1 DEF QuietInv, Idleness
<1>7. QED
  BY <1>4, <1>5, <1>6, SectionKeeps

LEMMA GeometryStep ==
  ASSUME TInv, Geometry(Idleness), Untouched
  PROVE  TInv'
<1>1. /\ todo # <<>> /\ Head(todo) = "geometry" /\ todo' = Tail(todo)
      /\ UNCHANGED <<gate, gen, granted, revision, epoch, incomplete, closing>>
      /\ running' = running /\ typed' = typed /\ req' = req
  BY DEF Geometry, Untouched, device, session
<1>2. GateTypes /\ GateInv /\ QuietInv
  BY TypeParts DEF TInv
<1>3. /\ gate = "control" /\ todo' \in Plans /\ (todo' \in Settled => todo \in Settled)
  BY <1>1, <1>2, PlanHeads DEF GateInv
<1>4. GateTypes'
  BY <1>1, <1>2, <1>3, PlanTypes DEF GateTypes, GateTypeOK
<1>5. GateInv' /\ PermitInv'
  BY <1>1, <1>3, HeldByNone
<1>6. QuietInv'
  BY <1>1, <1>2, <1>3 DEF QuietInv
<1>7. QED
  BY <1>4, <1>5, <1>6, SectionKeeps

LEMMA ReleaseStep ==
  ASSUME TInv, Release, Untouched
  PROVE  TInv'
<1>1. /\ gate = "control" /\ gate' = "free" /\ todo = <<>>
      /\ UNCHANGED <<todo, gen, granted, revision, epoch, incomplete, closing>>
      /\ running' = running /\ typed' = typed /\ req' = req
  BY DEF Release, Untouched, device, session
<1>2. GateTypes /\ GateInv /\ QuietInv
  BY TypeParts DEF TInv
<1>3. GateTypes'
  BY <1>1, <1>2 DEF GateTypes, GateTypeOK
<1>4. GateInv' /\ PermitInv'
  BY <1>1, <1>2, HeldByNone DEF GateInv
<1>5. QuietInv'
  BY <1>1, <1>2 DEF QuietInv
<1>6. QED
  BY <1>3, <1>4, <1>5, SectionKeeps

LEMMA ConnectStep ==
  ASSUME TInv, NEW whose \in {"mine", "theirs"}, Connect(whose), Untouched
  PROVE  TInv'
<1>1. /\ gate = "free" /\ gate' = "control" /\ todo' = <<"geometry", whose, "reset">>
      /\ UNCHANGED <<session, incomplete, closing>> /\ req' = req
  BY DEF Connect, Untouched
<1>2. todo' \in Plans \ Settled
  BY <1>1, Unsettled
<1>3. GateTypes'
  BY <1>1, <1>2, PlanTypes, TypeParts DEF TInv, GateTypes, GateTypeOK, session
<1>4. GateInv' /\ PermitInv'
  BY <1>1, <1>2, HeldByNone
<1>5. QuietInv'
  BY <1>2 DEF QuietInv
<1>6. QED
  BY <1>3, <1>4, <1>5, SectionKeeps

LEMMA ShutdownStep ==
  ASSUME TInv, Shutdown, Untouched
  PROVE  TInv'
<1>1. /\ closing = "open" /\ closing' = "closing"
      /\ UNCHANGED <<gate, todo, gen, granted, revision, epoch, incomplete, req, running, typed>>
  BY DEF Shutdown, Untouched, session, device
<1>2. GateTypes'
  BY <1>1, TypeParts DEF TInv, GateTypes, GateTypeOK
<1>3. GateInv' /\ PermitInv'
  BY <1>1, SameSession DEF session
<1>4. QuietInv'
  BY <1>1 DEF TInv, QuietInv
<1>5. QED
  BY <1>2, <1>3, <1>4, SectionKeeps

LEMMA JoinStep ==
  ASSUME TInv, JoinSession
  PROVE  TInv'
<1>1. /\ todo # <<>> /\ Head(todo) \in {"mine", "theirs"} /\ todo' = Tail(todo)
      /\ gen' = gen + 1 /\ epoch' = gen + 1
      /\ UNCHANGED <<gate, revision, granted, incomplete, closing>>
      /\ NewLease({}) /\ mine' = (Head(todo) = "mine") /\ Beyond /\ req' = req
  BY DEF JoinSession, Join, Beyond
<1>2. GateTypes /\ GateInv
  BY TypeParts DEF TInv
<1>3. gate = "control" /\ todo' \in Plans \ Settled
  BY <1>1, <1>2, PlanHeads DEF GateInv
<1>4. LeaseTypes' /\ leases' = leases + 1 /\ Lapses
  BY <1>1, NewLeaseEffect
<1>5. GateTypes'
  BY <1>1, <1>2, <1>3, PlanTypes DEF GateTypes, GateTypeOK
<1>6. GateInv' /\ PermitInv'
  BY <1>1, <1>3, HeldByNone
<1>7. QuietInv'
  BY <1>3 DEF QuietInv
<1>8. mine' \in BOOLEAN
  BY <1>1
<1>9. QED
  BY <1>1, <1>4, <1>5, <1>6, <1>7, <1>8, LapsesKeep

LEMMA EndSessionStep ==
  ASSUME TInv, EndSession
  PROVE  TInv'
<1>1. /\ gate = "free" /\ gate' = "control" /\ todo' = <<"reset", "geometry">>
      /\ gen' = gen + 1 /\ epoch' = 0 /\ UNCHANGED <<revision, granted, incomplete, closing>>
      /\ RetireOnly({lease} \cap known) /\ mine' = FALSE /\ Beyond /\ req' = req
  BY DEF EndSession, Disconnect, Beyond
<1>2. todo' \in Plans \ Settled
  BY <1>1, Unsettled
<1>3. LeaseTypes' /\ leases' = leases /\ Lapses
  BY <1>1, RetireEffect DEF RetireOnly
<1>4. GateTypes /\ todo' \in Seq(Step)
  BY <1>2, PlanTypes, TypeParts DEF TInv
<1>4a. GateTypes'
  BY <1>1, <1>4 DEF GateTypes, GateTypeOK
<1>5. GateInv' /\ PermitInv'
  BY <1>1, <1>2, HeldByNone
<1>6. QuietInv'
  BY <1>2 DEF QuietInv
<1>7. QED
  BY <1>1, <1>3, <1>4a, <1>5, <1>6, LapsesKeep

LEMMA PolicyStep ==
  ASSUME TInv, NEW policy \in Policies, ChangePolicy(policy)
  PROVE  TInv'
<1>1. /\ gate = "free" /\ gate' = "control" /\ granted' = policy /\ revision' = revision + 1
      /\ UNCHANGED <<gen, epoch, incomplete, closing, running, typed, req, mine>> /\ Beyond
      /\ \/ UNCHANGED <<server, ops>>
         \/ NewLease(known)
         \/ RetireOnly(known)
  BY DEF ChangePolicy, SetPermissions, Beyond, device
<1>2. GateTypes /\ GateInv /\ QuietInv /\ LeaseTypes /\ HeardTypes
  BY TypeParts DEF TInv
<1>3. /\ todo' \in Plans
      /\ todo' \in Settled => ~Revokes(policy) /\ ~(incomplete /\ "input" \in policy)
  BY PolicyPlan DEF ChangePolicy
<1>4. LeaseTypes' /\ leases' \in {leases, leases + 1} /\ Lapses
  <2>1. CASE UNCHANGED <<server, ops>>
    BY <1>2, <2>1, SameLapses DEF LeaseTypes, server
  <2>2. CASE NewLease(known)
    BY <2>2, NewLeaseEffect
  <2>3. CASE RetireOnly(known)
    BY <2>3, RetireEffect DEF RetireOnly
  <2>4. QED
    BY <1>1, <2>1, <2>2, <2>3
<1>5. GateTypes'
  <2>1. policy \subseteq Scopes
    BY GateAssumption DEF GateAssumption
  <2>2. QED
    BY <1>1, <1>2, <1>3, <2>1, PlanTypes DEF GateTypes, GateTypeOK
<1>6. GateInv' /\ PermitInv'
  BY <1>1, <1>3, HeldByNone
<1>7. QuietInv'
  <2>1. SUFFICES ASSUME running # 0, ~incomplete, closing # "closed", todo' \in Settled
                 PROVE  "input" \in policy /\ typed[running][1] = gen
    BY <1>1 DEF QuietInv
  <2>2. todo = <<>>
    BY <1>1, <1>2 DEF GateInv
  <2>3. "input" \in granted /\ typed[running][1] = gen
    BY <1>2, <2>1, <2>2 DEF QuietInv, Settled
  <2>4. "input" \in policy
    BY <1>3, <2>1, <2>3 DEF Revokes, Allowed, AllowedBy
  <2>5. QED
    BY <2>3, <2>4
<1>8. mine' \in BOOLEAN
  BY <1>1, <1>2 DEF HeardTypes
<1>9. QED
  BY <1>1, <1>4, <1>5, <1>6, <1>7, <1>8, LapsesKeep

LEMMA CloseStep ==
  ASSUME TInv, CloseSession
  PROVE  TInv'
<1>1. /\ gate = "free" /\ closing' = "closed" /\ gen' = gen + 1 /\ epoch' = 0
      /\ UNCHANGED <<gate, todo, revision, granted, incomplete>>
      /\ ops' = Retired(known) /\ retired' = retired \cup known /\ lease' = 0
      /\ mine' = FALSE /\ UNCHANGED <<leases, known, expired, req>> /\ Beyond
  BY DEF CloseSession, ShutdownResources, Beyond
<1>2. GateTypes /\ GateInv
  BY TypeParts DEF TInv
<1>3. LeaseTypes' /\ leases' = leases /\ Lapses
  BY <1>1, RetireEffect
<1>4. GateTypes'
  BY <1>1, <1>2 DEF GateTypes, GateTypeOK
<1>5. GateInv' /\ PermitInv'
  BY <1>1, <1>2, HeldByNone DEF GateInv
<1>6. QuietInv'
  BY <1>1 DEF QuietInv
<1>7. QED
  BY <1>1, <1>3, <1>4, <1>5, <1>6, LapsesKeep

LEMMA RenewStep ==
  ASSUME TInv, Renew
  PROVE  TInv'
<1>1. NewLease({}) /\ UNCHANGED <<control, target, req, device, mine, phone>>
  BY DEF Renew
<1>2. UNCHANGED <<gate, todo, session, gen, granted, revision, epoch, incomplete, closing, running,
                  typed, req, mine>> /\ Beyond
  BY <1>1 DEF control, session, device, Beyond
<1>3. LeaseTypes' /\ leases' = leases + 1 /\ Lapses
  BY <1>1, NewLeaseEffect
<1>4. GateTypes' /\ mine' \in BOOLEAN
  BY <1>2, TypeParts DEF TInv, GateTypes, GateTypeOK, HeardTypes
<1>5. GateInv' /\ PermitInv'
  BY <1>2, SameSession
<1>6. QuietInv'
  BY <1>2 DEF TInv, QuietInv
<1>7. QED
  BY <1>2, <1>3, <1>4, <1>5, <1>6, LapsesKeep

LEMMA ExpireStep ==
  ASSUME TInv, NEW l \in 1..leases, Expire(l)
  PROVE  TInv'
<1>1. /\ l \in (known \cap retired) \ expired /\ expired' = expired \cup {l}
      /\ UNCHANGED <<control, lease, leases, known, retired, ops, target, req, device, mine, phone>>
  BY DEF Expire
<1>2. UNCHANGED <<gate, todo, session, gen, granted, revision, epoch, incomplete, closing, running,
                  typed, req, mine>> /\ Beyond
  BY <1>1 DEF control, session, device, Beyond
<1>3. LeaseTypes' /\ leases' = leases
  BY <1>1, TypeParts DEF TInv, LeaseTypes
<1>4. GateTypes' /\ mine' \in BOOLEAN
  BY <1>2, TypeParts DEF TInv, GateTypes, GateTypeOK, HeardTypes
<1>5. GateInv' /\ PermitInv'
  BY <1>2, SameSession
<1>6. QuietInv'
  BY <1>2 DEF TInv, QuietInv
<1>7. Lapses
  BY <1>1, SameLapses
<1>8. QED
  BY <1>2, <1>3, <1>4, <1>5, <1>6, <1>7, LapsesKeep

-----------------------------------------------------------------------------
(* The invariant.                                                          *)

LEMMA TransitionKeeps ==
  ASSUME TInv, Transition \/ ControlStep
  PROVE  TInv'
BY ConnectStep, EndSessionStep, PolicyStep, ShutdownStep, RenewStep, ExpireStep, ResetStep,
   GeometryStep, ReleaseStep, JoinStep, CloseStep DEF Transition, ControlStep

LEMMA InjectorKeeps ==
  ASSUME TInv, InjectorStep
  PROVE  TInv'
BY RefuseStep, BeginStep, EndStep DEF InjectorStep

LEMMA NextKeeps ==
  ASSUME TInv, Next
  PROVE  TInv'
BY TransitionKeeps, ClientKeeps, InjectorKeeps, HandlerKeeps DEF Next

LEMMA StutterKeeps ==
  ASSUME TInv, UNCHANGED vars
  PROVE  TInv'
<1>1. UNCHANGED <<control, server, ops, target, req, device, mine, phone>>
  BY DEF vars
<1>2. RequestTypes'
  BY <1>1, TypeParts DEF TInv, RequestTypes
<1>3. HeardTypes' /\ ClientTypes' /\ ClientInv'
  BY <1>1, SameHeard, SameClient DEF Others, phone
<1>4. QED
  BY <1>1, <1>2, <1>3, ClientFrameKeeps DEF ClientFrame, Others

LEMMA InitKeeps ==
  ASSUME Init
  PROVE  TInv
<1> USE TextAssumption DEF TextAssumption
<1>1. /\ GateInit /\ lease = 0 /\ leases = 0 /\ known = {} /\ retired = {} /\ expired = {}
      /\ ops = [o \in Operations |-> Absent] /\ target = [o \in Operations |-> NoTarget]
      /\ req = [h \in Handlers |-> Idle] /\ queued = 0 /\ running = 0 /\ answer = "none"
      /\ typed = [o \in Operations |-> <<>>] /\ mine = FALSE
      /\ heard = [epoch |-> 0, lease |-> 0] /\ manifest = [o \in Operations |-> 0]
      /\ client = NoText /\ discarded = {}
  BY DEF Init
<1>2. 0 \in 0..Texts /\ 0 \in 0..0
  OBVIOUS
<1>3. GateTypes
  <2>1. <<>> \in Seq(Step)
    BY EmptySeq
  <2>2. QED
    BY <1>1, <2>1 DEF GateInit, GateTypes, GateTypeOK, Scopes
<1>4. LeaseTypes
  BY <1>1, <1>2, FS_EmptySet DEF LeaseTypes
<1>5. OpTypes /\ TargetTypes /\ RequestTypes
  BY <1>1, RecordTypes DEF OpTypes, TargetTypes, RequestTypes
<1>6. DeviceTypes
  <2>1. <<>> \in Seq(Nat)
    BY EmptySeq
  <2>2. QED
    BY <1>1, <1>2, <2>1 DEF DeviceTypes
<1>7. ClientTypes
  BY <1>1, <1>2 DEF ClientTypes, NoText, Client, ClientSteps
<1>8. HeardTypes
  BY <1>1, <1>2 DEF HeardTypes
<1>9. TypeOK
  BY <1>3, <1>4, <1>5, <1>6, <1>7, <1>8, TypeParts
<1>10. \A h \in Handlers : req[h].at = "idle" /\ req[h].permit.scope = "input"
  BY <1>1 DEF Idle
<1>11. GateInv
  BY <1>1, <1>10, HandlerNames DEF GateInit, GateInv, Gated, Plans, Settled
<1>12. RequestInv /\ PermitInv
  BY <1>10 DEF RequestInv, RequestOK, PermitInv, PermitOK, Admitted, Begun
<1>13. ClaimInv
  BY <1>10 DEF ClaimInv, Sole, Claimed
<1>14. DeviceInv /\ QuietInv
  BY <1>1 DEF DeviceInv, QuietInv
<1>15. ReceiptsTruthful
  <2>1. \A o \in Operations : ops[o].state = "absent" /\ typed[o] = <<>> /\ o # 0
    BY <1>1, RecordTypes DEF Absent
  <2>2. Len(<<>>) = 0
    OBVIOUS
  <2>3. QED
    BY <1>1, <2>1, <2>2 DEF ReceiptsTruthful
<1>16. ClientInv
  BY <1>1, HandlerNames DEF ClientInv, NoText, Ends
<1>17. QED
  BY <1>9, <1>11, <1>12, <1>13, <1>14, <1>15, <1>16 DEF TInv

\* The invariant holds of every reachable state.
THEOREM TextInvariant == Spec => []TInv
<1>1. Init => TInv
  BY InitKeeps
<1>2. TInv /\ [Next]_vars => TInv'
  BY NextKeeps, StutterKeeps
<1>3. QED
  BY <1>1, <1>2, PTL DEF Spec

-----------------------------------------------------------------------------
(* What follows.                                                           *)

\* Type correctness; no server keeps more leases than it may.
THEOREM TextTypes == Spec => []TypeOK
<1>1. TInv => TypeOK
  BY DEF TInv
<1>2. QED
  BY <1>1, TextInvariant, PTL

\* Nothing is typed twice, and receipts are true of the desktop.
THEOREM TextReceipts == Spec => []ReceiptsTruthful
<1>1. TInv => ReceiptsTruthful
  BY DEF TInv
<1>2. QED
  BY <1>1, TextInvariant, PTL

\* What the client forgot as without effect has not been typed, nor will it be.
THEOREM DiscardsHold == Spec => []DiscardedNeverTyped
<1>1. TInv => DiscardedNeverTyped
  <2>1. SUFFICES ASSUME TInv, NEW o \in discarded PROVE typed[o] = <<>> /\ queued # o
    BY DEF DiscardedNeverTyped
  <2>2. o \in Operations /\ ops[o].state \in Ends
    BY <2>1, TypeParts DEF TInv, ClientTypes, ClientInv
  <2>3. QED
    BY <2>1, <2>2, ReceiptOf DEF Ends
<1>2. QED
  BY <1>1, TextInvariant, PTL

\* After a transition whose reset is confirmed, nothing of an earlier session or
\* policy is being typed.
THEOREM TransitionsAreQuiet == Spec => []TransitionsQuiet
<1>1. TInv => TransitionsQuiet
  <2>1. SUFFICES ASSUME TInv, gate = "free" PROVE TransitionsQuiet
    BY DEF TransitionsQuiet
  <2>2. todo = <<>>
    BY <2>1 DEF TInv, GateInv
  <2>3. QED
    BY <2>1, <2>2 DEF TInv, QuietInv, Settled, TransitionsQuiet
<1>2. QED
  BY <1>1, TextInvariant, PTL

-----------------------------------------------------------------------------
(* Action properties.                                                      *)

\* Only the injector types, and only what it has been given.
LEMMA OnlyInjectorTypes ==
  ASSUME Next, typed' # typed
  PROVE  InjectorBegins
<1>1. CASE Transition \/ ControlStep
  BY <1>1 DEF Transition, ControlStep, Untouched, EndSession, ChangePolicy, Renew, Expire,
              JoinSession, CloseSession, device
<1>2. CASE ClientStep
  BY <1>2 DEF ClientStep, Hear, Send, GiveUp, AskStatus, Review, Ask, Hearken, Repeat, Others,
              device
<1>3. CASE InjectorStep
  BY <1>3 DEF InjectorStep, InjectorRefuses, InjectorEnds
<1>4. ASSUME NEW h \in Handlers, HandlerStep(h)
      PROVE  typed' = typed
  <2>1. CASE Arrive(h) \/ CancelOperation(h) \/ Register(h) \/ Probe(h) \/ Drop(h) \/ Reply(h)
    BY <2>1 DEF Arrive, CancelOperation, Register, Probe, Drop, Reply, device
  <2>2. CASE (\E t \in Targets \cup {NoTarget} : Focus(h, t)) \/ AppendChunk(h) \/ Seal(h)
    BY <2>2 DEF Focus, AppendChunk, Seal, device
  <2>3. CASE Claim(h) \/ Dispatch(h) \/ Typed(h) \/ Interrupt(h) \/ Finish(h)
    BY <2>3 DEF Claim, Dispatch, Typed, Interrupt, Finish, device
  <2>4. QED
    BY <1>4, <2>1, <2>2, <2>3, Zenon DEF HandlerStep
<1>5. QED
  BY <1>1, <1>2, <1>3, <1>4 DEF Next

\* A text begins only in the session and under the policy its commit was admitted
\* in, and into the clipboard only with the clipboard's permission.
THEOREM EffectsPermitted == Spec => EffectPermitted
<1>1. ASSUME TInv, [Next]_vars
      PROVE  [\A o \in Operations : typed'[o] # typed[o] =>
                /\ req[gate].permit = Permit("input")
                /\ Allowed("input")
                /\ req[gate].target = Clipboard => Allowed("clipboard")]_vars
  <2>1. CASE UNCHANGED vars
    BY <2>1
  <2>2. CASE typed' = typed
    BY <2>2
  <2>3. CASE Next /\ typed' # typed
    <3>1. queued # 0
      BY <2>3, OnlyInjectorTypes DEF InjectorBegins
    <3>2. QED
      BY <1>1, <3>1, Permitted
  <2>4. QED
    BY <1>1, <2>1, <2>2, <2>3
<1>2. QED
  BY <1>1, TextInvariant, PTL DEF Spec, EffectPermitted

\* Only a handler with a probe binds a target.
LEMMA OnlyFocusBinds ==
  ASSUME Next, target' # target
  PROVE  \E h \in Handlers, t \in Targets \cup {NoTarget} : Focus(h, t)
<1>1. CASE Transition \/ ControlStep
  BY <1>1 DEF Transition, ControlStep, Untouched, EndSession, ChangePolicy, Renew, Expire,
              JoinSession, CloseSession
<1>2. CASE ClientStep
  BY <1>2 DEF ClientStep, Hear, Send, GiveUp, AskStatus, Review, Ask, Hearken, Repeat, Others
<1>3. CASE InjectorStep
  BY <1>3 DEF InjectorStep, InjectorRefuses, InjectorBegins, InjectorEnds, Undisturbed
<1>4. ASSUME NEW h \in Handlers, HandlerStep(h),
             ~\E t \in Targets \cup {NoTarget} : Focus(h, t)
      PROVE  target' = target
  <2>1. CASE Arrive(h) \/ CancelOperation(h) \/ Register(h) \/ Probe(h) \/ Drop(h) \/ Reply(h)
    BY <2>1 DEF Arrive, CancelOperation, Register, Probe, Drop, Reply
  <2>2. CASE AppendChunk(h) \/ Seal(h)
    BY <2>2 DEF AppendChunk, Seal
  <2>3. CASE Claim(h) \/ Dispatch(h) \/ Typed(h) \/ Interrupt(h) \/ Finish(h)
    BY <2>3 DEF Claim, Dispatch, Typed, Interrupt, Finish
  <2>4. QED
    BY <1>4, <2>1, <2>2, <2>3, Zenon DEF HandlerStep
<1>5. QED
  BY <1>1, <1>2, <1>3, <1>4 DEF Next

\* Once an operation is bound to what had the focus, it stays so.
THEOREM TargetsKept == Spec => TargetKept
<1>1. ASSUME TInv, [Next]_vars
      PROVE  [\A o \in Operations : target[o] # NoTarget => target'[o] = target[o]]_vars
  <2>1. CASE UNCHANGED vars
    BY <2>1
  <2>2. CASE target' = target
    BY <2>2
  <2>3. CASE Next /\ target' # target
    <3>1. PICK h \in Handlers, t \in Targets \cup {NoTarget} : Focus(h, t)
      BY <2>3, OnlyFocusBinds
    <3>2. req[h].at = "focus"
      BY <3>1 DEF Focus
    <3>3. /\ target[req[h].op] = NoTarget /\ req[h].op \in Operations
          /\ target \in [Operations -> Targets \cup {NoTarget}]
      BY <1>1, <3>2, Serving DEF RequestOK, TargetTypes
    <3>4. target' = [target EXCEPT ![req[h].op] = t]
      BY <2>3, <3>1 DEF Focus
    <3>5. QED
      BY <3>3, <3>4
  <2>4. QED
    BY <1>1, <2>1, <2>2, <2>3
<1>2. QED
  BY <1>1, TextInvariant, PTL DEF Spec, TargetKept

=============================================================================
