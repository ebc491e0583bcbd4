--------------------------- MODULE TextOperations ---------------------------
(***************************************************************************)
(* Literal text from the phone to the desktop: the client that sends a     *)
(* text in chunks (mobile/src/lib/literal-transfer.ts), the HTTP handler   *)
(* that serves its requests (daemon/internal/server/input_operations.go),  *)
(* the registry that makes them safe to repeat                             *)
(* (daemon/internal/inputops/text.go), and the leases that bind a registry *)
(* to a control session.  A client gives up a request after eight seconds  *)
(* while the handler goes on, so a late request of an operation may meet   *)
(* a later one, and a session may end between any two steps of a request.  *)
(*                                                                         *)
(* Permits, the gate and the session's transitions are MutationGate's; the *)
(* serialised injector is represented by what InputQueue promises: an      *)
(* operation whose context ends before it has begun never begins.          *)
(***************************************************************************)
EXTENDS MutationGate, FiniteSets

CONSTANTS
  Handlers,    \* the requests the server may be serving at the same time
  Texts,       \* bound: texts the client sends, each under a new operation ID
  Chunks,      \* chunks of a text
  Targets,     \* what can have the focus: applications, and Clipboard
  Clipboard,   \* ClipboardFallbackTarget
  NoTarget,    \* no target is bound
  Quota,       \* MaxOperations of a registry
  Kept,        \* leases the server keeps
  MaxLeases    \* bound: leases are renewed while there have been fewer

ASSUME TextAssumption ==
  /\ Texts \in Nat /\ Chunks \in Nat \ {0}
  /\ Clipboard \in Targets /\ NoTarget \notin Targets
  /\ Quota \in Nat \ {0} /\ Kept \in Nat \ {0, 1} /\ MaxLeases \in Nat
  /\ "free" \notin Handlers /\ "control" \notin Handlers /\ "nobody" \notin Handlers

Operations == 1..Texts

VARIABLES
  lease,           \* s.inputSession: leases are numbered as they are created
  leases,          \* how many have been created
  known, retired,  \* leases in s.inputLeases, and those with a retired time
  expired,         \* leases retired more than ten minutes ago
  ops,             \* the registries' transfers
  target,          \* the leases' targets
  req,             \* what each handler is serving
  queued, running, \* the operation the injector has been given, and begun
  answer,          \* the injector's result for the queued or running operation
  typed,           \* history: how often each text was typed
  \* The client.
  mine,            \* the control connection is the client's
  heard,           \* the epoch and lease of the last message it heard
  manifest,        \* the lease each operation was sent under, 0 if not yet
  client,          \* the operation it is about, and where it is
  discarded        \* history: operations forgotten as without effect

server == <<lease, leases, known, retired, expired>>
device == <<queued, running, answer, typed>>
phone == <<heard, manifest, client, discarded>>
vars == <<control, server, ops, target, req, device, mine, phone>>

-----------------------------------------------------------------------------
(* Types.                                                                  *)

Staged == {"receiving", "ready"}
Results == {"dispatched", "uncertain", "rejected"}
States == Staged \cup {"dispatching", "cancelled"} \cup Results

\* A receipt; "absent" is an operation a registry does not know, and "error"
\* the answer that is no receipt.
Receipt == [state: States \cup {"absent", "error"}, chunks: 0..Chunks]
Absent == [state |-> "absent", chunks |-> 0]
Error == [state |-> "error", chunks |-> 0]

Kinds == {"begin", "chunk", "commit", "status", "cancel"}
Places == {"idle", "body", "cancel", "register", "probe", "focus", "drop", "append",
           "seal", "claim", "dispatch", "typing", "finish", "reply", "answered"}

Request ==
  [at: Places, kind: Kinds, op: 0..Texts, epoch: Nat, index: Nat, target: Targets \cup {NoTarget},
   permit: [scope: Scopes, revision: Nat, gen: Nat, epoch: Nat], reply: Receipt]
Idle ==
  [at |-> "idle", kind |-> "status", op |-> 0, epoch |-> 0, index |-> 0, target |-> NoTarget,
   permit |-> [scope |-> "input", revision |-> 0, gen |-> 0, epoch |-> 0], reply |-> Absent]

\* What the client is doing: nothing, sending a text, asking for its status on
\* the user's demand, or resolving it after the user has looked (a status, a
\* cancellation, and a status when the cancellation went unanswered).
ClientSteps == {"rest", "begin", "chunk", "commit", "status", "review", "cancel", "check"}
Client == [op: 0..Texts, step: ClientSteps, index: Nat, receipt: States \cup {"none"},
           waits: Handlers \cup {"nobody"}]
NoText == [op |-> 0, step |-> "rest", index |-> 0, receipt |-> "none", waits |-> "nobody"]

TypeOK ==
  /\ GateTypeOK(Handlers)
  /\ lease \in 0..leases /\ leases \in Nat
  /\ known \subseteq 1..leases /\ retired \subseteq 1..leases /\ expired \subseteq retired
  /\ Cardinality(known) <= Kept
  /\ ops \in [Operations -> Receipt]
  /\ target \in [Operations -> Targets \cup {NoTarget}]
  /\ req \in [Handlers -> Request]
  /\ queued \in 0..Texts /\ running \in 0..Texts /\ answer \in {"none"} \cup Results
  /\ typed \in [Operations -> Seq(Nat)]
  /\ mine \in BOOLEAN /\ heard \in [epoch: Nat, lease: 0..leases]
  /\ manifest \in [Operations -> 0..leases]
  /\ client \in Client /\ discarded \subseteq Operations

Init ==
  /\ GateInit
  /\ lease = 0 /\ leases = 0 /\ known = {} /\ retired = {} /\ expired = {}
  /\ ops = [o \in Operations |-> Absent]
  /\ target = [o \in Operations |-> NoTarget]
  /\ req = [h \in Handlers |-> Idle]
  /\ queued = 0 /\ running = 0 /\ answer = "none"
  /\ typed = [o \in Operations |-> <<>>]
  /\ mine = FALSE /\ heard = [epoch |-> 0, lease |-> 0]
  /\ manifest = [o \in Operations |-> 0]
  /\ client = NoText /\ discarded = {}

-----------------------------------------------------------------------------
(* Leases.                                                                 *)

\* Wrong: an operation that was claimed is cancelled.
RetiredAsCancelled(ls) ==
  [o \in Operations |->
     IF manifest[o] \in ls /\ ops[o].state \in Staged \cup {"dispatching"}
     THEN [ops[o] EXCEPT !.state = "cancelled"] ELSE ops[o]]

\* Registry.Retire: what has not been claimed is cancelled, what has been is
\* uncertain.
Retired(ls) ==
  [o \in Operations |->
     IF manifest[o] \notin ls THEN ops[o]
     ELSE IF ops[o].state \in Staged THEN [ops[o] EXCEPT !.state = "cancelled"]
     ELSE IF ops[o].state = "dispatching" THEN [ops[o] EXCEPT !.state = "uncertain"]
     ELSE ops[o]]

Oldest(ls) == {l \in ls : \A other \in ls : l <= other}

\* Wrong: the oldest lease makes no room.
NewLeaseBeyond(alsoRetired) ==
  LET gone == alsoRetired \cup ({lease} \cap known) IN
  /\ ops' = Retired(gone)
  /\ retired' = retired \cup gone
  /\ leases' = leases + 1 /\ lease' = leases + 1
  /\ known' = (known \ (expired \ {lease})) \cup {leases + 1}
  /\ expired' = expired \ {lease}

\* newInputLease: the current lease is retired, as of now; leases past their
\* retention are dropped, and the oldest one if there are too many still.
NewLease(alsoRetired) ==
  LET gone == alsoRetired \cup ({lease} \cap known)
      kept == known \ (expired \ {lease})
  IN /\ ops' = Retired(gone)
     /\ retired' = retired \cup gone
     /\ leases' = leases + 1 /\ lease' = leases + 1
     /\ known' = (IF Cardinality(kept) >= Kept THEN kept \ Oldest(kept) ELSE kept)
                 \cup {leases + 1}
     /\ expired' = expired \ {lease}

RetireOnly(ls) ==
  /\ ops' = Retired(ls) /\ retired' = retired \cup ls
  /\ UNCHANGED <<lease, leases, known, expired>>

\* Ten minutes after a lease was retired.
Expire(l) ==
  /\ l \in (known \cap retired) \ expired
  /\ expired' = expired \cup {l}
  /\ UNCHANGED <<control, lease, leases, known, retired, ops, target, req, device, mine, phone>>

-----------------------------------------------------------------------------
(* Transitions of the control session, and what they do to the leases.     *)

Idleness == running = 0
Untouched == UNCHANGED <<server, ops, target, req, device, mine, phone>>

JoinSession ==
  /\ Join /\ NewLease({}) /\ mine' = (Head(todo) = "mine")
  /\ UNCHANGED <<target, req, device, phone>>

EndSession ==
  /\ Disconnect /\ RetireOnly({lease} \cap known) /\ mine' = FALSE
  /\ UNCHANGED <<target, req, device, phone>>

ChangePolicy(policy) ==
  /\ SetPermissions(policy)
  /\ IF ~Revokes(policy) THEN UNCHANGED <<server, ops>>
     ELSE IF epoch # 0 THEN NewLease(known)
     ELSE RetireOnly(known)
  /\ UNCHANGED <<target, req, device, mine, phone>>

CloseSession ==
  /\ ShutdownResources
  /\ ops' = Retired(known) /\ retired' = retired \cup known /\ lease' = 0
  /\ mine' = FALSE
  /\ UNCHANGED <<leases, known, expired, target, req, device, phone>>

\* Any client of the session may ask for a new lease before the quota is used
\* up: the epoch, the permits and the gate stay as they are.
Renew ==
  /\ closing = "open" /\ epoch # 0 /\ Allowed("input") /\ leases < MaxLeases
  /\ NewLease({})
  /\ UNCHANGED <<control, target, req, device, mine, phone>>

ControlStep ==
  \/ Reset(Idleness) /\ Untouched
  \/ Geometry(Idleness) /\ Untouched
  \/ Release /\ Untouched
  \/ JoinSession \/ CloseSession

Transition ==
  \/ \E whose \in {"mine", "theirs"} : Connect(whose) /\ Untouched
  \/ EndSession
  \/ \E policy \in Policies : ChangePolicy(policy)
  \/ Shutdown /\ Untouched
  \/ Renew
  \/ \E l \in 1..leases : Expire(l)

-----------------------------------------------------------------------------
(* The handler: admission.                                                 *)

Serve(h, place) == req' = [req EXCEPT ![h].at = place]
\* Nobody hears the answer of a request the client has given up.
Answer(h, receipt) ==
  req' = [req EXCEPT ![h] = IF client.waits # h THEN Idle
                            ELSE [Idle EXCEPT !.at = "answered", !.reply = receipt]]
Effect(o, state) == ops' = [ops EXCEPT ![o].state = state]
Writes(r) == r.kind \notin {"status", "cancel"}

First == [begin |-> "register", chunk |-> "append", commit |-> "seal"]

LeaseKnown(l) == l \in known /\ (l # lease => l \notin expired)

\* What handleInput looks at under s.mu once it has the body.
Admissible(r) ==
  /\ epoch # 0 => r.epoch = epoch
  /\ LeaseKnown(manifest[r.op])
  /\ IF Writes(r) THEN Allowed("input") /\ epoch # 0 /\ lease = manifest[r.op]
     ELSE ops[r.op].state # "absent"

Arrive(h) ==
  LET r == req[h] IN
  /\ r.at = "body"
  /\ \/ ~Admissible(r) /\ Answer(h, Error)
     \/ Admissible(r) /\ r.kind = "status" /\ Answer(h, ops[r.op])
     \/ Admissible(r) /\ r.kind = "cancel" /\ Serve(h, "cancel")
     \/ /\ Admissible(r) /\ Writes(r)
        /\ req' = [req EXCEPT ![h].at = First[r.kind], ![h].permit = Permit("input"),
                              ![h].epoch = 0, ![h].target = target[r.op]]
  /\ UNCHANGED <<control, server, ops, target, device, mine, phone>>

\* Wrong: what an adapter may be typing is cancelled.
CancelClaimed(h) ==
  LET o == req[h].op IN
  /\ req[h].at = "cancel"
  /\ IF ops[o].state \in Staged \cup {"dispatching", "cancelled"}
     THEN Effect(o, "cancelled") /\ Answer(h, [ops[o] EXCEPT !.state = "cancelled"])
     ELSE Answer(h, Error) /\ UNCHANGED ops
  /\ UNCHANGED <<control, server, target, device, mine, phone>>

\* Cancel: whatever was not claimed; a cancelled operation stays cancelled.
CancelOperation(h) ==
  LET o == req[h].op IN
  /\ req[h].at = "cancel"
  /\ \/ /\ ops[o].state \in Staged
        /\ Effect(o, "cancelled") /\ Answer(h, [ops[o] EXCEPT !.state = "cancelled"])
     \/ ops[o].state = "cancelled" /\ Answer(h, ops[o]) /\ UNCHANGED ops
     \/ ops[o].state \notin Staged \cup {"cancelled"} /\ Answer(h, Error) /\ UNCHANGED ops
  /\ UNCHANGED <<control, server, target, device, mine, phone>>

-----------------------------------------------------------------------------
(* begin: an entry in the registry, and the application that has the focus. *)

InLease(l) == {o \in Operations : manifest[o] = l /\ ops[o].state # "absent"}

\* Registry.Begin: a retry finds its transfer, a new one needs a higher sequence
\* and a place.
Register(h) ==
  LET o == req[h].op
      others == InLease(manifest[o])
      new == ops[o].state = "absent"
      receipt == IF new THEN [state |-> "receiving", chunks |-> 0] ELSE ops[o]
  IN
  /\ req[h].at = "register"
  /\ IF new /\ ((\E other \in others : other > o) \/ Cardinality(others) >= Quota)
     THEN Answer(h, Error) /\ UNCHANGED ops
     ELSE /\ ops' = [ops EXCEPT ![o] = receipt]
          /\ IF req[h].target = NoTarget /\ receipt.state = "receiving"
             THEN Serve(h, "probe") ELSE Answer(h, receipt)
  /\ UNCHANGED <<control, server, target, device, mine, phone>>

\* runLifecycleMutation: refused by a shutdown or by a permit that lapsed.
Enter(h) == gate = "free" /\ closing = "open" /\ Honoured(req[h].permit)
Barred(h) == gate = "free" /\ ~(closing = "open" /\ Honoured(req[h].permit))
Ungated == UNCHANGED <<todo, session, incomplete, closing>>

\* Wrong: the target is probed again although one is bound.
ProbeAgain(h) ==
  /\ req[h].at = "probe"
  /\ \/ Barred(h) /\ Serve(h, "drop") /\ UNCHANGED gate
     \/ Enter(h) /\ Serve(h, "focus") /\ gate' = h
  /\ Ungated /\ UNCHANGED <<server, ops, target, device, mine, phone>>

Probe(h) ==
  /\ req[h].at = "probe"
  /\ \/ Barred(h) /\ Serve(h, "drop") /\ UNCHANGED gate
     \/ /\ Enter(h) /\ target[req[h].op] # NoTarget
        /\ Serve(h, "reply") /\ UNCHANGED gate
     \/ /\ Enter(h) /\ target[req[h].op] = NoTarget
        /\ Serve(h, "focus") /\ gate' = h
  /\ Ungated /\ UNCHANGED <<server, ops, target, device, mine, phone>>

\* The probe answers with what has the focus when the injector gets to it, or
\* with nothing, at the latest when its five seconds are over; the target is
\* bound if the operation and its session are still what they were.
Focus(h, t) ==
  LET o == req[h].op
      ready == t # NoTarget /\ (t = Clipboard => Allowed("clipboard"))
      live == /\ lease = manifest[o] /\ lease \in known /\ epoch # 0 /\ closing = "open"
              /\ ops[o].state = "receiving"
  IN
  /\ req[h].at = "focus"
  /\ t # NoTarget => Idleness
  /\ gate' = "free"
  /\ Serve(h, IF ready THEN "reply" ELSE "drop")
  /\ target' = IF ready /\ live THEN [target EXCEPT ![o] = t] ELSE target
  /\ Ungated /\ UNCHANGED <<server, ops, device, mine, phone>>

\* A begin without a target cancels its operation.
Drop(h) ==
  LET o == req[h].op IN
  /\ req[h].at = "drop"
  /\ IF ops[o].state \in Staged
     THEN Effect(o, "cancelled") /\ Answer(h, [ops[o] EXCEPT !.state = "cancelled"])
     ELSE Answer(h, ops[o]) /\ UNCHANGED ops
  /\ UNCHANGED <<control, server, target, device, mine, phone>>

Reply(h) ==
  /\ req[h].at = "reply"
  /\ Answer(h, ops[req[h].op])
  /\ UNCHANGED <<control, server, ops, target, device, mine, phone>>

-----------------------------------------------------------------------------
(* chunk.                                                                  *)

\* Append: a repeated chunk changes nothing; a new one must be the next one of
\* an operation that is still receiving.
AppendChunk(h) ==
  LET o == req[h].op
      grown == [ops[o] EXCEPT !.chunks = @ + 1]
  IN
  /\ req[h].at = "append"
  /\ \/ ops[o].state = "absent" /\ Answer(h, Error) /\ UNCHANGED ops
     \/ /\ ops[o].state # "absent" /\ req[h].index < ops[o].chunks
        /\ Answer(h, ops[o]) /\ UNCHANGED ops
     \/ /\ ops[o].state = "receiving" /\ req[h].index = ops[o].chunks /\ ops[o].chunks < Chunks
        /\ ops' = [ops EXCEPT ![o] = grown] /\ Answer(h, grown)
     \/ /\ ops[o].state # "absent" /\ req[h].index >= ops[o].chunks
        /\ ops[o].state # "receiving" \/ req[h].index # ops[o].chunks \/ ops[o].chunks = Chunks
        /\ Answer(h, Error) /\ UNCHANGED ops
  /\ UNCHANGED <<control, server, target, device, mine, phone>>

-----------------------------------------------------------------------------
(* commit: Commit, Claim, the injector, and Finish.                        *)

\* Commit: the bytes match their manifest or they do not.
Seal(h) ==
  LET o == req[h].op IN
  /\ req[h].at = "seal"
  /\ \/ ops[o].state = "absent" /\ Answer(h, Error) /\ UNCHANGED ops
     \/ ops[o].state = "ready" /\ Serve(h, "claim") /\ UNCHANGED ops
     \/ /\ ops[o].state \notin Staged \cup {"absent"}
        /\ Answer(h, ops[o]) /\ UNCHANGED ops
     \/ ops[o].state = "receiving" /\ ops[o].chunks < Chunks /\ Answer(h, Error) /\ UNCHANGED ops
     \/ /\ ops[o].state = "receiving" /\ ops[o].chunks = Chunks
        /\ \/ Effect(o, "rejected") /\ Answer(h, Error)
           \/ Effect(o, "ready") /\ Serve(h, "claim")
  /\ UNCHANGED <<control, server, target, device, mine, phone>>

\* Wrong: the operation may be claimed again.
ClaimAgain(h) ==
  /\ req[h].at = "claim"
  /\ IF ops[req[h].op].state \in {"ready", "dispatching"}
     THEN Effect(req[h].op, "dispatching") /\ Serve(h, "dispatch")
     ELSE Answer(h, Error) /\ UNCHANGED ops
  /\ UNCHANGED <<control, server, target, device, mine, phone>>

\* Claim releases the text once only.
Claim(h) ==
  /\ req[h].at = "claim"
  /\ IF ops[req[h].op].state = "ready"
     THEN Effect(req[h].op, "dispatching") /\ Serve(h, "dispatch")
     ELSE Answer(h, Error) /\ UNCHANGED ops
  /\ UNCHANGED <<control, server, target, device, mine, phone>>

Conclude(h, result) ==
  req' = [req EXCEPT ![h] = [Idle EXCEPT !.at = "finish", !.op = req[h].op,
                                         !.reply = [state |-> result, chunks |-> 0]]]

\* The gate again: the session and the policy must be those of the admission,
\* and pasting needs the clipboard's permission too.
Dispatch(h) ==
  LET pastes == req[h].target = Clipboard /\ ~Allowed("clipboard") IN
  /\ req[h].at = "dispatch"
  /\ \/ Barred(h) /\ Conclude(h, "uncertain") /\ UNCHANGED <<gate, queued, answer>>
     \/ Enter(h) /\ pastes /\ Conclude(h, "rejected") /\ UNCHANGED <<gate, queued, answer>>
     \/ /\ Enter(h) /\ ~pastes
        /\ Serve(h, "typing") /\ gate' = h /\ queued' = req[h].op /\ answer' = "none"
  /\ Ungated /\ UNCHANGED <<server, ops, target, running, typed, mine, phone>>

\* boundedLiteralText: the injector's result.
Typed(h) ==
  /\ req[h].at = "typing" /\ answer # "none"
  /\ gate' = "free" /\ answer' = "none"
  /\ Conclude(h, answer)
  /\ Ungated /\ UNCHANGED <<server, ops, target, queued, running, typed, mine, phone>>

\* Wrong: the wait is not bounded before the injector has begun.
InterruptBegun(h) ==
  /\ req[h].at = "typing" /\ queued = 0
  /\ gate' = "free" /\ answer' = "none"
  /\ Conclude(h, "uncertain")
  /\ Ungated /\ UNCHANGED <<server, ops, target, queued, running, typed, mine, phone>>

\* Its context ends first: five seconds, or the client has gone.
Interrupt(h) ==
  /\ req[h].at = "typing"
  /\ gate' = "free" /\ answer' = "none" /\ queued' = 0
  /\ Conclude(h, "uncertain")
  /\ Ungated /\ UNCHANGED <<server, ops, target, running, typed, mine, phone>>

\* Finish: unless the operation was retired meanwhile.
Finish(h) ==
  LET o == req[h].op
      receipt == IF ops[o].state = "dispatching"
                 THEN [ops[o] EXCEPT !.state = req[h].reply.state] ELSE ops[o]
  IN
  /\ req[h].at = "finish"
  /\ ops' = [ops EXCEPT ![o] = receipt] /\ Answer(h, receipt)
  /\ UNCHANGED <<control, server, target, device, mine, phone>>

-----------------------------------------------------------------------------
(* The injector, one operation at a time.                                  *)

Undisturbed == UNCHANGED <<control, server, ops, target, req, mine, phone>>

\* Rejected means that no edit was attempted; a text without a target is one.
InjectorRefuses ==
  /\ queued # 0
  /\ queued' = 0 /\ answer' = "rejected"
  /\ UNCHANGED <<running, typed>> /\ Undisturbed

InjectorBegins ==
  /\ queued # 0 /\ running = 0 /\ req[gate].target # NoTarget
  /\ queued' = 0 /\ running' = queued
  /\ typed' = [typed EXCEPT ![queued] = Append(@, gen)]
  /\ UNCHANGED answer /\ Undisturbed

\* Whoever has given up waiting never learns of the result.
Awaited(o) == \E h \in Handlers : req[h].at = "typing" /\ req[h].op = o
InjectorEnds ==
  /\ running # 0
  /\ running' = 0
  /\ answer' \in IF Awaited(running) THEN {"dispatched", "uncertain"} ELSE {answer}
  /\ UNCHANGED <<queued, typed>> /\ Undisturbed

-----------------------------------------------------------------------------
(* The client: one LiteralTransfer, and its user.                          *)

Others == UNCHANGED <<control, server, ops, target, device, mine>>

\* A hello or a capability message on the client's own connection; the lease is
\* part of it only while text input is available.
Hear ==
  /\ mine
  /\ heard' = [epoch |-> epoch, lease |-> IF Allowed("input") THEN lease ELSE 0]
  /\ heard' # heard
  /\ UNCHANGED <<manifest, client, discarded, req>> /\ Others

Forget(receipt) ==
  /\ client' = NoText
  /\ discarded' = IF receipt \in {"rejected", "cancelled"} THEN discarded \cup {client.op} ELSE discarded

Keep(step, receipt) ==
  /\ client' = [client EXCEPT !.step = step, !.receipt = receipt, !.waits = "nobody"]
  /\ UNCHANGED discarded

Sent == {o \in Operations : manifest[o] # 0}

\* send: a new operation under the lease the client knows.
Send ==
  LET o == Cardinality(Sent) + 1 IN
  /\ client.op = 0 /\ o <= Texts /\ heard.lease # 0
  /\ Cardinality({other \in Sent : manifest[other] = heard.lease}) < Quota
  /\ manifest' = [manifest EXCEPT ![o] = heard.lease]
  /\ client' = [NoText EXCEPT !.op = o, !.step = "begin"]
  /\ UNCHANGED <<heard, discarded, req>> /\ Others

\* What becomes of the client's call when a request of it fails.
Failed ==
  Keep(IF client.step = "cancel" THEN "check" ELSE "rest", client.receipt)

KindOf == [begin |-> "begin", chunk |-> "chunk", commit |-> "commit", status |-> "status",
           review |-> "status", cancel |-> "cancel", check |-> "status"]

\* A request leaves the client and passes the admission of a server that is not
\* closing.
Ask(h) ==
  /\ client.step # "rest" /\ client.waits = "nobody" /\ req[h].at = "idle"
  /\ closing = "open"
  /\ client.step \in {"begin", "chunk", "commit"} => heard.lease = manifest[client.op]
  /\ req' = [req EXCEPT ![h] = [Idle EXCEPT !.at = "body", !.kind = KindOf[client.step],
                                            !.op = client.op, !.epoch = heard.epoch,
                                            !.index = client.index]]
  /\ client' = [client EXCEPT !.waits = h]
  /\ UNCHANGED <<heard, manifest, discarded>> /\ Others

\* A request on its way is received once more, and served later: the operation
\* contract is made for repeated requests.
Repeat(h, again) ==
  /\ req[h].at = "body" /\ req[again].at = "idle"
  /\ req' = [req EXCEPT ![again] = req[h]]
  /\ UNCHANGED phone /\ Others

\* A request that cannot be sent, is lost, or takes too long.
GiveUp ==
  /\ client.step # "rest"
  /\ Failed
  /\ req' = [h \in Handlers |-> IF client.waits = h /\ req[h].at = "answered" THEN Idle ELSE req[h]]
  /\ UNCHANGED <<heard, manifest>> /\ Others

\* The rest of the call once a reply has come.
Continue(reply) ==
  LET s == reply.state
      acknowledged == s \in {"dispatched", "rejected", "cancelled"}
  IN
  CASE s = "error" -> Failed
    [] s # "error" /\ client.step = "begin" /\ s = "receiving" ->
         client' = [client EXCEPT !.step = "chunk", !.receipt = s, !.waits = "nobody"]
         /\ UNCHANGED discarded
    [] s # "error" /\ client.step = "chunk" ->
         IF s # "receiving" \/ reply.chunks # client.index + 1 THEN Keep("rest", s)
         ELSE /\ client' = [client EXCEPT !.step = IF reply.chunks = Chunks THEN "commit" ELSE "chunk",
                                          !.receipt = s, !.waits = "nobody", !.index = @ + 1]
              /\ UNCHANGED discarded
    [] \/ s # "error" /\ client.step \in {"commit", "status"}
       \/ s \notin {"error", "receiving"} /\ client.step = "begin" ->
         IF acknowledged THEN Forget(s) ELSE Keep("rest", s)
    [] s # "error" /\ client.step = "review" ->
         IF s \in Staged THEN Keep("cancel", s)
         ELSE IF s = "dispatching" THEN Keep("rest", s) ELSE Forget(s)
    [] s # "error" /\ client.step \in {"cancel", "check"} ->
         IF s = "cancelled" THEN Forget(s) ELSE Keep("rest", s)

Hearken(h) ==
  /\ client.waits = h /\ req[h].at = "answered"
  /\ Continue(req[h].reply)
  /\ req' = [req EXCEPT ![h] = Idle]
  /\ UNCHANGED <<heard, manifest>> /\ Others

\* The user asks what became of a text, or has looked and wants to resolve it.
AskStatus ==
  /\ client.op # 0 /\ client.step = "rest"
  /\ Keep("status", client.receipt)
  /\ UNCHANGED <<heard, manifest, req>> /\ Others

Review ==
  /\ client.op # 0 /\ client.step = "rest"
  /\ IF client.receipt \in Staged THEN Keep("cancel", client.receipt)
     ELSE IF client.receipt \in {"rejected", "cancelled"} THEN Forget(client.receipt)
     ELSE Keep("review", client.receipt)
  /\ UNCHANGED <<heard, manifest, req>> /\ Others

-----------------------------------------------------------------------------
HandlerStep(h) ==
  \/ Arrive(h) \/ CancelOperation(h) \/ Register(h) \/ Probe(h) \/ Drop(h) \/ Reply(h)
  \/ \E t \in Targets \cup {NoTarget} : Focus(h, t)
  \/ AppendChunk(h) \/ Seal(h) \/ Claim(h) \/ Dispatch(h) \/ Typed(h) \/ Interrupt(h)
  \/ Finish(h)
ClientStep ==
  \/ Hear \/ Send \/ GiveUp \/ AskStatus \/ Review 
  \/ \E h \in Handlers : Ask(h) \/ Hearken(h)
  \/ \E h, again \in Handlers : Repeat(h, again)
InjectorStep == InjectorRefuses \/ InjectorBegins \/ InjectorEnds

Next ==
  \/ Transition \/ ControlStep \/ ClientStep \/ InjectorStep
  \/ \E h \in Handlers : HandlerStep(h)

Spec == Init /\ [][Next]_vars

\* Goroutines are scheduled, the gate's mutex is granted in turn, contexts end
\* on time; the device may never return from what it is doing.
FairSpec ==
  /\ Spec
  /\ WF_vars(ControlStep)
  /\ \A h \in Handlers : WF_vars(HandlerStep(h))

DeviceReturns == WF_vars(InjectorEnds)

-----------------------------------------------------------------------------
(* Properties.                                                             *)

\* Nothing is typed twice, and what a registry says of an operation is true of
\* the desktop: a text that is receiving, ready, rejected or cancelled has not
\* been typed, nor will it be by a request on its way (Claim, Retire, Finish).
ReceiptsTruthful ==
  \A o \in Operations :
    /\ Len(typed[o]) <= 1
    /\ ops[o].state = "dispatched" => Len(typed[o]) = 1 /\ running # o
    /\ ops[o].state \in Staged \cup {"absent", "cancelled", "rejected"} =>
         typed[o] = <<>> /\ queued # o

\* The client invites its user to send a text again only if the earlier
\* operation has not been and will not be typed, whichever requests of it were
\* given up and are still being served (acknowledged, reviewed).
DiscardedNeverTyped == \A o \in discarded : typed[o] = <<>> /\ queued # o

\* When a revocation, a reconnection or a disconnection is over and the device
\* has confirmed its reset, nothing of an earlier session or policy is being
\* typed any more (resetForTransition).
TransitionsQuiet ==
  gate = "free" /\ ~incomplete /\ running # 0 /\ closing # "closed" =>
    /\ "input" \in granted
    /\ typed[running][1] = gen

\* A text begins only in the session and under the policy its commit was
\* admitted in, and into the clipboard only with the clipboard's permission.
EffectPermitted ==
  [][\A o \in Operations : typed'[o] # typed[o] =>
       /\ req[gate].permit = Permit("input")
       /\ Allowed("input")
       /\ req[gate].target = Clipboard => Allowed("clipboard")]_vars

\* Once an operation is bound to what had the focus, it stays so: a concurrent
\* begin never redirects it (the probe's own comment).
TargetKept ==
  [][\A o \in Operations : target[o] # NoTarget => target'[o] = target[o]]_vars

\* A device that returns is enough for every request to be answered, and every
\* session, policy and shutdown to take effect, whoever has given up waiting:
\* the gate is never left held and nobody who holds it waits for another
\* holder.
RequestsEnd ==
  DeviceReturns =>
    \A h \in Handlers :
      req[h].at \notin {"idle", "answered"} ~> req[h].at \in {"idle", "answered"}

TransitionsEnd ==
  DeviceReturns =>
    /\ gate = "control" ~> gate # "control"
    /\ closing = "closing" ~> closing = "closed"

\* The resets of a session or a revocation have a deadline of five seconds
\* (session-contract.md): a transition ends even if the device does not return.
ResetsBounded == gate = "control" ~> gate # "control"

\* Earlier leases cannot inject (input-operation-contract.md): a text begins
\* only under the lease that is current.
OnlyCurrentLease ==
  [][\A o \in Operations : typed'[o] # typed[o] => manifest[o] = lease]_vars
=============================================================================
