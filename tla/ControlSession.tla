--------------------------- MODULE ControlSession ---------------------------
(***************************************************************************)
(* Control connections: the websocket handler from its handshake to its    *)
(* end (daemon/internal/server/server.go), what it tells the phone (the    *)
(* hello, and the capability updates of permissions and media,             *)
(* capabilities.go and media.go), and what the phone's frames do to the    *)
(* device, key operations with their receipts among them (actions.go).     *)
(* A connection is replaced by the next one while its handler is anywhere. *)
(*                                                                         *)
(* Permits, the gate and the session's transitions are MutationGate's.     *)
(* The serialised injector is represented by what InputQueue promises: a   *)
(* line served in order, one operation at a time, whose pending part a     *)
(* reset cuts off at once, and which never begins what it has refused.     *)
(***************************************************************************)
EXTENDS MutationGate, FiniteSets

CONSTANTS
  Connections,  \* the phones' connections
  Nobody,       \* no connection
  Operations,   \* operation IDs of key actions
  Sequences_,   \* bound: action sequences of an operation
  Limit,        \* maxActionOperations
  MaxEvents     \* bound: frames received and media observations begun

ASSUME SessionAssumption ==
  /\ Nobody \notin Connections \cup Operations \cup {"update"}
  /\ Connections \cap {"free", "control", "update"} = {}
  /\ Sequences_ \in Nat \ {0} /\ Limit \in Nat \ {0} /\ MaxEvents \in Nat

VARIABLES
  current,     \* s.current
  conn,        \* where the handler of each connection is
  broken,      \* connections whose socket is closed
  announces,   \* the transition that holds the gate sends an update
  capability,  \* s.capabilityRevision
  media,       \* observations: begun, those under way, the one applied
  updates,     \* updates built that wait for capabilitySendMu
  sender,      \* who holds capabilitySendMu
  outbox,      \* the message being written
  sent,        \* s.capabilitySentRevision
  view,        \* what the phone at each connection has heard
  keys,        \* s.actionOps
  line,        \* what the injector has been given, in order
  running,     \* what the device is doing
  pressed,     \* the connection that holds a button down
  events,      \* frames and observations so far
  ran,         \* history: the key frames the device has begun, in order
  told         \* history: receipts

hosts == <<current, conn, broken, announces>>
talk == <<capability, media, updates, sender, outbox, sent, view>>
device == <<line, running, pressed, ran>>
vars == <<control, hosts, talk, keys, device, events, told>>

-----------------------------------------------------------------------------
(* Types.                                                                  *)

Steps == 1..Sequences_
Frames == [kind: {"down", "up", "press", "repeat", "cancel"},
           op: Operations \cup {Nobody}, step: Steps, id: 0..MaxEvents]
Results == {"executed", "uncertain", "rejected", "cancelled", "none"}
Items == [from: Connections, frame: Frames]

Places == {"new", "joining", "hello", "greet", "loop", "gate", "reserve", "admit",
           "cancel", "run", "finish", "write", "ending", "closed"}
Handler == [at: Places, gen: Nat, frame: Frames, result: Results,
            permit: [scope: Scopes, revision: Nat, gen: Nat, epoch: Nat]]
NoFrame == [kind |-> "up", op |-> Nobody, step |-> 1, id |-> 0]
NoItem == [from |-> Nobody, frame |-> NoFrame]
Fresh == [at |-> "new", gen |-> 0, frame |-> NoFrame, result |-> "none",
          permit |-> [scope |-> "input", revision |-> 0, gen |-> 0, epoch |-> 0]]

\* What a message says: the policy in force and the media known.
Message == [to: Connections, revision: Nat, epoch: Nat, policy: SUBSET Scopes, media: Nat]
Unheard == [revision |-> 0, epoch |-> 0, policy |-> {}, media |-> 0]
Said(m) == [revision |-> m.revision, epoch |-> m.epoch, policy |-> m.policy, media |-> m.media]

\* An operation is absent while it has no session.
Operation == [epoch: Nat, active: BOOLEAN, state: Results \cup {"pending"},
              next: 1..Sequences_ + 1, receipts: [Steps -> Results]]
Absent == [epoch |-> 0, active |-> FALSE, state |-> "none", next |-> 1,
           receipts |-> [s \in Steps |-> "none"]]

TypeOK ==
  /\ GateTypeOK(Connections)
  /\ current \in Connections \cup {Nobody} /\ broken \subseteq Connections
  /\ conn \in [Connections -> Handler] /\ announces \in BOOLEAN
  /\ capability \in Nat /\ sent \in Nat /\ events \in 0..MaxEvents
  /\ media.begun \in Nat /\ media.applied \in 0..media.begun
  /\ media.open \subseteq [order: 1..media.begun, epoch: Nat]
  /\ updates \subseteq Message /\ sender \in Connections \cup {Nobody, "update"}
  /\ outbox \in Message \cup {Unheard}
  /\ view \in [Connections -> [revision: Nat, epoch: Nat, policy: SUBSET Scopes, media: Nat]]
  /\ keys \in [Operations -> Operation]
  /\ line \in Seq(Items) /\ running \in Items \cup {NoItem}
  /\ pressed \in Connections \cup {Nobody}
  /\ ran \in Seq([from: Connections, frame: Frames])
  /\ \A c \in Connections : /\ conn[c].at = "run" <=> gate = c
                            /\ conn[c].at = "greet" <=> sender = c
  /\ (epoch = 0 <=> current = Nobody) /\ (epoch # 0 => conn[current].gen = epoch)

Init ==
  /\ GateInit
  /\ current = Nobody /\ broken = {} /\ announces = FALSE
  /\ conn = [c \in Connections |-> Fresh]
  /\ capability = 1 /\ sent = 0 /\ events = 0
  /\ media = [begun |-> 0, open |-> {}, applied |-> 0]
  /\ updates = {} /\ sender = Nobody /\ outbox = Unheard
  /\ view = [c \in Connections |-> Unheard]
  /\ keys = [o \in Operations |-> Absent]
  /\ line = <<>> /\ running = NoItem /\ pressed = Nobody
  /\ ran = <<>> /\ told = {}

-----------------------------------------------------------------------------
(* What the phone is told.                                                 *)

\* capabilitiesPayloadLocked.
Payload(c) ==
  [to |-> c, revision |-> capability, epoch |-> epoch, policy |-> granted,
   media |-> media.applied]

\* The phone takes the hello when it is the first message, and a later message
\* if it is newer; an update before the hello is ignored.
Hears(m, first) ==
  LET c == m.to IN
  view' = IF (first /\ view[c].revision = 0)
             \/ (~first /\ view[c].revision # 0 /\ m.revision > view[c].revision)
          THEN [view EXCEPT ![c] = Said(m)] ELSE view

At(c, place) == conn[c].at = place
Goes(c, place) == conn' = [conn EXCEPT ![c].at = place]
Over(c) == conn' = [conn EXCEPT ![c] = [Fresh EXCEPT !.at = "closed"]] /\ broken' = broken \ {c}
Rests(c, place) == conn' = [conn EXCEPT ![c] = [Fresh EXCEPT !.at = place, !.gen = conn[c].gen]]
Silent == UNCHANGED <<control, current, announces, keys, device, events, told>>
Untold == UNCHANGED <<media, updates, sender, outbox, sent, view>>

\* handleWS takes capabilitySendMu before it builds the hello.
Hello(c) ==
  /\ At(c, "hello") /\ sender = Nobody
  /\ IF gen # conn[c].gen
     THEN Rests(c, "ending") /\ UNCHANGED <<sender, outbox>>
     ELSE Goes(c, "greet") /\ sender' = c /\ outbox' = Payload(c)
  /\ UNCHANGED <<broken, capability, media, updates, sent, view>> /\ Silent

Greet(c) ==
  /\ At(c, "greet")
  /\ sender' = Nobody /\ outbox' = Unheard
  /\ \/ c \notin broken /\ Hears(outbox, TRUE) /\ Goes(c, "loop")
     \/ Rests(c, "ending") /\ UNCHANGED view
  /\ UNCHANGED <<broken, capability, media, updates, sent>> /\ Silent

\* sendCapabilityUpdate: not after a newer one, and not to a connection that has
\* been replaced.
Send(u) ==
  /\ sender = Nobody
  /\ updates' = updates \ {u}
  /\ IF u.revision > sent /\ current = u.to
     THEN sender' = "update" /\ outbox' = u
     ELSE UNCHANGED <<sender, outbox>>
  /\ UNCHANGED <<conn, broken, capability, media, sent, view>> /\ Silent

\* A write that fails or takes two seconds closes the connection.
Written ==
  /\ sender = "update"
  /\ sender' = Nobody /\ outbox' = Unheard
  /\ \/ /\ outbox.to \notin broken
        /\ Hears(outbox, FALSE) /\ sent' = outbox.revision /\ UNCHANGED broken
     \/ broken' = broken \cup {outbox.to} /\ UNCHANGED <<view, sent>>
  /\ UNCHANGED <<conn, capability, media, updates>> /\ Silent

\* beginMediaObservation, for a request that may name its session.
Observe(e) ==
  /\ events < MaxEvents /\ events' = events + 1
  /\ media' = [media EXCEPT !.begun = @ + 1,
                            !.open = @ \cup {[order |-> media.begun + 1, epoch |-> e]}]
  /\ UNCHANGED <<control, hosts, capability, updates, sender, outbox, sent, view, keys,
                 device, told>>

\* Wrong: an observation does not count as a change of the capabilities.
ObservedSilently(o) ==
  LET stale == (o.epoch # 0 /\ o.epoch # epoch) \/ o.order <= media.applied IN
  /\ media' = [media EXCEPT !.open = @ \ {o}, !.applied = IF stale THEN @ ELSE o.order]
  /\ updates' = IF stale \/ current = Nobody THEN updates
                ELSE updates \cup {[Payload(current) EXCEPT !.media = o.order]}
  /\ UNCHANGED <<hosts, capability, sender, outbox, sent, view, control, keys, device, events,
                 told>>

\* observeMedia: what is older than the observation applied, or belongs to another
\* session, is dropped.  No two observations say the same.
Observed(o) ==
  LET stale == (o.epoch # 0 /\ o.epoch # epoch) \/ o.order <= media.applied IN
  /\ media' = [media EXCEPT !.open = @ \ {o}, !.applied = IF stale THEN @ ELSE o.order]
  /\ capability' = IF stale THEN capability ELSE capability + 1
  /\ updates' = IF stale \/ current = Nobody THEN updates
                ELSE updates \cup {[Payload(current) EXCEPT !.revision = capability + 1,
                                                            !.media = o.order]}
  /\ UNCHANGED <<hosts, sender, outbox, sent, view, control, keys, device, events, told>>

-----------------------------------------------------------------------------
(* The device, by what InputQueue promises.  A reset empties the line; what *)
(* is running goes on, and the buttons are let go of when it is over.      *)

Idle == running = NoItem
Neutral(done) == line' = <<>> /\ pressed' = IF done THEN Nobody ELSE pressed

Waits(c) == conn[c].at = "run"
Gives(c, result) == conn' = [conn EXCEPT ![c].at = "finish", ![c].result = result]

\* loop: an operation is begun, or refused without a trace.
InjectorBegins ==
  /\ Idle /\ line # <<>>
  /\ LET i == Head(line) IN
     /\ line' = Tail(line) /\ running' = i
     /\ pressed' = CASE i.frame.kind = "down" -> i.from
                      [] i.frame.kind = "up" -> Nobody
                      [] OTHER -> pressed
     /\ ran' = IF i.frame.kind \in {"press", "repeat"} THEN Append(ran, i) ELSE ran
  /\ UNCHANGED <<control, hosts, talk, keys, events, told>>

InjectorRefuses ==
  /\ Idle /\ line # <<>>
  /\ LET i == Head(line) IN
     /\ i.frame.kind \in {"press", "repeat"}
     /\ line' = Tail(line) /\ Gives(i.from, "rejected") /\ gate' = "free"
  /\ UNCHANGED <<todo, session, incomplete, closing, current, broken, announces, talk, keys,
                 running, pressed, ran, events, told>>

\* The handler of a key operation hears of it if it still waits for it.
InjectorEnds ==
  /\ ~Idle /\ running' = NoItem
  /\ LET i == running IN
     IF Waits(i.from) /\ conn[i.from].frame = i.frame
     THEN /\ \E result \in {"executed", "uncertain"} : Gives(i.from, result)
          /\ gate' = "free"
     ELSE UNCHANGED <<conn, gate>>
  /\ UNCHANGED <<todo, session, incomplete, closing, current, broken, announces, talk, keys,
                 line, pressed, ran, events, told>>

\* The reset that its caller has given up waiting for is done all the same.
LateReset ==
  /\ incomplete /\ Idle /\ pressed # Nobody
  /\ pressed' = Nobody
  /\ UNCHANGED <<control, hosts, talk, keys, line, running, ran, events, told>>

-----------------------------------------------------------------------------
(* Sessions: MutationGate's transitions.                                   *)

\* setCurrent waits for the gate.
Open(c) ==
  /\ At(c, "new") /\ Connect("theirs") /\ Goes(c, "joining")
  /\ UNCHANGED <<current, broken, announces, talk, keys, device, events, told>>

Joining == CHOOSE c \in Connections : conn[c].at = "joining" /\ conn[c].gen \in {0, gen}

\* The device refuses the geometry: the connection is not made.
GeometryRefused ==
  /\ HasGeometry /\ Len(todo) = 3
  /\ gate' = "free" /\ todo' = <<>>
  /\ Over(Joining) /\ Neutral(Idle)
  /\ UNCHANGED <<session, incomplete, closing, current, announces, talk, keys, running,
                 ran, events, told>>

JoinSession ==
  /\ Join
  /\ current' = Joining
  /\ conn' = [conn EXCEPT ![Joining].gen = gen + 1]
  /\ keys' = [o \in Operations |-> Absent]
  /\ capability' = capability + 1
  /\ Untold /\ UNCHANGED <<broken, announces, device, events, told>>

ChangePolicy(policy) ==
  /\ SetPermissions(policy)
  /\ capability' = capability + 1 /\ announces' = TRUE
  /\ Untold /\ UNCHANGED <<current, conn, broken, keys, device, events, told>>

ResetDevice ==
  /\ Reset(Idle) /\ Neutral(~incomplete')
  /\ UNCHANGED <<hosts, talk, keys, running, ran, events, told>>

ConfigureDevice ==
  /\ Geometry(Idle)
  /\ IF HasGeometry THEN Neutral(TRUE) ELSE UNCHANGED <<line, pressed>>
  /\ UNCHANGED <<hosts, talk, keys, running, ran, events, told>>

\* The end of a transition: a connection goes on to its hello, a change of policy
\* to its update.
LeaveGate ==
  /\ Release
  /\ conn' = [c \in Connections |-> IF conn[c].at = "joining" /\ conn[c].gen = gen
                                     THEN [conn[c] EXCEPT !.at = "hello"] ELSE conn[c]]
  /\ announces' = FALSE
  /\ updates' = IF announces /\ current # Nobody THEN updates \cup {Payload(current)}
                ELSE updates
  /\ UNCHANGED <<current, broken, capability, media, sender, outbox, sent, view, keys, device,
                 events, told>>

\* A read fails whenever the network, the watchdog, the deadline or the connection that has
\* replaced this one wants it to.
Leaves(c) == At(c, "ending") \/ At(c, "loop")

\* Wrong: a connection that has been replaced clears the one that has replaced it.
EndAnother(c) ==
  /\ Leaves(c) /\ Over(c)
  /\ \/ current = c /\ Disconnect /\ capability' = capability + 1
     \/ current # c /\ gate = "free" /\ UNCHANGED <<control, capability>>
  /\ current' = Nobody
  /\ Untold /\ UNCHANGED <<announces, keys, device, events, told>>

\* clearCurrent, unless it has been replaced.
End(c) ==
  /\ Leaves(c) /\ Over(c)
  /\ \/ current = c /\ Disconnect /\ current' = Nobody /\ capability' = capability + 1
     \/ current # c /\ gate = "free" /\ UNCHANGED <<control, current, capability>>
  /\ Untold /\ UNCHANGED <<announces, keys, device, events, told>>

CloseAdmission ==
  /\ Shutdown
  /\ UNCHANGED <<hosts, talk, keys, device, events, told>>

\* shutdownResources closes the socket of the session it ends.
CloseSession ==
  /\ ShutdownResources
  /\ current' = Nobody /\ capability' = capability + 1
  /\ broken' = IF current = Nobody THEN broken ELSE broken \cup {current}
  /\ Untold /\ UNCHANGED <<conn, announces, keys, device, events, told>>

-----------------------------------------------------------------------------
(* Frames.                                                                 *)

Quiet == UNCHANGED <<current, broken, announces, talk>>
Closed == closing # "open"
Pass(c) == conn[c].permit
Of(c) == keys[conn[c].frame.op]

\* The handler takes a result to the place where it goes on.
Takes(c, result, place) == conn' = [conn EXCEPT ![c].at = place, ![c].result = result]

\* A button has no operation, and a cancellation no sequence; a press is the first one.
Sendable == [kind: {"down", "up"}, op: {Nobody}, step: {1}]
            \cup [kind: {"press", "cancel"}, op: Operations, step: {1}]
            \cup [kind: {"repeat"}, op: Operations, step: Steps]

\* Where a frame goes: a cancellation needs no permission, only a key operation has a
\* receipt.
Route(kind) ==
  IF kind = "cancel" THEN "cancel"
  ELSE IF ~Allowed("input") THEN "write"
  ELSE IF kind \in {"down", "up"} THEN "gate" ELSE "reserve"

\* Wrong: a frame is routed for whoever sent it.
FrameOfAnyone(c, kind, o, s) ==
  /\ At(c, "loop") /\ c \notin broken /\ ~Closed
  /\ events < MaxEvents /\ events' = events + 1
  /\ conn' = [conn EXCEPT ![c] = [at |-> Route(kind), gen |-> @.gen, result |-> "rejected",
                 frame |-> [kind |-> kind, op |-> o, step |-> s, id |-> events + 1],
                 permit |-> Permit("input")]]
  /\ Quiet /\ UNCHANGED <<control, keys, device, told>>

\* routeGeneration: frames of a connection that is not the current one are dropped.
Frame(c, kind, o, s) ==
  /\ At(c, "loop") /\ c \notin broken /\ ~Closed
  /\ current = c /\ gen = conn[c].gen
  /\ events < MaxEvents /\ events' = events + 1
  /\ conn' = [conn EXCEPT ![c] = [at |-> Route(kind), gen |-> @.gen, result |-> "rejected",
                 frame |-> [kind |-> kind, op |-> o, step |-> s, id |-> events + 1],
                 permit |-> Permit("input")]]
  /\ Quiet /\ UNCHANGED <<control, keys, device, told>>

\* Wrong: a cancellation leaves the operation active.
CancelLightly(c) ==
  /\ At(c, "cancel")
  /\ LET o == Of(c) IN
     IF o.epoch # Pass(c).epoch
     THEN Takes(c, "rejected", "write") /\ UNCHANGED keys
     ELSE /\ Takes(c, "cancelled", "write")
          /\ keys' = [keys EXCEPT ![conn[c].frame.op].state = "cancelled"]
  /\ Quiet /\ UNCHANGED <<control, device, events, told>>

\* routeKeyOperation (cancel): under dispatchMu.
Cancel(c) ==
  /\ At(c, "cancel")
  /\ LET o == Of(c) IN
     IF o.epoch # Pass(c).epoch
     THEN Takes(c, "rejected", "write") /\ UNCHANGED keys
     ELSE /\ Takes(c, "cancelled", "write")
          /\ keys' = [keys EXCEPT ![conn[c].frame.op].state = "cancelled",
                                  ![conn[c].frame.op].active = FALSE]
  /\ Quiet /\ UNCHANGED <<control, device, events, told>>

Repeats(o) == o.next - 2
Full == Cardinality({o \in Operations : keys[o].epoch # 0}) >= Limit

\* A press may begin an operation, a repeat go on with one of the same session; a press
\* that is repeated, and a sequence that is known, are answered from what is recorded.
Unfit(c) ==
  LET f == conn[c].frame  o == Of(c) IN
  IF o.epoch = 0 THEN f.kind = "repeat" \/ Full
  ELSE \/ o.epoch # Pass(c).epoch
       \/ f.kind = "repeat" /\ (~o.active \/ f.step > o.next)

Known(c) == LET f == conn[c].frame IN
            Of(c).epoch # 0 /\ (f.kind = "press" \/ f.step < Of(c).next)

Recorded(c) ==
  LET f == conn[c].frame  o == Of(c) IN
  IF o.receipts[f.step] # "none" THEN o.receipts[f.step]
  ELSE IF f.kind = "repeat" THEN "rejected"
  ELSE IF o.state = "pending" THEN "uncertain" ELSE o.state

\* Wrong: a sequence that is known is sent again.
ReserveAgain(c) ==
  /\ At(c, "reserve")
  /\ LET f == conn[c].frame  o == Of(c) IN
     \/ Unfit(c) /\ Takes(c, "rejected", "write") /\ UNCHANGED keys
     \/ ~Unfit(c) /\ Known(c) /\ Goes(c, "admit") /\ UNCHANGED keys
     \/ /\ ~Unfit(c) /\ o.epoch = 0
        /\ keys' = [keys EXCEPT ![f.op] = [Absent EXCEPT !.epoch = Pass(c).epoch,
                                  !.active = TRUE, !.state = "pending", !.next = 2]]
        /\ Goes(c, "admit")
     \/ /\ ~Unfit(c) /\ o.epoch # 0 /\ ~Known(c) /\ Repeats(o) < Limit
        /\ keys' = [keys EXCEPT ![f.op].next = @ + 1] /\ Goes(c, "admit")
  /\ Quiet /\ UNCHANGED <<control, device, events, told>>

\* routeKeyOperation, under s.mu.
Reserve(c) ==
  /\ At(c, "reserve")
  /\ LET f == conn[c].frame  o == Of(c) IN
     \/ Unfit(c) /\ Takes(c, "rejected", "write") /\ UNCHANGED keys
     \/ ~Unfit(c) /\ Known(c) /\ Takes(c, Recorded(c), "write") /\ UNCHANGED keys
     \/ /\ ~Unfit(c) /\ o.epoch = 0
        /\ keys' = [keys EXCEPT ![f.op] = [Absent EXCEPT !.epoch = Pass(c).epoch,
                                  !.active = TRUE, !.state = "pending", !.next = 2]]
        /\ Goes(c, "admit")
     \/ /\ ~Unfit(c) /\ o.epoch # 0 /\ ~Known(c) /\ Repeats(o) < Limit
        /\ keys' = [keys EXCEPT ![f.op].next = @ + 1] /\ Goes(c, "admit")
     \/ /\ ~Unfit(c) /\ o.epoch # 0 /\ ~Known(c) /\ Repeats(o) >= Limit
        /\ keys' = [keys EXCEPT ![f.op].active = FALSE, ![f.op].state = "rejected"]
        /\ Takes(c, "rejected", "write")
  /\ Quiet /\ UNCHANGED <<control, device, events, told>>

\* What a sequence leaves behind: it is recorded, and only a success lets the next one
\* through.
Note(o, step, result) ==
  LET ended == o.state = "cancelled" IN
  [o EXCEPT !.receipts[step] = result,
            !.active = @ /\ result = "executed",
            !.state = IF ended THEN @ ELSE result]

\* admitActionProvider and finishQueuedAction: there is nothing to record when the
\* operation is gone.
Admit(c) ==
  LET f == conn[c].frame  o == Of(c) IN
  /\ At(c, "admit")
  /\ IF o.epoch # 0 /\ o.active
     THEN Goes(c, "gate") /\ UNCHANGED keys
     ELSE /\ Takes(c, "rejected", "write")
          /\ keys' = IF o.epoch = 0 THEN keys
                     ELSE [keys EXCEPT ![f.op] = Note(o, f.step, "rejected")]
  /\ Quiet /\ UNCHANGED <<control, device, events, told>>

\* runLifecycleMutation.  Buttons are only queued; a key operation keeps the gate until
\* the device has answered, or for two seconds.
Enter(c) ==
  LET f == conn[c].frame
      item == [from |-> c, frame |-> f]
      plain == f.kind \in {"down", "up"}
      barred == Closed \/ ~Honoured(Pass(c))
  IN
  /\ At(c, "gate") /\ gate = "free"
  /\ \/ barred /\ plain /\ Closed /\ Rests(c, "loop") /\ UNCHANGED <<gate, line>>
     \/ barred /\ plain /\ ~Closed /\ Goes(c, "write") /\ UNCHANGED <<gate, line>>
     \/ barred /\ ~plain /\ Takes(c, "rejected", "finish") /\ UNCHANGED <<gate, line>>
     \/ ~barred /\ plain /\ line' = Append(line, item) /\ Rests(c, "loop") /\ UNCHANGED gate
     \/ ~barred /\ ~plain /\ line' = Append(line, item) /\ Goes(c, "run") /\ gate' = c
  /\ Quiet /\ UNCHANGED <<todo, session, incomplete, closing, keys, running, pressed, ran, events,
                          told>>

\* The loop drops an operation whose context is over.
Withdrawn(item) ==
  \/ (\A k \in DOMAIN line : line[k] # item) /\ UNCHANGED line
  \/ \E k \in DOMAIN line :
       line[k] = item /\ line' = SubSeq(line, 1, k - 1) \o SubSeq(line, k + 1, Len(line))

\* Wrong: what has been waited for long enough is taken not to have happened.
TimeoutRejects(c) ==
  LET item == [from |-> c, frame |-> conn[c].frame] IN
  /\ At(c, "run")
  /\ Withdrawn(item)
  /\ Takes(c, "rejected", "finish")
  /\ gate' = "free"
  /\ Quiet /\ UNCHANGED <<todo, session, incomplete, closing, keys, running, pressed, ran, events,
                          told>>

\* SpecialAction, ComboAction: the wait is over.  What waits in the line is not begun.
Timeout(c) ==
  LET item == [from |-> c, frame |-> conn[c].frame] IN
  /\ At(c, "run")
  /\ Withdrawn(item)
  /\ Takes(c, "uncertain", "finish")
  /\ gate' = "free"
  /\ Quiet /\ UNCHANGED <<todo, session, incomplete, closing, keys, running, pressed, ran, events,
                          told>>

\* The result is recorded, unless the operation belongs to another session by now.
Finish(c) ==
  LET f == conn[c].frame  o == Of(c) IN
  /\ At(c, "finish") /\ Goes(c, "write")
  /\ keys' = IF o.epoch # Pass(c).epoch THEN keys
             ELSE [keys EXCEPT ![f.op] = Note(o, f.step, conn[c].result)]
  /\ Quiet /\ UNCHANGED <<control, device, events, told>>

\* writeActionReceipt, rejectInput: under capabilitySendMu.
Write(c) ==
  LET f == conn[c].frame IN
  /\ At(c, "write") /\ sender = Nobody
  /\ \/ /\ c \notin broken /\ Rests(c, "loop")
        /\ told' = IF f.kind \in {"down", "up"} THEN told
                   ELSE told \cup {[from |-> c, frame |-> f, result |-> conn[c].result,
                                    ran |-> Len(ran)]}
     \/ Rests(c, "ending") /\ UNCHANGED told
  /\ UNCHANGED <<control, current, broken, announces, talk, keys, device, events>>

-----------------------------------------------------------------------------
Handle(c) ==
  \/ Hello(c) \/ Greet(c) \/ Cancel(c) \/ Reserve(c) \/ Admit(c) \/ Enter(c) \/ Timeout(c)
  \/ Finish(c) \/ Write(c) \/ Open(c) \/ End(c)

Injector == InjectorBegins \/ InjectorRefuses \/ InjectorEnds \/ LateReset

Next ==
  \/ \E c \in Connections : Handle(c)
  \/ \E c \in Connections, f \in Sendable : Frame(c, f.kind, f.op, f.step)
  \/ \E u \in updates : Send(u)
  \/ Written
  \/ \E e \in {0, epoch} : Observe(e)
  \/ \E o \in media.open : Observed(o)
  \/ GeometryRefused \/ JoinSession \/ ResetDevice \/ ConfigureDevice \/ LeaveGate
  \/ \E p \in Policies : ChangePolicy(p)
  \/ CloseAdmission \/ CloseSession
  \/ Injector

Spec == Init /\ [][Next]_vars

-----------------------------------------------------------------------------
(* Properties.                                                             *)

Same(i, j) == i.from = j.from /\ i.frame.op = j.frame.op /\ i.frame.step = j.frame.step

\* The sequences of a key operation reach the device once each and in order, and the
\* one after it only when the device has carried out the one before it, however often
\* the phone sends them and whenever it reconnects (routeKeyOperation).
KeysInOrder ==
  \A j \in DOMAIN ran :
    /\ \A i \in 1..(j - 1) : ~Same(ran[i], ran[j])
    /\ ran[j].frame.step > 1 =>
         \E i \in 1..(j - 1) : Same(ran[i], [ran[j] EXCEPT !.frame.step = @ - 1])

\* A receipt is true: what is said to be executed has been begun, and a frame that is
\* said to be rejected has had no effect and will have none (executeKeyAction).
ReceiptsTrue ==
  \A t \in told :
    /\ t.result = "executed" => \E i \in DOMAIN ran : Same(ran[i], t)
    /\ t.result = "rejected" => \A i \in DOMAIN ran : ran[i].frame # t.frame

\* When the phone has heard that an operation is cancelled, no sequence of it is begun
\* any more (routeKeyOperation, admitActionProvider).
CancelStops ==
  \A t \in told : t.result = "cancelled" =>
    \A i \in DOMAIN ran : (ran[i].from = t.from /\ ran[i].frame.op = t.frame.op) => i <= t.ran

\* After a transition whose reset is confirmed, and until the next one, the device does
\* and keeps nothing that is not of the session in force, and nothing at all while input
\* is not granted (setCurrent, clearCurrent, SetPermissions, routeGeneration).
Present == ({line[i].from : i \in DOMAIN line} \cup {running.from, pressed}) \ {Nobody}
SessionsQuiet ==
  (gate \in {"free"} \cup Connections /\ closing = "open" /\ ~incomplete) =>
    /\ Present \subseteq {current}
    /\ "input" \notin granted => Present = {}

\* When nothing is on its way to the phone, what it knows of the policy and of the media
\* is what is in force (sendCapabilityUpdate, observeMedia, SetPermissions, handleWS).
ViewSound ==
  (/\ gate = "free" /\ updates = {} /\ sender = Nobody
   /\ current # Nobody /\ current \notin broken /\ view[current].revision # 0)
  => /\ view[current].policy = granted
     /\ view[current].media = media.applied
     /\ view[current].epoch = epoch
=============================================================================
