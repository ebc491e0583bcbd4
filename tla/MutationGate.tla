---------------------------- MODULE MutationGate ----------------------------
(***************************************************************************)
(* Permissions, control sessions and the gate in front of every effect of  *)
(* the server (capabilities.go, lifecycle.go, and the transitions of       *)
(* server.go).  A request captures a permit when it is admitted; the       *)
(* effect runs later, under mutationGate, and only if the permit still     *)
(* holds then.  A transition changes the session or the policy under the   *)
(* same gate and keeps it until the input device has been reset.           *)
(*                                                                         *)
(* The module has no behaviour of its own: the modules that model effects  *)
(* extend it and say what each section of a transition does to them.  A    *)
(* critical section of s.mu is one step.  Every connection speaks          *)
(* protocol 2, so there is a control connection exactly while there is a   *)
(* session epoch.                                                          *)
(***************************************************************************)
EXTENDS Naturals, Sequences

CONSTANTS
  Policies,       \* the sets of scopes that SetPermissions is called with
  HasGeometry,    \* the device is a PointerGeometryController (uinput is one)
  MaxTransitions  \* bound: transitions the server goes through

Scopes == {"input", "files", "clipboard"}

ASSUME GateAssumption ==
  Policies \subseteq SUBSET Scopes /\ HasGeometry \in BOOLEAN /\ MaxTransitions \in Nat

VARIABLES
  gate,        \* who holds mutationGate: "free", "control", or a request
  todo,        \* what the transition that holds the gate has yet to do
  gen, epoch,  \* s.gen and s.sessionEpoch, 0 for ""
  revision,    \* s.permissionRevision
  granted,     \* the scopes of s.permissions that are granted
  incomplete,  \* s.inputResetIncomplete
  closing      \* s.lifecycleClosing, and whether its cleanup has run

session == <<gen, epoch, revision, granted>>
control == <<gate, todo, session, incomplete, closing>>

Step == {"geometry", "mine", "theirs", "reset"}

GateTypeOK(Requests) ==
  /\ gate \in {"free", "control"} \cup Requests
  /\ todo \in Seq(Step)
  /\ gen \in Nat /\ epoch \in Nat /\ revision \in Nat
  /\ granted \subseteq Scopes
  /\ incomplete \in BOOLEAN
  /\ closing \in {"open", "closing", "closed"}

GateInit ==
  /\ gate = "free" /\ todo = <<>>
  /\ gen = 0 /\ epoch = 0 /\ revision = 0
  /\ granted = Scopes
  /\ incomplete = FALSE /\ closing = "open"

-----------------------------------------------------------------------------
(* Permits.                                                                *)

\* permissionLocked: an incomplete reset makes input unavailable.
Allowed(scope) == scope \in granted /\ (scope = "input" => ~incomplete)
AllowedBy(policy, scope) == scope \in policy /\ (scope = "input" => ~incomplete)

Permit(scope) == [scope |-> scope, revision |-> revision, gen |-> gen, epoch |-> epoch]

\* Wrong: a permit survives the session it was captured in.
HonouredAcross(permit) == Allowed(permit.scope) /\ permit.revision = revision

\* runPermittedMutation: the permit is checked again under the gate.
Honoured(permit) ==
  /\ Allowed(permit.scope)
  /\ permit.revision = revision /\ permit.gen = gen
  /\ permit.epoch # 0 => permit.epoch = epoch

-----------------------------------------------------------------------------
(* The sections of a transition.  Each leaves what the effects keep to the *)
(* module that extends this one.                                           *)

\* The bound: connections, disconnections, policies and the shutdown.
Bounded == gen + revision + (IF closing = "open" THEN 0 ELSE 1) < MaxTransitions

\* setCurrent and clearCurrent apply a pointer geometry, whose ResetContext has
\* no deadline; the session changes before the bounded reset.
Connect(whose) ==
  /\ gate = "free" /\ closing = "open" /\ Bounded
  /\ gate' = "control" /\ todo' = <<"geometry", whose, "reset">>
  /\ UNCHANGED <<session, incomplete, closing>>

Join ==
  /\ todo # <<>> /\ Head(todo) \in {"mine", "theirs"}
  /\ gen' = gen + 1 /\ epoch' = gen + 1
  /\ todo' = Tail(todo)
  /\ UNCHANGED <<gate, revision, granted, incomplete, closing>>

Disconnect ==
  /\ gate = "free" /\ epoch # 0 /\ Bounded
  /\ gen' = gen + 1 /\ epoch' = 0
  /\ gate' = "control" /\ todo' = <<"reset", "geometry">>
  /\ UNCHANGED <<revision, granted, incomplete, closing>>

\* SetPermissions takes input away: reset the device, and its geometry.
Revokes(policy) == Allowed("input") /\ ~AllowedBy(policy, "input")
Restores(policy) == ~Allowed("input") /\ AllowedBy(policy, "input")

SetPermissions(policy) ==
  /\ gate = "free" /\ Bounded
  /\ granted' = policy /\ revision' = revision + 1
  /\ gate' = "control"
  /\ todo' = (IF Revokes(policy) \/ (incomplete /\ "input" \in policy) THEN <<"reset">> ELSE <<>>)
             \o (IF Revokes(policy) \/ Restores(policy) THEN <<"geometry">> ELSE <<>>)
  /\ UNCHANGED <<gen, epoch, incomplete, closing>>

\* Wrong: the reset counts as done although the device is at work.
ResetUnconfirmed(idle) ==
  /\ todo # <<>> /\ Head(todo) = "reset"
  /\ incomplete' \in BOOLEAN
  /\ todo' = Tail(todo)
  /\ UNCHANGED <<gate, session, closing>>

\* resetForTransition: the device confirms, or five seconds are over; the
\* shutdown ends the wait at once.
Reset(idle) ==
  /\ todo # <<>> /\ Head(todo) = "reset"
  /\ incomplete' \in IF idle THEN BOOLEAN ELSE {TRUE}
  /\ todo' = Tail(todo)
  /\ UNCHANGED <<gate, session, closing>>

\* applyPointerGeometry waits for a reset with context.Background(), if the
\* device has a geometry at all.
Geometry(idle) ==
  /\ todo # <<>> /\ Head(todo) = "geometry" /\ (HasGeometry => idle)
  /\ todo' = Tail(todo)
  /\ UNCHANGED <<gate, session, incomplete, closing>>

\* Wrong: a transition whose reset failed returns early, with the gate.
ReleaseAfterSuccess ==
  /\ gate = "control" /\ todo = <<>> /\ ~incomplete
  /\ gate' = "free"
  /\ UNCHANGED <<todo, session, incomplete, closing>>

Release ==
  /\ gate = "control" /\ todo = <<>>
  /\ gate' = "free"
  /\ UNCHANGED <<todo, session, incomplete, closing>>

\* Shutdown closes admission at once; its coordinator ends the session when it
\* gets the gate, and resets the device after it has left it.
Shutdown ==
  /\ closing = "open" /\ Bounded
  /\ closing' = "closing"
  /\ UNCHANGED <<gate, todo, session, incomplete>>

ShutdownResources ==
  /\ closing = "closing" /\ gate = "free"
  /\ closing' = "closed" /\ gen' = gen + 1 /\ epoch' = 0
  /\ UNCHANGED <<gate, todo, revision, granted, incomplete>>
=============================================================================
