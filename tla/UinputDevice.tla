---------------------------- MODULE UinputDevice ----------------------------
(***************************************************************************)
(* The phone's input device on Linux (daemon/internal/input/input.go): the *)
(* virtual touchpad, the linear pointer that takes single fingers away     *)
(* from it while a native lease holds (linear_touch.go,                    *)
(* mutter_motion_linux.go), a mouse and a keyboard.  The injector calls    *)
(* one operation at a time, and every one holds d.mu: operations are       *)
(* steps.  What is hard is that any call to the kernel or to the           *)
(* compositor may fail half-way, and that its error is only logged.        *)
(*                                                                         *)
(* The touch side is a record, and an operation on it the set of the       *)
(* records it may leave behind; likewise the mouse and the keyboard.       *)
(***************************************************************************)
EXTENDS Touchpad

CONSTANTS
  Buttons,    \* mouse buttons
  Keys,       \* key codes
  Modifiers,  \* those of them that are modifiers
  MaxFaults   \* bound: operations of which a call fails

ASSUME DeviceAssumption == Modifiers \subseteq Keys /\ MaxFaults \in Nat

VARIABLES
  touch,   \* the touchpad, the linear pointer, and its native lease
  mouse,   \* the buttons that are down, and those remembered (btns)
  kbd,     \* the keys that are down, and those remembered (held)
  did,     \* history: the last operation, and whether a call of it failed
  faults   \* how many have

vars == <<touch, mouse, kbd, did, faults>>

-----------------------------------------------------------------------------
(* Types.                                                                  *)

\* linear is d.linear # nil; prev .. blocked are linearTouch's, tapped its lastTap; lease is
\* FALSE once a call has failed (failed); native is the button as the compositor has it.
\* History: seen, the fingers since all were up, the gesture was cancelled or its finger
\* exchanged for another; split, whether a lease has been taken since then; clicked, the
\* fingers of the last press.
Sides == [pad: Pads, linear: BOOLEAN, prev: Contacts \cup {Free}, moved: BOOLEAN,
          multi: BOOLEAN, down: BOOLEAN, blocked: BOOLEAN, tapped: BOOLEAN,
          lease: BOOLEAN, native: BOOLEAN, seen: SUBSET Contacts, split: BOOLEAN,
          clicked: SUBSET Contacts, failed: BOOLEAN]

\* A new linearTouch with a new lease.
Leased(t) == [t EXCEPT !.prev = Free, !.moved = FALSE, !.multi = FALSE, !.down = FALSE,
                       !.blocked = FALSE, !.tapped = FALSE, !.lease = TRUE, !.native = FALSE]

TypeOK ==
  /\ touch \in Sides
  /\ mouse \in [down: SUBSET Buttons, held: SUBSET Buttons, failed: BOOLEAN]
  /\ kbd \in [down: SUBSET Keys, held: SUBSET Keys, failed: BOOLEAN]
  /\ did \in [op: {"reset", "other"}, failed: BOOLEAN] /\ faults \in 0..MaxFaults
  /\ touch.multi => touch.prev = Free
  /\ touch.down => touch.linear
  \* What may be down is remembered: an error leaves its key or button among those.
  /\ mouse.down \subseteq mouse.held /\ kbd.down \subseteq kbd.held
  /\ IsInjective([s \in {t \in Slots : touch.pad.slots[t] # Free} |-> touch.pad.slots[s]])

NoSide(linear) ==
  [pad |-> FreshPad, linear |-> linear, prev |-> Free, moved |-> FALSE, multi |-> FALSE,
   down |-> FALSE, blocked |-> FALSE, tapped |-> FALSE, lease |-> linear, native |-> FALSE,
   seen |-> {}, split |-> FALSE, clicked |-> {}, failed |-> FALSE]

\* The native lease can be taken at the start or never.
Init ==
  /\ \E linear \in BOOLEAN : touch = NoSide(linear)
  /\ mouse = [down |-> {}, held |-> {}, failed |-> FALSE]
  /\ kbd = [down |-> {}, held |-> {}, failed |-> FALSE]
  /\ did = [op |-> "other", failed |-> FALSE] /\ faults = 0

-----------------------------------------------------------------------------
(* The native pointer (mutterMotion).                                      *)

\* History: the fingers of a gesture in which no lease has been taken.
Whole(t) == IF t.split THEN {} ELSE t.seen

\* A call that fails ends the lease; a button may have gone down all the same.
Press(t) ==
  IF ~t.lease THEN {[t EXCEPT !.failed = TRUE]}
  ELSE {[t EXCEPT !.native = TRUE, !.clicked = Whole(t)]}
       \cup {[t EXCEPT !.native = n, !.clicked = Whole(t), !.lease = FALSE, !.failed = TRUE]
             : n \in {TRUE, t.native}}

Move(t) == {[t EXCEPT !.lease = FALSE, !.failed = TRUE]} \cup (IF t.lease THEN {t} ELSE {})

\* release: a button that cannot be let go of blocks the linear pointer.
Release(t) ==
  IF ~t.down THEN {t}
  ELSE {[t EXCEPT !.down = FALSE, !.native = FALSE]}
       \cup {[t EXCEPT !.down = FALSE, !.native = n, !.blocked = TRUE, !.failed = TRUE]
             : n \in {FALSE, t.native}}

\* Frames and cancellations of the touchpad, within the whole.
OnPad(t, pads) == {[t EXCEPT !.pad = p, !.failed = @ \/ p.desynced] : p \in pads}

\* d.mt.touch and d.mt.cancel, as linearTouch is given them too.
MultiTouch(t, cs) == OnPad(t, Touched(t.pad, cs))
CancelMulti(t) == OnPad(t, Cancelled(t.pad))

-----------------------------------------------------------------------------
(* linearTouch.                                                            *)

Idle(t) == t.prev = Free /\ ~t.multi /\ ~t.down

Cancel(t) ==
  {[u EXCEPT !.prev = Free, !.multi = FALSE, !.tapped = FALSE]
   : u \in UNION {CancelMulti(r) : r \in Release(t)}}

\* Wrong: a gesture is one of several fingers only while there are several.
SeveralNow(t, cs) == Len(cs) > 1

\* A gesture that has had several fingers stays one until all are up.
Several(t, cs) == Len(cs) > 1 \/ t.multi

\* Several fingers are the recognizer's.
Gestures(t, cs) ==
  {[u EXCEPT !.multi = Len(cs) # 0]
   : u \in UNION {MultiTouch(r, cs)
                  : r \in IF t.multi THEN {t}
                          ELSE {[q EXCEPT !.prev = Free, !.tapped = FALSE] : q \in Release(t)}}}

\* The finger is up: the end of a drag, a click if it was quick and did not move, or
\* nothing.
Lifts(t) ==
  LET clicks == {[r EXCEPT !.blocked = @ \/ ~r.lease, !.tapped = ~(r.blocked \/ ~r.lease)]
                 : r \in UNION {Release([p EXCEPT !.down = TRUE]) : p \in Press(t)}}
  IN {[u EXCEPT !.prev = Free]
      : u \in IF t.prev = Free THEN {t}
              ELSE IF t.down THEN Release(t)
              ELSE {t} \cup (IF t.moved THEN {} ELSE clicks)}

\* The finger is down: soon and close after a click it drags.
Lands(t, c) ==
  LET drags == UNION {IF p.lease THEN {[p EXCEPT !.down = TRUE]}
                      ELSE Release([p EXCEPT !.down = TRUE, !.blocked = TRUE])
                      : p \in Press([t EXCEPT !.moved = FALSE])}
  IN {[u EXCEPT !.prev = c, !.tapped = FALSE]
      : u \in {[t EXCEPT !.moved = FALSE]} \cup (IF t.tapped THEN drags ELSE {})}

\* The finger moves, unless it has not.
Slides(t, c) ==
  {[u EXCEPT !.prev = c]
   : u \in {t} \cup UNION {IF m.lease THEN {m} ELSE Release([m EXCEPT !.blocked = TRUE])
                           : m \in UNION {Move([t EXCEPT !.moved = v]) : v \in {t.moved, TRUE}}}}

\* linearTouch.frame: what is blocked is left to the touchpad; a finger in the place of
\* another, without a release, is a cancellation.
LinearFrame(t, cs) ==
  CASE t.blocked -> MultiTouch(t, cs)
    [] ~t.blocked /\ Several(t, cs) -> Gestures(t, cs)
    [] ~t.blocked /\ ~Several(t, cs) /\ cs = <<>> -> Lifts(t)
    [] ~t.blocked /\ ~Several(t, cs) /\ cs # <<>> /\ t.prev = Free -> Lands(t, cs[1])
    [] ~t.blocked /\ ~Several(t, cs) /\ cs # <<>> /\ t.prev = cs[1] -> Slides(t, cs[1])
    [] OTHER -> {[u EXCEPT !.seen = {}, !.split = FALSE] : u \in Cancel(t)}

\* recoverLinearLocked: taking a new lease ends the old one, which lets go of its button.
Recover(t) ==
  {[t EXCEPT !.failed = TRUE], [Leased(t) EXCEPT !.split = @ \/ t.seen # {}]}

-----------------------------------------------------------------------------
(* Operations of the device.                                               *)

\* Each starts with no failure of its own.
Clean(t) == [t EXCEPT !.clicked = {}]
Done(k) == [k EXCEPT !.failed = FALSE]
Ends(op, failed) ==
  /\ did' = [op |-> op, failed |-> failed]
  /\ faults' = faults + (IF failed THEN 1 ELSE 0) /\ faults' <= MaxFaults
Other(failed) == Ends("other", failed)

\* The history of the fingers: those of this frame count for what it does.
Seeing(t, cs) == [t EXCEPT !.seen = @ \cup Range(cs)]
Seen(t, cs) == IF cs = <<>> THEN [t EXCEPT !.seen = {}, !.split = FALSE] ELSE t

\* Touch: a lost lease is taken again when no finger is down, as far as linearTouch knows.
TouchFrame(cs) ==
  LET t == Clean(touch)
      ready == IF t.linear /\ t.blocked /\ Idle(t) /\ cs # <<>> THEN Recover(t) ELSE {t}
  IN
  /\ \E u \in UNION {IF r.linear THEN LinearFrame(Seeing(r, cs), cs)
                      ELSE MultiTouch(Seeing(r, cs), cs) : r \in ready} :
       touch' = Done(Seen(u, cs)) /\ Other(u.failed)
  /\ UNCHANGED <<mouse, kbd>>

Forgotten(t) == [t EXCEPT !.seen = {}, !.split = FALSE]
LinearCancel(t) == IF t.linear THEN Cancel(t) ELSE {t}

CancelTouch ==
  /\ \E u \in UNION {CancelMulti(r) : r \in LinearCancel(Clean(touch))} :
       touch' = Done(Forgotten(u)) /\ Other(u.failed)
  /\ UNCHANGED <<mouse, kbd>>

\* ApplyPointerGeometry: a new touchpad takes the place of the old one, or cannot be made.
ApplyPointerGeometry ==
  /\ \E u \in UNION {CancelMulti(r) : r \in LinearCancel(Clean(touch))} :
       touch' = Done(Forgotten([u EXCEPT !.pad = FreshPad])) /\ Other(u.failed)
  /\ UNCHANGED <<mouse, kbd>>

\* Buttons and keys, one after another: an error may come after the event, and is
\* remembered, and the others follow all the same.
Went(xs, errors) == {sent \in SUBSET xs : xs \ errors \subseteq sent}
Downs(k, xs) ==
  UNION {{[k EXCEPT !.down = @ \cup went, !.held = @ \cup xs, !.failed = @ \/ errors # {}]
          : went \in Went(xs, errors)} : errors \in SUBSET xs}

\* Wrong: a release that fails is forgotten.
UpsForgetting(k, xs) ==
  UNION {{[k EXCEPT !.down = @ \ went, !.held = @ \ xs, !.failed = @ \/ errors # {}]
          : went \in Went(xs, errors)} : errors \in SUBSET xs}

Ups(k, xs) ==
  UNION {{[k EXCEPT !.down = @ \ went, !.held = (@ \ xs) \cup errors, !.failed = @ \/ errors # {}]
          : went \in Went(xs, errors)} : errors \in SUBSET xs}

\* keyPressResult: a press that fails half-way leaves the key down.
Stroke(k, x) ==
  {[k EXCEPT !.down = @ \ {x}]}
  \cup {[k EXCEPT !.down = d, !.held = @ \cup {x}, !.failed = TRUE]
        : d \in {k.down, k.down \cup {x}, k.down \ {x}}}

Button(b, down) ==
  /\ \E m \in IF down THEN Downs(mouse, {b}) ELSE Ups(mouse, {b}) :
       mouse' = Done(m) /\ Other(m.failed)
  /\ UNCHANGED <<touch, kbd>>

\* comboResultLocked: the modifiers in order, the key unless it is unknown, and the
\* modifiers back; or those up to the first that fails.
AllDown(k, xs) == [k EXCEPT !.down = @ \cup Range(xs), !.held = @ \cup Range(xs)]
Struck(k, mods, key) == IF key \in Keys THEN Stroke(AllDown(k, mods), key) ELSE {AllDown(k, mods)}
Stopped(k, mods, n) == {j \in Downs(AllDown(k, SubSeq(mods, 1, n - 1)), {mods[n]}) : j.failed}

Combo(mods, key) ==
  LET whole == UNION {Ups(j, Range(mods)) : j \in Struck(kbd, mods, key)}
      part(n) == UNION {Ups(j, Range(SubSeq(mods, 1, n))) : j \in Stopped(kbd, mods, n)}
  IN
  /\ \E j \in whole \cup UNION {part(n) : n \in DOMAIN mods} : kbd' = Done(j) /\ Other(j.failed)
  /\ UNCHANGED <<touch, mouse>>

\* Text: a character and its modifier, whatever fails.
Character(mods, key) ==
  /\ \E j \in UNION {Ups(p, Range(mods))
                      : p \in UNION {Stroke(d, key) : d \in Downs(kbd, Range(mods))}} :
       kbd' = Done(j) /\ Other(j.failed)
  /\ UNCHANGED <<touch, mouse>>

\* Wrong: a lost lease stays lost until the next gesture.
ResetBlocked(t) == {t}

\* Reset: a lost lease is taken again.
ResetLease(t) == IF t.linear /\ t.blocked THEN Recover(t) ELSE {t}

Reset ==
  LET AllUps(k) == Ups(k, k.held)
      sides == UNION {CancelMulti(r) : r \in LinearCancel(Clean(touch))}
  IN
  \E u \in UNION {ResetLease(Forgotten(t)) : t \in sides}, m \in AllUps(mouse), k \in AllUps(kbd) :
    /\ touch' = Done(u) /\ mouse' = Done(m) /\ kbd' = Done(k)
    /\ Ends("reset", u.failed \/ m.failed \/ k.failed)

-----------------------------------------------------------------------------
\* At most two modifiers.
Chords == {mods \in SeqOf(Modifiers, 2) : IsInjective(mods)}

Next ==
  \/ \E cs \in Snapshots : TouchFrame(cs)
  \/ CancelTouch \/ ApplyPointerGeometry \/ Reset
  \/ \E b \in Buttons, down \in BOOLEAN : Button(b, down)
  \/ \E mods \in Chords, key \in Keys \cup {Free} : Combo(mods, key)
  \/ \E mods \in Chords, key \in Keys \ Modifiers : Character(mods, key)

Spec == Init /\ [][Next]_vars

-----------------------------------------------------------------------------
(* Properties.                                                             *)

\* Unless the daemon knows that it does not know, the kernel holds exactly the contacts
\* that the daemon believes it to hold, each as a finger, and the bits that go with their
\* number: whatever has failed before, and however often (mtTouchpad).
PadSound ==
  LET p == touch.pad IN
  ~p.desynced =>
    /\ p.track = p.slots
    /\ \A s \in p.palms : p.slots[s] = Free
    /\ p.bits = IF p.count = 0 THEN {} ELSE {0, p.count}
    /\ p.count = Cardinality({s \in Slots : p.slots[s] # Free})

\* A reset none of whose calls has failed leaves nothing down: no contact, no button, of
\* the mouse or of the native pointer, and no key, whatever has failed before it (Reset).
ResetReleases ==
  (did.op = "reset" /\ ~did.failed) =>
    /\ touch.pad.track = Nothing /\ touch.pad.bits = {}
    /\ ~touch.native /\ mouse.down = {} /\ kbd.down = {}

\* The native button goes down only for one finger: never at the end, or in the middle, of
\* a gesture that has had several at once, or one after another (linearTouch.frame).  Two
\* things the code does are excluded.  If a lease has been taken in the middle of a
\* gesture, the rest of it may click.  And a cancellation, be it asked for or because one
\* finger has taken the place of another, begins a gesture of its own: of the frames {1},
\* {2}, {2}, {} the second cancels, and the last may click for finger 2.
OneFingerClicks == Cardinality(touch.clicked) <= 1
=============================================================================
