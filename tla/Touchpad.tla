------------------------------ MODULE Touchpad ------------------------------
(***************************************************************************)
(* The virtual touchpad: what the daemon believes its slots to hold        *)
(* (mtState, daemon/internal/input/touchpad.go), the frames it writes, and *)
(* what the kernel has made of them (mtTouchpad, touchpad_linux.go).  A    *)
(* write may stop after any number of its events.  Positions are left out: *)
(* they decide nothing here.                                               *)
(*                                                                         *)
(* A pad is a record; an operation on it is the set of the pads it may     *)
(* leave behind.  UinputDevice puts the operations together.               *)
(***************************************************************************)
EXTENDS Naturals, Sequences, FiniteSets, SequencesExt

CONSTANTS
  Contacts,   \* contact IDs
  MaxSlots,   \* maxSlots
  Free        \* no contact

ASSUME TouchpadAssumption == MaxSlots \in Nat \ {0} /\ Free \notin Contacts

Slots == 1..MaxSlots
Tools == 1..MaxSlots
Bits == Tools \cup {0}       \* 0 stands for BTN_TOUCH

Held == [Slots -> Contacts \cup {Free}]
Nothing == [s \in Slots |-> Free]

\* The daemon's side: slots, count, desynced; the kernel's: track, palms, bits.
Pads == [slots: Held, count: 0..MaxSlots, desynced: BOOLEAN,
         track: Held, palms: SUBSET Slots, bits: SUBSET Bits]
FreshPad == [slots |-> Nothing, count |-> 0, desynced |-> FALSE,
             track |-> Nothing, palms |-> {}, bits |-> {}]

\* The protocol lets through at most maxContacts contacts, all different.
Snapshots == {cs \in SeqOf(Contacts, MaxSlots) : IsInjective(cs)}

-----------------------------------------------------------------------------
(* Events, and what the kernel does with them.                             *)

Track(s, c) == [event |-> "track", slot |-> s, value |-> c]
Tool(s, palm) == [event |-> "tool", slot |-> s, value |-> palm]
Bit(b, on) == [event |-> "bit", slot |-> b, value |-> on]
Report == [event |-> "report"]
Skip == [event |-> "none"]      \* no event is written
When(condition, e) == IF condition THEN e ELSE Skip

Apply(pad, e) ==
  CASE e.event = "track" -> [pad EXCEPT !.track[e.slot] = e.value]
    [] e.event = "tool" -> [pad EXCEPT !.palms = IF e.value THEN @ \cup {e.slot} ELSE @ \ {e.slot}]
    [] e.event = "bit" -> [pad EXCEPT !.bits = IF e.value THEN @ \cup {e.slot} ELSE @ \ {e.slot}]
    [] OTHER -> pad

\* The pad after so many of the events.
After(pad, events, n) ==
  LET kernel[k \in 0..n] == IF k = 0 THEN pad ELSE Apply(kernel[k - 1], events[k])
  IN kernel[n]

\* writeEvents, of which a prefix may have been consumed when it fails.
Torn(pad, events) ==
  {[After(pad, events, k) EXCEPT !.desynced = TRUE] : k \in 0..(Len(events) - 1)}

\* The snapshot is committed when its events have been written.
Write(pad, events, slots, count) ==
  {[After(pad, events, Len(events)) EXCEPT !.slots = slots, !.count = count,
                                           !.desynced = FALSE]}
  \cup Torn(pad, events)

-----------------------------------------------------------------------------
(* Frames.                                                                 *)

\* Lifts come first; then every contact gets the slot it has, or the first free one.
Lifted(slots, cs) == [s \in Slots |-> IF slots[s] \in Range(cs) THEN slots[s] ELSE Free]
Assign(slots, c) ==
  IF \E s \in Slots : slots[s] = c \/ \A t \in Slots : slots[t] # Free THEN slots
  ELSE [slots EXCEPT ![CHOOSE s \in Slots :
          slots[s] = Free /\ \A t \in 1..(s - 1) : slots[t] # Free] = c]
Assigned(slots, cs) ==
  LET next[k \in 0..Len(cs)] == IF k = 0 THEN Lifted(slots, cs) ELSE Assign(next[k - 1], cs[k])
  IN next[Len(cs)]

\* Lifts, and contacts that start: as fingers, whatever their slot was before.
LiftEvents(old, kept) == [s \in Slots |-> When(old[s] # kept[s], Track(s, Free))]
StartEvents(kept, new) ==
  [i \in 1..(2 * MaxSlots) |->
     LET s == (i + 1) \div 2
     IN When(kept[s] # new[s], IF i % 2 = 1 THEN Tool(s, FALSE) ELSE Track(s, new[s]))]

\* Which tool a number of fingers is, and whether there is a touch at all.
Counted(old, new) ==
  <<When(old # new /\ old > 0, Bit(old, FALSE)), When(old # new /\ new > 0, Bit(new, TRUE)),
    When(old = 0 /\ new > 0, Bit(0, TRUE)), When(old > 0 /\ new = 0, Bit(0, FALSE))>>

\* frame.
FrameEvents(pad, cs) ==
  LET kept == Lifted(pad.slots, cs)
      new == Assigned(pad.slots, cs)
  IN LiftEvents(pad.slots, kept) \o StartEvents(kept, new) \o Counted(pad.count, Len(cs))
     \o <<Report>>

\* The tools, then the touch.
AllUp == [i \in 1..(MaxSlots + 1) |-> Bit(IF i <= MaxSlots THEN i ELSE 0, FALSE)]

\* cancel: palms first, in a report of their own, then the release.
CancelEvents(pad) ==
  LET palms == [s \in Slots |-> When(pad.slots[s] # Free, Tool(s, TRUE))]
  IN IF pad.slots = Nothing THEN <<Report>>
     ELSE palms \o <<Report>> \o LiftEvents(pad.slots, Nothing) \o AllUp \o <<Report>>

\* hardReset trusts nothing that the daemon remembers.
HardResetEvents == [s \in Slots |-> Track(s, Free)] \o AllUp \o <<Report>>

-----------------------------------------------------------------------------
(* mtTouchpad.                                                             *)

Framed(pad, cs) == Write(pad, FrameEvents(pad, cs), Assigned(pad.slots, cs), Len(cs))

\* Wrong: a frame that follows one that failed is written on top of it.
TouchedOver(pad, cs) == Framed(pad, cs)

\* touch: after a frame that failed everything is let go of before the next one.
Touched(pad, cs) ==
  IF ~pad.desynced THEN Framed(pad, cs)
  ELSE UNION {IF p.desynced THEN {p} ELSE Framed(p, cs)
              : p \in Write(pad, HardResetEvents, Nothing, 0)}

\* cancel and reset.
Cancelled(pad) ==
  Write(pad, IF pad.desynced THEN HardResetEvents ELSE CancelEvents(pad), Nothing, 0)
=============================================================================
