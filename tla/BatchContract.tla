---------------------------- MODULE BatchContract ----------------------------
(***************************************************************************)
(* What the upload store promises of one batch identity, whatever happens  *)
(* between two of its disk effects: a batch is received under one          *)
(* manifest, then either stored under that manifest for good or cancelled, *)
(* and only a stage whose TTL has elapsed is forgotten.  A fault may leave *)
(* a stage nobody can use (broken); it never turns a batch into one that   *)
(* is stored, nor revives one that was cancelled.                          *)
(***************************************************************************)
EXTENDS Naturals

CONSTANTS Batches, Manifests, NoManifest, TTL

VARIABLES
  phase,    \* phase[b]: absent, receiving, cancelled, stored or broken
  content,  \* content[b]: the manifest the identity stands for, if any
  age       \* age[b]: ticks since the last recorded activity (an input)

visible == <<phase, content>>

Become(b, p, m) ==
  /\ phase' = [phase EXCEPT ![b] = p]
  /\ content' = [content EXCEPT ![b] = m]

Init ==
  /\ phase = [b \in Batches |-> "absent"]
  /\ content = [b \in Batches |-> NoManifest]

Receive(b, m) == phase[b] = "absent" /\ Become(b, "receiving", m)

Store(b) == phase[b] = "receiving" /\ Become(b, "stored", content[b])

Cancel(b) == phase[b] = "receiving" /\ Become(b, "cancelled", content[b])

\* A creation, a chunk, a cancellation or a publication was interrupted.
Break(b) == phase[b] \in {"absent", "receiving"} /\ Become(b, "broken", NoManifest)

\* Expiry, and the removal of the stage once it has begun.
Expire(b) ==
  /\ phase[b] \in {"receiving", "cancelled"} /\ age[b] >= TTL
  /\ Become(b, "broken", NoManifest)

Forget(b) == phase[b] = "broken" /\ age[b] >= TTL /\ Become(b, "absent", NoManifest)

Next ==
  \E b \in Batches :
    \/ \E m \in Manifests : Receive(b, m)
    \/ Store(b) \/ Cancel(b) \/ Break(b) \/ Expire(b) \/ Forget(b)

Spec == Init /\ [][Next]_visible
=============================================================================
