----------------------------- MODULE SerialInput -----------------------------
(***************************************************************************)
(* What the serialised injector promises to its callers: the accepted      *)
(* operations reach the device one at a time and in the order of their     *)
(* acceptance.  A reset or an invalidating close is a cut: whatever has    *)
(* not begun by then never begins, and the cut is over only when none of   *)
(* it is left.  After the device is closed nothing is accepted.            *)
(***************************************************************************)
CONSTANTS Ids, NoId

VARIABLES
  waiting,    \* accepted operations that have neither begun nor been dropped
  before,     \* which of those was accepted before which
  running,    \* the operation the device is executing, or NoId
  cutting,    \* a cut is in force: nothing that waits may begin
  ended,      \* the device is closed
  withdrawn   \* operations whose caller has withdrawn them (an input)

line == <<waiting, before>>
visible == <<line, running, cutting, ended>>

Init == waiting = {} /\ before = {} /\ running = NoId /\ ~cutting /\ ~ended

Accept(id) ==
  /\ ~ended /\ id \notin waiting
  /\ waiting' = waiting \cup {id} /\ before' = before \cup (waiting \X {id})
  /\ UNCHANGED <<running, cutting, ended>>

\* The first of the line leaves it.
Leave(id) ==
  /\ id \in waiting /\ \A other \in waiting : <<other, id>> \notin before
  /\ waiting' = waiting \ {id} /\ before' = before \ ({id} \X waiting)

Begin(id) ==
  /\ running = NoId /\ ~cutting /\ ~ended
  /\ Leave(id) /\ running' = id
  /\ UNCHANGED <<cutting, ended>>

Finish == running # NoId /\ running' = NoId /\ UNCHANGED <<line, cutting, ended>>

\* Only a cut, or its own caller, keeps an accepted operation from the device.
Drop(id) == (cutting \/ id \in withdrawn) /\ Leave(id) /\ UNCHANGED <<running, cutting, ended>>

Cut == ~ended /\ cutting' = TRUE /\ UNCHANGED <<line, running, ended>>

\* The device is neutral: nothing older than the cut is running or waiting.
Neutral ==
  /\ cutting /\ waiting = {} /\ running = NoId
  /\ cutting' = FALSE /\ UNCHANGED <<line, running, ended>>

Close ==
  /\ waiting = {} /\ running = NoId /\ ~ended
  /\ ended' = TRUE /\ UNCHANGED <<line, running, cutting>>

Next ==
  \/ \E id \in Ids : Accept(id) \/ Begin(id) \/ Drop(id)
  \/ Finish \/ Cut \/ Neutral \/ Close

Spec == Init /\ [][Next]_visible
=============================================================================
