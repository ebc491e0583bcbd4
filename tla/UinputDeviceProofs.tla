------------------------- MODULE UinputDeviceProofs -------------------------
(* Theorems about Touchpad and UinputDevice, for every value of their      *)
(* constants.  First the touchpad: what a sequence of events makes of it,  *)
(* by induction over the events, which slots a frame gives its contacts,   *)
(* and what a frame, a cancellation and a hard reset leave, whole or torn. *)
(* Then what linearTouch remembers of a gesture, whatever calls fail in    *)
(* it.  Last what is down: the native button, the buttons and the keys.    *)
EXTENDS UinputDevice, FiniteSetTheorems, SequenceTheorems, WellFoundedInduction, TLAPS

-----------------------------------------------------------------------------
(* Recursion over the events of a frame.                                   *)

LEMMA LeastExists ==
  ASSUME NEW S \in SUBSET Nat, S # {}
  PROVE  \E m \in S : \A n \in S : m <= n
<1> DEFINE R == {p \in Nat \X Nat : p[1] < p[2]}
<1>1. IsWellFoundedOn(R, Nat)
  BY NatLessThanWellFounded DEF OpToRel
<1>2. PICK m \in S : \A n \in S : ~(<<n, m>> \in R)
  BY <1>1, WFMin
<1>3. ASSUME NEW n \in S
      PROVE  m <= n
  <2>1. m \in Nat /\ n \in Nat /\ <<n, m>> \in Nat \X Nat /\ <<n, m>>[1] = n /\ <<n, m>>[2] = m
    OBVIOUS
  <2>2. ~(n < m)
    BY <1>2, <2>1
  <2> QED
    BY <2>1, <2>2
<1> QED
  BY <1>3

\* Induction up to a bound, for a set of numbers.
LEMMA UpTo ==
  ASSUME NEW n \in Nat, NEW S, 0 \in S, \A k \in 1..n : k - 1 \in S => k \in S
  PROVE  0..n \subseteq S
<1> DEFINE Bad == (0..n) \ S
<1>1. SUFFICES ASSUME Bad # {}
               PROVE  FALSE
  OBVIOUS
<1>2. PICK m \in Bad : \A k \in Bad : m <= k
  <2>1. Bad \in SUBSET Nat
    OBVIOUS
  <2> HIDE DEF Bad
  <2> QED
    BY <1>1, <2>1, LeastExists
<1>3. m \in 1..n /\ m - 1 \in 0..n /\ ~(m <= m - 1)
  BY <1>2
<1>4. m - 1 \in S
  BY <1>2, <1>3
<1> QED
  BY <1>2, <1>3, <1>4

\* What is written to the touchpad.
Events == [event: {"track"}, slot: Slots, value: Contacts \cup {Free}]
          \cup [event: {"tool"}, slot: Slots, value: BOOLEAN]
          \cup [event: {"bit"}, slot: Bits, value: BOOLEAN]
          \cup [event: {"report", "none"}]

LEMMA ApplyIs ==
  ASSUME NEW p \in Pads
  PROVE  /\ \A s, c : Apply(p, Track(s, c)) = [p EXCEPT !.track[s] = c]
         /\ \A s \in Slots : /\ Apply(p, Tool(s, TRUE)) = [p EXCEPT !.palms = @ \cup {s}]
                             /\ Apply(p, Tool(s, FALSE)) = [p EXCEPT !.palms = @ \ {s}]
         /\ \A b \in Bits : /\ Apply(p, Bit(b, TRUE)) = [p EXCEPT !.bits = @ \cup {b}]
                            /\ Apply(p, Bit(b, FALSE)) = [p EXCEPT !.bits = @ \ {b}]
         /\ Apply(p, Report) = p /\ Apply(p, Skip) = p
BY DEF Apply, Track, Tool, Bit, Report, Skip

LEMMA ApplyType ==
  ASSUME NEW p \in Pads, NEW e \in Events
  PROVE  Apply(p, e) \in Pads
<1>1. ASSUME NEW s \in Slots, NEW c \in Contacts \cup {Free}
      PROVE  Apply(p, Track(s, c)) \in Pads
  <2>1. [p EXCEPT !.track[s] = c] \in Pads
    BY DEF Pads, Held
  <2>2. Apply(p, Track(s, c)) = [p EXCEPT !.track[s] = c]
    BY DEF Apply, Track
  <2> QED
    BY <2>1, <2>2
<1>2. ASSUME NEW s \in Slots, NEW palm \in BOOLEAN
      PROVE  Apply(p, Tool(s, palm)) \in Pads
  <2>1. [p EXCEPT !.palms = @ \cup {s}] \in Pads /\ [p EXCEPT !.palms = @ \ {s}] \in Pads
    BY DEF Pads
  <2>2. CASE palm = TRUE
    <3>1. Apply(p, Tool(s, TRUE)) = [p EXCEPT !.palms = @ \cup {s}]
      BY ApplyIs
    <3> QED
      BY <2>1, <2>2, <3>1
  <2>3. CASE palm = FALSE
    <3>1. Apply(p, Tool(s, FALSE)) = [p EXCEPT !.palms = @ \ {s}]
      BY ApplyIs
    <3> QED
      BY <2>1, <2>3, <3>1
  <2> QED
    BY <2>2, <2>3
<1>3. ASSUME NEW b \in Bits, NEW on \in BOOLEAN
      PROVE  Apply(p, Bit(b, on)) \in Pads
  <2>1. [p EXCEPT !.bits = @ \cup {b}] \in Pads /\ [p EXCEPT !.bits = @ \ {b}] \in Pads
    BY DEF Pads
  <2>2. CASE on = TRUE
    <3>1. Apply(p, Bit(b, TRUE)) = [p EXCEPT !.bits = @ \cup {b}]
      BY ApplyIs
    <3> QED
      BY <2>1, <2>2, <3>1
  <2>3. CASE on = FALSE
    <3>1. Apply(p, Bit(b, FALSE)) = [p EXCEPT !.bits = @ \ {b}]
      BY ApplyIs
    <3> QED
      BY <2>1, <2>3, <3>1
  <2> QED
    BY <2>2, <2>3
<1>4. \/ e = Report \/ e = Skip
      \/ \E s \in Slots, c \in Contacts \cup {Free} : e = Track(s, c)
      \/ \E s \in Slots, palm \in BOOLEAN : e = Tool(s, palm)
      \/ \E b \in Bits, on \in BOOLEAN : e = Bit(b, on)
  BY DEF Events, Track, Tool, Bit, Report, Skip
<1>5. Apply(p, Report) = p /\ Apply(p, Skip) = p
  BY ApplyIs
<1> QED
  BY <1>1, <1>2, <1>3, <1>4, <1>5

\* The recursion of After has a solution, so After is what it says.
LEMMA AfterSteps ==
  ASSUME NEW p \in Pads, NEW es \in Seq(Events), NEW n \in 0..Len(es)
  PROVE  \E run \in [0..n -> Pads] :
           /\ run[0] = p /\ \A k \in 1..n : run[k] = Apply(run[k - 1], es[k])
           /\ After(p, es, n) = run[n]
<1> DEFINE Runs(k) == {run \in [0..k -> Pads] :
                         run[0] = p /\ \A j \in 1..k : run[j] = Apply(run[j - 1], es[j])}
           S == {k \in 0..n : Runs(k) # {}}
<1>1. n \in Nat /\ Len(es) \in Nat /\ \A k \in 1..n : es[k] \in Events
  OBVIOUS
<1>2. 0 \in S
  <2>1. [k \in 0..0 |-> p] \in Runs(0)
    OBVIOUS
  <2> QED
    BY <1>1, <2>1
<1>3. ASSUME NEW k \in 1..n, k - 1 \in S
      PROVE  k \in S
  <2>1. PICK run \in [0..(k - 1) -> Pads] :
          run[0] = p /\ \A j \in 1..(k - 1) : run[j] = Apply(run[j - 1], es[j])
    BY <1>3
  <2> DEFINE more == [j \in 0..k |-> IF j = k THEN Apply(run[k - 1], es[k]) ELSE run[j]]
  <2>2. Apply(run[k - 1], es[k]) \in Pads
    BY <1>1, <2>1, ApplyType
  <2>3. more \in [0..k -> Pads]
    BY <1>1, <2>1, <2>2
  <2>4. more[0] = p
    BY <1>1, <2>1
  <2>5. ASSUME NEW j \in 1..k
        PROVE  more[j] = Apply(more[j - 1], es[j])
    <3>1. CASE j = k
      BY <1>1, <3>1
    <3>2. CASE j # k
      <4>1. j \in 1..(k - 1) /\ j - 1 \in 0..k /\ j - 1 # k /\ j \in 0..k
        BY <1>1, <3>2
      <4> QED
        BY <2>1, <3>2, <4>1
    <3> QED
      BY <3>1, <3>2
  <2>6. more \in Runs(k)
    BY <2>3, <2>4, <2>5
  <2>7. Runs(k) # {} /\ k \in 0..n
    <3> HIDE DEF more, Runs
    <3> QED
      BY <1>1, <1>3, <2>6
  <2> HIDE DEF Runs
  <2> QED
    BY <2>7
<1>4. n \in S
  <2> HIDE DEF S
  <2>1. 0..n \subseteq S
    BY <1>1, <1>2, <1>3, UpTo
  <2> QED
    BY <1>1, <2>1
<1>5. PICK run \in [0..n -> Pads] :
        run[0] = p /\ \A j \in 1..n : run[j] = Apply(run[j - 1], es[j])
  BY <1>4
<1> DEFINE Solves(f) == f = [k \in 0..n |-> IF k = 0 THEN p ELSE Apply(f[k - 1], es[k])]
           kernel == CHOOSE f : Solves(f)
<1>6. Solves(run)
  <2>1. DOMAIN run = 0..n
    OBVIOUS
  <2>2. \A k \in 0..n : run[k] = IF k = 0 THEN p ELSE Apply(run[k - 1], es[k])
    BY <1>1, <1>5
  <2> QED
    BY <2>1, <2>2
<1>7. Solves(kernel)
  BY <1>6
<1>8. kernel[n] = After(p, es, n)
  BY DEF After
<1> HIDE DEF kernel
<1>9. DOMAIN kernel = 0..n /\ \A k \in 0..n : kernel[k] = IF k = 0 THEN p ELSE Apply(kernel[k - 1], es[k])
  BY <1>7
<1> DEFINE T == {k \in 0..n : kernel[k] = run[k]}
<1>10. 0 \in T
  BY <1>1, <1>5, <1>9
<1>11. ASSUME NEW k \in 1..n, k - 1 \in T PROVE k \in T
  BY <1>1, <1>5, <1>9, <1>11
<1>12. n \in T
  <2> HIDE DEF T
  <2>1. 0..n \subseteq T
    BY <1>1, <1>10, <1>11, UpTo
  <2> QED
    BY <1>1, <2>1
<1> QED
  BY <1>5, <1>8, <1>12

\* What the kernel makes of the first n events, one by one.
LEMMA AfterIs ==
  ASSUME NEW p \in Pads, NEW es \in Seq(Events)
  PROVE  /\ After(p, es, 0) = p
         /\ \A n \in 0..Len(es) : After(p, es, n) \in Pads
         /\ \A n \in 1..Len(es) : After(p, es, n) = Apply(After(p, es, n - 1), es[n])
<1>1. Len(es) \in Nat /\ 0 \in 0..Len(es)
  OBVIOUS
<1>2. After(p, es, 0) = p
  <2>1. PICK run \in [0..0 -> Pads] : run[0] = p /\ After(p, es, 0) = run[0]
    BY <1>1, AfterSteps
  <2> QED
    BY <2>1
<1>3. ASSUME NEW n \in 0..Len(es)
      PROVE  After(p, es, n) \in Pads
  <2>1. PICK run \in [0..n -> Pads] : After(p, es, n) = run[n]
    BY AfterSteps
  <2> QED
    BY <1>1, <2>1
<1>4. ASSUME NEW n \in 1..Len(es)
      PROVE  After(p, es, n) = Apply(After(p, es, n - 1), es[n])
  <2>1. n \in 0..Len(es) /\ n - 1 \in 0..Len(es) /\ n - 1 \in Nat
    BY <1>1
  <2>2. PICK run \in [0..n -> Pads] :
          /\ run[0] = p /\ \A k \in 1..n : run[k] = Apply(run[k - 1], es[k])
          /\ After(p, es, n) = run[n]
    BY <2>1, AfterSteps
  <2>3. PICK less \in [0..(n - 1) -> Pads] :
          /\ less[0] = p /\ \A k \in 1..(n - 1) : less[k] = Apply(less[k - 1], es[k])
          /\ After(p, es, n - 1) = less[n - 1]
    BY <2>1, AfterSteps
  <2> DEFINE S == {k \in 0..(n - 1) : run[k] = less[k]}
  <2>4. 0 \in S
    BY <2>1, <2>2, <2>3
  <2>5. ASSUME NEW k \in 1..(n - 1), k - 1 \in S
        PROVE  k \in S
    BY <2>1, <2>2, <2>3, <2>5
  <2>6. n - 1 \in S
    <3> HIDE DEF S
    <3>1. 0..(n - 1) \subseteq S
      BY <2>1, <2>4, <2>5, UpTo
    <3> QED
      BY <2>1, <3>1
  <2> QED
    BY <2>1, <2>2, <2>3, <2>6
<1> QED
  BY <1>2, <1>3, <1>4

\* Events written after one another.
Written(p, es) == After(p, es, Len(es))

LEMMA AfterBoth ==
  ASSUME NEW p \in Pads, NEW a \in Seq(Events), NEW b \in Seq(Events)
  PROVE  /\ a \o b \in Seq(Events) /\ Written(p, a) \in Pads
         /\ Written(p, a \o b) = Written(Written(p, a), b)
<1> DEFINE n == Len(a)
           es == a \o b
<1>1. /\ n \in Nat /\ Len(b) \in Nat /\ es \in Seq(Events) /\ Len(es) = n + Len(b)
      /\ \A k \in 1..n : es[k] = a[k]
      /\ \A k \in 1..Len(b) : es[n + k] = b[k]
  BY ConcatProperties
<1>2. /\ After(p, es, 0) = p /\ After(p, a, 0) = p
      /\ \A k \in 1..Len(es) : After(p, es, k) = Apply(After(p, es, k - 1), es[k])
      /\ \A k \in 1..n : After(p, a, k) = Apply(After(p, a, k - 1), a[k])
      /\ After(p, a, n) \in Pads
  <2> HIDE DEF es
  <2>1. /\ After(p, es, 0) = p
        /\ \A k \in 1..Len(es) : After(p, es, k) = Apply(After(p, es, k - 1), es[k])
    BY <1>1, AfterIs
  <2>2. /\ After(p, a, 0) = p
        /\ \A k \in 1..Len(a) : After(p, a, k) = Apply(After(p, a, k - 1), a[k])
    BY AfterIs
  <2>3. After(p, a, Len(a)) \in Pads
    BY <1>1, AfterIs
  <2> QED
    BY <2>1, <2>2, <2>3
<1> HIDE DEF es, n
<1> DEFINE q == After(p, a, n)
           S == {k \in 0..n : After(p, es, k) = After(p, a, k)}
           T == {k \in 0..Len(b) : After(p, es, n + k) = After(q, b, k)}
<1>3. /\ After(q, b, 0) = q
      /\ \A k \in 1..Len(b) : After(q, b, k) = Apply(After(q, b, k - 1), b[k])
  BY <1>2, AfterIs
<1>4. 0 \in S /\ \A k \in 1..n : k - 1 \in S => k \in S
  BY <1>1, <1>2
<1>5. n \in S
  <2> HIDE DEF S
  <2>1. 0..n \subseteq S
    BY <1>1, <1>4, UpTo
  <2> QED
    BY <1>1, <2>1
<1>6. 0 \in T
  BY <1>1, <1>3, <1>5
<1>7. ASSUME NEW k \in 1..Len(b), k - 1 \in T
      PROVE  k \in T
  <2>1. /\ n + k \in 1..Len(es) /\ (n + k) - 1 = n + (k - 1) /\ es[n + k] = b[k]
        /\ k \in 0..Len(b)
    BY <1>1
  <2>2. After(p, es, n + k) = Apply(After(p, es, n + (k - 1)), b[k])
    BY <1>2, <2>1
  <2>3. After(p, es, n + (k - 1)) = After(q, b, k - 1)
    BY <1>7
  <2> QED
    BY <1>3, <2>1, <2>2, <2>3
<1>8. Len(b) \in T
  <2> HIDE DEF T
  <2>1. 0..Len(b) \subseteq T
    BY <1>1, <1>6, <1>7, UpTo
  <2> QED
    BY <1>1, <2>1
<1> QED
  BY <1>1, <1>2, <1>8 DEF Written, es, n

-----------------------------------------------------------------------------
(* Which contact has which slot.                                           *)

Occupied(slots) == {s \in Slots : slots[s] # Free}
Occupants(slots) == {slots[s] : s \in Occupied(slots)}
Distinct(slots) == \A s, t \in Slots : slots[s] # Free /\ slots[s] = slots[t] => s = t

\* assign: a contact that has a slot keeps it, another gets one if there is one.
LEMMA AssignIs ==
  ASSUME NEW slots \in Held, Distinct(slots), NEW c \in Contacts,
         c \in Occupants(slots) \/ \E s \in Slots : slots[s] = Free
  PROVE  /\ Assign(slots, c) \in Held /\ Distinct(Assign(slots, c))
         /\ Occupants(Assign(slots, c)) = Occupants(slots) \cup {c}
         /\ \A s \in Slots : slots[s] # Free => Assign(slots, c)[s] = slots[s]
<1>1. c # Free
  BY TouchpadAssumption DEF TouchpadAssumption
<1>2. CASE \E s \in Slots : slots[s] = c
  <2>1. Assign(slots, c) = slots
    BY <1>2 DEF Assign
  <2>2. c \in Occupants(slots)
    BY <1>1, <1>2 DEF Occupants, Occupied
  <2> QED
    BY <2>1, <2>2
<1>3. CASE ~(\E s \in Slots : slots[s] = c)
  <2> DEFINE First(s) == slots[s] = Free /\ \A t \in 1..(s - 1) : slots[t] # Free
             F == {s \in Slots : slots[s] = Free}
             f == CHOOSE s \in Slots : First(s)
  <2>1. F # {}
    BY <1>3 DEF Occupants, Occupied
  <2>2. F \in SUBSET Nat /\ Slots \subseteq Nat
    BY DEF Slots
  <2>3. PICK m \in F : \A n \in F : m <= n
    <3> HIDE DEF F
    <3> QED
      BY <2>1, <2>2, LeastExists
  <2>4. ASSUME NEW t \in 1..(m - 1)
        PROVE  t \in Slots /\ ~(m <= t)
    <3>1. MaxSlots \in Nat /\ m \in 1..MaxSlots
      BY <2>3, TouchpadAssumption DEF TouchpadAssumption, Slots
    <3> HIDE DEF F
    <3> QED
      BY <3>1 DEF Slots
  <2>5. First(m)
    BY <2>3, <2>4
  <2>6. f \in Slots /\ slots[f] = Free
    BY <2>3, <2>5
  <2>7. Assign(slots, c) = [slots EXCEPT ![f] = c]
    BY <1>3, <2>3 DEF Assign
  <2> HIDE DEF f
  <2> DEFINE new == [slots EXCEPT ![f] = c]
  <2>8. new \in Held
    BY DEF Held
  <2>9. new[f] = c /\ \A s \in Slots : s # f => new[s] = slots[s]
    BY <2>6 DEF Held
  <2> HIDE DEF new
  <2>10. Distinct(new)
    BY <1>3, <2>9 DEF Distinct
  <2>11. Occupants(new) = Occupants(slots) \cup {c}
    BY <1>1, <2>6, <2>9 DEF Occupants, Occupied
  <2>12. \A s \in Slots : slots[s] # Free => new[s] = slots[s]
    BY <2>6, <2>9
  <2> QED
    BY <2>7, <2>8, <2>10, <2>11, <2>12 DEF new
<1> QED
  BY <1>2, <1>3

LEMMA SnapshotSize ==
  ASSUME NEW cs \in Snapshots
  PROVE  /\ Len(cs) \in 0..MaxSlots /\ cs \in [1..Len(cs) -> Contacts]
         /\ IsFiniteSet(Range(cs)) /\ Cardinality(Range(cs)) = Len(cs)
<1>1. MaxSlots \in Nat
  BY TouchpadAssumption DEF TouchpadAssumption
<1>2. PICK m \in 0..MaxSlots : cs \in [1..m -> Contacts]
  BY DEF Snapshots, SeqOf
<1>3. m \in Nat /\ Len(cs) = m /\ DOMAIN cs = 1..m
  BY <1>1, <1>2
<1>4. cs \in [1..m -> Range(cs)] /\ \A c \in Range(cs) : \E i \in 1..m : cs[i] = c
  BY <1>2, <1>3 DEF Range
<1>5. \A i, j \in 1..m : cs[i] = cs[j] => i = j
  BY <1>3 DEF Snapshots, IsInjective
<1>6. ExistsBijection(1..m, Range(cs))
  <2>1. cs \in Bijection(1..m, Range(cs))
    BY <1>4, <1>5, <1>3 DEF Bijection, Injection, Surjection, IsInjective
  <2> QED
    BY <2>1 DEF ExistsBijection
<1>7. Cardinality(Range(cs)) = m
  BY <1>3, <1>6, FS_CountingElements
<1>8. IsFiniteSet(Range(cs))
  BY <1>3, <1>6, FS_NatBijection
<1> QED
  BY <1>1, <1>2, <1>3, <1>7, <1>8

\* As long as a contact of the frame has no slot, one is free: its contacts are
\* no more than the slots.
LEMMA RoomLeft ==
  ASSUME NEW cs \in Snapshots, NEW slots \in Held, Distinct(slots),
         Occupants(slots) \subseteq Range(cs), NEW c \in Range(cs)
  PROVE  c \in Occupants(slots) \/ \E s \in Slots : slots[s] = Free
<1> SUFFICES ASSUME c \notin Occupants(slots), \A s \in Slots : slots[s] # Free
             PROVE  FALSE
  OBVIOUS
<1> DEFINE T == Range(cs) \ {c}
<1>1. slots \in [Slots -> T]
  <2>1. \A s \in Slots : slots[s] \in T
    BY DEF Occupants, Occupied
  <2> QED
    BY <2>1 DEF Held
<1>2. MaxSlots \in Nat \ {0} /\ Slots = 1..MaxSlots
  BY TouchpadAssumption DEF TouchpadAssumption, Slots
<1>3. IsFiniteSet(Slots) /\ Cardinality(Slots) = MaxSlots
  BY <1>2, FS_Interval
<1>4. IsFiniteSet(T) /\ Cardinality(T) = Len(cs) - 1 /\ Len(cs) \in 0..MaxSlots
  BY SnapshotSize, FS_RemoveElement
<1> HIDE DEF T
<1>5. \E s, t \in Slots : s # t /\ slots[s] = slots[t]
  <2>1. Cardinality(T) < Cardinality(Slots)
    BY <1>2, <1>3, <1>4
  <2> QED
    BY <1>1, <1>3, <1>4, <2>1, FS_PigeonHole
<1> QED
  BY <1>5 DEF Distinct

LEMMA LiftedIs ==
  ASSUME NEW slots \in Held, Distinct(slots), NEW cs
  PROVE  /\ Lifted(slots, cs) \in Held /\ Distinct(Lifted(slots, cs))
         /\ Occupants(Lifted(slots, cs)) \subseteq Range(cs)
         /\ \A s \in Slots : /\ Lifted(slots, cs)[s] \in {slots[s], Free}
                             /\ slots[s] = Free => Lifted(slots, cs)[s] = Free
<1> DEFINE kept == Lifted(slots, cs)
<1>1. \A s \in Slots : kept[s] = IF slots[s] \in Range(cs) THEN slots[s] ELSE Free
  BY DEF Lifted
<1>2. kept \in Held
  BY DEF Held, Lifted
<1> HIDE DEF kept
<1> QED
  BY <1>1, <1>2 DEF kept, Distinct, Occupants, Occupied

\* Every contact of the frame has a slot of its own, the one it had if any, and no other
\* contact has one.
LEMMA AssignedIs ==
  ASSUME NEW slots \in Held, Distinct(slots), NEW cs \in Snapshots
  PROVE  /\ Assigned(slots, cs) \in Held /\ Distinct(Assigned(slots, cs))
         /\ Occupants(Assigned(slots, cs)) = Range(cs)
         /\ \A s \in Slots : Lifted(slots, cs)[s] # Free =>
              Assigned(slots, cs)[s] = Lifted(slots, cs)[s]
<1> DEFINE n == Len(cs)
           kept == Lifted(slots, cs)
           Upto(k) == {cs[i] : i \in 1..k}
           OK(new, k) == /\ new \in Held /\ Distinct(new)
                         /\ Occupants(new) = Occupants(kept) \cup Upto(k)
                         /\ \A s \in Slots : kept[s] # Free => new[s] = kept[s]
           Solves(f, k) ==
             f = [i \in 0..k |-> IF i = 0 THEN kept ELSE Assign(f[i - 1], cs[i])]
           Good(f, k) == /\ f = [i \in 0..k |-> f[i]]
                         /\ \A i \in 0..k : f[i] = IF i = 0 THEN kept ELSE Assign(f[i - 1], cs[i])
<1>1. n \in Nat /\ cs \in [1..n -> Contacts] /\ Range(cs) = Upto(n)
  <2>1. n \in Nat /\ cs \in [1..n -> Contacts] /\ DOMAIN cs = 1..n
    BY SnapshotSize, TouchpadAssumption DEF TouchpadAssumption
  <2> QED
    BY <2>1 DEF Range
<1>2. kept \in Held /\ Distinct(kept) /\ Occupants(kept) \subseteq Range(cs)
  BY LiftedIs
<1> HIDE DEF kept
<1>3. OK(kept, 0)
  BY <1>2
<1>4. ASSUME NEW k \in 1..n, NEW new, OK(new, k - 1)
      PROVE  OK(Assign(new, cs[k]), k)
  <2>1. /\ cs[k] \in Contacts /\ cs[k] \in Range(cs) /\ Upto(k) = Upto(k - 1) \cup {cs[k]}
        /\ Upto(k - 1) \subseteq Range(cs)
    BY <1>1
  <2>2. Occupants(new) \subseteq Range(cs)
    BY <1>2, <1>4, <2>1
  <2>3. cs[k] \in Occupants(new) \/ \E s \in Slots : new[s] = Free
    BY <1>4, <2>1, <2>2, RoomLeft
  <2> HIDE DEF Upto
  <2> DEFINE next == Assign(new, cs[k])
  <2>4. /\ next \in Held /\ Distinct(next) /\ Occupants(next) = Occupants(new) \cup {cs[k]}
        /\ \A s \in Slots : new[s] # Free => next[s] = new[s]
    BY <1>4, <2>1, <2>3, AssignIs
  <2> HIDE DEF next
  <2>5. Occupants(next) = Occupants(kept) \cup Upto(k)
    BY <1>4, <2>1, <2>4
  <2>6. \A s \in Slots : kept[s] # Free => next[s] = kept[s]
    BY <1>4, <2>4
  <2> QED
    BY <2>4, <2>5, <2>6 DEF next
<1> HIDE DEF OK, Upto
<1> DEFINE S == {k \in 0..n : \E f : Good(f, k)}
<1>5. 0 \in S
  <2>1. Good([i \in 0..0 |-> kept], 0)
    OBVIOUS
  <2>2. 0 \in 0..n
    BY <1>1
  <2> HIDE DEF Good
  <2> QED
    BY <2>1, <2>2
<1>6. ASSUME NEW k \in 1..n, k - 1 \in S
      PROVE  k \in S
  <2>1. PICK f : Good(f, k - 1)
    BY <1>6
  <2> DEFINE g == [i \in 0..k |-> IF i = k THEN Assign(f[k - 1], cs[k]) ELSE f[i]]
  <2>2. ASSUME NEW i \in 0..k
        PROVE  g[i] = IF i = 0 THEN kept ELSE Assign(g[i - 1], cs[i])
    <3>1. CASE i = k
      BY <1>1, <3>1
    <3>2. CASE i # k
      <4>1. i \in 0..(k - 1) /\ (i # 0 => i - 1 \in 0..k /\ i - 1 # k)
        BY <1>1, <3>2
      <4> QED
        BY <2>1, <3>2, <4>1
    <3> QED
      BY <3>1, <3>2
  <2>3. k \in 0..n /\ g = [i \in 0..k |-> g[i]]
    BY <1>1
  <2> HIDE DEF g
  <2>4. Good(g, k)
    BY <2>2, <2>3
  <2> HIDE DEF Good
  <2> QED
    BY <2>3, <2>4
<1>7. n \in S
  <2> HIDE DEF S
  <2>1. 0..n \subseteq S
    BY <1>1, <1>5, <1>6, UpTo
  <2> QED
    BY <1>1, <2>1
<1>8. \E f : Solves(f, n)
  <2>1. PICK f : Good(f, n)
    BY <1>7
  <2>2. /\ f = [i \in 0..n |-> f[i]]
        /\ \A i \in 0..n : f[i] = IF i = 0 THEN kept ELSE Assign(f[i - 1], cs[i])
    BY <2>1
  <2>3. Solves(f, n)
    BY <2>2
  <2> QED
    BY <2>3
<1> DEFINE next == CHOOSE f : Solves(f, n)
<1>9. Solves(next, n)
  BY <1>8
<1>10. next[n] = Assigned(slots, cs)
  BY DEF Assigned, kept
<1> HIDE DEF next
<1>11. \A i \in 0..n : next[i] = IF i = 0 THEN kept ELSE Assign(next[i - 1], cs[i])
  BY <1>9
<1> DEFINE T == {k \in 0..n : OK(next[k], k)}
<1>12. 0 \in T
  BY <1>1, <1>3, <1>11
<1>13. ASSUME NEW k \in 1..n, k - 1 \in T
       PROVE  k \in T
  BY <1>1, <1>4, <1>11, <1>13
<1>14. OK(next[n], n)
  <2> HIDE DEF T
  <2>1. 0..n \subseteq T
    BY <1>1, <1>12, <1>13, UpTo
  <2> QED
    BY <1>1, <2>1 DEF T
<1> QED
  BY <1>1, <1>2, <1>10, <1>14 DEF OK, kept

-----------------------------------------------------------------------------
(* The parts of a frame.                                                   *)

WithTrack(p, track) == [p EXCEPT !.track = track]
WithPalms(p, palms) == [p EXCEPT !.palms = palms]
WithBits(p, bits) == [p EXCEPT !.bits = bits]

LEMMA WithIs ==
  ASSUME NEW p \in Pads
  PROVE  /\ \A track \in Held :
              /\ WithTrack(p, track) \in Pads /\ WithTrack(p, track).track = track
              /\ WithTrack(p, track).palms = p.palms /\ WithTrack(p, track).bits = p.bits
         /\ \A palms \in SUBSET Slots :
              /\ WithPalms(p, palms) \in Pads /\ WithPalms(p, palms).palms = palms
              /\ WithPalms(p, palms).track = p.track /\ WithPalms(p, palms).bits = p.bits
         /\ \A bits \in SUBSET Bits :
              /\ WithBits(p, bits) \in Pads /\ WithBits(p, bits).bits = bits
              /\ WithBits(p, bits).track = p.track /\ WithBits(p, bits).palms = p.palms
         /\ WithBits(p, p.bits) = p
BY DEF Pads, WithTrack, WithPalms, WithBits

\* What has been written so far, as an induction over the events.
LEMMA WrittenIs ==
  ASSUME NEW p \in Pads, NEW es \in Seq(Events), NEW made, made[0] = p,
         \A k \in 1..Len(es) : made[k - 1] \in Pads => made[k] = Apply(made[k - 1], es[k])
  PROVE  Written(p, es) = made[Len(es)] /\ Written(p, es) \in Pads
<1> DEFINE S == {k \in 0..Len(es) : After(p, es, k) = made[k]}
<1>1. Len(es) \in Nat
  OBVIOUS
<1>2. /\ After(p, es, 0) = p
      /\ \A n \in 0..Len(es) : After(p, es, n) \in Pads
      /\ \A n \in 1..Len(es) : After(p, es, n) = Apply(After(p, es, n - 1), es[n])
  BY AfterIs
<1>3. 0 \in S
  BY <1>1, <1>2
<1>4. ASSUME NEW k \in 1..Len(es), k - 1 \in S
      PROVE  k \in S
  <2>1. k \in 0..Len(es) /\ k - 1 \in 0..Len(es)
    BY <1>1
  <2>2. After(p, es, k - 1) = made[k - 1] /\ made[k - 1] \in Pads
    BY <1>2, <1>4, <2>1
  <2> QED
    BY <1>2, <2>1, <2>2
<1>5. Len(es) \in S
  <2> HIDE DEF S
  <2>1. 0..Len(es) \subseteq S
    BY <1>1, <1>3, <1>4, UpTo
  <2> QED
    BY <1>1, <2>1
<1> QED
  BY <1>1, <1>2, <1>5 DEF Written

LEMMA SlotsAre == MaxSlots \in Nat \ {0} /\ Slots = 1..MaxSlots /\ Bits = 0..MaxSlots /\ Free \notin Contacts
BY TouchpadAssumption DEF TouchpadAssumption, Slots, Bits, Tools

\* An event, or none, for every slot, is a sequence of events.
LEMMA PerSlot ==
  ASSUME NEW es \in [Slots -> Events]
  PROVE  es \in Seq(Events) /\ Len(es) = MaxSlots
BY SlotsAre

LEMMA EventTypes ==
  /\ Report \in Events /\ Skip \in Events
  /\ \A s \in Slots, c \in Contacts \cup {Free} : Track(s, c) \in Events
  /\ \A s \in Slots, palm \in BOOLEAN : Tool(s, palm) \in Events
  /\ \A b \in Bits, on \in BOOLEAN : Bit(b, on) \in Events
BY DEF Events, Report, Skip, Track, Tool, Bit

\* Contacts of some of the slots.
LEMMA TracksWritten ==
  ASSUME NEW p \in Pads, NEW es \in [Slots -> Events], NEW track \in Held,
         \A s \in Slots : \/ es[s] = Track(s, track[s])
                          \/ es[s] = Skip /\ track[s] = p.track[s]
  PROVE  es \in Seq(Events) /\ Written(p, es) = WithTrack(p, track)
<1>1. es \in Seq(Events) /\ Len(es) = MaxSlots
  BY PerSlot
<1> DEFINE Tracks(k) == [s \in Slots |-> IF s \in 1..k THEN track[s] ELSE p.track[s]]
           made == [k \in 0..MaxSlots |-> [p EXCEPT !.track = Tracks(k)]]
<1>2. made[0] = p
  <2>1. Tracks(0) = p.track
    BY SlotsAre DEF Pads, Held
  <2> QED
    BY <2>1, SlotsAre DEF Pads
<1>3. ASSUME NEW k \in 1..MaxSlots, made[k - 1] \in Pads
      PROVE  made[k] = Apply(made[k - 1], es[k])
  <2> DEFINE q == [p EXCEPT !.track = Tracks(k - 1)]
  <2>1. /\ k \in Slots /\ k - 1 \in 0..MaxSlots /\ k \in 0..MaxSlots
        /\ 1..k = (1..(k - 1)) \cup {k}
    BY SlotsAre
  <2>2. made[k - 1] = q /\ q \in Pads /\ q.track = Tracks(k - 1) /\ made[k] = [p EXCEPT !.track = Tracks(k)]
    BY <1>3, <2>1 DEF Pads
  <2>3. CASE es[k] = Track(k, track[k])
    <3>1. Tracks(k) = [Tracks(k - 1) EXCEPT ![k] = track[k]]
      BY <2>1, <2>3
    <3>2. Apply(q, es[k]) = [q EXCEPT !.track[k] = track[k]]
      <4> HIDE DEF q
      <4>1. Apply(q, Track(k, track[k])) = [q EXCEPT !.track[k] = track[k]]
        BY DEF Apply, Track
      <4> QED
        BY <2>3, <4>1
    <3> HIDE DEF Tracks
    <3>3. [q EXCEPT !.track[k] = track[k]] = [p EXCEPT !.track = Tracks(k)]
      BY <3>1
    <3> QED
      BY <2>2, <3>2, <3>3
  <2>4. CASE es[k] = Skip /\ track[k] = p.track[k]
    <3>1. Tracks(k) = Tracks(k - 1)
      BY <2>1, <2>4
    <3>2. Apply(q, es[k]) = q
      BY <2>2, <2>4, ApplyIs
    <3> QED
      BY <2>2, <3>1, <3>2
  <2> QED
    BY <2>1, <2>3, <2>4
<1>4. Written(p, es) = made[MaxSlots]
  <2> HIDE DEF made
  <2> QED
    BY <1>1, <1>2, <1>3, WrittenIs
<1>5. Tracks(MaxSlots) = track
  BY SlotsAre DEF Held
<1>6. made[MaxSlots] = [p EXCEPT !.track = Tracks(MaxSlots)]
  BY SlotsAre
<1> HIDE DEF made, Tracks
<1> QED
  BY <1>1, <1>4, <1>5, <1>6 DEF WithTrack

\* Palms of some of the slots.
LEMMA PalmsWritten ==
  ASSUME NEW p \in Pads, NEW C \in SUBSET Slots, NEW es \in [Slots -> Events],
         \A s \in Slots : es[s] = IF s \in C THEN Tool(s, TRUE) ELSE Skip
  PROVE  es \in Seq(Events) /\ Written(p, es) = WithPalms(p, p.palms \cup C)
<1>1. /\ es \in Seq(Events) /\ Len(es) = MaxSlots
      /\ \A s \in Slots : es[s] = IF s \in C THEN Tool(s, TRUE) ELSE Skip
  BY PerSlot
<1> DEFINE Palms(k) == p.palms \cup (C \cap (1..k))
           made == [k \in 0..MaxSlots |-> [p EXCEPT !.palms = Palms(k)]]
<1>2. made[0] = p
  <2>1. Palms(0) = p.palms
    BY DEF Pads
  <2> QED
    BY <2>1, SlotsAre DEF Pads
<1>3. ASSUME NEW k \in 1..MaxSlots, made[k - 1] \in Pads
      PROVE  made[k] = Apply(made[k - 1], es[k])
  <2> DEFINE q == [p EXCEPT !.palms = Palms(k - 1)]
  <2>1. /\ k \in Slots /\ k - 1 \in 0..MaxSlots /\ k \in 0..MaxSlots
        /\ 1..k = (1..(k - 1)) \cup {k}
    BY SlotsAre
  <2>2. made[k - 1] = q /\ q \in Pads /\ q.palms = Palms(k - 1) /\ made[k] = [p EXCEPT !.palms = Palms(k)]
    BY <1>3, <2>1 DEF Pads
  <2>3. CASE k \in C
    <3>1. Palms(k) = Palms(k - 1) \cup {k}
      BY <2>1, <2>3
    <3>2. Apply(q, es[k]) = [q EXCEPT !.palms = @ \cup {k}]
      <4>1. es[k] = Tool(k, TRUE)
        BY <1>1, <2>1, <2>3
      <4> HIDE DEF q
      <4> QED
        <5>1. q \in Pads /\ k \in Slots
          BY <2>1, <2>2
        <5>2. Apply(q, Tool(k, TRUE)) = [q EXCEPT !.palms = @ \cup {k}]
          BY <5>1, ApplyIs
        <5> QED
          BY <4>1, <5>2
    <3> HIDE DEF Palms
    <3>3. [q EXCEPT !.palms = @ \cup {k}] = [p EXCEPT !.palms = Palms(k)]
      BY <2>2, <3>1
    <3> QED
      BY <2>2, <3>2, <3>3
  <2>4. CASE k \notin C
    <3>1. Palms(k) = Palms(k - 1)
      BY <2>1, <2>4
    <3>2. Apply(q, es[k]) = q
      BY <1>1, <2>1, <2>2, <2>4, ApplyIs
    <3> QED
      BY <2>2, <3>1, <3>2
  <2> QED
    BY <2>3, <2>4
<1>4. Written(p, es) = made[MaxSlots]
  <2> HIDE DEF made
  <2> QED
    BY <1>1, <1>2, <1>3, WrittenIs
<1>5. Palms(MaxSlots) = p.palms \cup C
  <2>1. C \cap (1..MaxSlots) = C
    BY SlotsAre
  <2> QED
    BY <2>1
<1>6. made[MaxSlots] = [p EXCEPT !.palms = Palms(MaxSlots)]
  BY SlotsAre
<1> HIDE DEF made, Palms
<1> QED
  BY <1>1, <1>4, <1>5, <1>6 DEF WithPalms

LEMMA Halves ==
  ASSUME NEW i \in Nat
  PROVE  \/ \E s \in Nat : i = 2 * s /\ i \div 2 = s /\ (i + 1) \div 2 = s /\ i % 2 = 0
         \/ \E s \in Nat : i = 2 * s + 1 /\ i \div 2 = s /\ (i + 1) \div 2 = s + 1 /\ i % 2 = 1
<1>1. CASE i % 2 = 0
  <2>1. i \div 2 \in Nat /\ i = 2 * (i \div 2) /\ (i + 1) \div 2 = i \div 2
    BY <1>1
  <2> QED
    BY <1>1, <2>1
<1>2. CASE i % 2 # 0
  <2>1. i \div 2 \in Nat /\ i = 2 * (i \div 2) + 1 /\ (i + 1) \div 2 = (i \div 2) + 1 /\ i % 2 = 1
    BY <1>2
  <2> QED
    BY <2>1
<1> QED
  BY <1>1, <1>2

\* Contacts that start, each in two events: no palm any more, then the contact.
LEMMA StartsWritten ==
  ASSUME NEW p \in Pads, NEW kept \in Held, NEW new \in Held, p.track = kept
  PROVE  /\ StartEvents(kept, new) \in Seq(Events)
         /\ Written(p, StartEvents(kept, new)) =
              WithTrack(WithPalms(p, p.palms \ {s \in Slots : kept[s] # new[s]}), new)
<1> DEFINE C == {s \in Slots : kept[s] # new[s]}
           es == StartEvents(kept, new)
           Palms(i) == p.palms \ (C \cap (1..((i + 1) \div 2)))
           Tracks(i) == [s \in Slots |-> IF s \in C \cap (1..(i \div 2)) THEN new[s] ELSE p.track[s]]
           Made(i) == [p EXCEPT !.palms = Palms(i), !.track = Tracks(i)]
           made == [i \in 0..(2 * MaxSlots) |-> Made(i)]
<1>1. ASSUME NEW s \in Nat, 2 * s + 1 \in 1..(2 * MaxSlots)
      PROVE  /\ s + 1 \in Slots
             /\ es[2 * s + 1] = IF s + 1 \in C THEN Tool(s + 1, FALSE) ELSE Skip
  <2>1. s + 1 \in Slots /\ ((2 * s + 1) + 1) \div 2 = s + 1 /\ (2 * s + 1) % 2 = 1
    BY <1>1, SlotsAre
  <2> QED
    BY <1>1, <2>1 DEF StartEvents, When
<1>2. ASSUME NEW s \in Slots, 2 * s \in 1..(2 * MaxSlots)
      PROVE  es[2 * s] = IF s \in C THEN Track(s, new[s]) ELSE Skip
  <2>1. (2 * s + 1) \div 2 = s /\ (2 * s) % 2 # 1
    BY <1>2, SlotsAre
  <2> QED
    BY <1>2, <2>1 DEF StartEvents, When
<1>3. ASSUME NEW i \in 1..(2 * MaxSlots)
      PROVE  \/ \E s \in Slots : i = 2 * s
             \/ \E s \in Nat : i = 2 * s + 1
  <2>1. i \in Nat /\ MaxSlots \in Nat
    BY SlotsAre
  <2>2. CASE \E s \in Nat : i = 2 * s
    BY <2>1, <2>2, SlotsAre
  <2> QED
    BY <2>1, <2>2, Halves
<1>4. es \in Seq(Events) /\ Len(es) = 2 * MaxSlots
  <2>1. 2 * MaxSlots \in Nat /\ es = [i \in 1..(2 * MaxSlots) |-> es[i]]
    BY SlotsAre DEF StartEvents
  <2>2. ASSUME NEW i \in 1..(2 * MaxSlots)
        PROVE  es[i] \in Events
    <3> HIDE DEF es, C
    <3>1. CASE \E s \in Slots : i = 2 * s
      BY <1>2, <3>1, EventTypes DEF Held
    <3>2. CASE \E s \in Nat : i = 2 * s + 1
      BY <1>1, <3>2, EventTypes
    <3> QED
      BY <1>3, <3>1, <3>2
  <2> HIDE DEF es
  <2> QED
    BY <2>1, <2>2
<1>5. made[0] = p
  <2>1. (0 + 1) \div 2 = 0 /\ 0 \div 2 = 0 /\ 1..0 = {}
    OBVIOUS
  <2>2. Palms(0) = p.palms
    BY <2>1 DEF Pads
  <2>3. Tracks(0) = p.track
    BY <2>1 DEF Pads, Held
  <2>4. 0 \in 0..(2 * MaxSlots)
    BY SlotsAre
  <2> HIDE DEF Palms, Tracks
  <2> QED
    BY <2>2, <2>3, <2>4 DEF Pads
<1> HIDE DEF es
<1>6. ASSUME NEW i \in 1..(2 * MaxSlots), made[i - 1] \in Pads
      PROVE  made[i] = Apply(made[i - 1], es[i])
  <2> DEFINE q == Made(i - 1)
  <2>1. made[i - 1] = q /\ made[i] = Made(i)
    <3>1. i - 1 \in 0..(2 * MaxSlots) /\ i \in 0..(2 * MaxSlots)
      BY SlotsAre
    <3> HIDE DEF Made
    <3> QED
      BY <3>1
  <2>2. q \in Pads
    BY <1>6, <2>1
  <2>3. q.palms = Palms(i - 1) /\ q.track = Tracks(i - 1)
    BY DEF Pads
  <2>4. CASE \E s \in Slots : i = 2 * s
    <3>1. PICK s \in Slots : i = 2 * s
      BY <2>4
    <3>2. /\ (i + 1) \div 2 = s /\ ((i - 1) + 1) \div 2 = s /\ i \div 2 = s
          /\ (i - 1) \div 2 = s - 1 /\ 1..s = (1..(s - 1)) \cup {s}
      BY <3>1, SlotsAre
    <3>3. Palms(i) = Palms(i - 1)
      BY <3>2
    <3>4. es[i] = IF s \in C THEN Track(s, new[s]) ELSE Skip
      BY <1>2, <3>1
    <3>5. CASE s \in C
      <4>1. Tracks(i) = [Tracks(i - 1) EXCEPT ![s] = new[s]]
        <5>1. C \cap (1..(i \div 2)) = (C \cap (1..((i - 1) \div 2))) \cup {s}
          BY <3>2, <3>5
        <5> HIDE DEF C
        <5> QED
          BY <5>1
      <4> HIDE DEF Palms, Tracks
      <4>2. Made(i) = [q EXCEPT !.track[s] = new[s]]
        BY <3>3, <4>1
      <4> HIDE DEF q, Made
      <4>3. Apply(q, Track(s, new[s])) = [q EXCEPT !.track[s] = new[s]]
        BY DEF Apply, Track
      <4> QED
        BY <2>1, <3>4, <3>5, <4>2, <4>3
    <3>6. CASE s \notin C
      <4>1. Tracks(i) = Tracks(i - 1)
        BY <3>2, <3>6
      <4> HIDE DEF Palms, Tracks
      <4>2. Made(i) = q
        BY <3>3, <4>1
      <4> HIDE DEF q, Made
      <4>3. Apply(q, Skip) = q
        BY <2>2, ApplyIs
      <4> QED
        BY <2>1, <3>4, <3>6, <4>2, <4>3
    <3> QED
      BY <3>5, <3>6
  <2>5. CASE \E s \in Nat : i = 2 * s + 1
    <3>1. PICK s \in Nat : i = 2 * s + 1
      BY <2>5
    <3>2. /\ (i + 1) \div 2 = s + 1 /\ ((i - 1) + 1) \div 2 = s /\ i \div 2 = s
          /\ (i - 1) \div 2 = s /\ 1..(s + 1) = (1..s) \cup {s + 1}
      BY <3>1
    <3>3. Tracks(i) = Tracks(i - 1)
      BY <3>2
    <3>4. s + 1 \in Slots /\ es[i] = IF s + 1 \in C THEN Tool(s + 1, FALSE) ELSE Skip
      BY <1>1, <3>1
    <3>5. CASE s + 1 \in C
      <4>1. Palms(i) = Palms(i - 1) \ {s + 1}
        BY <3>2, <3>5
      <4> HIDE DEF Palms, Tracks
      <4>2. Made(i) = [q EXCEPT !.palms = @ \ {s + 1}]
        BY <2>3, <3>3, <4>1
      <4> HIDE DEF q, Made
      <4>3. Apply(q, Tool(s + 1, FALSE)) = [q EXCEPT !.palms = @ \ {s + 1}]
        BY <2>2, <3>4, ApplyIs
      <4> QED
        BY <2>1, <3>4, <3>5, <4>2, <4>3
    <3>6. CASE s + 1 \notin C
      <4>1. Palms(i) = Palms(i - 1)
        BY <3>2, <3>6
      <4> HIDE DEF Palms, Tracks
      <4>2. Made(i) = q
        BY <3>3, <4>1
      <4> HIDE DEF q, Made
      <4>3. Apply(q, Skip) = q
        BY <2>2, ApplyIs
      <4> QED
        BY <2>1, <3>4, <3>6, <4>2, <4>3
    <3> QED
      BY <3>5, <3>6
  <2> QED
    BY <1>3, <2>4, <2>5
<1>7. Written(p, es) = made[2 * MaxSlots]
  <2> HIDE DEF made
  <2> QED
    BY <1>4, <1>5, <1>6, WrittenIs
<1>8. made[2 * MaxSlots] = Made(2 * MaxSlots)
  <2>1. 2 * MaxSlots \in 0..(2 * MaxSlots)
    BY SlotsAre
  <2> HIDE DEF Made
  <2> QED
    BY <2>1
<1>9. /\ C \cap (1..((2 * MaxSlots + 1) \div 2)) = C
      /\ (2 * MaxSlots) \div 2 = MaxSlots /\ C \cap (1..MaxSlots) = C
  <2>1. (2 * MaxSlots + 1) \div 2 = MaxSlots /\ (2 * MaxSlots) \div 2 = MaxSlots
    BY SlotsAre
  <2> QED
    BY <2>1, SlotsAre
<1>10. /\ Palms(2 * MaxSlots) = p.palms \ C
       /\ Tracks(2 * MaxSlots) = new
  BY <1>9 DEF Held
<1>11. Made(2 * MaxSlots) = WithTrack(WithPalms(p, p.palms \ C), new)
  BY <1>10 DEF WithTrack, WithPalms, Pads
<1> HIDE DEF made, Made
<1> QED
  BY <1>4, <1>7, <1>8, <1>11 DEF es

\* The bits that go with a number of fingers.
BitsOf(count) == IF count = 0 THEN {} ELSE {0, count}

LEMMA OnWritten ==
  ASSUME NEW p \in Pads, NEW B \in SUBSET Bits, NEW b \in Bits
  PROVE  Apply(WithBits(p, B), Bit(b, TRUE)) = WithBits(p, B \cup {b})
<1> DEFINE q == WithBits(p, B)
<1>1. q \in Pads
  BY DEF Pads, WithBits
<1>2. WithBits(q, q.bits \cup {b}) = WithBits(p, B \cup {b})
  BY DEF Pads, WithBits
<1> HIDE DEF q
<1>3. Apply(q, Bit(b, TRUE)) = WithBits(q, q.bits \cup {b})
  BY <1>1, ApplyIs DEF WithBits
<1> QED
  BY <1>2, <1>3 DEF q

LEMMA OffWritten ==
  ASSUME NEW p \in Pads, NEW B \in SUBSET Bits, NEW b \in Bits
  PROVE  Apply(WithBits(p, B), Bit(b, FALSE)) = WithBits(p, B \ {b})
<1> DEFINE q == WithBits(p, B)
<1>1. q \in Pads
  BY DEF Pads, WithBits
<1>2. WithBits(q, q.bits \ {b}) = WithBits(p, B \ {b})
  BY DEF Pads, WithBits
<1> HIDE DEF q
<1>3. Apply(q, Bit(b, FALSE)) = WithBits(q, q.bits \ {b})
  BY <1>1, ApplyIs DEF WithBits
<1> QED
  BY <1>2, <1>3 DEF q

LEMMA SkipWritten ==
  ASSUME NEW p \in Pads, NEW B \in SUBSET Bits
  PROVE  Apply(WithBits(p, B), Skip) = WithBits(p, B)
<1>1. WithBits(p, B) \in Pads
  BY DEF Pads, WithBits
<1> QED
  BY <1>1, ApplyIs

LEMMA CountedWritten ==
  ASSUME NEW p \in Pads, NEW old \in 0..MaxSlots, NEW new \in 0..MaxSlots
  PROVE  /\ Counted(old, new) \in Seq(Events)
         /\ Written(WithBits(p, BitsOf(old)), Counted(old, new)) = WithBits(p, BitsOf(new))
<1> DEFINE es == Counted(old, new)
           B1 == IF old # new /\ old > 0 THEN BitsOf(old) \ {old} ELSE BitsOf(old)
           B2 == IF old # new /\ new > 0 THEN B1 \cup {new} ELSE B1
           B3 == IF old = 0 /\ new > 0 THEN B2 \cup {0} ELSE B2
           B4 == IF old > 0 /\ new = 0 THEN B3 \ {0} ELSE B3
           B(k) == IF k = 0 THEN BitsOf(old) ELSE IF k = 1 THEN B1 ELSE IF k = 2 THEN B2
                   ELSE IF k = 3 THEN B3 ELSE B4
           made == [k \in 0..4 |-> WithBits(p, B(k))]
<1>1. old \in Bits /\ new \in Bits /\ 0 \in Bits /\ old \in Nat /\ new \in Nat
  BY SlotsAre
<1>2. BitsOf(old) \in SUBSET Bits /\ B1 \in SUBSET Bits /\ B2 \in SUBSET Bits /\ B3 \in SUBSET Bits
  BY <1>1 DEF BitsOf
<1>3. B4 = BitsOf(new)
  BY <1>1 DEF BitsOf
<1>4. es \in Seq(Events) /\ Len(es) = 4
  <2>1. Skip \in Events /\ \A b \in Bits, on \in BOOLEAN : Bit(b, on) \in Events
    BY EventTypes
  <2>2. /\ When(old # new /\ old > 0, Bit(old, FALSE)) \in Events
        /\ When(old # new /\ new > 0, Bit(new, TRUE)) \in Events
        /\ When(old = 0 /\ new > 0, Bit(0, TRUE)) \in Events
        /\ When(old > 0 /\ new = 0, Bit(0, FALSE)) \in Events
    BY <1>1, <2>1 DEF When
  <2>3. \A a, b, c, d \in Events : <<a, b, c, d>> \in Seq(Events) /\ Len(<<a, b, c, d>>) = 4
    OBVIOUS
  <2> QED
    BY <2>2, <2>3 DEF Counted
<1>5. /\ es[1] = When(old # new /\ old > 0, Bit(old, FALSE))
      /\ es[2] = When(old # new /\ new > 0, Bit(new, TRUE))
      /\ es[3] = When(old = 0 /\ new > 0, Bit(0, TRUE))
      /\ es[4] = When(old > 0 /\ new = 0, Bit(0, FALSE))
  BY DEF Counted
<1> HIDE DEF es
<1>6. WithBits(p, B1) = Apply(WithBits(p, BitsOf(old)), es[1])
  <2>1. CASE old # new /\ old > 0
    <3>1. es[1] = Bit(old, FALSE) /\ B1 = BitsOf(old) \ {old}
      BY <1>5, <2>1 DEF When
    <3> HIDE DEF B1, B2, B3, B4
    <3>2. Apply(WithBits(p, BitsOf(old)), Bit(old, FALSE)) = WithBits(p, BitsOf(old) \ {old})
      <4>1. BitsOf(old) \in SUBSET Bits /\ old \in Bits
        BY <1>1, <1>2
      <4> QED
        BY <4>1, OffWritten
    <3> QED
      BY <3>1, <3>2
  <2>2. CASE ~(old # new /\ old > 0)
    <3>1. es[1] = Skip /\ B1 = BitsOf(old)
      BY <1>5, <2>2 DEF When
    <3> HIDE DEF B1, B2, B3, B4
    <3>2. Apply(WithBits(p, BitsOf(old)), Skip) = WithBits(p, BitsOf(old))
      BY <1>2, SkipWritten
    <3> QED
      BY <3>1, <3>2
  <2> HIDE DEF B1, B2, B3, B4
  <2> QED
    BY <2>1, <2>2
<1>7. WithBits(p, B2) = Apply(WithBits(p, B1), es[2])
  <2>1. CASE old # new /\ new > 0
    <3>1. es[2] = Bit(new, TRUE) /\ B2 = B1 \cup {new}
      BY <1>5, <2>1 DEF When
    <3> HIDE DEF B1, B2, B3, B4
    <3>2. Apply(WithBits(p, B1), Bit(new, TRUE)) = WithBits(p, B1 \cup {new})
      <4>1. B1 \in SUBSET Bits /\ new \in Bits
        BY <1>1, <1>2
      <4> QED
        BY <4>1, OnWritten
    <3> QED
      BY <3>1, <3>2
  <2>2. CASE ~(old # new /\ new > 0)
    <3>1. es[2] = Skip /\ B2 = B1
      BY <1>5, <2>2 DEF When
    <3> HIDE DEF B1, B2, B3, B4
    <3>2. Apply(WithBits(p, B1), Skip) = WithBits(p, B1)
      BY <1>2, SkipWritten
    <3> QED
      BY <3>1, <3>2
  <2> HIDE DEF B1, B2, B3, B4
  <2> QED
    BY <2>1, <2>2
<1>8. WithBits(p, B3) = Apply(WithBits(p, B2), es[3])
  <2>1. CASE old = 0 /\ new > 0
    <3>1. es[3] = Bit(0, TRUE) /\ B3 = B2 \cup {0}
      BY <1>5, <2>1 DEF When
    <3> HIDE DEF B1, B2, B3, B4
    <3>2. Apply(WithBits(p, B2), Bit(0, TRUE)) = WithBits(p, B2 \cup {0})
      <4>1. B2 \in SUBSET Bits /\ 0 \in Bits
        BY <1>1, <1>2
      <4> QED
        BY <4>1, OnWritten
    <3> QED
      BY <3>1, <3>2
  <2>2. CASE ~(old = 0 /\ new > 0)
    <3>1. es[3] = Skip /\ B3 = B2
      BY <1>5, <2>2 DEF When
    <3> HIDE DEF B1, B2, B3, B4
    <3>2. Apply(WithBits(p, B2), Skip) = WithBits(p, B2)
      BY <1>2, SkipWritten
    <3> QED
      BY <3>1, <3>2
  <2> HIDE DEF B1, B2, B3, B4
  <2> QED
    BY <2>1, <2>2
<1>9. WithBits(p, B4) = Apply(WithBits(p, B3), es[4])
  <2>1. CASE old > 0 /\ new = 0
    <3>1. es[4] = Bit(0, FALSE) /\ B4 = B3 \ {0}
      BY <1>5, <2>1 DEF When
    <3> HIDE DEF B1, B2, B3, B4
    <3>2. Apply(WithBits(p, B3), Bit(0, FALSE)) = WithBits(p, B3 \ {0})
      <4>1. B3 \in SUBSET Bits /\ 0 \in Bits
        BY <1>1, <1>2
      <4> QED
        BY <4>1, OffWritten
    <3> QED
      BY <3>1, <3>2
  <2>2. CASE ~(old > 0 /\ new = 0)
    <3>1. es[4] = Skip /\ B4 = B3
      BY <1>5, <2>2 DEF When
    <3> HIDE DEF B1, B2, B3, B4
    <3>2. Apply(WithBits(p, B3), Skip) = WithBits(p, B3)
      BY <1>2, SkipWritten
    <3> QED
      BY <3>1, <3>2
  <2> HIDE DEF B1, B2, B3, B4
  <2> QED
    BY <2>1, <2>2
<1> HIDE DEF B1, B2, B3, B4
<1>10. /\ made[0] = WithBits(p, BitsOf(old)) /\ made[1] = WithBits(p, B1)
       /\ made[2] = WithBits(p, B2) /\ made[3] = WithBits(p, B3)
       /\ made[4] = WithBits(p, B4)
  OBVIOUS
<1>11. made[0] \in Pads
  BY <1>2, <1>10, WithIs
<1> HIDE DEF made
<1>12. \A k \in 1..4 : made[k] = Apply(made[k - 1], es[k])
  BY <1>6, <1>7, <1>8, <1>9, <1>10
<1>13. Written(made[0], es) = made[4]
  BY <1>4, <1>11, <1>12, WrittenIs
<1> QED
  BY <1>3, <1>4, <1>10, <1>13 DEF es

LEMMA AllUpWritten ==
  ASSUME NEW p \in Pads
  PROVE  AllUp \in Seq(Events) /\ Written(p, AllUp) = WithBits(p, {})
<1> DEFINE n == MaxSlots + 1
           Index(i) == IF i <= MaxSlots THEN i ELSE 0
           Gone(i) == IF i <= MaxSlots THEN 1..i ELSE Bits
           made == [i \in 0..n |-> WithBits(p, p.bits \ Gone(i))]
<1>1. n \in Nat /\ AllUp = [i \in 1..n |-> Bit(Index(i), FALSE)] /\ \A i \in 1..n : Index(i) \in Bits
  BY SlotsAre DEF AllUp
<1>2. AllUp \in Seq(Events) /\ Len(AllUp) = n /\ \A i \in 1..n : AllUp[i] = Bit(Index(i), FALSE)
  <2> HIDE DEF n, Index
  <2>1. \A i \in 1..n : Bit(Index(i), FALSE) \in Events
    BY <1>1, EventTypes
  <2> HIDE DEF AllUp
  <2>2. AllUp \in [1..n -> Events]
    BY <1>1, <2>1
  <2>3. \A i \in 1..n : AllUp[i] = Bit(Index(i), FALSE)
    BY <1>1
  <2>4. AllUp \in Seq(Events) /\ Len(AllUp) = n
    <3>1. n \in Nat
      BY <1>1
    <3> QED
      BY <2>2, <3>1
  <2> QED
    BY <2>3, <2>4
<1>3. made[0] = p
  <2>1. Gone(0) = {} /\ 0 \in 0..n
    BY SlotsAre
  <2>2. p.bits \ Gone(0) = p.bits
    BY <2>1 DEF Pads, WithBits
  <2> HIDE DEF Gone
  <2> QED
    BY <2>1, <2>2, WithIs
<1>4. ASSUME NEW i \in 1..n, made[i - 1] \in Pads
      PROVE  made[i] = Apply(made[i - 1], AllUp[i])
  <2>1. Gone(i) = Gone(i - 1) \cup {Index(i)}
    BY SlotsAre
  <2>2. i - 1 \in 0..n /\ i \in 0..n /\ Index(i) \in Bits
    BY <1>1
  <2> HIDE DEF Index, Gone, n
  <2> DEFINE q == WithBits(p, p.bits \ Gone(i - 1))
  <2>3. made[i - 1] = q /\ made[i] = WithBits(p, p.bits \ Gone(i))
    BY <2>2
  <2>4. WithBits(q, q.bits \ {Index(i)}) = WithBits(p, p.bits \ Gone(i))
    BY <2>1 DEF Pads, WithBits
  <2> HIDE DEF q, made
  <2>5. Apply(q, Bit(Index(i), FALSE)) = WithBits(q, q.bits \ {Index(i)})
    <3>1. q \in Pads
      BY <1>4, <2>3
    <3>2. Apply(q, Bit(Index(i), FALSE)) = [q EXCEPT !.bits = @ \ {Index(i)}]
      BY <2>2, <3>1, ApplyIs
    <3> QED
      BY <3>2 DEF WithBits
  <2> QED
    BY <1>2, <2>3, <2>4, <2>5
<1>5. Written(p, AllUp) = made[n]
  <2>1. Len(AllUp) = n /\ AllUp \in Seq(Events)
    BY <1>2
  <2>2. made[0] = p /\ \A k \in 1..n : made[k - 1] \in Pads => made[k] = Apply(made[k - 1], AllUp[k])
    BY <1>3, <1>4
  <2> HIDE DEF made, n
  <2> QED
    BY <2>1, <2>2, WrittenIs
<1>6. p.bits \ Gone(n) = {} /\ n \in 0..n
  BY SlotsAre DEF Pads
<1> HIDE DEF n, Gone
<1> QED
  BY <1>2, <1>5, <1>6

LEMMA ReportWritten ==
  ASSUME NEW p \in Pads
  PROVE  <<Report>> \in Seq(Events) /\ Written(p, <<Report>>) = p
<1> DEFINE made == [k \in 0..1 |-> p]
<1>1. <<Report>> \in Seq(Events) /\ Len(<<Report>>) = 1
  BY EventTypes
<1>2. made[0] = p /\ made[1] = p /\ \A k \in 1..1 : made[k] = Apply(made[k - 1], <<Report>>[k])
  <2>1. Apply(p, Report) = p /\ <<Report>>[1] = Report
    BY ApplyIs
  <2>2. made[0] = p /\ made[1] = p /\ \A k \in 1..1 : k = 1
    OBVIOUS
  <2> HIDE DEF made
  <2> QED
    BY <2>1, <2>2
<1> HIDE DEF made
<1> QED
  BY <1>1, <1>2, WrittenIs

-----------------------------------------------------------------------------
(* Frames.                                                                 *)

Sound(p) ==
  /\ p.track = p.slots
  /\ \A s \in p.palms : p.slots[s] = Free
  /\ p.bits = BitsOf(p.count)
  /\ p.count = Cardinality(Occupied(p.slots))

PadOK(p) == p \in Pads /\ Distinct(p.slots) /\ (~p.desynced => Sound(p))

LEMMA LiftsWritten ==
  ASSUME NEW p \in Pads, NEW kept \in Held,
         \A s \in Slots : kept[s] \in {p.track[s], Free}
  PROVE  /\ LiftEvents(p.track, kept) \in Seq(Events)
         /\ Written(p, LiftEvents(p.track, kept)) = WithTrack(p, kept)
<1> DEFINE es == LiftEvents(p.track, kept)
<1>1. ASSUME NEW s \in Slots
      PROVE  es[s] = Track(s, kept[s]) \/ (es[s] = Skip /\ kept[s] = p.track[s])
  BY DEF LiftEvents, When
<1>2. es \in [Slots -> Events]
  <2>1. es = [s \in Slots |-> es[s]]
    BY DEF LiftEvents
  <2> HIDE DEF es
  <2>2. \A s \in Slots : es[s] \in Events
    BY <1>1, EventTypes DEF Held
  <2> QED
    BY <2>1, <2>2
<1> HIDE DEF es
<1>3. es \in Seq(Events) /\ Written(p, es) = WithTrack(p, kept)
  BY <1>1, <1>2, TracksWritten
<1> QED
  BY <1>3 DEF es

\* A frame on a touchpad that is as the daemon believes it to be.
LEMMA FrameWritten ==
  ASSUME NEW p \in Pads, Distinct(p.slots), Sound(p), NEW cs \in Snapshots
  PROVE  LET q == Written(p, FrameEvents(p, cs))
             new == Assigned(p.slots, cs)
         IN /\ FrameEvents(p, cs) \in Seq(Events) /\ q \in Pads
            /\ q.track = new /\ q.bits = BitsOf(Len(cs)) /\ \A s \in q.palms : new[s] = Free
<1> DEFINE kept == Lifted(p.slots, cs)
           new == Assigned(p.slots, cs)
           C == {s \in Slots : kept[s] # new[s]}
           p1 == WithTrack(p, kept)
           palms == p.palms \ C
           p2 == WithTrack(WithPalms(p1, palms), new)
           p3 == WithBits(p2, BitsOf(Len(cs)))
           e1 == LiftEvents(p.slots, kept)
           e2 == StartEvents(kept, new)
           e3 == Counted(p.count, Len(cs))
           e4 == <<Report>>
<1>1. /\ p.slots \in Held /\ p.track = p.slots /\ p.track \in Held /\ p.count \in 0..MaxSlots
      /\ p.palms \in SUBSET Slots /\ p.bits = BitsOf(p.count)
      /\ \A s \in p.palms : p.slots[s] = Free
  BY DEF Pads, Sound
<1>2. /\ kept \in Held /\ \A s \in Slots : /\ kept[s] \in {p.slots[s], Free}
                                           /\ p.slots[s] = Free => kept[s] = Free
  BY <1>1, LiftedIs
<1>3. new \in Held
  BY <1>1, AssignedIs
<1>4. Len(cs) \in 0..MaxSlots
  BY SnapshotSize
<1> HIDE DEF kept, new
<1> HIDE DEF C
<1>5. /\ p1 \in Pads /\ p1.track = kept /\ p1.palms = p.palms /\ p1.bits = p.bits
      /\ p2 \in Pads /\ p2.track = new /\ p2.palms = palms /\ p2.bits = p.bits
      /\ p3 \in Pads /\ p3.track = new /\ p3.palms = palms /\ p3.bits = BitsOf(Len(cs))
  <2>1. BitsOf(Len(cs)) \in SUBSET Bits /\ palms \in SUBSET Slots
    BY <1>1, <1>4, SlotsAre DEF BitsOf
  <2> HIDE DEF palms
  <2>2. p1 \in Pads /\ p1.track = kept /\ p1.palms = p.palms /\ p1.bits = p.bits
    BY <1>2, WithIs
  <2> HIDE DEF p1
  <2> DEFINE q == WithPalms(p1, palms)
  <2>3. q \in Pads /\ q.palms = palms /\ q.bits = p.bits
    BY <2>1, <2>2, WithIs
  <2> HIDE DEF q
  <2>4. p2 = WithTrack(q, new)
    BY DEF q
  <2>5. p2 \in Pads /\ p2.track = new /\ p2.palms = palms /\ p2.bits = p.bits
    BY <1>3, <2>3, <2>4, WithIs
  <2> HIDE DEF p2
  <2>6. p3 \in Pads /\ p3.track = new /\ p3.palms = palms /\ p3.bits = BitsOf(Len(cs))
    BY <2>1, <2>5, WithIs
  <2> QED
    BY <2>2, <2>5, <2>6
<1>6. e1 \in Seq(Events) /\ Written(p, e1) = p1
  BY <1>1, <1>2, LiftsWritten
<1>7. e2 \in Seq(Events) /\ Written(p1, e2) = p2
  <2> HIDE DEF p1
  <2>1. e2 \in Seq(Events)
        /\ Written(p1, e2) = WithTrack(WithPalms(p1, p1.palms \ {s \in Slots : kept[s] # new[s]}), new)
    <3>1. kept \in Held /\ new \in Held /\ p1 \in Pads /\ p1.track = kept
      BY <1>2, <1>3, <1>5
    <3> QED
      BY <3>1, StartsWritten
  <2> HIDE DEF e2
  <2>2. p1.palms \ {s \in Slots : kept[s] # new[s]} = palms
    BY <1>5 DEF C
  <2> HIDE DEF palms
  <2> QED
    BY <2>1, <2>2
<1>8. e3 \in Seq(Events) /\ Written(p2, e3) = p3
  <2>1. p2 = WithBits(p2, BitsOf(p.count))
    <3> HIDE DEF p2
    <3>1. p2 = WithBits(p2, p2.bits)
      BY <1>5, WithIs
    <3> QED
      BY <1>1, <1>5, <3>1
  <2> HIDE DEF p2
  <2>2. e3 \in Seq(Events) /\ Written(WithBits(p2, BitsOf(p.count)), e3) = p3
    BY <1>1, <1>4, <1>5, CountedWritten
  <2> HIDE DEF e3, p3
  <2> QED
    BY <2>1, <2>2
<1>9. e4 \in Seq(Events) /\ Written(p3, e4) = p3
  <2> HIDE DEF p3
  <2> QED
    BY <1>5, ReportWritten
<1>10. ASSUME NEW s \in palms
       PROVE  new[s] = Free
  <2>1. s \in Slots /\ s \in p.palms /\ kept[s] = new[s]
    BY <1>1, <1>10 DEF C
  <2>2. p.slots[s] = Free
    BY <1>1, <2>1
  <2>3. kept[s] = Free
    BY <1>2, <2>1, <2>2
  <2> QED
    BY <2>1, <2>3
<1>12. FrameEvents(p, cs) = ((e1 \o e2) \o e3) \o e4
  BY DEF FrameEvents, kept, new
<1> HIDE DEF p1, p2, p3, e1, e2, e3, e4, palms
<1>13. e1 \o e2 \in Seq(Events) /\ Written(p, e1 \o e2) = p2
  BY <1>5, <1>6, <1>7, AfterBoth
<1>14. (e1 \o e2) \o e3 \in Seq(Events) /\ Written(p, (e1 \o e2) \o e3) = p3
  BY <1>8, <1>13, AfterBoth
<1>15. ((e1 \o e2) \o e3) \o e4 \in Seq(Events) /\ Written(p, ((e1 \o e2) \o e3) \o e4) = p3
  BY <1>9, <1>14, AfterBoth
<1> QED
  BY <1>5, <1>10, <1>12, <1>15 DEF new

\* Nothing is left on the touchpad after a cancellation ..
LEMMA CancelWritten ==
  ASSUME NEW p \in Pads, Sound(p)
  PROVE  LET q == Written(p, CancelEvents(p)) IN
         CancelEvents(p) \in Seq(Events) /\ q \in Pads /\ q.track = Nothing /\ q.bits = {}
<1> DEFINE C == {s \in Slots : p.slots[s] # Free}
           e1 == [s \in Slots |-> When(p.slots[s] # Free, Tool(s, TRUE))]
           e2 == <<Report>>
           e3 == LiftEvents(p.slots, Nothing)
           e4 == AllUp
           p1 == WithPalms(p, p.palms \cup C)
           p3 == WithTrack(p1, Nothing)
           p4 == WithBits(p3, {})
<1>1. /\ p.slots \in Held /\ p.track = p.slots /\ p.palms \in SUBSET Slots
      /\ p.bits = BitsOf(p.count) /\ p.count = Cardinality(Occupied(p.slots))
  BY DEF Pads, Sound
<1>2. Nothing \in Held /\ \A s \in Slots : Nothing[s] = Free
  BY DEF Nothing, Held
<1>3. CASE p.slots = Nothing
  <2>1. Occupied(p.slots) = {}
    BY <1>2, <1>3 DEF Occupied
  <2>2. p.count = 0
    BY <1>1, <2>1, FS_EmptySet
  <2>3. p.bits = {} /\ p.track = Nothing
    BY <1>1, <1>3, <2>2 DEF BitsOf
  <2>4. CancelEvents(p) = <<Report>>
    BY <1>3 DEF CancelEvents
  <2> QED
    BY <2>3, <2>4, ReportWritten
<1>4. CASE p.slots # Nothing
  <2>1. /\ p1 \in Pads /\ p1.track = p.slots
        /\ p3 \in Pads /\ p3.track = Nothing
        /\ p4 \in Pads /\ p4.track = Nothing /\ p4.bits = {}
    <3>1. p.palms \cup C \in SUBSET Slots
      BY <1>1
    <3> HIDE DEF C
    <3>2. p1 \in Pads /\ p1.track = p.slots
      BY <1>1, <3>1, WithIs
    <3> HIDE DEF p1
    <3>3. p3 \in Pads /\ p3.track = Nothing
      BY <1>2, <3>2, WithIs
    <3> HIDE DEF p3
    <3>4. p4 \in Pads /\ p4.track = Nothing /\ p4.bits = {}
      BY <3>3, WithIs
    <3> QED
      BY <3>2, <3>3, <3>4
  <2>2. e1 \in Seq(Events) /\ Written(p, e1) = p1
    <3>1. /\ C \in SUBSET Slots /\ e1 \in [Slots -> Events]
          /\ \A s \in Slots : e1[s] = IF s \in C THEN Tool(s, TRUE) ELSE Skip
      BY EventTypes DEF When
    <3> HIDE DEF e1, C
    <3> QED
      BY <3>1, PalmsWritten
  <2>3. \A q \in Pads : e2 \in Seq(Events) /\ Written(q, e2) = q
    BY ReportWritten
  <2>4. e3 \in Seq(Events) /\ Written(p1, e3) = p3
    <3>1. \A s \in Slots : Nothing[s] \in {p1.track[s], Free}
      BY <1>2
    <3> HIDE DEF p1
    <3> QED
      BY <1>2, <2>1, <3>1, LiftsWritten
  <2>5. e4 \in Seq(Events) /\ Written(p3, e4) = p4
    <3> HIDE DEF p3
    <3> QED
      BY <2>1, AllUpWritten
  <2>7. CancelEvents(p) = (((e1 \o e2) \o e3) \o e4) \o e2
    BY <1>4 DEF CancelEvents
  <2> HIDE DEF e1, e2, e3, e4, p1, p3, p4
  <2>8. e1 \o e2 \in Seq(Events) /\ Written(p, e1 \o e2) = p1
    BY <2>1, <2>2, <2>3, AfterBoth
  <2>9. (e1 \o e2) \o e3 \in Seq(Events) /\ Written(p, (e1 \o e2) \o e3) = p3
    BY <2>4, <2>8, AfterBoth
  <2>10. ((e1 \o e2) \o e3) \o e4 \in Seq(Events) /\ Written(p, ((e1 \o e2) \o e3) \o e4) = p4
    BY <2>5, <2>9, AfterBoth
  <2>11. /\ (((e1 \o e2) \o e3) \o e4) \o e2 \in Seq(Events)
         /\ Written(p, (((e1 \o e2) \o e3) \o e4) \o e2) = p4
    BY <2>1, <2>3, <2>10, AfterBoth
  <2> QED
    BY <2>1, <2>7, <2>11
<1> QED
  BY <1>3, <1>4

\* .. nor after a hard reset, whatever was there.
LEMMA HardResetWritten ==
  ASSUME NEW p \in Pads
  PROVE  LET q == Written(p, HardResetEvents) IN
         /\ HardResetEvents \in Seq(Events) /\ q \in Pads /\ q.track = Nothing /\ q.bits = {}
         /\ q.palms = p.palms
<1> DEFINE e1 == [s \in Slots |-> Track(s, Free)]
           e3 == <<Report>>
           p1 == WithTrack(p, Nothing)
           p2 == WithBits(p1, {})
<1>1. Nothing \in Held /\ \A s \in Slots : Nothing[s] = Free
  BY DEF Nothing, Held
<1>2. /\ p1 \in Pads /\ p1.palms = p.palms /\ p1.track = Nothing
      /\ p2 \in Pads /\ p2.track = Nothing /\ p2.bits = {} /\ p2.palms = p.palms
  <2>1. p1 \in Pads /\ p1.palms = p.palms /\ p1.track = Nothing
    BY <1>1, WithIs
  <2> HIDE DEF p1
  <2>2. p2 \in Pads /\ p2.track = Nothing /\ p2.bits = {} /\ p2.palms = p.palms
    BY <2>1, WithIs
  <2> QED
    BY <2>1, <2>2
<1>3. e1 \in Seq(Events) /\ Written(p, e1) = p1
  <2>1. /\ e1 \in [Slots -> Events]
        /\ \A s \in Slots : \/ e1[s] = Track(s, Nothing[s])
                            \/ e1[s] = Skip /\ Nothing[s] = p.track[s]
    BY <1>1, EventTypes
  <2> HIDE DEF e1
  <2> QED
    BY <1>1, <2>1, TracksWritten
<1>4. AllUp \in Seq(Events) /\ Written(p1, AllUp) = p2
  <2> HIDE DEF p1
  <2> QED
    BY <1>2, AllUpWritten
<1>5. e3 \in Seq(Events) /\ Written(p2, e3) = p2
  <2> HIDE DEF p2
  <2> QED
    BY <1>2, ReportWritten
<1>7. HardResetEvents = (e1 \o AllUp) \o e3
  BY DEF HardResetEvents
<1> HIDE DEF e1, e3, p1, p2
<1>8. e1 \o AllUp \in Seq(Events) /\ Written(p, e1 \o AllUp) = p2
  BY <1>3, <1>4, AfterBoth
<1>9. (e1 \o AllUp) \o e3 \in Seq(Events) /\ Written(p, (e1 \o AllUp) \o e3) = p2
  BY <1>5, <1>8, AfterBoth
<1> QED
  BY <1>2, <1>7, <1>9

-----------------------------------------------------------------------------
(* What a write leaves.                                                    *)

LEMMA ApplyKeeps ==
  ASSUME NEW p \in Pads, NEW e
  PROVE  LET q == Apply(p, e) IN
         q.slots = p.slots /\ q.count = p.count /\ q.desynced = p.desynced
BY DEF Apply, Pads

LEMMA AfterKeeps ==
  ASSUME NEW p \in Pads, NEW es \in Seq(Events), NEW n \in 0..Len(es)
  PROVE  After(p, es, n).slots = p.slots /\ After(p, es, n).count = p.count
<1> DEFINE S == {k \in 0..Len(es) : After(p, es, k).slots = p.slots /\ After(p, es, k).count = p.count}
<1>1. Len(es) \in Nat
  OBVIOUS
<1>2. /\ After(p, es, 0) = p
      /\ \A k \in 0..Len(es) : After(p, es, k) \in Pads
      /\ \A k \in 1..Len(es) : After(p, es, k) = Apply(After(p, es, k - 1), es[k])
  BY AfterIs
<1>3. 0 \in S
  BY <1>1, <1>2
<1>4. ASSUME NEW k \in 1..Len(es), k - 1 \in S
      PROVE  k \in S
  <2>1. k \in 0..Len(es) /\ k - 1 \in 0..Len(es)
    BY <1>1
  <2> QED
    BY <1>2, <1>4, <2>1, ApplyKeeps
<1>5. 0..Len(es) \subseteq S
  <2> HIDE DEF S
  <2> QED
    BY <1>1, <1>3, <1>4, UpTo
<1> QED
  BY <1>5

\* All of it, or the touchpad is known to be out of step.
LEMMA WriteIs ==
  ASSUME NEW p \in Pads, NEW es \in Seq(Events), NEW slots \in Held, NEW count \in 0..MaxSlots,
         NEW q \in Write(p, es, slots, count)
  PROVE  /\ q \in Pads
         /\ \/ q.desynced /\ q.slots = p.slots
            \/ /\ ~q.desynced /\ q.slots = slots /\ q.count = count
               /\ q.track = Written(p, es).track /\ q.palms = Written(p, es).palms
               /\ q.bits = Written(p, es).bits
<1>1. Len(es) \in Nat /\ Len(es) \in 0..Len(es)
  OBVIOUS
<1>2. CASE q = [After(p, es, Len(es)) EXCEPT !.slots = slots, !.count = count, !.desynced = FALSE]
  <2> DEFINE r == After(p, es, Len(es))
  <2>1. r \in Pads
    BY <1>1, AfterIs
  <2> HIDE DEF r
  <2>2. q = [r EXCEPT !.slots = slots, !.count = count, !.desynced = FALSE] /\ r = Written(p, es)
    BY <1>2 DEF r, Written
  <2> QED
    BY <2>1, <2>2 DEF Pads
<1>3. CASE q \in Torn(p, es)
  <2>1. PICK k \in 0..(Len(es) - 1) : q = [After(p, es, k) EXCEPT !.desynced = TRUE]
    BY <1>3 DEF Torn
  <2>2. k \in 0..Len(es)
    BY <1>1
  <2> DEFINE r == After(p, es, k)
  <2>3. r \in Pads /\ r.slots = p.slots
    BY <2>2, AfterIs, AfterKeeps
  <2> HIDE DEF r
  <2>4. q = [r EXCEPT !.desynced = TRUE]
    BY <2>1 DEF r
  <2> QED
    BY <2>3, <2>4 DEF Pads
<1> QED
  BY <1>2, <1>3 DEF Write

LEMMA NothingIs ==
  /\ Nothing \in Held /\ Distinct(Nothing) /\ Occupied(Nothing) = {} /\ Cardinality(Occupied(Nothing)) = 0
  /\ \A s \in Slots : Nothing[s] = Free
<1>1. Nothing \in Held /\ \A s \in Slots : Nothing[s] = Free
  BY DEF Nothing, Held
<1>2. Distinct(Nothing) /\ Occupied(Nothing) = {}
  BY <1>1 DEF Distinct, Occupied
<1> QED
  BY <1>1, <1>2, FS_EmptySet

\* Every contact has one slot, and every slot that is taken one contact.
LEMMA OccupiedCount ==
  ASSUME NEW slots \in Held, Distinct(slots), NEW cs \in Snapshots, Occupants(slots) = Range(cs)
  PROVE  Cardinality(Occupied(slots)) = Len(cs)
<1> DEFINE f == [s \in Occupied(slots) |-> slots[s]]
<1>1. f \in Bijection(Occupied(slots), Occupants(slots))
  <2>1. f \in [Occupied(slots) -> Occupants(slots)]
    BY DEF Occupants
  <2>2. \A s, t \in Occupied(slots) : f[s] = f[t] => s = t
    BY DEF Occupied, Distinct
  <2>3. \A c \in Occupants(slots) : \E s \in Occupied(slots) : f[s] = c
    BY DEF Occupants
  <2> HIDE DEF f
  <2> QED
    BY <2>1, <2>2, <2>3 DEF Bijection, Injection, Surjection, IsInjective
<1>2. ExistsBijection(Occupied(slots), Occupants(slots))
  BY <1>1 DEF ExistsBijection
<1>3. IsFiniteSet(Occupied(slots))
  <2>1. IsFiniteSet(Slots)
    BY SlotsAre, FS_Interval
  <2> QED
    BY <2>1, FS_Subset DEF Occupied
<1>4. Cardinality(Occupied(slots)) = Cardinality(Occupants(slots))
  BY <1>2, <1>3, SnapshotSize, FS_Bijection
<1> QED
  BY <1>4, SnapshotSize

\* A frame on a touchpad that is in step.
LEMMA FramedPadOK ==
  ASSUME NEW p, PadOK(p), ~p.desynced, NEW cs \in Snapshots, NEW q \in Framed(p, cs)
  PROVE  PadOK(q)
<1> DEFINE new == Assigned(p.slots, cs)
           w == Written(p, FrameEvents(p, cs))
<1>1. p \in Pads /\ p.slots \in Held /\ Distinct(p.slots) /\ Sound(p)
  BY DEF PadOK, Pads
<1>2. new \in Held /\ Distinct(new) /\ Occupants(new) = Range(cs)
  BY <1>1, AssignedIs
<1>3. /\ FrameEvents(p, cs) \in Seq(Events)
      /\ w.track = new /\ w.bits = BitsOf(Len(cs)) /\ \A s \in w.palms : new[s] = Free
  BY <1>1, FrameWritten
<1> HIDE DEF new, w
<1>4. Len(cs) \in 0..MaxSlots
  BY SnapshotSize
<1>5. /\ q \in Pads
      /\ \/ q.desynced /\ q.slots = p.slots
         \/ /\ ~q.desynced /\ q.slots = new /\ q.count = Len(cs)
            /\ q.track = w.track /\ q.palms = w.palms /\ q.bits = w.bits
  <2>1. q \in Write(p, FrameEvents(p, cs), new, Len(cs))
    BY DEF Framed, new
  <2> QED
    BY <1>1, <1>2, <1>3, <1>4, <2>1, WriteIs DEF w
<1>6. CASE q.desynced
  BY <1>1, <1>5, <1>6 DEF PadOK
<1>7. CASE ~q.desynced
  <2>1. Cardinality(Occupied(new)) = Len(cs)
    BY <1>2, OccupiedCount
  <2>2. Sound(q)
    BY <1>3, <1>5, <1>7, <2>1 DEF Sound
  <2> QED
    BY <1>2, <1>5, <1>7, <2>2 DEF PadOK
<1> QED
  BY <1>6, <1>7

\* Cleared p: nothing is left on it, and the daemon knows.
Cleared(p) == p.slots = Nothing /\ p.count = 0 /\ p.track = Nothing /\ p.bits = {}

LEMMA ClearedOK ==
  ASSUME NEW p \in Pads, NEW es \in Seq(Events), Distinct(p.slots),
         Written(p, es).track = Nothing, Written(p, es).bits = {},
         NEW q \in Write(p, es, Nothing, 0)
  PROVE  PadOK(q) /\ (~q.desynced => Cleared(q))
<1>1. 0 \in 0..MaxSlots /\ Nothing \in Held
  BY SlotsAre, NothingIs
<1>2. /\ q \in Pads
      /\ \/ q.desynced /\ q.slots = p.slots
         \/ /\ ~q.desynced /\ q.slots = Nothing /\ q.count = 0
            /\ q.track = Written(p, es).track /\ q.palms = Written(p, es).palms
            /\ q.bits = Written(p, es).bits
  BY <1>1, WriteIs
<1>3. CASE q.desynced
  BY <1>2, <1>3 DEF PadOK
<1>4. CASE ~q.desynced
  <2>1. Cleared(q)
    BY <1>2, <1>4 DEF Cleared
  <2>2. \A s \in q.palms : q.slots[s] = Free
    BY <1>2, <2>1, NothingIs DEF Cleared, Pads
  <2>3. Sound(q)
    BY <2>1, <2>2, NothingIs DEF Sound, Cleared, BitsOf
  <2> QED
    BY <1>2, <1>4, <2>1, <2>3, NothingIs DEF PadOK, Cleared
<1> QED
  BY <1>3, <1>4

LEMMA CancelledPadOK ==
  ASSUME NEW p, PadOK(p), NEW q \in Cancelled(p)
  PROVE  PadOK(q) /\ (~q.desynced => Cleared(q))
<1>1. p \in Pads /\ Distinct(p.slots)
  BY DEF PadOK
<1>2. CASE p.desynced
  <2>1. q \in Write(p, HardResetEvents, Nothing, 0)
    BY <1>2 DEF Cancelled
  <2> QED
    BY <1>1, <2>1, HardResetWritten, ClearedOK
<1>3. CASE ~p.desynced
  <2>1. q \in Write(p, CancelEvents(p), Nothing, 0)
    BY <1>3 DEF Cancelled
  <2>2. Sound(p)
    BY <1>3 DEF PadOK
  <2> QED
    BY <1>1, <2>1, <2>2, CancelWritten, ClearedOK
<1> QED
  BY <1>2, <1>3

LEMMA TouchedPadOK ==
  ASSUME NEW p, PadOK(p), NEW cs \in Snapshots, NEW q \in Touched(p, cs)
  PROVE  PadOK(q)
<1>1. CASE ~p.desynced
  BY <1>1, FramedPadOK DEF Touched
<1>2. CASE p.desynced
  <2>1. PICK r \in Write(p, HardResetEvents, Nothing, 0) :
          q \in IF r.desynced THEN {r} ELSE Framed(r, cs)
    BY <1>2 DEF Touched
  <2>2. p \in Pads /\ Distinct(p.slots)
    BY DEF PadOK
  <2>3. PadOK(r)
    BY <2>2, HardResetWritten, ClearedOK
  <2> QED
    BY <2>1, <2>3, FramedPadOK
<1> QED
  BY <1>1, <1>2

LEMMA FreshOK == PadOK(FreshPad) /\ Cleared(FreshPad) /\ ~FreshPad.desynced
<1>1. FreshPad \in Pads
  BY NothingIs, SlotsAre DEF FreshPad, Pads
<1>2. Cleared(FreshPad) /\ FreshPad.palms = {} /\ ~FreshPad.desynced /\ FreshPad.slots = Nothing
  BY DEF FreshPad, Cleared
<1> QED
  BY <1>1, <1>2, NothingIs DEF PadOK, Sound, Cleared, BitsOf

-----------------------------------------------------------------------------
(* The strengthening.                                                      *)

\* The touch side, but for what the touchpad holds: a pad is any value here.
SideOK(t) ==
  t \in [pad: {t.pad}, linear: BOOLEAN, prev: Contacts \cup {Free}, moved: BOOLEAN,
         multi: BOOLEAN, down: BOOLEAN, blocked: BOOLEAN, tapped: BOOLEAN,
         lease: BOOLEAN, native: BOOLEAN, seen: SUBSET Contacts, split: BOOLEAN,
         clicked: SUBSET Contacts, failed: BOOLEAN]

Few(S) == \A c, d \in S : c = d

\* While the linear pointer follows a gesture of one finger, that finger is all
\* that has been down since all were up; otherwise it knows of several, or is
\* blocked, or a lease has been taken in the middle.
OneSeen(t) == t.seen = IF t.prev = Free THEN {} ELSE {t.prev}
Followed(t) == t.linear => t.split \/ t.multi \/ t.blocked \/ OneSeen(t)

GestureOK(t) ==
  /\ SideOK(t) /\ Few(t.clicked)
  /\ t.multi => t.prev = Free
  /\ Followed(t)

GInv == GestureOK(touch)

-----------------------------------------------------------------------------
(* What the steps of an operation leave alone.                             *)

\* Nothing that decides which finger a gesture is of, but that it may be blocked.
Same(t, u) ==
  /\ SideOK(u) /\ u.linear = t.linear /\ u.prev = t.prev /\ u.multi = t.multi
  /\ u.seen = t.seen /\ u.split = t.split /\ (t.blocked => u.blocked)

\* Nor the fingers of the last press.
Quiet(t, u) == Same(t, u) /\ u.clicked = t.clicked

\* A press counts the fingers of the gesture so far.
LEMMA PressIs ==
  ASSUME NEW t, SideOK(t), NEW u \in Press(t)
  PROVE  Same(t, u) /\ (u.clicked = t.clicked \/ u.clicked = Whole(t))
<1>1. Whole(t) \in SUBSET Contacts
  BY DEF Whole, SideOK
<1>2. CASE ~t.lease
  <2>1. u = [t EXCEPT !.failed = TRUE]
    BY <1>2 DEF Press
  <2> QED
    BY <2>1 DEF Same, SideOK
<1>3. CASE t.lease
  <2> DEFINE W == Whole(t)
  <2>1. W \in SUBSET Contacts
    BY <1>1
  <2>2. t.native \in BOOLEAN
    BY DEF SideOK
  <2> HIDE DEF W
  <2>3. \/ u = [t EXCEPT !.native = TRUE, !.clicked = W]
        \/ \E n \in {TRUE, t.native} :
             u = [t EXCEPT !.native = n, !.clicked = W, !.lease = FALSE, !.failed = TRUE]
    BY <1>3 DEF Press, W
  <2>4. ASSUME u = [t EXCEPT !.native = TRUE, !.clicked = W]
        PROVE  Same(t, u) /\ u.clicked = W
    BY <2>1, <2>4 DEF Same, SideOK
  <2>5. ASSUME NEW n \in BOOLEAN,
               u = [t EXCEPT !.native = n, !.clicked = W, !.lease = FALSE, !.failed = TRUE]
        PROVE  Same(t, u) /\ u.clicked = W
    BY <2>1, <2>5 DEF Same, SideOK
  <2>6. Same(t, u) /\ u.clicked = W
    BY <2>2, <2>3, <2>4, <2>5
  <2> QED
    BY <2>6 DEF W
<1> QED
  BY <1>2, <1>3 DEF SideOK

LEMMA MoveIs ==
  ASSUME NEW t, SideOK(t), NEW u \in Move(t)
  PROVE  Quiet(t, u)
<1>1. u = t \/ u = [t EXCEPT !.lease = FALSE, !.failed = TRUE]
  BY DEF Move
<1> QED
  BY <1>1 DEF Quiet, Same, SideOK

LEMMA ReleaseIs ==
  ASSUME NEW t, SideOK(t), NEW u \in Release(t)
  PROVE  Quiet(t, u)
<1>1. CASE u = t
  BY <1>1 DEF Quiet, Same
<1>2. CASE u = [t EXCEPT !.down = FALSE, !.native = FALSE]
  BY <1>2 DEF Quiet, Same, SideOK
<1>3. ASSUME NEW n \in BOOLEAN,
             u = [t EXCEPT !.down = FALSE, !.native = n, !.blocked = TRUE, !.failed = TRUE]
      PROVE  Quiet(t, u)
  <2>1. SideOK(u)
    BY <1>3 DEF SideOK
  <2>2. /\ u.linear = t.linear /\ u.prev = t.prev /\ u.multi = t.multi /\ u.blocked
        /\ u.seen = t.seen /\ u.split = t.split /\ u.clicked = t.clicked
    BY <1>3 DEF SideOK
  <2> QED
    BY <2>1, <2>2 DEF Quiet, Same
<1>4. t.native \in BOOLEAN
  BY DEF SideOK
<1>5. \/ u = t
      \/ u = [t EXCEPT !.down = FALSE, !.native = FALSE]
      \/ \E n \in {FALSE, t.native} :
           u = [t EXCEPT !.down = FALSE, !.native = n, !.blocked = TRUE, !.failed = TRUE]
  BY DEF Release
<1> QED
  BY <1>1, <1>2, <1>3, <1>4, <1>5

LEMMA OnPadIs ==
  ASSUME NEW t, SideOK(t), NEW pads, NEW u \in OnPad(t, pads)
  PROVE  Quiet(t, u)
<1>1. PICK p \in pads : u = [t EXCEPT !.pad = p, !.failed = @ \/ p.desynced]
  BY DEF OnPad
<1>2. (t.failed \/ p.desynced) \in BOOLEAN
  OBVIOUS
<1> DEFINE failed == t.failed \/ p.desynced
<1>3. u = [t EXCEPT !.pad = p, !.failed = failed]
  BY <1>1
<1>4. failed \in BOOLEAN
  BY <1>2
<1> HIDE DEF failed
<1> QED
  BY <1>3, <1>4 DEF Quiet, Same, SideOK

LEMMA MultiTouchIs ==
  ASSUME NEW t, SideOK(t), NEW cs, NEW u \in MultiTouch(t, cs)
  PROVE  Quiet(t, u)
BY OnPadIs DEF MultiTouch

LEMMA CancelMultiIs ==
  ASSUME NEW t, SideOK(t), NEW u \in CancelMulti(t)
  PROVE  Quiet(t, u)
BY OnPadIs DEF CancelMulti

-----------------------------------------------------------------------------
(* The operations of linearTouch.                                          *)

LEMMA CancelIs ==
  ASSUME NEW t, SideOK(t), NEW u \in Cancel(t)
  PROVE  /\ SideOK(u) /\ u.linear = t.linear /\ u.prev = Free /\ ~u.multi
         /\ u.clicked = t.clicked
<1>1. PICK v \in UNION {CancelMulti(r) : r \in Release(t)} :
        u = [v EXCEPT !.prev = Free, !.multi = FALSE, !.tapped = FALSE]
  BY DEF Cancel
<1>2. PICK r \in Release(t) : v \in CancelMulti(r)
  BY <1>1
<1>3. Quiet(t, r)
  BY ReleaseIs
<1>4. Quiet(r, v)
  BY <1>2, <1>3, CancelMultiIs DEF Quiet, Same
<1>5. SideOK(v) /\ v.linear = t.linear /\ v.clicked = t.clicked
  BY <1>3, <1>4 DEF Quiet, Same
<1> QED
  BY <1>1, <1>5 DEF SideOK

LEMMA GesturesIs ==
  ASSUME NEW t, SideOK(t), t.multi => t.prev = Free, NEW cs, NEW u \in Gestures(t, cs)
  PROVE  /\ SideOK(u) /\ u.linear = t.linear /\ u.prev = Free
         /\ u.multi = (Len(cs) # 0) /\ u.clicked = t.clicked
<1> DEFINE R == IF t.multi THEN {t}
                ELSE {[q EXCEPT !.prev = Free, !.tapped = FALSE] : q \in Release(t)}
           several == Len(cs) # 0
<1>1. PICK v \in UNION {MultiTouch(r, cs) : r \in R} : u = [v EXCEPT !.multi = several]
  BY DEF Gestures
<1>2. PICK r \in R : v \in MultiTouch(r, cs)
  BY <1>1
<1>3. SideOK(r) /\ r.linear = t.linear /\ r.prev = Free /\ r.clicked = t.clicked
  <2>1. CASE t.multi
    BY <2>1
  <2>2. CASE ~t.multi
    <3>1. PICK q \in Release(t) : r = [q EXCEPT !.prev = Free, !.tapped = FALSE]
      BY <2>2
    <3>2. Quiet(t, q)
      BY ReleaseIs
    <3> QED
      BY <3>1, <3>2 DEF Quiet, Same, SideOK
  <2> QED
    BY <2>1, <2>2
<1>4. Quiet(r, v)
  BY <1>2, <1>3, MultiTouchIs
<1>5. SideOK(v) /\ v.linear = t.linear /\ v.prev = Free /\ v.clicked = t.clicked
  BY <1>3, <1>4 DEF Quiet, Same
<1>6. several \in BOOLEAN
  OBVIOUS
<1> HIDE DEF several
<1>7. SideOK(u) /\ u.linear = t.linear /\ u.prev = Free /\ u.multi = several
      /\ u.clicked = t.clicked
  BY <1>1, <1>5, <1>6 DEF SideOK
<1> QED
  BY <1>7 DEF several

\* A click is of the finger that was followed.
LEMMA LiftsIs ==
  ASSUME NEW t, SideOK(t), NEW u \in Lifts(t)
  PROVE  /\ SideOK(u) /\ u.linear = t.linear /\ u.prev = Free /\ u.multi = t.multi
         /\ u.clicked = t.clicked \/ (t.prev # Free /\ u.clicked = Whole(t))
<1> DEFINE Click(r) == [r EXCEPT !.blocked = @ \/ ~r.lease, !.tapped = ~(r.blocked \/ ~r.lease)]
           clicks == {Click(r) : r \in UNION {Release([p EXCEPT !.down = TRUE]) : p \in Press(t)}}
<1>1. PICK v \in IF t.prev = Free THEN {t}
                 ELSE IF t.down THEN Release(t)
                 ELSE {t} \cup (IF t.moved THEN {} ELSE clicks) :
        u = [v EXCEPT !.prev = Free]
  BY DEF Lifts
<1>2. /\ SideOK(v) /\ v.linear = t.linear /\ v.multi = t.multi
      /\ v.clicked = t.clicked \/ (t.prev # Free /\ v.clicked = Whole(t))
  <2>1. CASE v = t
    BY <2>1
  <2>2. CASE v \in Release(t)
    BY <2>2, ReleaseIs DEF Quiet, Same
  <2>3. CASE t.prev # Free /\ v \in clicks
    <3>1. PICK r \in UNION {Release([p EXCEPT !.down = TRUE]) : p \in Press(t)} : v = Click(r)
      BY <2>3
    <3>2. PICK p \in Press(t) : r \in Release([p EXCEPT !.down = TRUE])
      BY <3>1
    <3>3. Same(t, p) /\ (p.clicked = t.clicked \/ p.clicked = Whole(t))
      BY PressIs
    <3> DEFINE d == [p EXCEPT !.down = TRUE]
    <3>4. SideOK(d) /\ d.linear = p.linear /\ d.multi = p.multi /\ d.clicked = p.clicked
      BY <3>3 DEF Same, SideOK
    <3>5. r \in Release(d)
      BY <3>2
    <3> HIDE DEF d
    <3>6. Quiet(d, r)
      BY <3>4, <3>5, ReleaseIs
    <3>7. SideOK(v) /\ v.linear = r.linear /\ v.multi = r.multi /\ v.clicked = r.clicked
      <4> DEFINE b == r.blocked \/ ~r.lease
                 c == ~(r.blocked \/ ~r.lease)
      <4>1. v = [r EXCEPT !.blocked = b, !.tapped = c]
        BY <3>1
      <4>2. b \in BOOLEAN /\ c \in BOOLEAN /\ SideOK(r)
        BY <3>6 DEF Quiet, Same
      <4> HIDE DEF b, c
      <4>3. SideOK(v)
        <5> DEFINE w == [r EXCEPT !.blocked = b]
        <5>1. SideOK(w)
          BY <4>2 DEF SideOK
        <5>2. v = [w EXCEPT !.tapped = c]
          BY <4>1
        <5> HIDE DEF w
        <5> QED
          BY <4>2, <5>1, <5>2 DEF SideOK
      <4>4. v.linear = r.linear /\ v.multi = r.multi /\ v.clicked = r.clicked
        BY <4>1, <4>2 DEF SideOK
      <4> QED
        BY <4>3, <4>4
    <3>8. p.linear = t.linear /\ p.multi = t.multi
      BY <3>3 DEF Same
    <3>9. r.linear = d.linear /\ r.multi = d.multi /\ r.clicked = d.clicked
      BY <3>6 DEF Quiet, Same
    <3> QED
      BY <2>3, <3>3, <3>4, <3>7, <3>8, <3>9
  <2> QED
    BY <1>1, <2>1, <2>2, <2>3
<1> QED
  BY <1>1, <1>2 DEF SideOK

\* So is a drag.
LEMMA LandsIs ==
  ASSUME NEW t, SideOK(t), NEW c \in Contacts, NEW u \in Lands(t, c)
  PROVE  /\ SideOK(u) /\ u.linear = t.linear /\ u.prev = c /\ u.multi = t.multi
         /\ u.seen = t.seen /\ u.split = t.split /\ (t.blocked => u.blocked)
         /\ u.clicked = t.clicked \/ u.clicked = Whole(t)
<1> DEFINE s == [t EXCEPT !.moved = FALSE]
           Drag(p) == IF p.lease THEN {[p EXCEPT !.down = TRUE]}
                      ELSE Release([p EXCEPT !.down = TRUE, !.blocked = TRUE])
<1>1. PICK v \in {s} \cup (IF t.tapped THEN UNION {Drag(p) : p \in Press(s)} ELSE {}) :
        u = [v EXCEPT !.prev = c, !.tapped = FALSE]
  BY DEF Lands
<1>2. Quiet(t, s) /\ SideOK(s) /\ Whole(s) = Whole(t)
  BY DEF Quiet, Same, SideOK, Whole
<1>3. CASE v = s
  <2>1. Same(t, v) /\ v.clicked = t.clicked
    BY <1>2, <1>3 DEF Quiet
  <2> HIDE DEF s
  <2> QED
    BY <1>1, <2>1 DEF Same, SideOK
<1>4. CASE v \in UNION {Drag(p) : p \in Press(s)}
  <2>1. PICK p \in Press(s) : v \in Drag(p)
    BY <1>4
  <2> HIDE DEF s
  <2>2. Same(s, p) /\ (p.clicked = s.clicked \/ p.clicked = Whole(s))
    BY <1>2, PressIs
  <2>3. Same(p, v) /\ v.clicked = p.clicked
    <3>1. CASE p.lease
      <4>1. v = [p EXCEPT !.down = TRUE]
        BY <2>1, <3>1
      <4> QED
        BY <2>2, <4>1 DEF Same, SideOK
    <3>2. CASE ~p.lease
      <4> DEFINE d == [p EXCEPT !.down = TRUE, !.blocked = TRUE]
      <4>1. v \in Release(d)
        BY <2>1, <3>2
      <4>2. Same(p, d) /\ d.clicked = p.clicked
        BY <2>2 DEF Same, SideOK
      <4> HIDE DEF d
      <4>3. Quiet(d, v)
        BY <4>1, <4>2, ReleaseIs DEF Same
      <4> QED
        BY <4>2, <4>3 DEF Quiet, Same
    <3> QED
      BY <3>1, <3>2
  <2>4. Same(t, v) /\ (v.clicked = t.clicked \/ v.clicked = Whole(t))
    BY <1>2, <2>2, <2>3 DEF Quiet, Same
  <2> QED
    BY <1>1, <2>4 DEF Same, SideOK
<1> QED
  BY <1>1, <1>3, <1>4

\* A movement presses nothing.
LEMMA SlidesIs ==
  ASSUME NEW t, SideOK(t), NEW c \in Contacts, NEW u \in Slides(t, c)
  PROVE  /\ SideOK(u) /\ u.linear = t.linear /\ u.prev = c /\ u.multi = t.multi
         /\ u.seen = t.seen /\ u.split = t.split /\ (t.blocked => u.blocked)
         /\ u.clicked = t.clicked
<1> DEFINE Slide(m) == IF m.lease THEN {m} ELSE Release([m EXCEPT !.blocked = TRUE])
           Start(b) == [t EXCEPT !.moved = b]
           M == UNION {Move(Start(b)) : b \in {t.moved, TRUE}}
<1>1. PICK v \in {t} \cup UNION {Slide(m) : m \in M} : u = [v EXCEPT !.prev = c]
  BY DEF Slides
<1>2. Quiet(t, v)
  <2>1. CASE v = t
    BY <2>1 DEF Quiet, Same
  <2>2. CASE v \in UNION {Slide(m) : m \in M}
    <3>1. PICK m \in M : v \in Slide(m)
      BY <2>2
    <3>2. PICK b \in {t.moved, TRUE} : m \in Move(Start(b))
      OBVIOUS
    <3>3. b \in BOOLEAN
      BY DEF SideOK
    <3>4. Quiet(t, Start(b))
      BY <3>3 DEF Quiet, Same, SideOK
    <3> DEFINE s == Start(b)
    <3>5. Quiet(t, s) /\ m \in Move(s)
      BY <3>2, <3>4
    <3> HIDE DEF s
    <3>6. Quiet(s, m)
      BY <3>5, MoveIs DEF Quiet, Same
    <3>7. Quiet(m, v)
      <4>1. CASE m.lease
        <5>1. v = m
          BY <3>1, <4>1
        <5> QED
          BY <5>1, <3>6 DEF Quiet, Same
      <4>2. CASE ~m.lease
        <5> DEFINE d == [m EXCEPT !.blocked = TRUE]
        <5>1. v \in Release(d)
          BY <3>1, <4>2
        <5>2. Quiet(m, d)
          BY <3>6 DEF Quiet, Same, SideOK
        <5> HIDE DEF d
        <5>3. Quiet(d, v)
          BY <5>1, <5>2, ReleaseIs DEF Quiet, Same
        <5> QED
          BY <5>2, <5>3 DEF Quiet, Same
      <4> QED
        BY <4>1, <4>2
    <3> QED
      BY <3>5, <3>6, <3>7 DEF Quiet, Same
  <2> QED
    BY <2>1, <2>2
<1> QED
  BY <1>1, <1>2 DEF Quiet, Same, SideOK
-----------------------------------------------------------------------------
(* A frame.                                                                *)

LEMMA SnapshotIs ==
  ASSUME NEW cs \in Snapshots
  PROVE  /\ Len(cs) \in Nat /\ Range(cs) \subseteq Contacts
         /\ cs = <<>> => Len(cs) = 0 /\ Range(cs) = {}
         /\ (cs # <<>> /\ ~(Len(cs) > 1)) => cs[1] \in Contacts /\ Range(cs) = {cs[1]}
<1>1. PICK m \in 0..MaxSlots : cs \in [1..m -> Contacts]
  BY DEF Snapshots, SeqOf
<1>2. m \in Nat /\ cs \in Seq(Contacts) /\ Len(cs) = m /\ DOMAIN cs = 1..m
  BY <1>1, TouchpadAssumption DEF TouchpadAssumption
<1>3. Range(cs) = {cs[i] : i \in 1..m}
  BY <1>2 DEF Range
<1>4. Range(cs) \subseteq Contacts
  BY <1>1, <1>3
<1>5. ASSUME cs = <<>>
      PROVE  m = 0 /\ Range(cs) = {}
  BY <1>2, <1>3, <1>5
<1>6. ASSUME cs # <<>>, ~(Len(cs) > 1)
      PROVE  cs[1] \in Contacts /\ Range(cs) = {cs[1]}
  <2>1. m # 0
    BY <1>2, <1>6
  <2>2. m = 1
    BY <1>2, <1>6, <2>1
  <2>3. 1..m = {1}
    BY <2>2
  <2> QED
    BY <1>1, <1>3, <2>3
<1> QED
  BY <1>2, <1>4, <1>5, <1>6

LEMMA SeenIs ==
  ASSUME NEW t, SideOK(t), NEW cs
  PROVE  /\ SideOK(Seen(t, cs)) /\ Seen(t, cs).linear = t.linear
         /\ Seen(t, cs).prev = t.prev /\ Seen(t, cs).multi = t.multi
         /\ Seen(t, cs).blocked = t.blocked /\ Seen(t, cs).clicked = t.clicked
         /\ cs = <<>> => Seen(t, cs).seen = {}
         /\ cs # <<>> => Seen(t, cs) = t
<1>1. CASE cs # <<>>
  BY <1>1 DEF Seen
<1>2. CASE cs = <<>>
  <2>1. Seen(t, cs) = [t EXCEPT !.seen = {}, !.split = FALSE]
    BY <1>2 DEF Seen
  <2>2. SideOK(Seen(t, cs))
    BY <2>1 DEF SideOK
  <2>3. /\ Seen(t, cs).linear = t.linear /\ Seen(t, cs).prev = t.prev
        /\ Seen(t, cs).multi = t.multi /\ Seen(t, cs).blocked = t.blocked
        /\ Seen(t, cs).clicked = t.clicked /\ Seen(t, cs).seen = {}
    BY <2>1 DEF SideOK
  <2> QED
    BY <1>2, <2>2, <2>3
<1> QED
  BY <1>1, <1>2

\* What an operation starts and ends with disturbs nothing.
LEMMA HistoryOK ==
  ASSUME NEW t, GestureOK(t)
  PROVE  /\ GestureOK(Clean(t)) /\ Clean(t).linear = t.linear /\ GestureOK(Done(t))
         /\ t.prev = Free => GestureOK(Forgotten(t))
BY DEF GestureOK, SideOK, Few, Followed, OneSeen, Clean, Done, Forgotten

\* A new lease follows nothing yet, and knows when it is not the first of the gesture.
LEMMA RecoverOK ==
  ASSUME NEW t, GestureOK(t), t.prev = Free, t.blocked, NEW u \in Recover(t)
  PROVE  GestureOK(u) /\ u.linear = t.linear
<1>1. CASE u = [t EXCEPT !.failed = TRUE]
  BY <1>1 DEF GestureOK, SideOK, Few, Followed, OneSeen
<1>2. CASE u = [Leased(t) EXCEPT !.split = @ \/ t.seen # {}]
  <2> DEFINE v == Leased(t)
             split == v.split \/ t.seen # {}
  <2>1. SideOK(t)
    BY DEF GestureOK
  <2>2. SideOK(v)
    <3> DEFINE a == [t EXCEPT !.prev = Free, !.moved = FALSE, !.multi = FALSE, !.down = FALSE]
    <3>1. SideOK(a)
      BY <2>1 DEF SideOK
    <3>2. v = [a EXCEPT !.blocked = FALSE, !.tapped = FALSE, !.lease = TRUE, !.native = FALSE]
      BY DEF Leased
    <3> HIDE DEF a, v
    <3> QED
      BY <3>1, <3>2 DEF SideOK
  <2>3. /\ v.linear = t.linear /\ v.prev = Free /\ ~v.multi
        /\ v.seen = t.seen /\ v.clicked = t.clicked
    BY <2>1 DEF Leased, SideOK
  <2>4. u = [v EXCEPT !.split = split]
    BY <1>2
  <2>5. split \in BOOLEAN /\ (split \/ t.seen = {})
    OBVIOUS
  <2> HIDE DEF split, v
  <2>6. /\ SideOK(u) /\ u.linear = t.linear /\ u.prev = Free /\ ~u.multi /\ u.split = split
        /\ u.seen = t.seen /\ u.clicked = t.clicked
    BY <2>2, <2>3, <2>4, <2>5 DEF SideOK
  <2>7. u.split \/ OneSeen(u)
    BY <2>5, <2>6 DEF OneSeen
  <2> QED
    BY <2>6, <2>7 DEF GestureOK, Followed
<1> QED
  BY <1>1, <1>2 DEF Recover

\* linearTouch.frame, case by case: a press is of the only finger there has been.
LEMMA LinearFrameOK ==
  ASSUME NEW t, GestureOK(t), t.linear, NEW cs \in Snapshots,
         NEW u \in LinearFrame(Seeing(t, cs), cs)
  PROVE  GestureOK(Seen(u, cs))
<1> DEFINE s == Seeing(t, cs)
<1>1. /\ SideOK(s) /\ s.linear /\ s.prev = t.prev /\ s.multi = t.multi
      /\ s.seen = t.seen \cup Range(cs) /\ s.split = t.split /\ s.blocked = t.blocked
      /\ s.clicked = t.clicked
  BY SnapshotIs DEF Seeing, GestureOK, SideOK
<1>2. u \in LinearFrame(s, cs)
  OBVIOUS
<1> HIDE DEF s
<1>3. Few(t.clicked) /\ (t.multi => t.prev = Free) /\ Followed(t) /\ t.multi \in BOOLEAN
      /\ t.blocked \in BOOLEAN
  BY DEF GestureOK, SideOK
\* When all are up, nothing is followed and nothing has been seen.
<1>4. ASSUME cs = <<>>, SideOK(u), u.prev = Free, Few(u.clicked)
      PROVE  GestureOK(Seen(u, cs))
  <2>1. /\ SideOK(Seen(u, cs)) /\ Seen(u, cs).prev = Free /\ Seen(u, cs).seen = {}
        /\ Few(Seen(u, cs).clicked)
    BY <1>4, SeenIs
  <2> QED
    BY <2>1 DEF GestureOK, Followed, OneSeen
<1>5. ASSUME cs # <<>>, SideOK(u)
      PROVE  Seen(u, cs) = u
  BY <1>5, SeenIs
<1>6. CASE s.blocked
  <2>1. Quiet(s, u)
    BY <1>1, <1>2, <1>6, MultiTouchIs DEF LinearFrame
  <2>2. SideOK(u) /\ Few(u.clicked) /\ (u.multi => u.prev = Free) /\ u.blocked
    BY <1>1, <1>3, <1>6, <2>1 DEF Quiet, Same
  <2> QED
    BY <2>2, SeenIs DEF GestureOK, Followed
<1>7. CASE ~s.blocked /\ Several(s, cs)
  <2>1. u \in Gestures(s, cs)
    BY <1>2, <1>7 DEF LinearFrame
  <2>2. SideOK(u) /\ u.prev = Free /\ u.multi = (Len(cs) # 0) /\ Few(u.clicked)
    BY <1>1, <1>3, <2>1, GesturesIs
  <2>3. CASE cs = <<>>
    BY <1>4, <2>2, <2>3
  <2>4. CASE cs # <<>>
    <3>1. Len(cs) # 0
      BY <2>4 DEF Snapshots, SeqOf
    <3> QED
      BY <1>5, <2>2, <2>4, <3>1 DEF GestureOK, Followed
  <2> QED
    BY <2>3, <2>4
<1>8. CASE ~s.blocked /\ ~Several(s, cs) /\ cs = <<>>
  <2>1. u \in Lifts(s)
    BY <1>2, <1>8 DEF LinearFrame
  <2>2. /\ SideOK(u) /\ u.prev = Free
        /\ u.clicked = s.clicked \/ (s.prev # Free /\ u.clicked = Whole(s))
    BY <1>1, <2>1, LiftsIs
  <2>3. s.prev # Free => Few(Whole(s))
    BY <1>1, <1>3, <1>8, SnapshotIs DEF Several, Followed, OneSeen, Whole, Few
  <2> QED
    BY <1>1, <1>3, <1>4, <1>8, <2>2, <2>3
<1>9. CASE ~s.blocked /\ ~Several(s, cs) /\ cs # <<>>
  <2>1. cs[1] \in Contacts /\ Range(cs) = {cs[1]} /\ ~s.multi /\ cs[1] # Free
    BY <1>9, SnapshotIs, TouchpadAssumption DEF Several, TouchpadAssumption
  <2>2. CASE s.prev = Free
    <3>1. u \in Lands(s, cs[1])
      BY <1>2, <1>9, <2>1, <2>2 DEF LinearFrame
    <3>2. /\ SideOK(u) /\ u.prev = cs[1] /\ u.multi = s.multi /\ u.seen = s.seen
          /\ u.split = s.split /\ (u.clicked = s.clicked \/ u.clicked = Whole(s))
      BY <1>1, <2>1, <3>1, LandsIs
    <3>3. s.split \/ s.seen = {cs[1]}
      BY <1>1, <1>3, <1>9, <2>1, <2>2 DEF Followed, OneSeen
    <3>4. Few(Whole(s))
      BY <3>3 DEF Whole, Few
    <3>5. Few(u.clicked) /\ ~u.multi /\ Followed(u)
      BY <1>1, <1>3, <2>1, <3>2, <3>3, <3>4 DEF Followed, OneSeen
    <3> QED
      BY <1>5, <1>9, <3>2, <3>5 DEF GestureOK
  <2>3. CASE s.prev = cs[1]
    <3>1. u \in Slides(s, cs[1])
      BY <1>2, <1>9, <2>1, <2>3 DEF LinearFrame
    <3>2. /\ SideOK(u) /\ u.prev = cs[1] /\ u.multi = s.multi /\ u.seen = s.seen
          /\ u.split = s.split /\ u.clicked = s.clicked
      BY <1>1, <2>1, <3>1, SlidesIs
    <3>3. s.split \/ s.seen = {cs[1]}
      BY <1>1, <1>3, <1>9, <2>1, <2>3 DEF Followed, OneSeen
    <3>4. Few(u.clicked) /\ ~u.multi /\ Followed(u)
      BY <1>1, <1>3, <2>1, <3>2, <3>3 DEF Followed, OneSeen
    <3> QED
      BY <1>5, <1>9, <3>2, <3>4 DEF GestureOK
  <2>4. CASE s.prev # Free /\ s.prev # cs[1]
    <3>1. PICK v \in Cancel(s) : u = [v EXCEPT !.seen = {}, !.split = FALSE]
      BY <1>2, <1>9, <2>4 DEF LinearFrame
    <3>2. SideOK(v) /\ v.prev = Free /\ ~v.multi /\ v.clicked = s.clicked
      BY <1>1, CancelIs
    <3>3. SideOK(u) /\ u.prev = Free /\ ~u.multi /\ u.clicked = s.clicked /\ u.seen = {}
      BY <3>1, <3>2 DEF SideOK
    <3> QED
      BY <1>1, <1>3, <1>5, <1>9, <3>3 DEF GestureOK, Followed, OneSeen
  <2> QED
    BY <2>2, <2>3, <2>4
<1> QED
  BY <1>6, <1>7, <1>8, <1>9

-----------------------------------------------------------------------------
(* The operations of the device.                                           *)

LEMMA TouchFrameOK ==
  ASSUME GInv, NEW cs \in Snapshots, TouchFrame(cs)
  PROVE  GInv'
<1> DEFINE t == Clean(touch)
           ready == IF t.linear /\ t.blocked /\ Idle(t) /\ cs # <<>> THEN Recover(t) ELSE {t}
           FrameOf(r) == IF r.linear THEN LinearFrame(Seeing(r, cs), cs)
                         ELSE MultiTouch(Seeing(r, cs), cs)
<1>1. PICK u \in UNION {FrameOf(r) : r \in ready} : touch' = Done(Seen(u, cs))
  BY DEF TouchFrame
<1>2. PICK r \in ready : u \in FrameOf(r)
  OBVIOUS
<1>3. GestureOK(t)
  BY HistoryOK DEF GInv
<1> HIDE DEF t
<1>4. GestureOK(r)
  BY <1>3, RecoverOK DEF Idle
<1>5. GestureOK(Seen(u, cs))
  <2>1. CASE r.linear
    BY <1>2, <1>4, <2>1, LinearFrameOK
  <2>2. CASE ~r.linear
    <3> DEFINE s == Seeing(r, cs)
    <3>1. /\ SideOK(s) /\ ~s.linear /\ s.prev = r.prev /\ s.multi = r.multi
          /\ s.clicked = r.clicked
      BY <1>4, <2>2, SnapshotIs DEF Seeing, GestureOK, SideOK
    <3>2. u \in MultiTouch(s, cs)
      BY <1>2, <2>2
    <3> HIDE DEF s
    <3>3. Quiet(s, u)
      BY <3>1, <3>2, MultiTouchIs
    <3>4. /\ SideOK(u) /\ ~u.linear /\ u.prev = r.prev /\ u.multi = r.multi
          /\ u.clicked = r.clicked
      BY <3>1, <3>3 DEF Quiet, Same
    <3> QED
      BY <1>4, <3>4, SeenIs DEF GestureOK, Followed
  <2> QED
    BY <2>1, <2>2
<1> QED
  BY <1>1, <1>5, HistoryOK DEF GInv

\* Cancelling a gesture, in whole: nothing is followed, nothing is pressed.
LEMMA CancelledOK ==
  ASSUME NEW t, GestureOK(t), NEW r \in LinearCancel(t), NEW u \in CancelMulti(r)
  PROVE  GestureOK(Forgotten(u)) /\ Forgotten(u).linear = t.linear
         /\ (t.linear => Forgotten(u).prev = Free)
<1>1. CASE t.linear
  <2>1. r \in Cancel(t)
    BY <1>1 DEF LinearCancel
  <2>2. /\ SideOK(r) /\ r.linear = t.linear /\ r.prev = Free /\ ~r.multi
        /\ r.clicked = t.clicked
    BY <2>1, CancelIs DEF GestureOK
  <2>3. Quiet(r, u)
    BY <2>2, CancelMultiIs
  <2>4. /\ SideOK(u) /\ u.linear = t.linear /\ u.prev = Free /\ ~u.multi
        /\ u.clicked = t.clicked
    BY <2>2, <2>3 DEF Quiet, Same
  <2> QED
    BY <2>4 DEF Forgotten, GestureOK, SideOK, Followed, OneSeen
<1>2. CASE ~t.linear
  <2>1. r = t
    BY <1>2 DEF LinearCancel
  <2>2. Quiet(t, u)
    BY <2>1, CancelMultiIs DEF GestureOK
  <2>3. /\ SideOK(u) /\ u.linear = t.linear /\ u.prev = t.prev /\ u.multi = t.multi
        /\ u.clicked = t.clicked
    BY <2>2 DEF Quiet, Same
  <2> QED
    BY <1>2, <2>3 DEF Forgotten, GestureOK, SideOK, Followed
<1> QED
  BY <1>1, <1>2

LEMMA CancelTouchOK ==
  ASSUME GInv, CancelTouch
  PROVE  GInv'
<1>1. PICK u \in UNION {CancelMulti(r) : r \in LinearCancel(Clean(touch))} :
        touch' = Done(Forgotten(u))
  BY DEF CancelTouch
<1>2. GestureOK(Clean(touch))
  BY HistoryOK DEF GInv
<1>3. GestureOK(Forgotten(u))
  BY <1>2, CancelledOK
<1> QED
  BY <1>1, <1>3, HistoryOK DEF GInv

LEMMA GeometryOK ==
  ASSUME GInv, ApplyPointerGeometry
  PROVE  GInv'
<1>1. PICK u \in UNION {CancelMulti(r) : r \in LinearCancel(Clean(touch))} :
        touch' = Done(Forgotten([u EXCEPT !.pad = FreshPad]))
  BY DEF ApplyPointerGeometry
<1>2. GestureOK(Clean(touch))
  BY HistoryOK DEF GInv
<1>3. GestureOK(Forgotten(u))
  BY <1>2, CancelledOK
<1>4. GestureOK(Forgotten([u EXCEPT !.pad = FreshPad]))
  BY <1>3 DEF Forgotten, GestureOK, SideOK, Followed, OneSeen, Few
<1> QED
  BY <1>1, <1>4, HistoryOK DEF GInv

LEMMA ResetOK ==
  ASSUME GInv, Reset
  PROVE  GInv'
<1> DEFINE sides == UNION {CancelMulti(r) : r \in LinearCancel(Clean(touch))}
<1>1. PICK u \in UNION {ResetLease(Forgotten(t)) : t \in sides} : touch' = Done(u)
  BY DEF Reset
<1>2. PICK t \in sides : u \in ResetLease(Forgotten(t))
  BY <1>1
<1>3. GestureOK(Clean(touch))
  BY HistoryOK DEF GInv
<1> DEFINE f == Forgotten(t)
<1>4. GestureOK(f) /\ (f.linear => f.prev = Free)
  BY <1>3, CancelledOK
<1>5. u \in ResetLease(f)
  BY <1>2
<1> HIDE DEF f
<1>6. GestureOK(u)
  BY <1>4, <1>5, RecoverOK DEF ResetLease
<1> QED
  BY <1>1, <1>6, HistoryOK DEF GInv

-----------------------------------------------------------------------------
(* What is down.                                                           *)

\* The touchpad is as it should be, and the native button is known to be down, or its
\* lease to be lost.
HoldOK(t) ==
  /\ SideOK(t) /\ PadOK(t.pad)
  /\ t.down => t.linear
  /\ t.native => t.linear /\ (t.down \/ t.blocked)

\* But for the button, and more may be blocked.
SameHold(t, u) ==
  u.pad = t.pad /\ u.linear = t.linear /\ u.down = t.down /\ (t.blocked => u.blocked)

LEMMA HoldFrom ==
  ASSUME NEW t, HoldOK(t), NEW u, SideOK(u), SameHold(t, u), u.native => t.native
  PROVE  HoldOK(u)
BY DEF HoldOK, SameHold

LEMMA PressHold ==
  ASSUME NEW t, SideOK(t), NEW u \in Press(t)
  PROVE  SideOK(u) /\ SameHold(t, u)
<1>1. SideOK(u)
  BY PressIs DEF Same
<1>2. CASE ~t.lease
  <2>1. u = [t EXCEPT !.failed = TRUE]
    BY <1>2 DEF Press
  <2> QED
    BY <1>1, <2>1 DEF SameHold, SideOK
<1>3. CASE t.lease
  <2> DEFINE W == Whole(t)
  <2>1. \/ u = [t EXCEPT !.native = TRUE, !.clicked = W]
        \/ \E n \in {TRUE, t.native} :
             u = [t EXCEPT !.native = n, !.clicked = W, !.lease = FALSE, !.failed = TRUE]
    BY <1>3 DEF Press
  <2> HIDE DEF W
  <2> QED
    BY <1>1, <2>1 DEF SameHold, SideOK
<1> QED
  BY <1>2, <1>3 DEF SideOK

LEMMA MoveHold ==
  ASSUME NEW t, HoldOK(t), NEW u \in Move(t)
  PROVE  HoldOK(u) /\ u.linear = t.linear
<1>1. u = t \/ u = [t EXCEPT !.lease = FALSE, !.failed = TRUE]
  BY DEF Move
<1>2. SideOK(u)
  BY MoveIs DEF HoldOK, Quiet, Same
<1>3. SameHold(t, u) /\ u.native = t.native
  BY <1>1 DEF SameHold, HoldOK, SideOK
<1> QED
  BY <1>2, <1>3, HoldFrom DEF SameHold

\* A release that fails blocks the pointer.
LEMMA ReleaseHold ==
  ASSUME NEW t, HoldOK(t), NEW u \in Release(t)
  PROVE  HoldOK(u) /\ ~u.down /\ u.linear = t.linear
<1>1. SideOK(u) /\ u.linear = t.linear /\ SideOK(t)
  BY ReleaseIs DEF HoldOK, Quiet, Same
<1>2. CASE ~t.down
  BY <1>2 DEF Release
<1>3. CASE t.down /\ u = [t EXCEPT !.down = FALSE, !.native = FALSE]
  <2>1. u.pad = t.pad /\ ~u.down /\ ~u.native
    BY <1>1, <1>3 DEF SideOK
  <2> QED
    BY <1>1, <2>1 DEF HoldOK
<1>4. ASSUME t.down, NEW n,
             u = [t EXCEPT !.down = FALSE, !.native = n, !.blocked = TRUE, !.failed = TRUE]
      PROVE  HoldOK(u) /\ ~u.down
  <2>1. u.pad = t.pad /\ ~u.down /\ u.blocked
    BY <1>1, <1>4 DEF SideOK
  <2>2. u.linear
    BY <1>1, <1>4 DEF HoldOK
  <2> QED
    BY <1>1, <2>1, <2>2 DEF HoldOK
<1> QED
  BY <1>1, <1>2, <1>3, <1>4 DEF Release

LEMMA OnPadHold ==
  ASSUME NEW t, HoldOK(t), NEW pads, \A p \in pads : PadOK(p), NEW u \in OnPad(t, pads)
  PROVE  /\ HoldOK(u) /\ u.linear = t.linear /\ u.down = t.down
         /\ u.native = t.native /\ u.blocked = t.blocked
         /\ u.pad \in pads /\ (~u.failed => ~u.pad.desynced)
<1>1. PICK p \in pads : u = [t EXCEPT !.pad = p, !.failed = @ \/ p.desynced]
  BY DEF OnPad
<1>2. SideOK(t) /\ SideOK(u)
  BY OnPadIs DEF HoldOK, Quiet, Same
<1> DEFINE failed == t.failed \/ p.desynced
<1>3. u = [t EXCEPT !.pad = p, !.failed = failed]
  BY <1>1
<1>4. ~failed => ~p.desynced
  OBVIOUS
<1> HIDE DEF failed
<1>5. /\ u.pad = p /\ u.linear = t.linear /\ u.down = t.down /\ u.native = t.native
      /\ u.blocked = t.blocked /\ u.failed = failed
  BY <1>2, <1>3 DEF SideOK
<1> QED
  BY <1>2, <1>4, <1>5 DEF HoldOK

LEMMA MultiTouchHold ==
  ASSUME NEW t, HoldOK(t), NEW cs \in Snapshots, NEW u \in MultiTouch(t, cs)
  PROVE  HoldOK(u) /\ u.linear = t.linear
<1>1. \A p \in Touched(t.pad, cs) : PadOK(p)
  BY TouchedPadOK DEF HoldOK
<1> QED
  BY <1>1, OnPadHold DEF MultiTouch

LEMMA CancelMultiHold ==
  ASSUME NEW t, HoldOK(t), NEW u \in CancelMulti(t)
  PROVE  /\ HoldOK(u) /\ u.linear = t.linear /\ u.down = t.down
         /\ u.native = t.native /\ u.blocked = t.blocked
         /\ ~u.failed => Cleared(u.pad)
<1>1. \A p \in Cancelled(t.pad) : PadOK(p) /\ (~p.desynced => Cleared(p))
  BY CancelledPadOK DEF HoldOK
<1> QED
  BY <1>1, OnPadHold DEF CancelMulti

LEMMA CancelHold ==
  ASSUME NEW t, HoldOK(t), NEW u \in Cancel(t)
  PROVE  HoldOK(u) /\ ~u.down /\ u.linear = t.linear
<1>1. PICK v \in UNION {CancelMulti(r) : r \in Release(t)} :
        u = [v EXCEPT !.prev = Free, !.multi = FALSE, !.tapped = FALSE]
  BY DEF Cancel
<1>2. PICK r \in Release(t) : v \in CancelMulti(r)
  BY <1>1
<1>3. HoldOK(r) /\ ~r.down /\ r.linear = t.linear
  BY ReleaseHold
<1>4. HoldOK(v) /\ ~v.down /\ v.linear = t.linear
  BY <1>2, <1>3, CancelMultiHold
<1>5. SideOK(u)
  BY CancelIs DEF HoldOK
<1>6. SameHold(v, u) /\ u.native = v.native
  BY <1>1, <1>4 DEF SameHold, HoldOK, SideOK
<1> QED
  BY <1>4, <1>5, <1>6, HoldFrom DEF SameHold

LEMMA GesturesHold ==
  ASSUME NEW t, HoldOK(t), t.multi => t.prev = Free, NEW cs \in Snapshots, NEW u \in Gestures(t, cs)
  PROVE  HoldOK(u)
<1> DEFINE R == IF t.multi THEN {t}
                ELSE {[q EXCEPT !.prev = Free, !.tapped = FALSE] : q \in Release(t)}
           several == Len(cs) # 0
<1>1. PICK v \in UNION {MultiTouch(r, cs) : r \in R} : u = [v EXCEPT !.multi = several]
  BY DEF Gestures
<1>2. PICK r \in R : v \in MultiTouch(r, cs)
  BY <1>1
<1>3. HoldOK(r)
  <2>1. CASE t.multi
    BY <2>1
  <2>2. CASE ~t.multi
    <3>1. PICK q \in Release(t) : r = [q EXCEPT !.prev = Free, !.tapped = FALSE]
      BY <2>2
    <3>2. HoldOK(q)
      BY ReleaseHold
    <3>3. SideOK(r) /\ SameHold(q, r) /\ r.native = q.native
      BY <3>1, <3>2 DEF HoldOK, SideOK, SameHold
    <3> QED
      BY <3>2, <3>3, HoldFrom
  <2> QED
    BY <2>1, <2>2
<1>4. HoldOK(v)
  BY <1>2, <1>3, MultiTouchHold
<1>5. SideOK(u)
  BY GesturesIs DEF HoldOK
<1> HIDE DEF several
<1>6. SameHold(v, u) /\ u.native = v.native
  BY <1>1, <1>4 DEF SameHold, HoldOK, SideOK
<1> QED
  BY <1>4, <1>5, <1>6, HoldFrom

\* A press that is known of, as one that is down.
LEMMA PressedHold ==
  ASSUME NEW t, HoldOK(t), t.linear, NEW p \in Press(t), NEW d, SideOK(d),
         d.pad = p.pad, d.linear = p.linear, d.down, p.blocked => d.blocked
  PROVE  HoldOK(d) /\ d.linear
<1>1. SameHold(t, p)
  BY PressHold DEF HoldOK
<1> QED
  BY <1>1 DEF HoldOK, SameHold

LEMMA LiftsHold ==
  ASSUME NEW t, HoldOK(t), t.linear, NEW u \in Lifts(t)
  PROVE  HoldOK(u)
<1> DEFINE Click(r) == [r EXCEPT !.blocked = @ \/ ~r.lease, !.tapped = ~(r.blocked \/ ~r.lease)]
           clicks == {Click(r) : r \in UNION {Release([p EXCEPT !.down = TRUE]) : p \in Press(t)}}
<1>1. PICK v \in IF t.prev = Free THEN {t}
                 ELSE IF t.down THEN Release(t)
                 ELSE {t} \cup (IF t.moved THEN {} ELSE clicks) :
        u = [v EXCEPT !.prev = Free]
  BY DEF Lifts
<1>2. HoldOK(v)
  <2>1. CASE v = t
    BY <2>1
  <2>2. CASE v \in Release(t)
    BY <2>2, ReleaseHold
  <2>3. CASE v \in clicks
    <3>1. PICK r \in UNION {Release([p EXCEPT !.down = TRUE]) : p \in Press(t)} : v = Click(r)
      BY <2>3
    <3>2. PICK p \in Press(t) : r \in Release([p EXCEPT !.down = TRUE])
      BY <3>1
    <3>3. SideOK(p)
      BY PressHold DEF HoldOK
    <3> DEFINE d == [p EXCEPT !.down = TRUE]
    <3>4. SideOK(d) /\ d.pad = p.pad /\ d.linear = p.linear /\ d.down /\ d.blocked = p.blocked
      BY <3>3 DEF SideOK
    <3>5. r \in Release(d)
      BY <3>2
    <3> HIDE DEF d
    <3>6. HoldOK(d)
      BY <3>4, PressedHold
    <3>7. HoldOK(r)
      BY <3>5, <3>6, ReleaseHold
    <3> DEFINE b == r.blocked \/ ~r.lease
               c == ~(r.blocked \/ ~r.lease)
    <3>8. v = [r EXCEPT !.blocked = b, !.tapped = c]
      BY <3>1
    <3>9. b \in BOOLEAN /\ c \in BOOLEAN /\ SideOK(r) /\ (r.blocked => b)
      BY <3>7 DEF HoldOK
    <3> HIDE DEF b, c
    <3>10. SideOK(v)
      <4> DEFINE w == [r EXCEPT !.blocked = b]
      <4>1. SideOK(w)
        BY <3>9 DEF SideOK
      <4>2. v = [w EXCEPT !.tapped = c]
        BY <3>8
      <4> HIDE DEF w
      <4> QED
        BY <3>9, <4>1, <4>2 DEF SideOK
    <3>11. SameHold(r, v) /\ v.native = r.native
      BY <3>8, <3>9 DEF SameHold, SideOK
    <3> QED
      BY <3>7, <3>10, <3>11, HoldFrom
  <2> QED
    BY <1>1, <2>1, <2>2, <2>3
<1>3. SideOK(u)
  BY LiftsIs DEF HoldOK
<1>4. SameHold(v, u) /\ u.native = v.native
  BY <1>1, <1>2 DEF SameHold, HoldOK, SideOK
<1> QED
  BY <1>2, <1>3, <1>4, HoldFrom

LEMMA LandsHold ==
  ASSUME NEW t, HoldOK(t), t.linear, NEW c \in Contacts, NEW u \in Lands(t, c)
  PROVE  HoldOK(u)
<1> DEFINE s == [t EXCEPT !.moved = FALSE]
           Drag(p) == IF p.lease THEN {[p EXCEPT !.down = TRUE]}
                      ELSE Release([p EXCEPT !.down = TRUE, !.blocked = TRUE])
<1>1. PICK v \in {s} \cup (IF t.tapped THEN UNION {Drag(p) : p \in Press(s)} ELSE {}) :
        u = [v EXCEPT !.prev = c, !.tapped = FALSE]
  BY DEF Lands
<1>2. HoldOK(s) /\ s.linear
  <2>1. SideOK(s) /\ SameHold(t, s) /\ s.native = t.native /\ s.linear = t.linear
    BY DEF HoldOK, SideOK, SameHold
  <2> HIDE DEF s
  <2> QED
    BY <2>1, HoldFrom
<1> HIDE DEF s
<1>3. HoldOK(v)
  <2>1. CASE v = s
    BY <1>2, <2>1
  <2>2. ASSUME NEW p \in Press(s), v \in Drag(p)
        PROVE  HoldOK(v)
    <3>1. SideOK(p)
      BY <1>2, PressHold DEF HoldOK
    <3>2. CASE p.lease
      <4>1. v = [p EXCEPT !.down = TRUE]
        BY <2>2, <3>2
      <4>2. SideOK(v) /\ v.pad = p.pad /\ v.linear = p.linear /\ v.down /\ v.blocked = p.blocked
        BY <3>1, <4>1 DEF SideOK
      <4> QED
        BY <1>2, <4>2, PressedHold
    <3>3. CASE ~p.lease
      <4> DEFINE d == [p EXCEPT !.down = TRUE, !.blocked = TRUE]
      <4>1. v \in Release(d)
        BY <2>2, <3>3
      <4>2. SideOK(d) /\ d.pad = p.pad /\ d.linear = p.linear /\ d.down /\ d.blocked
        BY <3>1 DEF SideOK
      <4> HIDE DEF d
      <4>3. HoldOK(d)
        BY <1>2, <4>2, PressedHold
      <4> QED
        BY <4>1, <4>3, ReleaseHold
    <3> QED
      BY <3>2, <3>3
  <2> QED
    BY <1>1, <2>1, <2>2
<1>4. SideOK(u)
  BY LandsIs DEF HoldOK
<1>5. SameHold(v, u) /\ u.native = v.native
  BY <1>1, <1>3 DEF SameHold, HoldOK, SideOK
<1> QED
  BY <1>3, <1>4, <1>5, HoldFrom

LEMMA SlidesHold ==
  ASSUME NEW t, HoldOK(t), NEW c \in Contacts, NEW u \in Slides(t, c)
  PROVE  HoldOK(u)
<1> DEFINE Slide(m) == IF m.lease THEN {m} ELSE Release([m EXCEPT !.blocked = TRUE])
           Start(b) == [t EXCEPT !.moved = b]
           M == UNION {Move(Start(b)) : b \in {t.moved, TRUE}}
<1>1. PICK v \in {t} \cup UNION {Slide(m) : m \in M} : u = [v EXCEPT !.prev = c]
  BY DEF Slides
<1>2. ASSUME NEW b \in {t.moved, TRUE}, NEW m \in Move(Start(b)), v \in Slide(m)
      PROVE  HoldOK(v)
  <2> DEFINE s == Start(b)
  <2>1. b \in BOOLEAN
    BY DEF HoldOK, SideOK
  <2>2. SideOK(s) /\ SameHold(t, s) /\ s.native = t.native
    BY <2>1 DEF HoldOK, SideOK, SameHold
  <2>3. m \in Move(s)
    OBVIOUS
  <2> HIDE DEF s
  <2>4. HoldOK(s)
    BY <2>2, HoldFrom
  <2>5. HoldOK(m)
    BY <2>3, <2>4, MoveHold
  <2>6. CASE m.lease
    BY <1>2, <2>5, <2>6
  <2>7. CASE ~m.lease
    <3> DEFINE d == [m EXCEPT !.blocked = TRUE]
    <3>1. v \in Release(d)
      BY <1>2, <2>7
    <3>2. SideOK(d) /\ SameHold(m, d) /\ d.native = m.native
      BY <2>5 DEF HoldOK, SideOK, SameHold
    <3> HIDE DEF d
    <3>3. HoldOK(d)
      BY <2>5, <3>2, HoldFrom
    <3> QED
      BY <3>1, <3>3, ReleaseHold
  <2> QED
    BY <2>6, <2>7
<1>3. HoldOK(v)
  BY <1>1, <1>2
<1>4. SideOK(u)
  BY SlidesIs DEF HoldOK
<1>5. SameHold(v, u) /\ u.native = v.native
  BY <1>1, <1>3 DEF SameHold, HoldOK, SideOK
<1> QED
  BY <1>3, <1>4, <1>5, HoldFrom

LEMMA RecoverHold ==
  ASSUME NEW t, HoldOK(t), NEW u \in Recover(t)
  PROVE  HoldOK(u) /\ u.pad = t.pad /\ (~u.failed => ~u.native)
<1>1. SideOK(t)
  BY DEF HoldOK
<1>2. CASE u = [t EXCEPT !.failed = TRUE]
  <2>1. SideOK(u) /\ SameHold(t, u) /\ u.native = t.native /\ u.failed /\ u.pad = t.pad
    BY <1>1, <1>2 DEF SideOK, SameHold
  <2> QED
    BY <2>1, HoldFrom
<1>3. CASE u = [Leased(t) EXCEPT !.split = @ \/ t.seen # {}]
  <2> DEFINE a == [t EXCEPT !.prev = Free, !.moved = FALSE, !.multi = FALSE, !.down = FALSE]
             v == Leased(t)
             split == v.split \/ t.seen # {}
  <2>1. SideOK(a) /\ a.pad = t.pad /\ a.linear = t.linear /\ ~a.down
    BY <1>1 DEF SideOK
  <2>2. v = [a EXCEPT !.blocked = FALSE, !.tapped = FALSE, !.lease = TRUE, !.native = FALSE]
    BY DEF Leased
  <2>3. u = [v EXCEPT !.split = split] /\ split \in BOOLEAN
    BY <1>3
  <2> HIDE DEF a, v, split
  <2>4. SideOK(v) /\ v.pad = t.pad /\ v.linear = t.linear /\ ~v.down /\ ~v.native
    BY <2>1, <2>2 DEF SideOK
  <2>5. SideOK(u) /\ u.pad = t.pad /\ u.linear = t.linear /\ ~u.down /\ ~u.native
    BY <2>3, <2>4 DEF SideOK
  <2> QED
    BY <2>5 DEF HoldOK
<1> QED
  BY <1>2, <1>3 DEF Recover

\* The history of an operation disturbs nothing.
LEMMA HistoryHold ==
  ASSUME NEW t, HoldOK(t)
  PROVE  /\ HoldOK(Clean(t)) /\ HoldOK(Done(t)) /\ HoldOK(Forgotten(t))
         /\ \A cs : HoldOK(Seen(t, cs))
         /\ \A cs \in Snapshots : HoldOK(Seeing(t, cs)) /\ Seeing(t, cs).linear = t.linear
<1>1. HoldOK(Clean(t)) /\ HoldOK(Done(t)) /\ HoldOK(Forgotten(t))
  BY DEF HoldOK, SideOK, Clean, Done, Forgotten
<1>2. ASSUME NEW cs
      PROVE  HoldOK(Seen(t, cs))
  BY <1>1 DEF Seen, Forgotten
<1>3. ASSUME NEW cs \in Snapshots
      PROVE  HoldOK(Seeing(t, cs)) /\ Seeing(t, cs).linear = t.linear
  <2>1. Range(cs) \subseteq Contacts
    BY SnapshotIs
  <2>2. /\ SideOK(Seeing(t, cs)) /\ SameHold(t, Seeing(t, cs)) /\ Seeing(t, cs).native = t.native
        /\ Seeing(t, cs).linear = t.linear
    BY <2>1 DEF HoldOK, SideOK, SameHold, Seeing
  <2> QED
    BY <2>2, HoldFrom
<1> QED
  BY <1>1, <1>2, <1>3

LEMMA LinearFrameHold ==
  ASSUME NEW t, HoldOK(t), t.linear, t.multi => t.prev = Free, NEW cs \in Snapshots,
         NEW u \in LinearFrame(t, cs)
  PROVE  HoldOK(u)
<1>1. CASE t.blocked
  BY <1>1, MultiTouchHold DEF LinearFrame
<1>2. CASE ~t.blocked /\ Several(t, cs)
  BY <1>2, GesturesHold DEF LinearFrame
<1>3. CASE ~t.blocked /\ ~Several(t, cs) /\ cs = <<>>
  BY <1>3, LiftsHold DEF LinearFrame
<1>4. CASE ~t.blocked /\ ~Several(t, cs) /\ cs # <<>>
  <2>1. cs[1] \in Contacts /\ cs[1] # Free
    BY <1>4, SnapshotIs, TouchpadAssumption DEF Several, TouchpadAssumption
  <2>2. CASE t.prev = Free
    BY <1>4, <2>1, <2>2, LandsHold DEF LinearFrame
  <2>3. CASE t.prev = cs[1]
    BY <1>4, <2>1, <2>3, SlidesHold DEF LinearFrame
  <2>4. CASE t.prev # Free /\ t.prev # cs[1]
    <3>1. PICK v \in Cancel(t) : u = Forgotten(v)
      BY <1>4, <2>4 DEF LinearFrame, Forgotten
    <3> QED
      BY <3>1, CancelHold, HistoryHold
  <2> QED
    BY <2>2, <2>3, <2>4
<1> QED
  BY <1>1, <1>2, <1>3, <1>4

-----------------------------------------------------------------------------
(* Buttons and keys.                                                       *)

\* What may be down is remembered.
KeysOK(k, xs) ==
  k \in [down: SUBSET xs, held: SUBSET xs, failed: BOOLEAN] /\ k.down \subseteq k.held

LEMMA DownsOK ==
  ASSUME NEW X, NEW k, KeysOK(k, X), NEW xs \in SUBSET X, NEW j \in Downs(k, xs)
  PROVE  KeysOK(j, X)
<1> DEFINE Left(errors, went) == [k EXCEPT !.down = @ \cup went, !.held = @ \cup xs, !.failed = @ \/ errors # {}]
           Lefts(errors) == {Left(errors, went) : went \in Went(xs, errors)}
<1>1. PICK errors \in SUBSET xs : j \in Lefts(errors)
  <2>1. j \in UNION {Lefts(errors) : errors \in SUBSET xs}
    BY DEF Downs
  <2> HIDE DEF Lefts
  <2> QED
    BY <2>1
<1>2. PICK went \in Went(xs, errors) : j = Left(errors, went)
  <2> HIDE DEF Left
  <2> QED
    BY <1>1
<1> DEFINE failed == k.failed \/ errors # {}
<1>3. failed \in BOOLEAN /\ went \subseteq xs
  BY DEF Went
<1>4. j = [k EXCEPT !.down = k.down \cup went, !.held = k.held \cup xs, !.failed = failed]
  BY <1>2
<1> HIDE DEF failed
<1> QED
  BY <1>3, <1>4 DEF KeysOK

\* A release that fails is remembered, and one that does not fail leaves nothing down.
LEMMA UpsOK ==
  ASSUME NEW X, NEW k, KeysOK(k, X), NEW xs \in SUBSET X, NEW j \in Ups(k, xs)
  PROVE  KeysOK(j, X) /\ j.down \subseteq k.down /\ (~j.failed => j.down \cap xs = {})
<1> DEFINE Left(errors, went) == [k EXCEPT !.down = @ \ went, !.held = (@ \ xs) \cup errors,
                                    !.failed = @ \/ errors # {}]
           Lefts(errors) == {Left(errors, went) : went \in Went(xs, errors)}
<1>1. PICK errors \in SUBSET xs : j \in Lefts(errors)
  <2>1. j \in UNION {Lefts(errors) : errors \in SUBSET xs}
    BY DEF Ups
  <2> HIDE DEF Lefts
  <2> QED
    BY <2>1
<1>2. PICK went \in Went(xs, errors) : j = Left(errors, went)
  <2> HIDE DEF Left
  <2> QED
    BY <1>1
<1> DEFINE failed == k.failed \/ errors # {}
<1>3. failed \in BOOLEAN /\ went \subseteq xs /\ xs \ errors \subseteq went /\ errors \subseteq xs
      /\ (~failed => errors = {})
  BY DEF Went
<1>4. j = [k EXCEPT !.down = k.down \ went, !.held = (k.held \ xs) \cup errors, !.failed = failed]
  BY <1>2
<1> HIDE DEF failed
<1>5. /\ k \in [down: SUBSET X, held: SUBSET X, failed: BOOLEAN] /\ k.down \subseteq k.held
  BY DEF KeysOK
<1>6. j.down = k.down \ went /\ j.held = (k.held \ xs) \cup errors /\ j.failed = failed
      /\ j \in [down: SUBSET X, held: SUBSET X, failed: BOOLEAN]
  BY <1>3, <1>4, <1>5
<1>7. j.down \subseteq j.held /\ j.down \subseteq k.down
  BY <1>3, <1>5, <1>6
<1>8. ~j.failed => j.down \cap xs = {}
  BY <1>3, <1>6
<1> QED
  BY <1>6, <1>7, <1>8 DEF KeysOK

LEMMA StrokeOK ==
  ASSUME NEW X, NEW k, KeysOK(k, X), NEW x \in X, NEW j \in Stroke(k, x)
  PROVE  KeysOK(j, X)
<1>1. CASE j = [k EXCEPT !.down = @ \ {x}]
  BY <1>1 DEF KeysOK
<1>2. ASSUME NEW d \in {k.down, k.down \cup {x}, k.down \ {x}},
             j = [k EXCEPT !.down = d, !.held = @ \cup {x}, !.failed = TRUE]
      PROVE  KeysOK(j, X)
  <2>1. d \in SUBSET X /\ d \subseteq k.held \cup {x}
    BY DEF KeysOK
  <2> QED
    BY <1>2, <2>1 DEF KeysOK
<1> QED
  BY <1>1, <1>2 DEF Stroke

LEMMA DoneKeys ==
  ASSUME NEW X, NEW k, KeysOK(k, X)
  PROVE  KeysOK(Done(k), X) /\ Done(k).down = k.down
BY DEF Done, KeysOK

LEMMA ChordIs ==
  ASSUME NEW mods \in Chords
  PROVE  /\ Range(mods) \subseteq Keys
         /\ \A n \in DOMAIN mods : /\ mods[n] \in Keys
                                   /\ Range(SubSeq(mods, 1, n - 1)) \subseteq Keys
                                   /\ Range(SubSeq(mods, 1, n)) \subseteq Keys
<1>1. PICK m \in 0..2 : mods \in [1..m -> Modifiers]
  BY DEF Chords, SeqOf
<1>2. Modifiers \subseteq Keys /\ m \in Nat /\ DOMAIN mods = 1..m /\ mods \in Seq(Keys) /\ Len(mods) = m
  BY <1>1, DeviceAssumption DEF DeviceAssumption
<1>3. ASSUME NEW s \in Seq(Keys)
      PROVE  Range(s) \subseteq Keys
  BY DEF Range
<1>4. ASSUME NEW n \in 1..m
      PROVE  SubSeq(mods, 1, n - 1) \in Seq(Keys) /\ SubSeq(mods, 1, n) \in Seq(Keys) /\ mods[n] \in Keys
  BY <1>2
<1> QED
  BY <1>2, <1>3, <1>4

LEMMA AllDownOK ==
  ASSUME NEW X, NEW k, KeysOK(k, X), NEW s, Range(s) \subseteq X
  PROVE  KeysOK(AllDown(k, s), X)
BY DEF KeysOK, AllDown

LEMMA ComboOK ==
  ASSUME KeysOK(kbd, Keys), NEW mods \in Chords, NEW key, Combo(mods, key)
  PROVE  \E j : KeysOK(j, Keys) /\ kbd' = Done(j) /\ Other(j.failed)
<1> DEFINE part(n) == UNION {Ups(j, Range(SubSeq(mods, 1, n))) : j \in Stopped(kbd, mods, n)}
           whole == UNION {Ups(j, Range(mods)) : j \in Struck(kbd, mods, key)}
<1>1. PICK j \in whole \cup UNION {part(n) : n \in DOMAIN mods} : kbd' = Done(j) /\ Other(j.failed)
  BY DEF Combo
<1>2. ASSUME j \in whole
      PROVE  KeysOK(j, Keys)
  <2>1. PICK i \in Struck(kbd, mods, key) : j \in Ups(i, Range(mods))
    BY <1>2
  <2>2. KeysOK(AllDown(kbd, mods), Keys)
    BY ChordIs, AllDownOK
  <2>3. KeysOK(i, Keys)
    BY <2>2, StrokeOK DEF Struck
  <2> QED
    BY <2>1, <2>3, ChordIs, UpsOK
<1>3. ASSUME NEW n \in DOMAIN mods, j \in part(n)
      PROVE  KeysOK(j, Keys)
  <2>1. PICK i \in Stopped(kbd, mods, n) : j \in Ups(i, Range(SubSeq(mods, 1, n)))
    BY <1>3
  <2>2. KeysOK(AllDown(kbd, SubSeq(mods, 1, n - 1)), Keys) /\ {mods[n]} \in SUBSET Keys
    BY ChordIs, AllDownOK
  <2>3. KeysOK(i, Keys)
    BY <2>2, DownsOK DEF Stopped
  <2> QED
    BY <2>1, <2>3, ChordIs, UpsOK
<1>4. KeysOK(j, Keys)
  BY <1>2, <1>3
<1> QED
  BY <1>1, <1>4

LEMMA CharacterOK ==
  ASSUME KeysOK(kbd, Keys), NEW mods \in Chords, NEW key \in Keys, Character(mods, key)
  PROVE  \E j : KeysOK(j, Keys) /\ kbd' = Done(j) /\ Other(j.failed)
<1>1. PICK j \in UNION {Ups(p, Range(mods)) :
                        p \in UNION {Stroke(d, key) : d \in Downs(kbd, Range(mods))}} :
        kbd' = Done(j) /\ Other(j.failed)
  BY DEF Character
<1>2. PICK p \in UNION {Stroke(d, key) : d \in Downs(kbd, Range(mods))} : j \in Ups(p, Range(mods))
  BY <1>1
<1>3. PICK d \in Downs(kbd, Range(mods)) : p \in Stroke(d, key)
  BY <1>2
<1>4. Range(mods) \in SUBSET Keys
  BY ChordIs
<1>5. KeysOK(d, Keys)
  BY <1>4, DownsOK
<1>6. KeysOK(p, Keys)
  BY <1>3, <1>5, StrokeOK
<1>7. KeysOK(j, Keys)
  BY <1>2, <1>4, <1>6, UpsOK
<1> QED
  BY <1>1, <1>7

-----------------------------------------------------------------------------
(* The inductive invariant of the device.                                  *)

DInv ==
  /\ GInv /\ HoldOK(touch)
  /\ KeysOK(mouse, Buttons) /\ KeysOK(kbd, Keys)
  /\ did \in [op: {"reset", "other"}, failed: BOOLEAN] /\ faults \in 0..MaxFaults
  /\ ResetReleases

\* How an operation ends.
LEMMA EndsOK ==
  ASSUME NEW op \in {"reset", "other"}, NEW failed \in BOOLEAN, Ends(op, failed), faults \in 0..MaxFaults
  PROVE  /\ did' \in [op: {"reset", "other"}, failed: BOOLEAN] /\ faults' \in 0..MaxFaults
         /\ did'.op = op /\ did'.failed = failed
<1>1. faults + 0 \in Nat /\ faults + 1 \in Nat /\ MaxFaults \in Nat
  BY DeviceAssumption DEF DeviceAssumption
<1>2. faults' \in Nat /\ faults' <= MaxFaults
  BY <1>1 DEF Ends
<1> QED
  BY <1>1, <1>2 DEF Ends

LEMMA OthersRelease ==
  ASSUME did'.op = "other"
  PROVE  ResetReleases'
BY DEF ResetReleases

LEMMA TouchFrameHold ==
  ASSUME DInv, NEW cs \in Snapshots, TouchFrame(cs)
  PROVE  DInv'
<1> DEFINE t == Clean(touch)
           ready == IF t.linear /\ t.blocked /\ Idle(t) /\ cs # <<>> THEN Recover(t) ELSE {t}
           FrameOf(r) == IF r.linear THEN LinearFrame(Seeing(r, cs), cs)
                         ELSE MultiTouch(Seeing(r, cs), cs)
<1>1. PICK u \in UNION {FrameOf(r) : r \in ready} : touch' = Done(Seen(u, cs)) /\ Other(u.failed)
  BY DEF TouchFrame
<1>2. PICK r \in ready : u \in FrameOf(r)
  OBVIOUS
<1>3. HoldOK(t) /\ GestureOK(t)
  BY HistoryHold, HistoryOK DEF DInv, GInv
<1> HIDE DEF t
<1>4. HoldOK(r) /\ GestureOK(r)
  BY <1>3, RecoverHold, RecoverOK DEF Idle
<1> DEFINE s == Seeing(r, cs)
<1>5. HoldOK(s) /\ s.linear = r.linear /\ (s.multi => s.prev = Free)
  <2>1. s.multi = r.multi /\ s.prev = r.prev
    BY <1>4 DEF Seeing, GestureOK, SideOK
  <2> QED
    BY <1>4, <2>1, HistoryHold DEF GestureOK
<1>6. u \in IF r.linear THEN LinearFrame(s, cs) ELSE MultiTouch(s, cs)
  BY <1>2
<1> HIDE DEF s
<1>7. HoldOK(u)
  BY <1>5, <1>6, LinearFrameHold, MultiTouchHold
<1>8. HoldOK(touch')
  BY <1>1, <1>7, HistoryHold
<1>9. u.failed \in BOOLEAN
  BY <1>7 DEF HoldOK, SideOK
<1>10. mouse' = mouse /\ kbd' = kbd
  BY DEF TouchFrame
<1>11. GInv'
  BY TouchFrameOK DEF DInv
<1>12. Ends("other", u.failed)
  BY <1>1 DEF Other
<1> QED
  BY <1>8, <1>9, <1>10, <1>11, <1>12, EndsOK, OthersRelease DEF DInv

\* A cancellation that does not fail leaves nothing on the touchpad, and the native button
\* up, unless the pointer is blocked.
LEMMA SidesHold ==
  ASSUME HoldOK(touch), NEW u \in UNION {CancelMulti(r) : r \in LinearCancel(Clean(touch))}
  PROVE  /\ HoldOK(u) /\ (u.native => u.blocked /\ u.linear)
         /\ ~u.failed => Cleared(u.pad)
<1> DEFINE t == Clean(touch)
<1>1. HoldOK(t)
  BY HistoryHold
<1>2. PICK r \in LinearCancel(t) : u \in CancelMulti(r)
  OBVIOUS
<1> HIDE DEF t
<1>3. HoldOK(r) /\ ~r.down
  <2>1. CASE t.linear
    BY <1>1, <2>1, CancelHold DEF LinearCancel
  <2>2. CASE ~t.linear
    BY <1>1, <2>2 DEF LinearCancel, HoldOK
  <2> QED
    BY <2>1, <2>2
<1>4. /\ HoldOK(u) /\ u.native = r.native /\ u.blocked = r.blocked /\ u.linear = r.linear
      /\ ~u.failed => Cleared(u.pad)
  BY <1>2, <1>3, CancelMultiHold
<1> QED
  BY <1>3, <1>4 DEF HoldOK

LEMMA CancelTouchHold ==
  ASSUME DInv, CancelTouch
  PROVE  DInv'
<1>1. PICK u \in UNION {CancelMulti(r) : r \in LinearCancel(Clean(touch))} :
        touch' = Done(Forgotten(u)) /\ Other(u.failed)
  BY DEF CancelTouch
<1>2. HoldOK(u)
  BY SidesHold DEF DInv
<1>3. HoldOK(touch')
  BY <1>1, <1>2, HistoryHold
<1>4. u.failed \in BOOLEAN /\ mouse' = mouse /\ kbd' = kbd
  BY <1>2 DEF HoldOK, SideOK, CancelTouch
<1>5. GInv' /\ Ends("other", u.failed)
  BY <1>1, CancelTouchOK DEF DInv, Other
<1> QED
  BY <1>3, <1>4, <1>5, EndsOK, OthersRelease DEF DInv

LEMMA GeometryHold ==
  ASSUME DInv, ApplyPointerGeometry
  PROVE  DInv'
<1>1. PICK u \in UNION {CancelMulti(r) : r \in LinearCancel(Clean(touch))} :
        touch' = Done(Forgotten([u EXCEPT !.pad = FreshPad])) /\ Other(u.failed)
  BY DEF ApplyPointerGeometry
<1>2. HoldOK(u)
  BY SidesHold DEF DInv
<1> DEFINE v == [u EXCEPT !.pad = FreshPad]
<1>3. /\ SideOK(v) /\ v.pad = FreshPad /\ v.linear = u.linear /\ v.down = u.down
      /\ v.native = u.native /\ v.blocked = u.blocked
  BY <1>2 DEF HoldOK, SideOK
<1>4. touch' = Done(Forgotten(v))
  BY <1>1
<1> HIDE DEF v
<1>5. HoldOK(v)
  BY <1>2, <1>3, FreshOK DEF HoldOK
<1>6. HoldOK(touch')
  BY <1>4, <1>5, HistoryHold
<1>7. u.failed \in BOOLEAN /\ mouse' = mouse /\ kbd' = kbd
  BY <1>2 DEF HoldOK, SideOK, ApplyPointerGeometry
<1>8. GInv' /\ Ends("other", u.failed)
  BY <1>1, GeometryOK DEF DInv, Other
<1> QED
  BY <1>6, <1>7, <1>8, EndsOK, OthersRelease DEF DInv

\* A reset that does not fail leaves nothing down.
LEMMA ResetHold ==
  ASSUME DInv, Reset
  PROVE  DInv'
<1> DEFINE sides == UNION {CancelMulti(r) : r \in LinearCancel(Clean(touch))}
           U == UNION {ResetLease(Forgotten(t)) : t \in sides}
<1>1. \E u \in U, m \in Ups(mouse, mouse.held), k \in Ups(kbd, kbd.held) :
        /\ touch' = Done(u) /\ mouse' = Done(m) /\ kbd' = Done(k)
        /\ Ends("reset", u.failed \/ m.failed \/ k.failed)
  BY DEF Reset
<1> HIDE DEF U
<1>2. PICK u \in U : \E m \in Ups(mouse, mouse.held), k \in Ups(kbd, kbd.held) :
        /\ touch' = Done(u) /\ mouse' = Done(m) /\ kbd' = Done(k)
        /\ Ends("reset", u.failed \/ m.failed \/ k.failed)
  BY <1>1
<1>3. PICK m \in Ups(mouse, mouse.held) : \E k \in Ups(kbd, kbd.held) :
        /\ touch' = Done(u) /\ mouse' = Done(m) /\ kbd' = Done(k)
        /\ Ends("reset", u.failed \/ m.failed \/ k.failed)
  BY <1>2
<1>4. PICK k \in Ups(kbd, kbd.held) :
        /\ touch' = Done(u) /\ mouse' = Done(m) /\ kbd' = Done(k)
        /\ Ends("reset", u.failed \/ m.failed \/ k.failed)
  BY <1>3
<1>5. HoldOK(u) /\ (~u.failed => Cleared(u.pad) /\ ~u.native)
  <2>1. PICK t \in sides : u \in ResetLease(Forgotten(t))
    BY DEF U
  <2>2. /\ HoldOK(t) /\ (t.native => t.blocked /\ t.linear) /\ (~t.failed => Cleared(t.pad))
    BY SidesHold DEF DInv
  <2> DEFINE f == Forgotten(t)
  <2>3. /\ HoldOK(f) /\ (f.native => f.blocked /\ f.linear) /\ (~f.failed => Cleared(f.pad))
    <3>1. HoldOK(f)
      BY <2>2, HistoryHold
    <3>2. f.native = t.native /\ f.blocked = t.blocked /\ f.linear = t.linear /\ f.failed = t.failed
          /\ f.pad = t.pad
      BY <2>2 DEF Forgotten, HoldOK, SideOK
    <3> QED
      BY <2>2, <3>1, <3>2
  <2>4. u \in ResetLease(f)
    BY <2>1
  <2> HIDE DEF f
  <2>5. CASE u = f /\ ~(f.linear /\ f.blocked)
    BY <2>3, <2>5
  <2>6. CASE u \in Recover(f)
    <3>1. HoldOK(u) /\ u.pad = f.pad /\ (~u.failed => ~u.native)
      BY <2>3, <2>6, RecoverHold
    <3>2. ~u.failed => ~f.failed
      <4>1. CASE u = [f EXCEPT !.failed = TRUE]
        BY <2>3, <4>1 DEF HoldOK, SideOK
      <4>2. CASE u = [Leased(f) EXCEPT !.split = @ \/ f.seen # {}]
        <5>1. u.failed = f.failed
          BY <2>3, <4>2 DEF HoldOK, SideOK, Leased
        <5> QED
          BY <5>1
      <4> QED
        BY <2>6, <4>1, <4>2 DEF Recover
    <3> QED
      BY <2>3, <3>1, <3>2
  <2> QED
    BY <2>4, <2>5, <2>6 DEF ResetLease
<1>6. KeysOK(m, Buttons) /\ (~m.failed => m.down \cap mouse.held = {}) /\ m.down \subseteq mouse.down
  <2>1. KeysOK(mouse, Buttons) /\ mouse.held \in SUBSET Buttons
    BY DEF DInv, KeysOK
  <2> QED
    BY <2>1, UpsOK DEF KeysOK
<1>7. KeysOK(k, Keys) /\ (~k.failed => k.down \cap kbd.held = {}) /\ k.down \subseteq kbd.down
  <2>1. KeysOK(kbd, Keys) /\ kbd.held \in SUBSET Keys
    BY DEF DInv, KeysOK
  <2> QED
    BY <2>1, UpsOK DEF KeysOK
<1>8. /\ HoldOK(touch') /\ KeysOK(mouse', Buttons) /\ KeysOK(kbd', Keys)
      /\ touch'.pad = u.pad /\ touch'.native = u.native
      /\ mouse'.down = m.down /\ kbd'.down = k.down
  <2>1. touch'.pad = u.pad /\ touch'.native = u.native
    BY <1>4, <1>5 DEF Done, HoldOK, SideOK
  <2> QED
    BY <1>4, <1>5, <1>6, <1>7, <2>1, HistoryHold, DoneKeys
<1> DEFINE failed == u.failed \/ m.failed \/ k.failed
<1>9. failed \in BOOLEAN /\ Ends("reset", failed) /\ (~failed => ~u.failed /\ ~m.failed /\ ~k.failed)
  BY <1>4
<1> HIDE DEF failed
<1>10. /\ did' \in [op: {"reset", "other"}, failed: BOOLEAN] /\ faults' \in 0..MaxFaults
       /\ did'.failed = failed
  BY <1>9, EndsOK DEF DInv
<1>11. mouse.down \subseteq mouse.held /\ kbd.down \subseteq kbd.held
  BY DEF DInv, KeysOK
<1>12. ResetReleases'
  <2>1. SUFFICES ASSUME ~failed
                 PROVE  /\ touch'.pad.track = Nothing /\ touch'.pad.bits = {}
                        /\ ~touch'.native /\ mouse'.down = {} /\ kbd'.down = {}
    BY <1>10 DEF ResetReleases
  <2>2. m.down = {} /\ k.down = {}
    BY <1>6, <1>7, <1>9, <1>11, <2>1
  <2> QED
    BY <1>5, <1>8, <1>9, <2>1, <2>2 DEF Cleared
<1>13. GInv'
  BY ResetOK DEF DInv
<1> QED
  BY <1>8, <1>10, <1>12, <1>13 DEF DInv

\* What the touchpad and the pointer are, the mouse and the keyboard do not change.
LEMMA KeyStepsHold ==
  ASSUME DInv, touch' = touch, KeysOK(mouse', Buttons), KeysOK(kbd', Keys),
         NEW failed \in BOOLEAN, Other(failed)
  PROVE  DInv'
<1>1. GInv' /\ HoldOK(touch')
  BY DEF DInv, GInv
<1> QED
  BY <1>1, EndsOK, OthersRelease DEF DInv, Other

LEMMA ButtonHold ==
  ASSUME DInv, NEW b \in Buttons, NEW down \in BOOLEAN, Button(b, down)
  PROVE  DInv'
<1>1. PICK m \in IF down THEN Downs(mouse, {b}) ELSE Ups(mouse, {b}) :
        mouse' = Done(m) /\ Other(m.failed)
  BY DEF Button
<1>2. {b} \in SUBSET Buttons /\ KeysOK(mouse, Buttons) /\ KeysOK(kbd, Keys)
  BY DEF DInv
<1>3. KeysOK(m, Buttons)
  BY <1>1, <1>2, DownsOK, UpsOK
<1>4. m.failed \in BOOLEAN /\ touch' = touch /\ kbd' = kbd
  BY <1>3 DEF KeysOK, Button
<1> QED
  BY <1>1, <1>2, <1>3, <1>4, DoneKeys, KeyStepsHold

LEMMA KeyHold ==
  ASSUME DInv, touch' = touch, mouse' = mouse,
         \E j : KeysOK(j, Keys) /\ kbd' = Done(j) /\ Other(j.failed)
  PROVE  DInv'
<1>1. PICK j : KeysOK(j, Keys) /\ kbd' = Done(j) /\ Other(j.failed)
  OBVIOUS
<1>2. j.failed \in BOOLEAN /\ KeysOK(kbd', Keys)
  <2>1. j.failed \in BOOLEAN
    BY <1>1 DEF KeysOK
  <2> QED
    BY <1>1, <2>1, DoneKeys
<1>3. KeysOK(mouse', Buttons)
  BY DEF DInv
<1> QED
  BY <1>1, <1>2, <1>3, KeyStepsHold

-----------------------------------------------------------------------------
(* The theorems.                                                           *)

\* Whatever calls fail, the linear pointer knows of every gesture it follows which finger
\* it is of (linearTouch.frame, recoverLinearLocked).
THEOREM GestureInvariant == Spec => []GInv
<1>1. Init => GInv
  BY DEF Init, NoSide, GInv, GestureOK, SideOK, Few, Followed, OneSeen
<1>2. GInv /\ [Next]_vars => GInv'
  <2> SUFFICES ASSUME GInv, [Next]_vars
               PROVE  GInv'
    OBVIOUS
  <2>1. ASSUME NEW cs \in Snapshots, TouchFrame(cs) PROVE GInv'
    BY <2>1, TouchFrameOK
  <2>2. CASE CancelTouch
    BY <2>2, CancelTouchOK
  <2>3. CASE ApplyPointerGeometry
    BY <2>3, GeometryOK
  <2>4. CASE Reset
    BY <2>4, ResetOK
  <2>5. ASSUME touch' = touch PROVE GInv'
    BY <2>5 DEF GInv
  <2>6. ASSUME NEW b \in Buttons, NEW down \in BOOLEAN, Button(b, down) PROVE GInv'
    BY <2>5, <2>6 DEF Button
  <2>7. ASSUME NEW mods \in Chords, NEW key \in Keys \cup {Free}, Combo(mods, key) PROVE GInv'
    BY <2>5, <2>7 DEF Combo
  <2>8. ASSUME NEW mods \in Chords, NEW key \in Keys \ Modifiers, Character(mods, key)
        PROVE  GInv'
    BY <2>5, <2>8 DEF Character
  <2>9. CASE UNCHANGED vars
    BY <2>5, <2>9 DEF vars
  <2> QED
    BY <2>1, <2>2, <2>3, <2>4, <2>6, <2>7, <2>8, <2>9 DEF Next
<1> QED
  BY <1>1, <1>2, PTL DEF Spec

\* The native button goes down only for one finger of those that have been down since all
\* were up, the gesture was cancelled or its finger exchanged, unless a lease has been
\* taken since then (linearTouch.frame).
THEOREM ClicksOfOneFinger == Spec => []OneFingerClicks
<1>1. GInv => OneFingerClicks
  <2> SUFFICES ASSUME GInv
               PROVE  Cardinality(touch.clicked) <= 1
    BY DEF OneFingerClicks
  <2> DEFINE C == touch.clicked
  <2>1. Few(C)
    BY DEF GInv, GestureOK
  <2> HIDE DEF C
  <2>2. CASE C = {}
    BY <2>2, FS_EmptySet DEF C
  <2>3. ASSUME NEW c \in C PROVE Cardinality(C) = 1
    <3>1. C = {c}
      BY <2>1, <2>3 DEF Few
    <3> QED
      BY <3>1, FS_Singleton
  <2> QED
    BY <2>2, <2>3 DEF C
<1> QED
  BY <1>1, GestureInvariant, PTL

\* The device remembers whatever may still be down, and knows when it does not know what
\* the touchpad holds, whatever calls fail.
THEOREM DeviceInvariant == Spec => []DInv
<1>1. Init => DInv
  <2> SUFFICES ASSUME Init
               PROVE  DInv
    OBVIOUS
  <2>1. GInv
    BY DEF Init, NoSide, GInv, GestureOK, SideOK, Few, Followed, OneSeen
  <2>2. SideOK(touch)
    BY <2>1 DEF GInv, GestureOK
  <2>3. PICK linear \in BOOLEAN : touch = NoSide(linear)
    BY DEF Init
  <2>4. touch.pad = FreshPad /\ ~touch.down /\ ~touch.native
    BY <2>3 DEF NoSide
  <2>5. HoldOK(touch)
    BY <2>2, <2>4, FreshOK DEF HoldOK
  <2>6. KeysOK(mouse, Buttons) /\ KeysOK(kbd, Keys)
    BY DEF Init, KeysOK
  <2>7. did \in [op: {"reset", "other"}, failed: BOOLEAN] /\ faults \in 0..MaxFaults
    BY DeviceAssumption DEF Init, DeviceAssumption
  <2>8. ResetReleases
    BY DEF Init, ResetReleases
  <2> QED
    BY <2>1, <2>5, <2>6, <2>7, <2>8 DEF DInv
<1>2. DInv /\ [Next]_vars => DInv'
  <2> SUFFICES ASSUME DInv, [Next]_vars
               PROVE  DInv'
    OBVIOUS
  <2>1. ASSUME NEW cs \in Snapshots, TouchFrame(cs) PROVE DInv'
    BY <2>1, TouchFrameHold
  <2>2. CASE CancelTouch
    BY <2>2, CancelTouchHold
  <2>3. CASE ApplyPointerGeometry
    BY <2>3, GeometryHold
  <2>4. CASE Reset
    BY <2>4, ResetHold
  <2>5. ASSUME NEW b \in Buttons, NEW down \in BOOLEAN, Button(b, down) PROVE DInv'
    BY <2>5, ButtonHold
  <2>6. ASSUME NEW mods \in Chords, NEW key \in Keys \cup {Free}, Combo(mods, key) PROVE DInv'
    <3>1. touch' = touch /\ mouse' = mouse
      BY <2>6 DEF Combo
    <3>2. \E j : KeysOK(j, Keys) /\ kbd' = Done(j) /\ Other(j.failed)
      BY <2>6, ComboOK DEF DInv
    <3> QED
      BY <3>1, <3>2, KeyHold
  <2>7. ASSUME NEW mods \in Chords, NEW key \in Keys \ Modifiers, Character(mods, key)
        PROVE  DInv'
    <3>1. touch' = touch /\ mouse' = mouse
      BY <2>7 DEF Character
    <3>2. \E j : KeysOK(j, Keys) /\ kbd' = Done(j) /\ Other(j.failed)
      BY <2>7, CharacterOK DEF DInv
    <3> QED
      BY <3>1, <3>2, KeyHold
  <2>8. CASE UNCHANGED vars
    BY <2>8 DEF vars, DInv, GInv, ResetReleases
  <2> QED
    BY <2>1, <2>2, <2>3, <2>4, <2>5, <2>6, <2>7, <2>8 DEF Next
<1> QED
  BY <1>1, <1>2, PTL DEF Spec

\* What may be down is among what is remembered, every contact has one slot, and a lost
\* pointer follows no drag (uinputDev, mtState.assign).
THEOREM DeviceTypes == Spec => []TypeOK
<1>1. DInv => TypeOK
  <2> SUFFICES ASSUME DInv
               PROVE  TypeOK
    OBVIOUS
  <2>1. /\ SideOK(touch) /\ touch.pad \in Pads /\ Distinct(touch.pad.slots)
        /\ touch.down => touch.linear
        /\ touch.multi => touch.prev = Free
    BY DEF DInv, HoldOK, PadOK, GInv, GestureOK
  <2>2. touch \in Sides
    BY <2>1 DEF SideOK, Sides
  <2>3. /\ mouse \in [down: SUBSET Buttons, held: SUBSET Buttons, failed: BOOLEAN]
        /\ kbd \in [down: SUBSET Keys, held: SUBSET Keys, failed: BOOLEAN]
        /\ mouse.down \subseteq mouse.held /\ kbd.down \subseteq kbd.held
    BY DEF DInv, KeysOK
  <2>4. did \in [op: {"reset", "other"}, failed: BOOLEAN] /\ faults \in 0..MaxFaults
    BY DEF DInv
  <2> DEFINE slots == touch.pad.slots
             held == [s \in {t \in Slots : slots[t] # Free} |-> slots[s]]
  <2>5. IsInjective(held)
    BY <2>1 DEF Distinct, IsInjective
  <2> QED
    BY <2>1, <2>2, <2>3, <2>4, <2>5 DEF TypeOK
<1> QED
  BY <1>1, DeviceInvariant, PTL

\* The kernel holds the contacts that the daemon believes it to hold, unless the daemon
\* knows that it does not know (mtTouchpad.frame, cancel).
THEOREM PadIsSound == Spec => []PadSound
<1>1. DInv => PadSound
  BY DEF DInv, HoldOK, PadOK, Sound, PadSound, BitsOf, Occupied
<1> QED
  BY <1>1, DeviceInvariant, PTL

\* A reset that does not fail leaves nothing down (Reset).
THEOREM ResetsRelease == Spec => []ResetReleases
<1>1. DInv => ResetReleases
  BY DEF DInv
<1> QED
  BY <1>1, DeviceInvariant, PTL
=============================================================================
