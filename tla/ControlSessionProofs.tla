------------------------ MODULE ControlSessionProofs ------------------------
(***************************************************************************)
(* Proofs about ControlSession, for any connections, key operations and    *)
(* policies and any number of frames and transitions: that the sequences   *)
(* of a key operation are begun once and in order, that receipts are true, *)
(* that a cancellation holds, that no transition leaves anything of        *)
(* another session with the device, and that the phone's view of policy    *)
(* and media is the one in force.                                          *)
(***************************************************************************)
EXTENDS ControlSession, SequenceTheorems, TLAPS

-----------------------------------------------------------------------------
(* The inductive invariant.                                                *)

KeyKinds == {"press", "repeat"}
Working == {"gate", "reserve", "admit", "cancel", "run", "finish", "write"}
Framed(c) == conn[c].at \in Working
FrameOf(c) == conn[c].frame

Began(f) == \E k \in DOMAIN ran : ran[k].frame = f
Ran(c, o, s) == \E k \in DOMAIN ran :
                  ran[k].from = c /\ ran[k].frame.op = o /\ ran[k].frame.step = s

\* Types, those of the histories included.
Told == [from: Connections, frame: Frames, result: Results, ran: Nat]
Observation == [order: Nat, epoch: Nat]
TypeInv ==
  /\ TypeOK
  /\ media \in [begun: Nat, open: SUBSET Observation, applied: Nat]
  /\ told \subseteq Told

\* The plans of the transitions, and those of a connection that is still to join.
Plans == {<<>>, <<"reset">>, <<"geometry">>, <<"reset", "geometry">>,
          <<"theirs", "reset">>, <<"geometry", "theirs", "reset">>}
BeforeJoin == {<<"theirs", "reset">>, <<"geometry", "theirs", "reset">>}
Settled == {<<>>, <<"geometry">>, <<"geometry", "theirs", "reset">>}

GateInv ==
  /\ todo \in Plans
  /\ gate # "control" => todo = <<>> /\ ~announces
  /\ todo \in BeforeJoin => ~announces

\* One connection joins at a time, under the gate.
JoinInv ==
  /\ \A c \in Connections : At(c, "joining") =>
       /\ gate = "control"
       /\ IF todo \in BeforeJoin THEN conn[c].gen = 0 ELSE conn[c].gen = gen /\ current = c
  /\ \A c, d \in Connections : At(c, "joining") /\ At(d, "joining") => c = d
  /\ todo \in BeforeJoin => \E c \in Connections : At(c, "joining")

\* A generation belongs to one connection, and a permit to its connection's.
GenInv ==
  /\ epoch # 0 => epoch = gen
  /\ \A c \in Connections :
       /\ conn[c].gen <= gen
       /\ conn[c].at \in {"new", "closed"} => conn[c].gen = 0
       /\ Framed(c) => /\ conn[c].gen # 0
                       /\ Pass(c).gen = conn[c].gen /\ Pass(c).epoch = conn[c].gen
                       /\ Pass(c).scope = "input"
       /\ gate = c => current = c
  /\ \A c, d \in Connections : c # d /\ conn[c].gen = conn[d].gen => conn[c].gen = 0

FrameInv ==
  /\ \A c \in Connections : Framed(c) =>
       /\ FrameOf(c).id \in 1..events
       /\ FrameOf(c).kind \in KeyKinds \cup {"cancel"} => FrameOf(c).op \in Operations
       /\ FrameOf(c).kind = "press" => FrameOf(c).step = 1
       /\ At(c, "cancel") => FrameOf(c).kind = "cancel"
       /\ At(c, "gate") => FrameOf(c).kind # "cancel"
       /\ conn[c].at \in {"reserve", "admit", "run", "finish"} => FrameOf(c).kind \in KeyKinds
       /\ conn[c].at \in {"reserve", "admit", "gate", "cancel"} => conn[c].result = "rejected"
       /\ At(c, "finish") => conn[c].result \in {"executed", "uncertain", "rejected"}
  /\ \A c, d \in Connections : c # d /\ Framed(c) /\ Framed(d) => FrameOf(c).id # FrameOf(d).id

\* A key frame in the line is the last there, of the handler that waits for it, and new.
LineInv ==
  /\ \A i \in DOMAIN line : line[i].frame.kind \in KeyKinds =>
       /\ i = Len(line)
       /\ At(line[i].from, "run") /\ FrameOf(line[i].from) = line[i].frame
       /\ ~Began(line[i].frame)
       /\ ~Ran(line[i].from, line[i].frame.op, line[i].frame.step)
  /\ running # NoItem /\ running.frame.kind \in KeyKinds =>
       \E k \in DOMAIN ran : ran[k] = running

\* Where a frame cannot have been begun.
Unbegun(c) == \/ conn[c].at \in {"reserve", "admit", "gate", "cancel"}
              \/ conn[c].at \in {"finish", "write"} /\ conn[c].result = "rejected"
RanInv ==
  /\ \A k \in DOMAIN ran :
       /\ ran[k].frame.id <= events
       /\ conn[ran[k].from].at \notin {"new", "joining"}
  /\ \A c \in Connections : Unbegun(c) => ~Began(FrameOf(c))
  /\ KeysInOrder

\* A key operation of the session in force, between its reservation and its record.
Busy(c, o) == /\ conn[c].at \in {"admit", "gate", "run", "finish"}
              /\ FrameOf(c).op = o /\ FrameOf(c).kind \in KeyKinds
OperationOf(c, o) ==
  /\ \A s \in Steps : Ran(c, o, s) => keys[o].epoch = epoch /\ s < keys[o].next
  /\ Busy(c, o) =>
       /\ keys[o].epoch = epoch /\ FrameOf(c).step + 1 = keys[o].next
       /\ FrameOf(c).step > 1 => Ran(c, o, FrameOf(c).step - 1)
       /\ conn[c].at \in {"admit", "gate"} => ~Ran(c, o, FrameOf(c).step)
       /\ conn[c].at \in {"gate", "run"} => keys[o].active
  /\ keys[o].epoch = epoch /\ keys[o].active /\ ~Busy(c, o) => Ran(c, o, keys[o].next - 1)
  /\ At(c, "write") /\ conn[c].result = "cancelled" /\ FrameOf(c).op = o =>
       keys[o].epoch = epoch /\ ~keys[o].active
KeyInv == \A c \in Connections, o \in Operations : c = current => OperationOf(c, o)

\* What is recorded of an operation is true of the connection it belongs to.
RecordOf(c, o) ==
  /\ \A s \in Steps : keys[o].receipts[s] = "executed" => Ran(c, o, s)
  /\ keys[o].receipts[1] = "none" => Busy(c, o) /\ FrameOf(c).step = 1
RecordInv ==
  /\ \A o \in Operations, s \in Steps : keys[o].receipts[s] # "cancelled"
  /\ \A c \in Connections, o \in Operations :
       keys[o].epoch = conn[c].gen /\ conn[c].gen # 0 => RecordOf(c, o)
  /\ \A c \in Connections :
       conn[c].at \in {"finish", "write"} /\ conn[c].result = "executed" =>
         Ran(c, FrameOf(c).op, FrameOf(c).step)
  /\ \A c \in Connections :
       At(c, "write") /\ conn[c].result = "cancelled" => FrameOf(c).kind = "cancel"

ToldOf(t) ==
  /\ t.frame.op \in Operations /\ t.frame.id <= events
  /\ conn[t.from].at \notin {"new", "joining"}
  /\ \A c \in Connections : Framed(c) => FrameOf(c).id # t.frame.id
  /\ t.ran <= Len(ran)
  /\ t.result = "executed" => Ran(t.from, t.frame.op, t.frame.step)
  /\ t.result = "rejected" => ~Began(t.frame)
  /\ t.result = "cancelled" =>
       /\ t.from = current => keys[t.frame.op].epoch = epoch /\ ~keys[t.frame.op].active
       /\ \A i \in DOMAIN ran :
            ran[i].from = t.from /\ ran[i].frame.op = t.frame.op => i <= t.ran
ToldInv == \A t \in told : ToldOf(t)

QuietInv ==
  closing = "open" /\ ~incomplete /\ todo \in Settled =>
    /\ Present \subseteq {current}
    /\ "input" \notin granted => Present = {}

\* No message is of the future, and the newest says what is in force.
Sound(m) ==
  /\ m.revision <= capability
  /\ m.revision = capability =>
       m.policy = granted /\ m.media = media.applied /\ m.epoch = epoch
MessageInv ==
  /\ capability >= 1 /\ sent <= capability
  /\ \A u \in updates : Sound(u)
  /\ \A c \in Connections : Sound(view[c])
  /\ sender # Nobody => outbox \in Message /\ Sound(outbox)

\* The messages to a connection are written in the order of their revisions.
OrderInv ==
  /\ sender = "update" => outbox.revision > sent
  /\ \A c \in Connections :
       /\ sender = c => outbox.to = c /\ outbox.revision >= sent
       /\ conn[c].at \in {"new", "joining", "hello", "greet"} => view[c].revision = 0
       /\ c = current => /\ view[c].revision # 0 => view[c].revision >= sent
                         /\ sender = "update" /\ outbox.to # c => view[c].revision = 0

\* A connection that does not know the newest revision is going to be told.
Due(c) == \/ announces
          \/ \E u \in updates : u.to = c /\ u.revision = capability
          \/ sender = "update" /\ outbox.to = c /\ outbox.revision = capability
Knows(c) == IF At(c, "greet") THEN outbox.revision ELSE view[c].revision
DueInv == \A c \in Connections :
  c = current /\ c \notin broken /\ Knows(c) # 0 /\ Knows(c) < capability => Due(c)


SessionInv == GateInv /\ JoinInv /\ GenInv
FramesInv == FrameInv /\ LineInv /\ RanInv /\ KeyInv /\ RecordInv /\ ToldInv
TalkInv == MessageInv /\ OrderInv /\ DueInv
CInv == TypeInv /\ SessionInv /\ FramesInv /\ QuietInv /\ TalkInv

\* The types, by what the steps leave alone together.
GateTypes == /\ GateTypeOK(Connections)
             /\ current \in Connections \cup {Nobody} /\ broken \subseteq Connections
             /\ announces \in BOOLEAN
HostTypes == /\ conn \in [Connections -> Handler]
             /\ \A c \in Connections : /\ conn[c].at = "run" <=> gate = c
                                       /\ conn[c].at = "greet" <=> sender = c
             /\ epoch = 0 <=> current = Nobody
             /\ epoch # 0 => conn[current].gen = epoch
TalkTypes == /\ capability \in Nat /\ sent \in Nat
             /\ media \in [begun: Nat, open: SUBSET Observation, applied: Nat]
             /\ media.applied <= media.begun /\ media.open \subseteq [order: 1..media.begun, epoch: Nat]
             /\ updates \subseteq Message /\ sender \in Connections \cup {Nobody, "update"}
             /\ outbox \in Message \cup {Unheard}
             /\ view \in [Connections -> [revision: Nat, epoch: Nat, policy: SUBSET Scopes,
                                         media: Nat]]
KeyTypes == keys \in [Operations -> Operation]
DeviceTypes == /\ line \in Seq(Items) /\ running \in Items \cup {NoItem}
               /\ pressed \in Connections \cup {Nobody}
               /\ ran \in Seq([from: Connections, frame: Frames])
ToldTypes == events \in 0..MaxEvents /\ told \subseteq Told

LEMMA TypeParts ==
  TypeInv <=> GateTypes /\ HostTypes /\ TalkTypes /\ KeyTypes /\ DeviceTypes /\ ToldTypes
<1>1. media \in [begun: Nat, open: SUBSET Observation, applied: Nat] =>
        (media.begun \in Nat /\ media.applied \in 0..media.begun <=> media.applied <= media.begun)
  OBVIOUS
<1>2. QED
  BY <1>1 DEF TypeInv, TypeOK, GateTypes, HostTypes, TalkTypes, KeyTypes, DeviceTypes, ToldTypes

LEMMA TypePartsNext ==
  ASSUME GateTypes', HostTypes', TalkTypes', KeyTypes', DeviceTypes', ToldTypes'
  PROVE  TypeInv'
<1>1. media' \in [begun: Nat, open: SUBSET Observation, applied: Nat] =>
        (media'.begun \in Nat /\ media'.applied \in 0..media'.begun
           <=> media'.applied <= media'.begun)
  OBVIOUS
<1>2. QED
  BY <1>1 DEF TypeInv, TypeOK, GateTypes, HostTypes, TalkTypes, KeyTypes, DeviceTypes, ToldTypes

-----------------------------------------------------------------------------
(* Footprints: what the helpers of the actions do to conn.                 *)

Keeps(c) == /\ conn'[c].gen = conn[c].gen /\ conn'[c].frame = conn[c].frame
            /\ conn'[c].permit = conn[c].permit
Alone(c) == /\ conn' \in [Connections -> Handler]
            /\ \A d \in Connections : d # c => conn'[d] = conn[d]

\* Goes changes the place of one handler.
LEMMA GoesEffect ==
  ASSUME conn \in [Connections -> Handler], NEW c \in Connections, NEW place \in Places,
         Goes(c, place)
  PROVE  /\ Alone(c) /\ Keeps(c)
         /\ conn'[c].at = place /\ conn'[c].result = conn[c].result
<1>1. [conn[c] EXCEPT !.at = place] \in Handler
  BY DEF Handler
<1>2. conn' = [conn EXCEPT ![c] = [conn[c] EXCEPT !.at = place]]
  BY DEF Goes
<1>3. QED
  BY <1>1, <1>2 DEF Handler, Alone, Keeps

\* Takes also changes its result.
LEMMA TakesEffect ==
  ASSUME conn \in [Connections -> Handler], NEW c \in Connections, NEW place \in Places,
         NEW result \in Results, Takes(c, result, place)
  PROVE  /\ Alone(c) /\ Keeps(c)
         /\ conn'[c].at = place /\ conn'[c].result = result
<1>1. [conn[c] EXCEPT !.at = place, !.result = result] \in Handler
  BY DEF Handler
<1>2. conn' = [conn EXCEPT ![c] = [conn[c] EXCEPT !.at = place, !.result = result]]
  BY DEF Takes
<1>3. QED
  BY <1>1, <1>2 DEF Handler, Alone, Keeps

\* Rests and Over leave no frame.
LEMMA RestsEffect ==
  ASSUME conn \in [Connections -> Handler], NEW c \in Connections,
         NEW place \in Places, Rests(c, place)
  PROVE  Alone(c) /\ conn'[c].at = place /\ conn'[c].gen = conn[c].gen
<1> DEFINE h == [Fresh EXCEPT !.at = place, !.gen = conn[c].gen]
<1>1. h \in Handler
  <2>1. NoFrame \in Frames
    BY SessionAssumption DEF NoFrame, Frames, Steps, SessionAssumption
  <2>2. QED
    BY <2>1 DEF Handler, Fresh, Places, Results, Scopes
<1>2. h.at = place /\ h.gen = conn[c].gen
  BY DEF Fresh
<1>3. conn' = [conn EXCEPT ![c] = h]
  BY DEF Rests
<1>4. QED
  BY <1>1, <1>2, <1>3 DEF Alone

LEMMA OverEffect ==
  ASSUME conn \in [Connections -> Handler], NEW c \in Connections, Over(c)
  PROVE  Alone(c) /\ conn'[c].at = "closed" /\ conn'[c].gen = 0
<1> DEFINE h == [Fresh EXCEPT !.at = "closed"]
<1>1. h \in Handler
  <2>1. NoFrame \in Frames
    BY SessionAssumption DEF NoFrame, Frames, Steps, SessionAssumption
  <2>2. QED
    BY <2>1 DEF Handler, Fresh, Places, Results, Scopes
<1>2. h.at = "closed" /\ h.gen = 0
  BY DEF Fresh
<1>3. conn' = [conn EXCEPT ![c] = h]
  BY DEF Over
<1>4. QED
  BY <1>1, <1>2, <1>3 DEF Alone

-----------------------------------------------------------------------------
(* The plans of the transitions, step by step.                             *)

LEMMA PlanTypes == Plans \subseteq Seq(Step)
BY DEF Plans, Step

LEMMA PlanHeads ==
  ASSUME NEW p \in Plans, p # <<>>
  PROVE  /\ Tail(p) \in Plans
         /\ Head(p) = "geometry" =>
              /\ Tail(p) \in BeforeJoin <=> p \in BeforeJoin
              /\ Tail(p) \in Settled => p \in Settled
         /\ Head(p) \in {"mine", "theirs"} => p \in BeforeJoin /\ Tail(p) \notin BeforeJoin
                                              /\ Tail(p) \notin Settled
         /\ Head(p) = "reset" => p \notin BeforeJoin /\ Tail(p) \notin BeforeJoin
         /\ Len(p) = 3 => p \in BeforeJoin
         /\ Len(p) = 3 => p \in Settled
<1>1. CASE p = <<"reset">>
  <2>1. Head(p) = "reset" /\ Tail(p) = <<>> /\ Len(p) = 1
    BY <1>1
  <2>2. QED
    BY <1>1, <2>1 DEF Plans, BeforeJoin, Settled
<1>2. CASE p = <<"geometry">>
  <2>1. Head(p) = "geometry" /\ Tail(p) = <<>> /\ Len(p) = 1
    BY <1>2
  <2>2. QED
    BY <1>2, <2>1 DEF Plans, BeforeJoin, Settled
<1>3. CASE p = <<"reset", "geometry">>
  <2>1. Head(p) = "reset" /\ Tail(p) = <<"geometry">> /\ Len(p) = 2
    BY <1>3
  <2>2. QED
    BY <1>3, <2>1 DEF Plans, BeforeJoin, Settled
<1>4. CASE p = <<"theirs", "reset">>
  <2>1. Head(p) = "theirs" /\ Tail(p) = <<"reset">> /\ Len(p) = 2
    BY <1>4
  <2>2. QED
    BY <1>4, <2>1 DEF Plans, BeforeJoin, Settled
<1>5. CASE p = <<"geometry", "theirs", "reset">>
  <2>1. Head(p) = "geometry" /\ Tail(p) = <<"theirs", "reset">> /\ Len(p) = 3
    BY <1>5
  <2>2. QED
    BY <1>5, <2>1 DEF Plans, BeforeJoin, Settled
<1>6. QED
  BY <1>1, <1>2, <1>3, <1>4, <1>5 DEF Plans

-----------------------------------------------------------------------------
(* What most steps leave alone.                                            *)

\* A handler that is neither joining nor gone goes from one place to another.
Seated == Working \cup {"hello", "greet", "loop", "ending"}
Moves(c) == /\ Alone(c) /\ conn[c].at \in Seated /\ conn'[c].at \in Seated
            /\ conn'[c].gen = conn[c].gen
Permitted(c) ==
  conn'[c].at \in Working =>
    \/ Framed(c) /\ conn'[c].permit = conn[c].permit
    \/ conn'[c].permit = Permit("input") /\ gen = conn[c].gen /\ epoch = gen /\ epoch # 0
GateMoves(c) == \/ gate' = gate
                \/ gate' = "free" /\ gate \in Connections
                \/ gate' = c /\ gate = "free" /\ current = c

LEMMA SessionKept ==
  ASSUME TypeInv, SessionInv, NEW c \in Connections,
         Moves(c), Permitted(c), GateMoves(c),
         UNCHANGED <<todo, session, current, announces>>
  PROVE  SessionInv'
<1> USE SessionAssumption DEF SessionInv, Moves, Alone, Seated, Working, At, SessionAssumption
<1>1. GateInv'
  BY DEF GateInv, GateMoves
<1>2. JoinInv'
  <2>1. \A d \in Connections : At(d, "joining")' => At(d, "joining") /\ conn'[d] = conn[d]
    OBVIOUS
  <2>2. \A d \in Connections : At(d, "joining") => At(d, "joining")'
    OBVIOUS
  <2>3. (\E d \in Connections : At(d, "joining")) => gate' = gate
    BY DEF JoinInv, GateMoves
  <2>4. QED
    BY <2>1, <2>2, <2>3 DEF JoinInv, session
<1>3. GenInv'
  <2>1. \A d \in Connections : conn'[d].gen = conn[d].gen
    OBVIOUS
  <2>2. ASSUME NEW d \in Connections
        PROVE  /\ conn'[d].at \in {"new", "closed"} => conn'[d].gen = 0
               /\ Framed(d)' => /\ conn'[d].gen # 0
                                /\ Pass(d)'.gen = conn'[d].gen /\ Pass(d)'.epoch = conn'[d].gen
                                /\ Pass(d)'.scope = "input"
               /\ gate' = d => current = d
    BY <2>2 DEF GenInv, Framed, Pass, Permitted, Permit, GateMoves
  <2>3. QED
    BY <2>1, <2>2 DEF GenInv, session
<1>4. QED
  BY <1>1, <1>2, <1>3

\* Steps that leave the messages and the session alone.
TalkAside == /\ UNCHANGED <<talk, announces, epoch, granted>>
             /\ \A c \in Connections :
                  /\ conn'[c].at = "greet" <=> conn[c].at = "greet"
                  /\ conn'[c].at \in {"new", "joining", "hello"} =>
                       conn[c].at \in {"new", "joining", "hello"}

LEMMA TalkKept ==
  ASSUME TalkInv, TalkAside,
         \/ current' = current /\ (current \in broken => current \in broken')
         \/ current' \notin Connections
  PROVE  TalkInv'
<1> USE DEF TalkInv, TalkAside, talk
<1>1. MessageInv'
  BY DEF MessageInv, Sound
<1>2. OrderInv'
  BY DEF OrderInv
<1>3. DueInv'
  BY DEF DueInv, Due, Knows, At
<1>4. QED
  BY <1>1, <1>2, <1>3

\* Handlers between two frames may go anywhere; a session may end.
FramesAside ==
  /\ conn' \in [Connections -> Handler]
  /\ \A c \in Connections :
       \/ conn'[c] = conn[c]
       \/ /\ conn[c].at \notin Working /\ conn'[c].at \notin Working
          /\ conn'[c].gen = conn[c].gen \/ (conn'[c].gen = 0 /\ current' # c)
          /\ conn'[c].at \in {"new", "joining"} => conn[c].at \in {"new", "joining"}
  /\ \/ current' = current /\ epoch' = epoch
     \/ current' \notin Connections
  /\ line' = line \/ line' = <<>> \/ (line # <<>> /\ line' = Tail(line))
  /\ running' \in {running, NoItem} \/ running'.frame.kind \notin KeyKinds
  /\ UNCHANGED <<keys, ran, told>> /\ events \in Nat /\ events' \in Nat /\ events <= events'

\* What the types say of the entries of the two sequences.
LEMMA EntryTypes ==
  ASSUME TypeInv
  PROVE  /\ DOMAIN line = 1..Len(line) /\ Len(line) \in Nat
         /\ DOMAIN ran = 1..Len(ran) /\ Len(ran) \in Nat
         /\ \A i \in DOMAIN line : /\ line[i].from \in Connections /\ line[i].frame \in Frames
                                  /\ line[i] \in Items
         /\ \A k \in DOMAIN ran : /\ ran[k].from \in Connections /\ ran[k].frame \in Frames
                                 /\ ran[k].frame.id \in Nat
<1>1. line \in Seq(Items) /\ ran \in Seq(Items)
  BY DEF TypeInv, TypeOK, Items
<1>2. \A i \in 1..Len(line) : line[i] \in Items
  BY <1>1
<1>3. \A i \in 1..Len(ran) : ran[i] \in Items
  BY <1>1
<1>4. \A i \in Items : i.from \in Connections /\ i.frame \in Frames
  BY DEF Items
<1>5. \A f \in Frames : f.id \in Nat
  BY SessionAssumption DEF Frames, SessionAssumption
<1>6. /\ DOMAIN line = 1..Len(line) /\ Len(line) \in Nat
      /\ DOMAIN ran = 1..Len(ran) /\ Len(ran) \in Nat
  BY <1>1
<1>7. QED
  BY <1>2, <1>3, <1>4, <1>5, <1>6

LEMMA FramesKept ==
  ASSUME TypeInv, FramesInv, FramesAside
  PROVE  FramesInv'
<1> USE DEF FramesInv, FramesAside
<1>1. \A c \in Connections : Framed(c)' => Framed(c) /\ conn'[c] = conn[c]
  BY DEF Framed
<1>2. \A c \in Connections : Framed(c) => conn'[c] = conn[c]
  BY DEF Framed
<1>3. /\ \A f : Began(f)' <=> Began(f)
      /\ \A c, o, s : Ran(c, o, s)' <=> Ran(c, o, s)
  BY DEF Began, Ran
<1>4. FrameInv'
  BY <1>1 DEF FrameInv, FrameOf, At, Framed, Working
<1>5. LineInv'
  <2>0. running' # NoItem /\ running'.frame.kind \in KeyKinds =>
          \E k \in DOMAIN ran' : ran'[k] = running'
    BY DEF LineInv
  <2>1. CASE line' = <<>>
    BY <2>0, <2>1 DEF LineInv
  <2> DEFINE Good(e) == /\ conn'[e.from].at = "run" /\ conn'[e.from].frame = e.frame
                        /\ ~Began(e.frame) /\ ~Ran(e.from, e.frame.op, e.frame.step)
  <2>2. ASSUME NEW i \in DOMAIN line, line[i].frame.kind \in KeyKinds
        PROVE  i = Len(line) /\ Good(line[i])
    <3>1. /\ i = Len(line) /\ conn[line[i].from].at = "run"
          /\ conn[line[i].from].frame = line[i].frame
          /\ ~Began(line[i].frame) /\ ~Ran(line[i].from, line[i].frame.op, line[i].frame.step)
      BY <2>2 DEF LineInv, At, FrameOf
    <3>2. line[i].from \in Connections /\ Framed(line[i].from)
      BY <3>1, EntryTypes DEF Framed, Working
    <3>3. conn'[line[i].from] = conn[line[i].from]
      BY <3>2, <1>2
    <3>4. QED
      BY <3>1, <3>3
  <2>3. ASSUME \A i \in DOMAIN line' : line'[i].frame.kind \in KeyKinds =>
                 i = Len(line') /\ Good(line'[i])
        PROVE  LineInv'
    BY <2>0, <2>3 DEF LineInv, At, FrameOf, Began, Ran
  <2>4. CASE line' = line
    BY <2>2, <2>3, <2>4
  <2>5. CASE line # <<>> /\ line' = Tail(line)
    <3>1. Len(line) \in Nat /\ DOMAIN line = 1..Len(line) /\ line \in Seq(Items)
      BY EntryTypes DEF TypeInv, TypeOK
    <3>2. /\ line' \in Seq(Items) /\ Len(line') = Len(line) - 1
          /\ \A i \in 1..(Len(line) - 1) : line'[i] = line[i + 1]
      BY <3>1, <2>5, HeadTailProperties
    <3>3. DOMAIN line' = 1..(Len(line) - 1)
      BY <3>2
    <3>4. ASSUME NEW i \in DOMAIN line', line'[i].frame.kind \in KeyKinds
          PROVE  i = Len(line') /\ Good(line'[i])
      <4>1. i + 1 \in DOMAIN line /\ line'[i] = line[i + 1]
        BY <3>1, <3>2, <3>3
      <4>2. i + 1 = Len(line) /\ Good(line[i + 1])
        BY <3>4, <4>1, <2>2
      <4>3. QED
        BY <4>1, <4>2, <3>1, <3>2, <3>3
    <3>5. QED
      BY <3>4, <2>3
  <2>6. QED
    BY <2>1, <2>4, <2>5
<1>6. RanInv'
  <2>1. \A k \in DOMAIN ran' : /\ ran'[k].frame.id <= events'
                               /\ conn'[ran'[k].from].at \notin {"new", "joining"}
    BY EntryTypes DEF RanInv
  <2>2. \A c \in Connections : Unbegun(c)' => ~Began(FrameOf(c))'
    BY <1>1, <1>3 DEF RanInv, Unbegun, FrameOf, Framed, Working
  <2>3. KeysInOrder'
    BY DEF RanInv, KeysInOrder
  <2>4. QED
    BY <2>1, <2>2, <2>3 DEF RanInv
<1>7. KeyInv'
  <2> SUFFICES ASSUME NEW c \in Connections, NEW o \in Operations, c = current'
               PROVE  OperationOf(c, o)'
    BY DEF KeyInv
  <2>1. OperationOf(c, o) /\ epoch' = epoch
    BY DEF KeyInv
  <2>2. Busy(c, o)' <=> Busy(c, o)
    BY DEF Busy, FrameOf, Working
  <2>3. conn'[c].at \in Working => conn'[c] = conn[c]
    OBVIOUS
  <2>4. QED
    BY <1>3, <2>1, <2>2, <2>3 DEF OperationOf, Busy, FrameOf, At, Working
<1>8. RecordInv'
  <2>1. ASSUME NEW c \in Connections, NEW o \in Operations,
               keys'[o].epoch = conn'[c].gen, conn'[c].gen # 0
        PROVE  RecordOf(c, o)'
    <3>1. RecordOf(c, o)
      BY <2>1 DEF RecordInv
    <3>2. Busy(c, o) => Busy(c, o)' /\ FrameOf(c)' = FrameOf(c)
      BY DEF Busy, FrameOf, Working
    <3>3. QED
      BY <1>3, <3>1, <3>2 DEF RecordOf
  <2>2. \A c \in Connections : At(c, "write")' \/ At(c, "finish")' => conn'[c] = conn[c]
    BY DEF At, Working
  <2>3. QED
    BY <1>3, <2>1, <2>2 DEF RecordInv, At, FrameOf
<1>9. ToldInv'
  <2> SUFFICES ASSUME NEW t \in told
               PROVE  ToldOf(t)'
    BY DEF ToldInv
  <2>1. ToldOf(t) /\ t.from \in Connections /\ t.frame.id \in Nat
    BY EntryTypes, SMTT(20) DEF ToldInv, TypeInv, Told, Frames, TypeOK
  <2>2. \A c \in Connections : Framed(c)' => FrameOf(c)'.id # t.frame.id
    BY <1>1, <2>1 DEF ToldOf, FrameOf
  <2>3. QED
    BY <1>3, <2>1, <2>2 DEF ToldOf
<1>10. QED
  BY <1>4, <1>5, <1>6, <1>7, <1>8, <1>9

\* Less of the device: what it had is there or not.
Lighter == /\ \A i \in DOMAIN line' : \E k \in DOMAIN line : line'[i].from = line[k].from
           /\ running' \in {running, NoItem} /\ pressed' \in {pressed, Nobody}

LEMMA QuietKept ==
  ASSUME QuietInv, Lighter, UNCHANGED <<current, granted>>,
         closing' = "open" /\ ~incomplete' /\ todo' \in Settled =>
           closing = "open" /\ ~incomplete /\ todo \in Settled
  PROVE  QuietInv'
<1>1. Present' \subseteq Present
  BY DEF Lighter, Present, NoItem
<1>2. QED
  BY <1>1 DEF QuietInv

LEMMA DeviceKept ==
  ASSUME TypeInv, UNCHANGED <<line, running, pressed>>
  PROVE  Lighter
BY DEF Lighter

LEMMA LineEmptied ==
  ASSUME TypeInv, line' = <<>>, running' \in {running, NoItem}, pressed' \in {pressed, Nobody}
  PROVE  Lighter
BY DEF Lighter

\* Steps of the handlers and of the writers of updates that leave the device alone.
TalkStep(c) ==
  /\ Moves(c) /\ conn'[c].at \notin Working /\ conn[c].at \notin Working
  /\ UNCHANGED <<control, current, announces, keys, device, told>>
  /\ events \in Nat /\ events' \in Nat /\ events <= events'

LEMMA TalkStepKeeps ==
  ASSUME CInv, NEW c \in Connections, TalkStep(c)
  PROVE  SessionInv' /\ FramesInv' /\ QuietInv'
<1> USE DEF TalkStep, control, device
<1>1. SessionInv'
  BY SessionKept DEF Permitted, GateMoves, CInv
<1>2. FramesInv'
  <2>1. FramesAside
    BY DEF FramesAside, Moves, Alone, Seated, Working, session
  <2>2. QED
    BY <2>1, FramesKept DEF CInv
<1>3. QuietInv'
  BY QuietKept, DeviceKept DEF CInv, session
<1>4. QED
  BY <1>1, <1>2, <1>3

\* The same of a step that no handler takes.
UpdateStep == /\ UNCHANGED <<control, conn, current, announces, keys, device, told>>
              /\ events \in Nat /\ events' \in Nat /\ events <= events'

LEMMA UpdateStepKeeps ==
  ASSUME CInv, UpdateStep
  PROVE  SessionInv' /\ FramesInv' /\ QuietInv'
<1> USE DEF UpdateStep, control, device
<1>1. SessionInv'
  BY DEF CInv, SessionInv, GateInv, JoinInv, GenInv, session, At, Framed, Pass
<1>2. FramesInv'
  <2>1. FramesAside
    BY DEF FramesAside, CInv, TypeInv, TypeOK, session
  <2>2. QED
    BY <2>1, FramesKept DEF CInv
<1>3. QuietInv'
  BY QuietKept, DeviceKept DEF CInv, session
<1>4. QED
  BY <1>1, <1>2, <1>3

LEMMA TalkStepTypes ==
  ASSUME CInv, UNCHANGED <<control, current, announces, keys, device, told>>,
         events' \in 0..MaxEvents, broken' \subseteq Connections
  PROVE  GateTypes' /\ KeyTypes' /\ DeviceTypes' /\ ToldTypes'
<1>1. GateTypes /\ KeyTypes /\ DeviceTypes /\ ToldTypes
  BY TypeParts DEF CInv
<1>2. QED
  BY <1>1 DEF GateTypes, GateTypeOK, KeyTypes, DeviceTypes, ToldTypes, control, session, device

-----------------------------------------------------------------------------
(* The steps of the messages.                                              *)

LEMMA PayloadType ==
  ASSUME TypeInv, NEW c \in Connections
  PROVE  Payload(c) \in Message /\ Payload(c).to = c /\ Payload(c).revision = capability
         /\ Payload(c).policy = granted /\ Payload(c).media = media.applied
         /\ Payload(c).epoch = epoch
BY DEF TypeInv, TypeOK, Payload, Message, GateTypeOK

\* What a connection has heard afterwards.
Heard == [revision: Nat, epoch: Nat, policy: SUBSET Scopes, media: Nat]
LEMMA HearsEffect ==
  ASSUME view \in [Connections -> Heard], NEW m \in Message, NEW first \in BOOLEAN,
         Hears(m, first)
  PROVE  /\ view' \in [Connections -> Heard]
         /\ \A c \in Connections : c # m.to => view'[c] = view[c]
         /\ IF (first /\ view[m.to].revision = 0)
                \/ (~first /\ view[m.to].revision # 0 /\ m.revision > view[m.to].revision)
            THEN /\ view'[m.to].revision = m.revision /\ view'[m.to].policy = m.policy
                 /\ view'[m.to].media = m.media /\ view'[m.to].epoch = m.epoch
            ELSE view' = view
<1>1. m.to \in Connections /\ Said(m) \in Heard
  BY DEF Message, Said, Heard
<1>2. QED
  BY <1>1 DEF Hears, Said

LEMMA HelloStep ==
  ASSUME CInv, NEW c \in Connections, Hello(c)
  PROVE  CInv'
<1> USE DEF Hello, At, Silent
<1>0. GateTypes /\ HostTypes /\ TalkTypes /\ KeyTypes /\ DeviceTypes /\ ToldTypes
  BY TypeParts DEF CInv
<1>1. /\ Alone(c) /\ conn'[c].gen = conn[c].gen
      /\ conn'[c].at = IF gen # conn[c].gen THEN "ending" ELSE "greet"
  BY <1>0, GoesEffect, RestsEffect DEF HostTypes, Places, Keeps
<1>2. TalkStep(c)
  BY <1>0, <1>1, SessionAssumption DEF TalkStep, Moves, Seated, Working, ToldTypes
<1>3. SessionInv' /\ FramesInv' /\ QuietInv'
  BY <1>2, TalkStepKeeps
<1>4. TypeInv'
  <2>1. GateTypes' /\ KeyTypes' /\ DeviceTypes' /\ ToldTypes'
    BY <1>0, TalkStepTypes DEF GateTypes, ToldTypes
  <2>2. HostTypes'
    BY <1>0, <1>1, SessionAssumption
       DEF HostTypes, GateTypes, Alone, control, session, SessionAssumption
  <2>3. TalkTypes'
    BY <1>0, PayloadType DEF TalkTypes, CInv
  <2>4. QED
    BY <2>1, <2>2, <2>3, TypePartsNext
<1>5. TalkInv'
  <2>1. CASE gen # conn[c].gen
    <3>1. TalkAside
      BY <2>1, <1>1 DEF TalkAside, talk, control, session, Alone
    <3>2. QED
      BY <3>1, TalkKept DEF CInv
  <2>2. CASE gen = conn[c].gen
    <3>1. /\ sender = Nobody /\ sender' = c /\ outbox' \in Message /\ outbox'.to = c
          /\ outbox'.revision = capability /\ outbox'.policy = granted
          /\ outbox'.media = media.applied /\ outbox'.epoch = epoch
          /\ UNCHANGED <<capability, media, updates, sent, view, granted, epoch, current,
                         announces, broken>>
      BY <2>2, PayloadType DEF CInv, control, session
    <3>2. capability \in Nat /\ sent \in Nat /\ c # "update" /\ c # Nobody
      BY <1>0, SessionAssumption DEF TalkTypes, SessionAssumption
    <3>3. MessageInv'
      BY <3>1, <3>2 DEF MessageInv, Sound, CInv, TalkInv
    <3>4. OrderInv'
      BY <3>1, <3>2, <1>1, <2>2 DEF OrderInv, MessageInv, CInv, TalkInv, Alone
    <3>5. DueInv'
      <4> SUFFICES ASSUME NEW d \in Connections, d = current', d \notin broken',
                          Knows(d)' # 0, Knows(d)' < capability'
                   PROVE  Due(d)'
        BY DEF DueInv
      <4>1. d # c
        BY <3>1, <3>2, <1>1, <2>2 DEF Knows
      <4>2. Knows(d)' = Knows(d)
        BY <4>1, <3>1, <1>0, <1>1, SessionAssumption DEF Knows, Alone, HostTypes, SessionAssumption
      <4>3. Due(d)
        BY <4>2, <3>1 DEF DueInv, CInv, TalkInv
      <4>4. QED
        BY <4>3, <3>1, SessionAssumption DEF Due, SessionAssumption
    <3>6. QED
      BY <3>3, <3>4, <3>5 DEF TalkInv
  <2>3. QED
    BY <2>1, <2>2
<1>6. QED
  BY <1>3, <1>4, <1>5 DEF CInv

LEMMA GreetStep ==
  ASSUME CInv, NEW c \in Connections, Greet(c)
  PROVE  CInv'
<1> USE DEF Greet, At, Silent
<1>0. GateTypes /\ HostTypes /\ TalkTypes /\ KeyTypes /\ DeviceTypes /\ ToldTypes
  BY TypeParts DEF CInv
<1>1. /\ Alone(c) /\ conn'[c].gen = conn[c].gen /\ conn'[c].at \in {"loop", "ending"}
      /\ conn'[c].at = "loop" => c \notin broken /\ Hears(outbox, TRUE)
      /\ conn'[c].at = "ending" => view' = view
  <2>1. CASE c \notin broken /\ Hears(outbox, TRUE) /\ Goes(c, "loop")
    BY <2>1, <1>0, GoesEffect DEF HostTypes, Places, Keeps
  <2>2. CASE Rests(c, "ending") /\ UNCHANGED view
    BY <2>2, <1>0, RestsEffect DEF HostTypes, Places
  <2>3. QED
    BY <2>1, <2>2
<1>2. TalkStep(c)
  BY <1>0, <1>1, SessionAssumption DEF TalkStep, Moves, Seated, Working, ToldTypes
<1>3. SessionInv' /\ FramesInv' /\ QuietInv'
  BY <1>2, TalkStepKeeps
<1>4. /\ sender = c /\ sender' = Nobody /\ c # Nobody
      /\ outbox \in Message /\ Sound(outbox) /\ outbox.to = c /\ outbox.revision \in Nat
      /\ outbox.revision >= sent /\ view[c].revision = 0
  <2>1. sender = c /\ c # Nobody
    BY <1>0, SessionAssumption DEF HostTypes, SessionAssumption
  <2>2. QED
    BY <2>1 DEF CInv, TalkInv, MessageInv, OrderInv, Message
<1>5. /\ view' \in [Connections -> Heard]
      /\ \A d \in Connections : d # c => view'[d] = view[d]
      /\ IF conn'[c].at = "loop"
         THEN /\ view'[c].revision = outbox.revision /\ view'[c].policy = outbox.policy
              /\ view'[c].media = outbox.media /\ view'[c].epoch = outbox.epoch
         ELSE view' = view
  <2>1. view \in [Connections -> Heard]
    BY <1>0 DEF TalkTypes, Heard
  <2>2. CASE Hears(outbox, TRUE) /\ conn'[c].at = "loop"
    BY <2>1, <2>2, <1>4, HearsEffect
  <2>3. CASE view' = view /\ conn'[c].at # "loop"
    BY <2>1, <2>3
  <2>4. QED
    BY <1>1, <2>2, <2>3
<1>6. TypeInv'
  <2>1. GateTypes' /\ KeyTypes' /\ DeviceTypes' /\ ToldTypes'
    BY <1>0, TalkStepTypes DEF GateTypes, ToldTypes
  <2>2. HostTypes'
    BY <1>0, <1>1, <1>4, SessionAssumption
       DEF HostTypes, GateTypes, Alone, control, session, SessionAssumption
  <2>3. TalkTypes'
    BY <1>0, <1>5 DEF TalkTypes, Heard
  <2>4. QED
    BY <2>1, <2>2, <2>3, TypePartsNext
<1>7. TalkInv'
  <2> USE SessionAssumption DEF SessionAssumption
  <2>1. /\ UNCHANGED <<capability, media, updates, sent, granted, epoch, current,
                       announces, broken>>
        /\ MessageInv /\ OrderInv /\ DueInv
    BY DEF CInv, TalkInv, control, session
  <2>2. MessageInv'
    BY <2>1, <1>4, <1>5 DEF MessageInv, Sound
  <2>3. OrderInv'
    BY <2>1, <1>1, <1>4, <1>5 DEF OrderInv, Alone
  <2>4. DueInv'
    <3> SUFFICES ASSUME NEW d \in Connections, d = current', d \notin broken',
                        Knows(d)' # 0, Knows(d)' < capability'
                 PROVE  Due(d)'
      BY DEF DueInv
    <3>1. Knows(d)' = Knows(d)
      BY <2>1, <1>0, <1>1, <1>4, <1>5 DEF Knows, Alone, HostTypes
    <3>2. QED
      BY <3>1, <2>1, <1>4 DEF DueInv, Due
  <2>5. QED
    BY <2>2, <2>3, <2>4 DEF TalkInv
<1>8. QED
  BY <1>3, <1>6, <1>7 DEF CInv

LEMMA SendStep ==
  ASSUME CInv, NEW u \in updates, Send(u)
  PROVE  CInv'
<1> USE DEF Send, Silent
<1>0. GateTypes /\ HostTypes /\ TalkTypes /\ KeyTypes /\ DeviceTypes /\ ToldTypes
  BY TypeParts DEF CInv
<1>1. SessionInv' /\ FramesInv' /\ QuietInv'
  <2>1. UpdateStep
    BY <1>0, SessionAssumption DEF UpdateStep, ToldTypes, SessionAssumption
  <2>2. QED
    BY <2>1, UpdateStepKeeps
<1>2. u \in Message /\ u.to \in Connections /\ u.revision \in Nat /\ Sound(u)
  BY <1>0 DEF TalkTypes, Message, CInv, TalkInv, MessageInv
<1>3. TypeInv'
  <2>1. GateTypes' /\ KeyTypes' /\ DeviceTypes' /\ ToldTypes'
    BY <1>0, TalkStepTypes DEF GateTypes, ToldTypes
  <2>2. HostTypes'
    BY <1>0, SessionAssumption DEF HostTypes, control, session, SessionAssumption
  <2>3. TalkTypes'
    BY <1>0, <1>2 DEF TalkTypes
  <2>4. QED
    BY <2>1, <2>2, <2>3, TypePartsNext
<1>4. TalkInv'
  <2> USE SessionAssumption DEF SessionAssumption
  <2>1. /\ UNCHANGED <<conn, capability, media, view, sent, granted, epoch, current,
                       announces, broken>>
        /\ MessageInv /\ OrderInv /\ DueInv /\ sender = Nobody
    BY DEF CInv, TalkInv, control, session
  <2>2. MessageInv'
    BY <2>1, <1>2 DEF MessageInv, Sound
  <2>3. OrderInv'
    BY <2>1, <1>2 DEF OrderInv
  <2>4. DueInv'
    <3> SUFFICES ASSUME NEW d \in Connections, d = current', d \notin broken',
                        Knows(d)' # 0, Knows(d)' < capability'
                 PROVE  Due(d)'
      BY DEF DueInv
    <3>1. ~At(d, "greet")
      BY <1>0, <2>1 DEF HostTypes, At
    <3>2. Knows(d)' = view[d].revision /\ Knows(d) = view[d].revision
      BY <2>1, <3>1 DEF Knows, At
    <3>3. sent < capability
      BY <1>0, <2>1, <3>2 DEF OrderInv, TalkTypes
    <3>4. Due(d)
      BY <3>2, <2>1 DEF DueInv
    <3>5. CASE u.to = d /\ u.revision = capability
      BY <3>3, <3>5, <2>1 DEF Due
    <3>6. CASE ~(u.to = d /\ u.revision = capability)
      BY <3>4, <3>6, <2>1 DEF Due
    <3>7. QED
      BY <3>5, <3>6
  <2>5. QED
    BY <2>2, <2>3, <2>4 DEF TalkInv
<1>5. QED
  BY <1>1, <1>3, <1>4 DEF CInv

LEMMA WrittenStep ==
  ASSUME CInv, Written
  PROVE  CInv'
<1> USE DEF Written, Silent
<1>0. GateTypes /\ HostTypes /\ TalkTypes /\ KeyTypes /\ DeviceTypes /\ ToldTypes
  BY TypeParts DEF CInv
<1>1. SessionInv' /\ FramesInv' /\ QuietInv'
  <2>1. UpdateStep
    BY <1>0, SessionAssumption DEF UpdateStep, ToldTypes, SessionAssumption
  <2>2. QED
    BY <2>1, UpdateStepKeeps
<1>2. /\ outbox \in Message /\ outbox.to \in Connections /\ outbox.revision \in Nat
      /\ Sound(outbox) /\ outbox.revision > sent
  BY SessionAssumption DEF Message, CInv, TalkInv, MessageInv, OrderInv, SessionAssumption
<1>3. /\ view' \in [Connections -> Heard] /\ broken' \subseteq Connections /\ sent' \in Nat
      /\ \A d \in Connections : d # outbox.to => view'[d] = view[d]
      /\ \/ /\ Hears(outbox, FALSE) /\ sent' = outbox.revision /\ broken' = broken
            /\ IF view[outbox.to].revision # 0 /\ outbox.revision > view[outbox.to].revision
               THEN /\ view'[outbox.to].revision = outbox.revision
                    /\ view'[outbox.to].policy = outbox.policy
                    /\ view'[outbox.to].media = outbox.media
                    /\ view'[outbox.to].epoch = outbox.epoch
               ELSE view' = view
         \/ view' = view /\ sent' = sent /\ broken' = broken \cup {outbox.to}
  <2>1. view \in [Connections -> Heard] /\ broken \subseteq Connections /\ sent \in Nat
    BY <1>0 DEF TalkTypes, Heard, GateTypes
  <2>2. CASE Hears(outbox, FALSE) /\ sent' = outbox.revision /\ broken' = broken
    BY <2>1, <2>2, <1>2, HearsEffect
  <2>3. CASE view' = view /\ sent' = sent /\ broken' = broken \cup {outbox.to}
    BY <2>1, <2>3, <1>2
  <2>4. QED
    BY <2>2, <2>3
<1>4. TypeInv'
  <2>1. GateTypes' /\ KeyTypes' /\ DeviceTypes' /\ ToldTypes'
    BY <1>0, <1>3, TalkStepTypes DEF GateTypes, ToldTypes
  <2>2. HostTypes'
    BY <1>0, SessionAssumption DEF HostTypes, control, session, SessionAssumption
  <2>3. TalkTypes'
    BY <1>0, <1>3 DEF TalkTypes, Heard
  <2>4. QED
    BY <2>1, <2>2, <2>3, TypePartsNext
<1>5. TalkInv'
  <2> USE SessionAssumption DEF SessionAssumption
  <2>1. /\ UNCHANGED <<conn, capability, media, updates, granted, epoch, current, announces>>
        /\ MessageInv /\ OrderInv /\ DueInv /\ sender = "update" /\ sender' = Nobody
        /\ capability \in Nat /\ sent \in Nat
        /\ \A d \in Connections : view[d].revision \in Nat
    BY <1>0 DEF CInv, TalkInv, control, session, TalkTypes
  <2>2. MessageInv'
    BY <2>1, <1>2, <1>3 DEF MessageInv, Sound
  <2>6. \/ sent' = outbox.revision
        \/ sent' = sent /\ view' = view /\ broken' = broken \cup {outbox.to}
    BY <1>3
  <2>7. ASSUME NEW d \in Connections, d = outbox.to, sent' = outbox.revision,
               view[d].revision # 0
        PROVE  view'[d].revision >= outbox.revision /\ view'[d].revision >= view[d].revision
    <3>1. CASE outbox.revision > view[d].revision
      <4>1. sent' # sent
        BY <2>7, <2>1, <1>2
      <4>2. view'[d].revision = outbox.revision
        BY <4>1, <3>1, <2>7, <1>3
      <4>3. QED
        BY <4>2, <3>1, <2>1, <1>2
    <3>2. CASE ~(outbox.revision > view[d].revision)
      <4>1. view' = view
        BY <3>2, <2>7, <2>1, <1>2, <1>3
      <4>2. QED
        BY <4>1, <3>2, <2>1, <1>2
    <3>3. QED
      BY <3>1, <3>2
  <2>8. \A d \in Connections : view[d].revision = 0 => view'[d].revision = 0
    BY <1>3
  <2>3. OrderInv'
    <3>1. ASSUME NEW d \in Connections, d = current, view'[d].revision # 0
          PROVE  view'[d].revision >= sent'
      <4>1. view[d].revision # 0 /\ view[d].revision >= sent /\ outbox.to = d
        BY <3>1, <2>8, <2>1 DEF OrderInv
      <4>2. QED
        BY <4>1, <2>7, <2>6
    <3>2. QED
      BY <3>1, <2>1, <2>8 DEF OrderInv
  <2>4. DueInv'
    <3> SUFFICES ASSUME NEW d \in Connections, d = current', d \notin broken',
                        Knows(d)' # 0, Knows(d)' < capability'
                 PROVE  Due(d)'
      BY DEF DueInv
    <3>1. ~At(d, "greet")
      BY <1>0, <2>1 DEF HostTypes, At
    <3>2. Knows(d)' = view'[d].revision /\ Knows(d) = view[d].revision
      BY <2>1, <3>1 DEF Knows, At
    <3>3. CASE outbox.to # d
      <4>1. view'[d] = view[d] /\ d \notin broken
        BY <3>3, <1>3
      <4>2. Due(d)
        BY <4>1, <3>2, <2>1 DEF DueInv
      <4>3. QED
        BY <4>2, <3>3, <2>1 DEF Due
    <3>4. CASE outbox.to = d
      <4>1. view[d].revision # 0 /\ sent' = outbox.revision
        BY <3>2, <3>4, <2>8, <2>6, <2>1
      <4>2. outbox.revision <= view'[d].revision /\ view[d].revision <= view'[d].revision
        BY <3>4, <4>1, <2>7
      <4>3. view'[d].revision \in Nat
        BY <1>3 DEF Heard
      <4>4. d \notin broken
        BY <1>3
      <4>5. Due(d) /\ outbox.revision # capability
        BY <3>2, <4>1, <4>2, <4>3, <4>4, <1>2, <2>1 DEF DueInv
      <4>6. QED
        BY <4>5, <2>1 DEF Due
    <3>5. QED
      BY <3>3, <3>4
  <2>5. QED
    BY <2>2, <2>3, <2>4 DEF TalkInv
<1>6. QED
  BY <1>1, <1>4, <1>5 DEF CInv

LEMMA ObserveStep ==
  ASSUME CInv, NEW e \in {0, epoch}, Observe(e)
  PROVE  CInv'
<1> USE DEF Observe
<1>0. GateTypes /\ HostTypes /\ TalkTypes /\ KeyTypes /\ DeviceTypes /\ ToldTypes
  BY TypeParts DEF CInv
<1>1. events' \in 0..MaxEvents /\ events \in Nat /\ events' \in Nat /\ events <= events'
  BY <1>0, SessionAssumption DEF ToldTypes, SessionAssumption
<1>2. SessionInv' /\ FramesInv' /\ QuietInv'
  <2>1. UpdateStep
    BY <1>1 DEF UpdateStep, hosts
  <2>2. QED
    BY <2>1, UpdateStepKeeps
<1> DEFINE o == [order |-> media.begun + 1, epoch |-> e]
<1>3. /\ media' = [media EXCEPT !.begun = @ + 1, !.open = @ \cup {o}]
      /\ media.begun \in Nat /\ media.applied \in Nat /\ media.open \subseteq Observation
      /\ o \in Observation /\ epoch \in Nat
  BY <1>0, SMTT(20) DEF TalkTypes, GateTypes, GateTypeOK, Observation
<1>4. /\ media' \in [begun: Nat, open: SUBSET Observation, applied: Nat]
      /\ media'.begun = media.begun + 1 /\ media'.applied = media.applied
      /\ media'.open = media.open \cup {o}
  <2>1. media \in [begun: Nat, open: SUBSET Observation, applied: Nat]
    BY <1>0 DEF TalkTypes
  <2>2. media.begun + 1 \in Nat /\ media.open \cup {o} \in SUBSET Observation
    BY <1>3
  <2> HIDE DEF o
  <2>3. QED
    BY <2>1, <2>2, <1>3
<1>5. TypeInv'
  <2>1. GateTypes' /\ KeyTypes' /\ DeviceTypes' /\ ToldTypes'
    BY <1>0, <1>1, TalkStepTypes DEF GateTypes, hosts
  <2>2. HostTypes'
    BY <1>0 DEF HostTypes, hosts, control, session
  <2>3. TalkTypes'
    <3>1. media'.open \subseteq [order: 1..media'.begun, epoch: Nat]
      <4>1. media.open \subseteq [order: 1..media'.begun, epoch: Nat]
        BY <1>0, <1>3, <1>4 DEF TalkTypes
      <4>2. o \in [order: 1..media'.begun, epoch: Nat]
        BY <1>3, <1>4
      <4>3. QED
        BY <4>1, <4>2, <1>4
    <3>2. media'.applied <= media'.begun
      BY <1>0, <1>3, <1>4 DEF TalkTypes
    <3>3. QED
      BY <1>0, <3>1, <3>2, <1>4 DEF TalkTypes
  <2>4. QED
    BY <2>1, <2>2, <2>3, TypePartsNext
<1>6. TalkInv'
  <2>1. /\ UNCHANGED <<conn, capability, sent, updates, sender, outbox, view, granted, epoch,
                       current, announces, broken>>
        /\ MessageInv /\ OrderInv /\ DueInv
    BY DEF CInv, TalkInv, control, session, hosts
  <2>2. QED
    BY <2>1, <1>4 DEF TalkInv, MessageInv, Sound, OrderInv, DueInv, Due, Knows, At
<1>7. QED
  BY <1>2, <1>5, <1>6 DEF CInv

LEMMA ObservedStep ==
  ASSUME CInv, NEW o \in media.open, Observed(o)
  PROVE  CInv'
<1> USE DEF Observed
<1>0. GateTypes /\ HostTypes /\ TalkTypes /\ KeyTypes /\ DeviceTypes /\ ToldTypes
  BY TypeParts DEF CInv
<1>1. SessionInv' /\ FramesInv' /\ QuietInv'
  <2>1. UpdateStep
    BY <1>0, SessionAssumption DEF UpdateStep, hosts, ToldTypes, SessionAssumption
  <2>2. QED
    BY <2>1, UpdateStepKeeps
<1> DEFINE stale == (o.epoch # 0 /\ o.epoch # epoch) \/ o.order <= media.applied
           u == [Payload(current) EXCEPT !.revision = capability + 1, !.media = o.order]
<1>2. /\ o \in [order: 1..media.begun, epoch: Nat] /\ media.begun \in Nat
      /\ media.applied \in Nat /\ capability \in Nat /\ epoch \in Nat
      /\ media \in [begun: Nat, open: SUBSET Observation, applied: Nat]
  BY <1>0 DEF TalkTypes, GateTypes, GateTypeOK
<1>3. /\ media' \in [begun: Nat, open: SUBSET Observation, applied: Nat]
      /\ media'.begun = media.begun /\ media'.open = media.open \ {o}
      /\ media'.applied = IF stale THEN media.applied ELSE o.order
      /\ media'.applied <= media'.begun
  <2>1. o.order \in Nat /\ o.order <= media.begun
    BY <1>2
  <2>2. media' = [media EXCEPT !.open = @ \ {o}, !.applied = IF stale THEN @ ELSE o.order]
    OBVIOUS
  <2>3. media.applied <= media.begun
    BY <1>0 DEF TalkTypes
  <2>4. QED
    BY <2>1, <2>2, <2>3, <1>2
<1>4. current # Nobody =>
        /\ u \in Message /\ u.to = current /\ u.revision = capability + 1
        /\ u.policy = granted /\ u.media = o.order /\ u.epoch = epoch
  <2> SUFFICES ASSUME current # Nobody
               PROVE  /\ u \in Message /\ u.to = current /\ u.revision = capability + 1
                      /\ u.policy = granted /\ u.media = o.order /\ u.epoch = epoch
    OBVIOUS
  <2> DEFINE m == Payload(current)
  <2>1. m \in Message /\ m.to = current /\ m.policy = granted /\ m.epoch = epoch
    BY <1>0, PayloadType DEF CInv, GateTypes
  <2>2. o.order \in Nat /\ capability + 1 \in Nat
    BY <1>2
  <2> HIDE DEF m
  <2>3. [m EXCEPT !.revision = capability + 1, !.media = o.order] \in Message
    BY <2>1, <2>2 DEF Message
  <2>4. QED
    BY <2>1, <2>3 DEF m, Message
<1>5. TypeInv'
  <2>1. GateTypes' /\ KeyTypes' /\ DeviceTypes' /\ ToldTypes'
    BY <1>0, TalkStepTypes DEF GateTypes, ToldTypes, hosts
  <2>2. HostTypes'
    BY <1>0 DEF HostTypes, hosts, control, session
  <2>3. TalkTypes'
    <3>1. updates' \subseteq Message /\ capability' \in Nat
      BY <1>0, <1>2, <1>4 DEF TalkTypes
    <3>2. QED
      BY <1>0, <1>3, <3>1 DEF TalkTypes, hosts
  <2>4. QED
    BY <2>1, <2>2, <2>3, TypePartsNext
<1>6. TalkInv'
  <2>1. /\ UNCHANGED <<conn, sent, sender, outbox, view, granted, epoch,
                       current, announces, broken>>
        /\ MessageInv /\ OrderInv /\ DueInv
    BY DEF CInv, TalkInv, control, session, hosts
  <2>2. CASE stale
    <3>1. UNCHANGED <<capability, updates>> /\ media'.applied = media.applied
      BY <2>2, <1>3
    <3>2. QED
      BY <2>1, <3>1 DEF TalkInv, MessageInv, Sound, OrderInv, DueInv, Due, Knows, At
  <2>3. CASE ~stale
    <3>1. /\ capability' = capability + 1 /\ media'.applied = o.order
          /\ updates' = IF current = Nobody THEN updates ELSE updates \cup {u}
      BY <2>3, <1>3
    <3>2. MessageInv'
      <4>1. \A m \in Message \cup Heard : Sound(m) => Sound(m)'
        BY <2>1, <3>1, <1>2 DEF Sound, Message, Heard
      <4>2. \A m : current # Nobody /\ m = u => Sound(m)'
        BY <2>1, <3>1, <1>2, <1>4 DEF Sound
      <4>3. updates \subseteq Message /\ \A c \in Connections : view[c] \in Heard
        BY <1>0 DEF TalkTypes, Heard
      <4>4. capability' >= 1 /\ sent' <= capability'
        BY <1>0, <2>1, <3>1, <1>2 DEF MessageInv, TalkTypes
      <4>5. \A m \in updates' : Sound(m)'
        BY <4>1, <4>2, <4>3, <2>1, <3>1 DEF MessageInv
      <4>6. \A c \in Connections : Sound(view[c])'
        BY <4>1, <4>3, <2>1 DEF MessageInv, Sound
      <4>7. sender' # Nobody => outbox' \in Message /\ Sound(outbox)'
        BY <4>1, <2>1 DEF MessageInv, Sound
      <4>8. QED
        BY <4>4, <4>5, <4>6, <4>7 DEF MessageInv
    <3>3. OrderInv'
      BY <2>1, <3>1 DEF OrderInv
    <3>4. DueInv'
      BY <2>1, <3>1, <1>4, SessionAssumption DEF DueInv, Due, SessionAssumption
    <3>5. QED
      BY <3>2, <3>3, <3>4 DEF TalkInv
  <2>4. QED
    BY <2>2, <2>3
<1>7. QED
  BY <1>1, <1>5, <1>6 DEF CInv

-----------------------------------------------------------------------------
(* The steps of the frames: what they have in common.                      *)

\* A handler that is not at its hello goes on; it may take the gate or leave it.
HandlerStep(c) ==
  /\ Moves(c) /\ Permitted(c)
  /\ conn[c].at \notin {"hello", "greet"} /\ conn'[c].at \notin {"hello", "greet"}
  /\ \/ gate' = gate /\ conn[c].at # "run" /\ conn'[c].at # "run"
     \/ gate' = "free" /\ conn[c].at = "run" /\ conn'[c].at # "run"
     \/ gate' = c /\ gate = "free" /\ current = c /\ conn'[c].at = "run"
  /\ UNCHANGED <<todo, session, incomplete, closing, current, broken, announces, talk>>

LEMMA HandlerStepKeeps ==
  ASSUME CInv, NEW c \in Connections, HandlerStep(c)
  PROVE  /\ SessionInv' /\ TalkInv'
         /\ GateTypes' /\ HostTypes' /\ TalkTypes'
<1> USE DEF HandlerStep, session
<1>0. GateTypes /\ HostTypes /\ TalkTypes
  BY TypeParts DEF CInv
<1>1. SessionInv'
  <2>1. GateMoves(c)
    BY <1>0 DEF GateMoves, HostTypes
  <2>2. QED
    BY <2>1, SessionKept DEF CInv
<1>2. TalkInv'
  <2>1. TalkAside
    BY DEF TalkAside, Moves, Alone, Seated, Working
  <2>2. QED
    BY <2>1, TalkKept DEF CInv
<1>3. GateTypes' /\ TalkTypes'
  BY <1>0 DEF GateTypes, GateTypeOK, TalkTypes, talk
<1>4. HostTypes'
  <2> USE SessionAssumption DEF SessionAssumption
  <2>1. \A d \in Connections : conn'[d].gen = conn[d].gen
    BY DEF Moves, Alone
  <2>2. \A d \in Connections : conn'[d].at = "run" <=> gate' = d
    BY <1>0 DEF Moves, Alone, HostTypes
  <2>3. \A d \in Connections : conn'[d].at = "greet" <=> sender' = d
    BY <1>0 DEF Moves, Alone, HostTypes, talk
  <2>4. QED
    BY <1>0, <2>1, <2>2, <2>3 DEF Moves, Alone, HostTypes, GateTypes
<1>5. QED
  BY <1>1, <1>2, <1>3, <1>4

\* The device is not touched.
LEMMA DeviceAside ==
  ASSUME CInv, NEW c \in Connections, HandlerStep(c), conn[c].at # "run", UNCHANGED device
  PROVE  LineInv' /\ QuietInv' /\ DeviceTypes'
<1> USE DEF HandlerStep, device, session
<1>1. DeviceTypes'
  BY TypeParts DEF CInv, DeviceTypes
<1>2. QuietInv'
  BY QuietKept, DeviceKept DEF CInv
<1>3. LineInv'
  <2>1. /\ \A f : Began(f)' <=> Began(f)
        /\ \A d, o, s : Ran(d, o, s)' <=> Ran(d, o, s)
    BY DEF Began, Ran
  <2>2. ASSUME NEW i \in DOMAIN line, line[i].frame.kind \in KeyKinds
        PROVE  /\ At(line[i].from, "run") /\ FrameOf(line[i].from) = line[i].frame
               /\ conn'[line[i].from] = conn[line[i].from]
    <3>1. At(line[i].from, "run") /\ FrameOf(line[i].from) = line[i].frame
      BY <2>2 DEF CInv, FramesInv, LineInv
    <3>2. line[i].from \in Connections /\ line[i].from # c
      BY <3>1, EntryTypes DEF At, CInv
    <3>3. QED
      BY <3>1, <3>2 DEF Moves, Alone
  <2>3. QED
    BY <2>1, <2>2 DEF CInv, FramesInv, LineInv, At, FrameOf
<1>4. QED
  BY <1>1, <1>2, <1>3

\* Where a frame that goes on may be, and the result it may have there.
Fits(c) ==
  conn'[c].at \in Working =>
    /\ Framed(c) /\ Keeps(c)
    /\ conn'[c].at # "cancel"
    /\ conn'[c].at = "gate" => FrameOf(c).kind # "cancel"
    /\ conn'[c].at \in {"reserve", "admit", "run", "finish"} => FrameOf(c).kind \in KeyKinds
    /\ conn'[c].at \in {"reserve", "admit", "gate"} => conn'[c].result = "rejected"
    /\ conn'[c].at = "finish" => conn'[c].result \in {"executed", "uncertain", "rejected"}

LEMMA FrameKept ==
  ASSUME FrameInv, NEW c \in Connections, Moves(c), Fits(c), events' = events
  PROVE  FrameInv'
<1>1. ASSUME NEW d \in Connections, Framed(d)'
      PROVE  Framed(d) /\ FrameOf(d)' = FrameOf(d)
  BY <1>1 DEF Moves, Alone, Fits, Framed, FrameOf, Keeps
<1>2. \A d \in Connections : d # c => conn'[d] = conn[d]
  BY DEF Moves, Alone
<1>3. QED
  BY <1>1, <1>2 DEF FrameInv, Fits, At, Framed, FrameOf

\* Nothing is begun.
LEMMA RanKept ==
  ASSUME CInv, NEW c \in Connections, Moves(c), ran' = ran,
         events \in Nat, events' \in Nat, events <= events',
         Unbegun(c)' => ~Began(FrameOf(c)')
  PROVE  RanInv'
<1> USE DEF CInv, FramesInv, Moves, Alone
<1>1. \A f : Began(f)' <=> Began(f)
  BY DEF Began
<1>2. \A k \in DOMAIN ran' : /\ ran'[k].frame.id <= events'
                             /\ conn'[ran'[k].from].at \notin {"new", "joining"}
  BY EntryTypes DEF RanInv, Seated, Working
<1>3. ASSUME NEW d \in Connections, Unbegun(d)'
      PROVE  ~Began(FrameOf(d)')
  <2>1. CASE d = c
    BY <1>3, <2>1
  <2>2. CASE d # c
    BY <1>3, <2>2 DEF RanInv, Unbegun, FrameOf
  <2>3. QED
    BY <2>1, <2>2
<1>4. KeysInOrder'
  BY DEF RanInv, KeysInOrder
<1>5. \A d \in Connections : Unbegun(d)' => ~Began(FrameOf(d))'
  BY <1>1, <1>3
<1>6. QED
  BY <1>2, <1>4, <1>5 DEF RanInv

\* An operation that has a session keeps it, and does not become active again.
NoneRevived == \A o \in Operations : keys[o].epoch # 0 =>
                 keys'[o].epoch = keys[o].epoch /\ (keys'[o].active => keys[o].active)

LEMMA ToldKept ==
  ASSUME CInv, NEW c \in Connections, Moves(c), NoneRevived, ran' = ran,
         UNCHANGED <<current, epoch>>, events \in Nat, events' \in Nat, events <= events',
         Framed(c)' => \/ Framed(c) /\ FrameOf(c)' = FrameOf(c)
                       \/ FrameOf(c)'.id \in Nat /\ FrameOf(c)'.id > events
  PROVE  \A t \in told : ToldOf(t)'
<1> USE DEF CInv, FramesInv, Moves, Alone
<1>1. /\ \A f : Began(f)' <=> Began(f)
      /\ \A d, o, s : Ran(d, o, s)' <=> Ran(d, o, s)
  BY DEF Began, Ran
<1> SUFFICES ASSUME NEW t \in told
             PROVE  ToldOf(t)'
  OBVIOUS
<1>2. ToldOf(t) /\ t.from \in Connections /\ t.frame.id \in Nat
  BY SessionAssumption DEF ToldInv, TypeInv, Told, Frames, SessionAssumption
<1>3. \A d \in Connections : Framed(d)' => FrameOf(d)'.id # t.frame.id
  BY <1>2 DEF ToldOf, Framed, FrameOf
<1>4. conn'[t.from].at \notin {"new", "joining"}
  BY <1>2 DEF ToldOf, Seated, Working
<1>5. t.from = current => epoch # 0
  BY <1>2, SessionAssumption DEF TypeInv, TypeOK, SessionAssumption
<1>6. t.result = "cancelled" /\ t.from = current' =>
        keys'[t.frame.op].epoch = epoch' /\ ~keys'[t.frame.op].active
  BY <1>2, <1>5 DEF ToldOf, NoneRevived
<1>7. QED
  BY <1>1, <1>2, <1>3, <1>4, <1>6 DEF ToldOf

\* What is known of an operation and a connection that the step does not touch.
LEMMA OperationKept ==
  ASSUME NEW c \in Connections, NEW o \in Operations, conn'[c] = conn[c], keys'[o] = keys[o],
         UNCHANGED <<ran, epoch>>
  PROVE  /\ OperationOf(c, o) => OperationOf(c, o)'
         /\ RecordOf(c, o) => RecordOf(c, o)'
<1>1. /\ \A d, p, s : Ran(d, p, s)' <=> Ran(d, p, s)
      /\ Busy(c, o)' <=> Busy(c, o)
      /\ FrameOf(c)' = FrameOf(c) /\ At(c, "write")' = At(c, "write")
  BY DEF Ran, Busy, FrameOf, At
<1>2. QED
  BY <1>1 DEF OperationOf, RecordOf

\* What OperationOf and RecordOf depend on.
LEMMA OperationLike ==
  ASSUME NEW c \in Connections, NEW o \in Operations, OperationOf(c, o),
         keys'[o].epoch = keys[o].epoch, keys'[o].next = keys[o].next,
         UNCHANGED <<ran, epoch>>,
         keys'[o].active => keys[o].active,
         \/ conn'[c] = conn[c] /\ keys'[o].active = keys[o].active
         \/ ~Busy(c, o) /\ ~Busy(c, o)'
         \/ ~keys'[o].active /\ ~Busy(c, o)',
         At(c, "write")' /\ conn'[c].result = "cancelled" /\ FrameOf(c)'.op = o =>
           (conn'[c] = conn[c]) \/ (keys'[o].epoch = epoch /\ ~keys'[o].active)
  PROVE  OperationOf(c, o)'
<1>1. \A d, p, s : Ran(d, p, s)' <=> Ran(d, p, s)
  BY DEF Ran
<1>2. conn'[c] = conn[c] => /\ Busy(c, o)' <=> Busy(c, o)
                            /\ FrameOf(c)' = FrameOf(c) /\ At(c, "write")' = At(c, "write")
  BY DEF Busy, FrameOf, At
<1>3. QED
  BY <1>1, <1>2 DEF OperationOf

\* An operation of another session says nothing of the one in force.
LEMMA ForeignOperation ==
  ASSUME NEW c \in Connections, NEW o \in Operations, OperationOf(c, o), conn'[c] = conn[c],
         keys[o].epoch # epoch, keys'[o].epoch # epoch, UNCHANGED <<ran, epoch>>
  PROVE  OperationOf(c, o)'
<1>1. \A d, p, s : Ran(d, p, s)' <=> Ran(d, p, s)
  BY DEF Ran
<1>2. /\ Busy(c, o)' <=> Busy(c, o)
      /\ FrameOf(c)' = FrameOf(c) /\ At(c, "write")' = At(c, "write")
  BY DEF Busy, FrameOf, At
<1>3. QED
  BY <1>1, <1>2 DEF OperationOf

LEMMA RecordLike ==
  ASSUME NEW c \in Connections, NEW o \in Operations, RecordOf(c, o), ran' = ran,
         keys'[o].receipts = keys[o].receipts,
         Busy(c, o) /\ FrameOf(c).step = 1 => Busy(c, o)' /\ FrameOf(c)'.step = 1
  PROVE  RecordOf(c, o)'
BY DEF RecordOf, Ran

-----------------------------------------------------------------------------
(* The steps of the frames, one by one.                                    *)

\* What a step knows at its beginning of the handler of a frame.
LEMMA FrameFacts ==
  ASSUME CInv, NEW c \in Connections, Framed(c)
  PROVE  /\ FrameOf(c) \in Frames /\ FrameOf(c).step \in Steps /\ FrameOf(c).id \in Nat
         /\ FrameOf(c).kind \in KeyKinds \cup {"cancel"} => FrameOf(c).op \in Operations
         /\ conn[c].result \in Results /\ conn[c] \in Handler
         /\ conn[c].gen \in Nat /\ conn[c].gen # 0 /\ Pass(c).epoch = conn[c].gen
         /\ epoch \in Nat /\ events \in 0..MaxEvents /\ events \in Nat
         /\ c = current <=> conn[c].gen = epoch
         /\ \A d \in Connections : d # c => conn[d].gen # conn[c].gen
<1>1. GateTypes /\ HostTypes /\ ToldTypes
  BY TypeParts DEF CInv
<1>2. conn[c] \in Handler /\ conn[c].gen \in Nat /\ FrameOf(c) \in Frames
      /\ conn[c].result \in Results
  BY <1>1 DEF HostTypes, Handler, FrameOf
<1>3. FrameOf(c).step \in Steps /\ FrameOf(c).id \in Nat
  BY <1>2, SessionAssumption DEF Frames, SessionAssumption
<1>4. FrameOf(c).kind \in KeyKinds \cup {"cancel"} => FrameOf(c).op \in Operations
  BY DEF CInv, FramesInv, FrameInv
<1>5. /\ conn[c].gen # 0 /\ Pass(c).epoch = conn[c].gen
      /\ \A d \in Connections : d # c => conn[d].gen # conn[c].gen
  BY DEF CInv, SessionInv, GenInv
<1>6. epoch \in Nat /\ events \in 0..MaxEvents /\ events \in Nat
  BY <1>1, SessionAssumption DEF GateTypes, GateTypeOK, ToldTypes, SessionAssumption
<1>7. c = current <=> conn[c].gen = epoch
  BY <1>1, <1>5, SessionAssumption DEF HostTypes, GateTypes, SessionAssumption
<1>8. QED
  BY <1>2, <1>3, <1>4, <1>5, <1>6, <1>7

\* What remains to show of a step that leaves the device and the histories alone.
LEMMA HandlerStepRest ==
  ASSUME CInv, NEW c \in Connections, HandlerStep(c), conn[c].at # "run",
         UNCHANGED <<device, told>>, events' = events, Fits(c), KeyTypes', NoneRevived,
         Unbegun(c)' => ~Began(FrameOf(c)'), KeyInv', RecordInv'
  PROVE  CInv'
<1>1. /\ SessionInv' /\ TalkInv' /\ GateTypes' /\ HostTypes' /\ TalkTypes'
      /\ LineInv' /\ QuietInv' /\ DeviceTypes'
  BY HandlerStepKeeps, DeviceAside
<1>2. ToldTypes /\ events \in Nat
  BY TypeParts, SessionAssumption DEF CInv, ToldTypes, SessionAssumption
<1>3. ToldTypes'
  BY <1>2 DEF ToldTypes
<1>4. FrameInv'
  BY FrameKept DEF HandlerStep, CInv, FramesInv
<1>5. RanInv'
  BY <1>2, RanKept DEF HandlerStep, device
<1>6. ToldInv'
  BY <1>2, ToldKept DEF HandlerStep, device, session, Fits, Framed, Keeps, FrameOf, ToldInv
<1>7. QED
  BY <1>1, <1>3, <1>4, <1>5, <1>6, TypePartsNext DEF CInv, FramesInv

\* The operations of the frame's connection, and what others may leave there.
KeysMove(c) ==
  \A o \in Operations :
    \/ keys'[o] = keys[o]
    \/ keys'[o].epoch = conn[c].gen /\ keys[o].epoch \in {0, conn[c].gen}
    \/ /\ keys'[o].epoch = keys[o].epoch /\ keys'[o].next = keys[o].next
       /\ keys'[o].active = keys[o].active
       /\ \A s \in Steps : keys'[o].receipts[s] \in {keys[o].receipts[s], "rejected"}

LEMMA KeysMoved ==
  ASSUME CInv, NEW c \in Connections, Framed(c), Alone(c), KeysMove(c), KeyTypes',
         conn'[c].gen = conn[c].gen, UNCHANGED <<ran, epoch, current>>,
         c = current => \A o \in Operations : OperationOf(c, o)',
         \A o \in Operations : keys'[o].epoch = conn[c].gen => RecordOf(c, o)',
         \A o \in Operations, s \in Steps : keys'[o].receipts[s] # "cancelled",
         conn'[c].at \in {"finish", "write"} /\ conn'[c].result = "executed" =>
           Ran(c, FrameOf(c)'.op, FrameOf(c)'.step),
         conn'[c].at = "write" /\ conn'[c].result = "cancelled" => FrameOf(c)'.kind = "cancel"
  PROVE  KeyInv' /\ RecordInv'
<1>1. \A d, o, s : Ran(d, o, s)' <=> Ran(d, o, s)
  BY DEF Ran
<1>2. \A d \in Connections : d # c =>
        /\ conn'[d] = conn[d] /\ conn[d].gen # conn[c].gen
        /\ FrameOf(d)' = FrameOf(d)
        /\ \A o \in Operations : Busy(d, o)' <=> Busy(d, o)
  BY FrameFacts DEF Alone, Busy, FrameOf
<1>3. KeyInv'
  <2> SUFFICES ASSUME NEW d \in Connections, NEW o \in Operations, d = current, d # c
               PROVE  OperationOf(d, o)'
    BY DEF KeyInv
  <2>1. OperationOf(d, o)
    BY DEF CInv, FramesInv, KeyInv
  <2>2. CASE keys'[o] = keys[o]
    BY <2>1, <2>2, <1>2, OperationKept
  <2>3. CASE keys'[o].epoch = conn[c].gen /\ keys[o].epoch \in {0, conn[c].gen}
    <3>1. keys[o].epoch # epoch /\ keys'[o].epoch # epoch
      <4>1. epoch # 0 /\ epoch = conn[d].gen
        BY SessionAssumption DEF CInv, TypeInv, TypeOK, SessionAssumption
      <4>2. QED
        BY <4>1, <2>3, <1>2
    <3>2. QED
      BY <2>1, <3>1, <1>2, ForeignOperation
  <2>4. CASE /\ keys'[o].epoch = keys[o].epoch /\ keys'[o].next = keys[o].next
             /\ keys'[o].active = keys[o].active
    BY <2>1, <2>4, <1>2, OperationLike
  <2>5. QED
    BY <2>2, <2>3, <2>4 DEF KeysMove
<1>4. ASSUME NEW d \in Connections, NEW o \in Operations, d # c,
             keys'[o].epoch = conn'[d].gen, conn'[d].gen # 0
      PROVE  RecordOf(d, o)'
  <2>1. keys'[o].epoch # conn[c].gen
    BY <1>2, <1>4
  <2>2. /\ keys'[o].epoch = keys[o].epoch
        /\ \A s \in Steps : keys'[o].receipts[s] \in {keys[o].receipts[s], "rejected"}
    BY <2>1 DEF KeysMove
  <2>3. RecordOf(d, o)
    <3>1. keys[o].epoch = conn[d].gen /\ conn[d].gen # 0
      BY <2>2, <1>2, <1>4
    <3>2. QED
      BY <3>1 DEF CInv, FramesInv, RecordInv
  <2>4. 1 \in Steps
    BY SessionAssumption DEF Steps, SessionAssumption
  <2>5. \A s \in Steps : keys'[o].receipts[s] = "executed" => Ran(d, o, s)'
    BY <2>2, <2>3, <1>1 DEF RecordOf
  <2>6. keys'[o].receipts[1] = "none" => Busy(d, o) /\ FrameOf(d).step = 1
    BY <2>2, <2>3, <2>4 DEF RecordOf
  <2>7. Busy(d, o) => Busy(d, o)' /\ FrameOf(d)' = FrameOf(d)
    BY <1>2, <1>4
  <2>8. QED
    BY <2>5, <2>6, <2>7 DEF RecordOf
<1>5. RecordInv'
  <2>1. ASSUME NEW d \in Connections, d # c
        PROVE  /\ conn'[d].at \in {"finish", "write"} /\ conn'[d].result = "executed" =>
                    Ran(d, FrameOf(d)'.op, FrameOf(d)'.step)
               /\ At(d, "write")' /\ conn'[d].result = "cancelled" => FrameOf(d)'.kind = "cancel"
    BY <2>1, <1>2 DEF CInv, FramesInv, RecordInv, At, FrameOf
  <2>2. QED
    BY <2>1, <1>1, <1>4 DEF RecordInv, At, FrameOf
<1>6. QED
  BY <1>3, <1>5

LEMMA CancelStep ==
  ASSUME CInv, NEW c \in Connections, Cancel(c)
  PROVE  CInv'
<1> DEFINE p == FrameOf(c).op
<1>1. Framed(c) /\ FrameOf(c).kind = "cancel" /\ p \in Operations
  BY FrameFacts DEF Cancel, At, Framed, Working, CInv, FramesInv, FrameInv
<1>2. KeyTypes /\ HostTypes
  BY TypeParts DEF CInv
<1>3. /\ Alone(c) /\ Keeps(c) /\ conn'[c].at = "write"
      /\ \/ conn'[c].result = "rejected" /\ keys' = keys
         \/ /\ conn'[c].result = "cancelled" /\ keys[p].epoch = conn[c].gen
            /\ keys' = [keys EXCEPT ![p] = [keys[p] EXCEPT !.state = "cancelled", !.active = FALSE]]
  <2>1. CASE Takes(c, "rejected", "write") /\ keys' = keys
    BY <2>1, <1>2, TakesEffect DEF HostTypes, Places, Results
  <2>2. CASE /\ Takes(c, "cancelled", "write") /\ keys[p].epoch = Pass(c).epoch
             /\ keys' = [keys EXCEPT ![p].state = "cancelled", ![p].active = FALSE]
    <3>1. Alone(c) /\ Keeps(c) /\ conn'[c].at = "write" /\ conn'[c].result = "cancelled"
      BY <2>2, <1>2, TakesEffect DEF HostTypes, Places, Results
    <3>2. QED
      BY <2>2, <3>1, <1>1, <1>2, FrameFacts DEF KeyTypes
  <2>3. QED
    BY <2>1, <2>2 DEF Cancel, Of, FrameOf
<1>4. keys[p] \in Operation
  BY <1>1, <1>2 DEF KeyTypes
<1>5. /\ KeyTypes'
      /\ \A o \in Operations : /\ keys'[o].epoch = keys[o].epoch /\ keys'[o].next = keys[o].next
                               /\ keys'[o].receipts = keys[o].receipts
                               /\ o # p => keys'[o] = keys[o]
                               /\ keys'[o].active => keys[o].active
      /\ conn'[c].result = "cancelled" => ~keys'[p].active /\ keys[p].epoch = conn[c].gen
      /\ conn'[c].result # "cancelled" => keys' = keys
  <2>1. CASE conn'[c].result = "rejected" /\ keys' = keys
    BY <2>1, <1>2 DEF KeyTypes
  <2> DEFINE e == [keys[p] EXCEPT !.state = "cancelled", !.active = FALSE]
  <2>2. CASE /\ conn'[c].result = "cancelled" /\ keys[p].epoch = conn[c].gen
             /\ keys' = [keys EXCEPT ![p] = e]
    <3>1. e \in Operation /\ e.epoch = keys[p].epoch /\ e.next = keys[p].next
          /\ e.receipts = keys[p].receipts /\ e.active = FALSE
      BY <1>4 DEF Operation, Results
    <3> HIDE DEF e
    <3>2. QED
      BY <1>1, <1>2, <2>2, <3>1 DEF KeyTypes
  <2>3. QED
    BY <1>3, <2>1, <2>2
<1>6. HandlerStep(c) /\ Fits(c)
  BY <1>1, <1>3 DEF Cancel, At, HandlerStep, Moves, Permitted, Seated, Working, Keeps, Fits,
                    Framed, Quiet, control
<1>7. NoneRevived
  BY <1>5 DEF NoneRevived
<1>8. Unbegun(c)' => ~Began(FrameOf(c)')
  BY <1>1, <1>3 DEF Unbegun, Cancel, At, CInv, FramesInv, RanInv, FrameOf, Keeps
<1>9. UNCHANGED <<ran, epoch, current>>
  BY DEF Cancel, Quiet, control, session, device
<1>10. \A o \in Operations : ~Busy(c, o) /\ ~Busy(c, o)'
  BY <1>3 DEF Busy, Cancel, At
<1>11. KeyInv' /\ RecordInv'
  <2>1. c = current => \A o \in Operations : OperationOf(c, o)'
    <3> SUFFICES ASSUME c = current, NEW o \in Operations
                 PROVE  OperationOf(c, o)'
      OBVIOUS
    <3>1. OperationOf(c, o)
      BY DEF CInv, FramesInv, KeyInv
    <3>2. FrameOf(c)' = FrameOf(c) /\ epoch = conn[c].gen
      BY <1>1, <1>3, FrameFacts DEF Keeps, FrameOf
    <3>3. QED
      BY <3>1, <3>2, <1>3, <1>5, <1>9, <1>10, OperationLike
  <2>2. ASSUME NEW o \in Operations, keys'[o].epoch = conn[c].gen
        PROVE  RecordOf(c, o)'
    <3>1. RecordOf(c, o)
      BY <2>2, <1>1, <1>5, FrameFacts DEF CInv, FramesInv, RecordInv
    <3>2. QED
      BY <3>1, <1>5, <1>9, <1>10, RecordLike
  <2>3. KeysMove(c)
    BY <1>1, <1>5 DEF KeysMove
  <2>4. /\ \A o \in Operations, s \in Steps : keys'[o].receipts[s] # "cancelled"
        /\ conn'[c].result \in {"rejected", "cancelled"} /\ FrameOf(c)' = FrameOf(c)
    BY <1>3, <1>5 DEF CInv, FramesInv, RecordInv, Keeps, FrameOf
  <2>5. QED
    BY <2>1, <2>2, <2>3, <2>4, <1>1, <1>3, <1>5, <1>9, KeysMoved DEF Keeps
<1>12. QED
  BY <1>5, <1>6, <1>7, <1>8, <1>11, HandlerStepRest DEF Cancel, At

\* The five ends of a reservation.
Refused(c) == conn'[c].at = "write" /\ conn'[c].result = "rejected" /\ keys' = keys
Answered(c) == /\ conn'[c].at = "write" /\ keys' = keys
               /\ conn'[c].result \in Results \ {"cancelled"}
               /\ conn'[c].result = "executed" => Ran(c, FrameOf(c).op, FrameOf(c).step)
Opened(c) == LET p == FrameOf(c).op IN
  /\ conn'[c].at = "admit" /\ conn'[c].result = "rejected"
  /\ FrameOf(c).step = 1 /\ keys[p].epoch = 0
  /\ keys'[p].epoch = conn[c].gen /\ keys'[p].active /\ keys'[p].next = 2
  /\ \A s \in Steps : keys'[p].receipts[s] = "none"
Continued(c) == LET p == FrameOf(c).op IN
  /\ conn'[c].at = "admit" /\ conn'[c].result = "rejected"
  /\ FrameOf(c).step = keys[p].next /\ keys[p].epoch = conn[c].gen /\ keys[p].active
  /\ keys'[p].epoch = conn[c].gen /\ keys'[p].active /\ keys'[p].next = keys[p].next + 1
  /\ keys'[p].receipts = keys[p].receipts
Exhausted(c) == LET p == FrameOf(c).op IN
  /\ conn'[c].at = "write" /\ conn'[c].result = "rejected" /\ keys[p].epoch = conn[c].gen
  /\ keys'[p].epoch = conn[c].gen /\ ~keys'[p].active /\ keys'[p].next = keys[p].next
  /\ keys'[p].receipts = keys[p].receipts

\* A repetition that is neither unfit nor known is the next one.
LEMMA NextRepeat ==
  ASSUME NEW c, NEW f, NEW k, f = conn[c].frame, k = Of(c), f.step \in Nat, k.next \in Nat,
         f.kind \in KeyKinds, k.epoch # 0, ~Unfit(c), ~Known(c)
  PROVE  f.kind = "repeat" /\ k.active /\ k.epoch = Pass(c).epoch /\ f.step = k.next
<1>1. f.kind # "press" /\ ~(f.step < k.next)
  BY DEF Known
<1>2. f.kind = "repeat"
  BY <1>1 DEF KeyKinds
<1>3. k.epoch = Pass(c).epoch /\ k.active /\ ~(f.step > k.next)
  BY <1>2 DEF Unfit
<1>4. QED
  BY <1>1, <1>2, <1>3

LEMMA ReserveEnds ==
  ASSUME CInv, NEW c \in Connections, Reserve(c)
  PROVE  /\ Alone(c) /\ Keeps(c) /\ KeyTypes'
         /\ \A o \in Operations : o # FrameOf(c).op => keys'[o] = keys[o]
         /\ Refused(c) \/ Answered(c) \/ Opened(c) \/ Continued(c) \/ Exhausted(c)
<1> DEFINE f == FrameOf(c)
           p == FrameOf(c).op
<1>1. /\ Framed(c) /\ f.kind \in KeyKinds /\ p \in Operations /\ f.step \in Steps
      /\ f.kind = "press" => f.step = 1
      /\ conn[c].result = "rejected"
      /\ Pass(c).epoch = conn[c].gen /\ conn[c].gen # 0 /\ conn[c].gen \in Nat
      /\ ~Busy(c, p) /\ FrameOf(c) = conn[c].frame /\ Of(c) = keys[p]
  BY FrameFacts
     DEF Reserve, At, Framed, Working, CInv, FramesInv, FrameInv, Busy, Of, FrameOf
<1>2. KeyTypes /\ HostTypes
  BY TypeParts DEF CInv
<1>3. keys[p] \in Operation
  BY <1>1, <1>2 DEF KeyTypes
<1>4. /\ keys[p].epoch \in Nat /\ keys[p].active \in BOOLEAN /\ keys[p].next \in 1..Sequences_ + 1
      /\ keys[p].state \in Results \cup {"pending"} /\ keys[p].receipts \in [Steps -> Results]
      /\ \A s \in Steps : keys[p].receipts[s] # "cancelled"
      /\ 1 \in Steps /\ Steps \subseteq Nat /\ Sequences_ \in Nat
  <2>1. \A s \in Steps : keys[p].receipts[s] # "cancelled"
    BY <1>1 DEF CInv, FramesInv, RecordInv
  <2>2. 1 \in Steps /\ Steps \subseteq Nat /\ Sequences_ \in Nat
    BY SessionAssumption DEF Steps, SessionAssumption
  <2>3. QED
    BY <1>3, <2>1, <2>2 DEF Operation
<1>5. CASE Unfit(c) /\ Takes(c, "rejected", "write") /\ UNCHANGED keys
  BY <1>2, <1>5, TakesEffect DEF HostTypes, Places, Results, KeyTypes, Refused
<1>6. CASE ~Unfit(c) /\ Known(c) /\ Takes(c, Recorded(c), "write") /\ UNCHANGED keys
  <2>1. keys[p].epoch = conn[c].gen
    BY <1>1, <1>6 DEF Unfit, Known
  <2>2. RecordOf(c, p)
    BY <1>1, <2>1 DEF CInv, FramesInv, RecordInv
  <2>3. keys[p].receipts[1] # "none"
    BY <1>1, <2>2 DEF RecordOf
  <2>4. /\ Recorded(c) \in Results \ {"cancelled"}
        /\ Recorded(c) = "executed" => Ran(c, p, f.step)
    <3>1. CASE keys[p].receipts[f.step] # "none"
      <4>1. Recorded(c) = keys[p].receipts[f.step]
        BY <1>1, <3>1 DEF Recorded
      <4>2. QED
        BY <1>1, <1>4, <2>2, <4>1 DEF RecordOf
    <3>2. CASE keys[p].receipts[f.step] = "none"
      <4>1. f.kind = "repeat"
        BY <1>1, <2>3, <3>2 DEF KeyKinds
      <4>2. Recorded(c) = "rejected"
        BY <1>1, <3>2, <4>1 DEF Recorded
      <4>3. QED
        BY <4>2 DEF Results
    <3>3. QED
      BY <3>1, <3>2
  <2>5. QED
    BY <1>2, <1>6, <2>4, TakesEffect DEF HostTypes, Places, KeyTypes, Answered
<1>7. CASE /\ ~Unfit(c) /\ keys[p].epoch = 0
           /\ keys' = [keys EXCEPT ![p] = [Absent EXCEPT !.epoch = Pass(c).epoch,
                                     !.active = TRUE, !.state = "pending", !.next = 2]]
           /\ Goes(c, "admit")
  <2> DEFINE e == [Absent EXCEPT !.epoch = Pass(c).epoch,
                                 !.active = TRUE, !.state = "pending", !.next = 2]
  <2>1. \A s \in Steps : e.receipts[s] = "none"
    BY DEF Absent
  <2>2. e.epoch = conn[c].gen /\ e.active = TRUE /\ e.next = 2 /\ e.state = "pending"
    BY <1>1 DEF Absent
  <2>3. e \in Operation
    <3>1. 2 \in 1..Sequences_ + 1
      BY SessionAssumption DEF SessionAssumption
    <3>2. [s \in Steps |-> "none"] \in [Steps -> Results]
      BY DEF Results
    <3>3. QED
      BY <1>1, <3>1, <3>2 DEF Operation, Absent
  <2>4. f.step = 1
    BY <1>1, <1>7 DEF Unfit, KeyKinds
  <2> HIDE DEF e
  <2>5. /\ KeyTypes' /\ keys'[p] = e
        /\ \A o \in Operations : o # p => keys'[o] = keys[o]
    BY <1>1, <1>2, <1>7, <2>3 DEF KeyTypes, e
  <2>6. Alone(c) /\ Keeps(c) /\ conn'[c].at = "admit" /\ conn'[c].result = "rejected"
    BY <1>1, <1>2, <1>7, GoesEffect DEF HostTypes, Places
  <2>7. QED
    BY <1>7, <2>1, <2>2, <2>4, <2>5, <2>6 DEF Opened
<1>8. CASE /\ ~Unfit(c) /\ keys[p].epoch # 0 /\ ~Known(c)
           /\ keys' = [keys EXCEPT ![p].next = @ + 1] /\ Goes(c, "admit")
  <2>1. /\ keys[p].epoch = conn[c].gen /\ f.kind = "repeat" /\ keys[p].active
        /\ f.step = keys[p].next
    <3>1. f = conn[c].frame /\ f.step \in Nat /\ keys[p].next \in Nat
      <4>1. keys[p].next \in Nat
        BY <1>4
      <4>2. f = conn[c].frame /\ f.step \in Nat
        BY <1>1, <1>4, Zenon
      <4>3. QED
        BY <4>1, <4>2
    <3>2. f.kind = "repeat" /\ keys[p].active /\ keys[p].epoch = Pass(c).epoch
          /\ f.step = keys[p].next
      BY <1>1, <1>4, <1>8, <3>1, NextRepeat
    <3>3. QED
      BY <1>1, <3>2
  <2> DEFINE e == [keys[p] EXCEPT !.next = keys[p].next + 1]
  <2>2. keys[p].next + 1 \in 1..Sequences_ + 1
    BY <1>1, <1>4, <2>1 DEF Steps
  <2>3. /\ e \in Operation /\ e.epoch = keys[p].epoch /\ e.active = keys[p].active
        /\ e.next = keys[p].next + 1 /\ e.receipts = keys[p].receipts
    BY <1>3, <2>2 DEF Operation
  <2> HIDE DEF e
  <2>4. /\ KeyTypes' /\ keys'[p] = e
        /\ \A o \in Operations : o # p => keys'[o] = keys[o]
    BY <1>1, <1>2, <1>8, <2>3 DEF KeyTypes, e
  <2>5. Alone(c) /\ Keeps(c) /\ conn'[c].at = "admit" /\ conn'[c].result = "rejected"
    BY <1>1, <1>2, <1>8, GoesEffect DEF HostTypes, Places
  <2>6. QED
    BY <2>1, <2>3, <2>4, <2>5 DEF Continued
<1>9. CASE /\ ~Unfit(c) /\ keys[p].epoch # 0
           /\ keys' = [keys EXCEPT ![p].active = FALSE, ![p].state = "rejected"]
           /\ Takes(c, "rejected", "write")
  <2>1. keys[p].epoch = conn[c].gen
    BY <1>1, <1>9 DEF Unfit
  <2> DEFINE e == [keys[p] EXCEPT !.active = FALSE, !.state = "rejected"]
  <2>2. /\ e \in Operation /\ e.epoch = keys[p].epoch /\ e.active = FALSE
        /\ e.next = keys[p].next /\ e.receipts = keys[p].receipts
    BY <1>3 DEF Operation, Results
  <2> HIDE DEF e
  <2>3. /\ KeyTypes' /\ keys'[p] = e
        /\ \A o \in Operations : o # p => keys'[o] = keys[o]
    BY <1>1, <1>2, <1>9, <2>2 DEF KeyTypes, e
  <2>4. Alone(c) /\ Keeps(c) /\ conn'[c].at = "write" /\ conn'[c].result = "rejected"
    BY <1>2, <1>9, TakesEffect DEF HostTypes, Places, Results
  <2>5. QED
    BY <2>1, <2>2, <2>3, <2>4 DEF Exhausted
<1>10. \/ Unfit(c) /\ Takes(c, "rejected", "write") /\ UNCHANGED keys
       \/ ~Unfit(c) /\ Known(c) /\ Takes(c, Recorded(c), "write") /\ UNCHANGED keys
       \/ /\ ~Unfit(c) /\ keys[p].epoch = 0
          /\ keys' = [keys EXCEPT ![p] = [Absent EXCEPT !.epoch = Pass(c).epoch,
                                    !.active = TRUE, !.state = "pending", !.next = 2]]
          /\ Goes(c, "admit")
       \/ /\ ~Unfit(c) /\ keys[p].epoch # 0 /\ ~Known(c)
          /\ keys' = [keys EXCEPT ![p].next = @ + 1] /\ Goes(c, "admit")
       \/ /\ ~Unfit(c) /\ keys[p].epoch # 0
          /\ keys' = [keys EXCEPT ![p].active = FALSE, ![p].state = "rejected"]
          /\ Takes(c, "rejected", "write")
  BY Zenon DEF Reserve, FrameOf, Of
<1>11. QED
  BY <1>5, <1>6, <1>7, <1>8, <1>9, <1>10

LEMMA ReserveStep ==
  ASSUME CInv, NEW c \in Connections, Reserve(c)
  PROVE  CInv'
<1> DEFINE p == FrameOf(c).op
<1>1. /\ Framed(c) /\ FrameOf(c).kind \in KeyKinds /\ p \in Operations
      /\ FrameOf(c).step \in Steps /\ conn[c].gen \in Nat /\ conn[c].gen # 0
      /\ c = current <=> conn[c].gen = epoch
      /\ FrameOf(c) = conn[c].frame /\ conn[c].at = "reserve"
      /\ ~Began(FrameOf(c))
  BY FrameFacts DEF Reserve, At, Framed, Working, CInv, FramesInv, FrameInv, RanInv, Unbegun,
                    FrameOf
<1>2. /\ Alone(c) /\ Keeps(c) /\ KeyTypes' /\ FrameOf(c)' = FrameOf(c)
      /\ \A o \in Operations : o # p => keys'[o] = keys[o]
      /\ Refused(c) \/ Answered(c) \/ Opened(c) \/ Continued(c) \/ Exhausted(c)
  BY ReserveEnds DEF Keeps, FrameOf
<1>3. /\ UNCHANGED <<ran, epoch, current, gate, device, told>> /\ events' = events
      /\ UNCHANGED <<todo, session, incomplete, closing, broken, announces, talk>>
  BY DEF Reserve, Quiet, control, session, device
<1>4. HandlerStep(c) /\ Fits(c)
  BY <1>1, <1>2, <1>3
     DEF HandlerStep, Moves, Permitted, Seated, Working, Keeps, Fits, Framed, KeyKinds,
         Refused, Answered, Opened, Continued, Exhausted
<1>5. NoneRevived
  BY <1>1, <1>2 DEF NoneRevived, Refused, Answered, Opened, Continued, Exhausted
<1>6. Unbegun(c)' => ~Began(FrameOf(c)')
  BY <1>1, <1>2
<1>7. /\ \A o \in Operations : ~Busy(c, o) /\ (o # p => ~Busy(c, o)')
      /\ Busy(c, p)' <=> conn'[c].at = "admit"
      /\ At(c, "write")' => conn'[c].result # "cancelled"
  BY <1>1, <1>2
     DEF Busy, FrameOf, Refused, Answered, Opened, Continued, Exhausted, At
<1>8. \A d, o, s : Ran(d, o, s)' <=> Ran(d, o, s)
  BY <1>3 DEF Ran
<1>9. KeyInv' /\ RecordInv'
  <2>1. ASSUME c = current, NEW o \in Operations
        PROVE  OperationOf(c, o)'
    <3>1. OperationOf(c, o) /\ epoch = conn[c].gen
      BY <1>1, <2>1 DEF CInv, FramesInv, KeyInv
    <3>2. CASE o # p \/ Refused(c) \/ Answered(c) \/ Exhausted(c)
      <4>1. /\ keys'[o].epoch = keys[o].epoch /\ keys'[o].next = keys[o].next
            /\ ~Busy(c, o)' /\ (keys'[o].active => keys[o].active)
        BY <3>2, <1>2, <1>7 DEF Refused, Answered, Exhausted
      <4>2. QED
        BY <3>1, <4>1, <1>3, <1>7, OperationLike
    <3>3. CASE o = p /\ Opened(c)
      <4>1. \A s \in Steps : ~Ran(c, o, s)
        BY <3>1, <3>3, <1>1 DEF OperationOf, Opened
      <4>2. QED
        BY <3>1, <3>3, <4>1, <1>1, <1>2, <1>3, <1>7, <1>8 DEF OperationOf, Opened
    <3>4. CASE o = p /\ Continued(c)
      <4>1. /\ Ran(c, o, keys[o].next - 1) /\ FrameOf(c).step = keys[o].next
            /\ \A s \in Steps : Ran(c, o, s) => s < keys[o].next
            /\ keys[o].next \in Nat
        BY <3>1, <3>4, <1>1, <1>7, SMTT(20) DEF OperationOf, Continued, Steps
      <4>2. \A s \in Steps : s \in Nat
        BY SessionAssumption DEF Steps, SessionAssumption
      <4>3. /\ keys'[o].epoch = epoch /\ keys'[o].next = keys[o].next + 1 /\ keys'[o].active
            /\ Busy(c, o)' /\ FrameOf(c)' = FrameOf(c) /\ conn'[c].at = "admit"
            /\ epoch' = epoch
        BY <3>1, <3>4, <1>2, <1>3, <1>7 DEF Continued
      <4>4. \A s \in Steps : Ran(c, o, s)' => s < keys'[o].next
        BY <4>1, <4>2, <4>3, <1>8
      <4>5. ~Ran(c, o, FrameOf(c).step)
        BY <4>1, <4>2, <1>1
      <4>6. FrameOf(c).step + 1 = keys'[o].next /\ FrameOf(c).step - 1 = keys[o].next - 1
        BY <4>1, <4>3
      <4>7. QED
        BY <4>1, <4>3, <4>4, <4>5, <4>6, <1>8 DEF OperationOf, At
    <3>5. QED
      BY <3>2, <3>3, <3>4, <1>2
  <2>2. ASSUME NEW o \in Operations, keys'[o].epoch = conn[c].gen
        PROVE  RecordOf(c, o)'
    <3>1. CASE o = p /\ Opened(c)
      BY <3>1, <1>1, <1>2, <1>7 DEF RecordOf, Opened
    <3>2. CASE ~(o = p /\ Opened(c))
      <4>1. keys[o].epoch = conn[c].gen /\ keys'[o].receipts = keys[o].receipts
        BY <2>2, <3>2, <1>2 DEF Refused, Answered, Continued, Exhausted
      <4>2. RecordOf(c, o)
        BY <4>1, <1>1 DEF CInv, FramesInv, RecordInv
      <4>3. QED
        BY <4>1, <4>2, <1>3, <1>7, RecordLike
    <3>3. QED
      BY <3>1, <3>2
  <2>3. KeysMove(c)
    BY <1>2 DEF KeysMove, Refused, Answered, Opened, Continued, Exhausted
  <2>4. \A o \in Operations, s \in Steps : keys'[o].receipts[s] # "cancelled"
    BY <1>1, <1>2
       DEF CInv, FramesInv, RecordInv, Refused, Answered, Opened, Continued, Exhausted
  <2>5. /\ conn'[c].at # "finish" /\ conn'[c].gen = conn[c].gen
        /\ conn'[c].at = "write" => conn'[c].result # "cancelled"
        /\ conn'[c].at = "write" /\ conn'[c].result = "executed" =>
             Ran(c, FrameOf(c)'.op, FrameOf(c)'.step)
    BY <1>2, <1>7 DEF Refused, Answered, Opened, Continued, Exhausted, At, Keeps
  <2>6. QED
    BY <2>1, <2>2, <2>3, <2>4, <2>5, <1>1, <1>2, <1>3, KeysMoved
<1>10. QED
  BY <1>1, <1>2, <1>3, <1>4, <1>5, <1>6, <1>9, HandlerStepRest

\* Note keeps an operation where it is, and records one sequence.
LEMMA NoteEffect ==
  ASSUME NEW o \in Operation, NEW step \in Steps, NEW result \in Results, result # "none"
  PROVE  /\ Note(o, step, result) \in Operation
         /\ Note(o, step, result).epoch = o.epoch /\ Note(o, step, result).next = o.next
         /\ Note(o, step, result).active <=> o.active /\ result = "executed"
         /\ \A s \in Steps : Note(o, step, result).receipts[s]
                               = IF s = step THEN result ELSE o.receipts[s]
<1> DEFINE receipts == [o.receipts EXCEPT ![step] = result]
           state == IF o.state = "cancelled" THEN o.state ELSE result
           active == o.active /\ result = "executed"
<1>1. /\ receipts \in [Steps -> Results] /\ active \in BOOLEAN
      /\ state \in Results \cup {"pending"}
      /\ \A s \in Steps : receipts[s] = IF s = step THEN result ELSE o.receipts[s]
  BY DEF Operation
<1>2. Note(o, step, result)
        = [o EXCEPT !.receipts = receipts, !.active = active, !.state = state]
  BY DEF Note
<1> HIDE DEF receipts, state, active
<1>3. /\ Note(o, step, result) \in Operation
      /\ Note(o, step, result).epoch = o.epoch /\ Note(o, step, result).next = o.next
      /\ Note(o, step, result).active = active /\ Note(o, step, result).receipts = receipts
  BY <1>1, <1>2 DEF Operation
<1>4. QED
  BY <1>1, <1>3 DEF active

LEMMA AdmitStep ==
  ASSUME CInv, NEW c \in Connections, Admit(c)
  PROVE  CInv'
<1> DEFINE f == FrameOf(c)
           p == FrameOf(c).op
<1>1. /\ Framed(c) /\ f.kind \in KeyKinds /\ p \in Operations
      /\ f.step \in Steps /\ conn[c].gen \in Nat /\ conn[c].gen # 0
      /\ c = current <=> conn[c].gen = epoch
      /\ f = conn[c].frame /\ conn[c].at = "admit" /\ conn[c].result = "rejected"
      /\ ~Began(f) /\ Busy(c, p) /\ Of(c) = keys[p]
  BY FrameFacts DEF Admit, At, Framed, Working, CInv, FramesInv, FrameInv, RanInv, Unbegun,
                    FrameOf, Busy, Of
<1>2. KeyTypes /\ HostTypes /\ keys[p] \in Operation
  BY <1>1, TypeParts DEF CInv, KeyTypes
<1>3. /\ UNCHANGED <<ran, epoch, current, gate, device, told>> /\ events' = events
      /\ UNCHANGED <<todo, session, incomplete, closing, broken, announces, talk>>
  BY DEF Admit, Quiet, control, session, device
<1>4. /\ Alone(c) /\ Keeps(c) /\ conn'[c].result = "rejected"
      /\ \/ conn'[c].at = "gate" /\ keys' = keys /\ keys[p].active
         \/ conn'[c].at = "write" /\ keys' = keys /\ keys[p].epoch = 0
         \/ /\ conn'[c].at = "write" /\ keys[p].epoch # 0 /\ ~keys[p].active
            /\ keys' = [keys EXCEPT ![p] = Note(keys[p], f.step, "rejected")]
  BY <1>1, <1>2, GoesEffect, TakesEffect DEF Admit, HostTypes, Places, Results
<1>5. /\ KeyTypes'
      /\ \A o \in Operations :
           /\ keys'[o].epoch = keys[o].epoch /\ keys'[o].next = keys[o].next
           /\ keys'[o].active = keys[o].active
           /\ o # p => keys'[o] = keys[o]
           /\ \A s \in Steps : keys'[o].receipts[s] \in {keys[o].receipts[s], "rejected"}
      /\ conn'[c].at = "write" /\ keys[p].epoch # 0 => keys'[p].receipts[f.step] = "rejected"
  <2>1. CASE keys' = keys /\ (conn'[c].at = "gate" \/ keys[p].epoch = 0)
    BY <2>1, <1>2 DEF KeyTypes
  <2> DEFINE n == Note(keys[p], f.step, "rejected")
  <2>2. CASE ~keys[p].active /\ keys' = [keys EXCEPT ![p] = n]
    <3>1. /\ n \in Operation /\ n.epoch = keys[p].epoch /\ n.next = keys[p].next
          /\ ~n.active
          /\ \A s \in Steps : n.receipts[s] = IF s = f.step THEN "rejected" ELSE keys[p].receipts[s]
      <4>1. "rejected" \in Results /\ "rejected" # "none" /\ "rejected" # "executed"
        BY DEF Results
      <4>2. QED
        BY <4>1, <2>2, <1>1, <1>2, NoteEffect
    <3>2. n.active = keys[p].active
      BY <2>2, <3>1, <1>2 DEF Operation
    <3> HIDE DEF n
    <3>3. QED
      BY <2>2, <3>1, <3>2, <1>1, <1>2 DEF KeyTypes
  <2>3. QED
    BY <1>4, <2>1, <2>2
<1>6. HandlerStep(c) /\ Fits(c)
  BY <1>1, <1>3, <1>4
     DEF HandlerStep, Moves, Permitted, Seated, Working, Keeps, Fits, Framed, KeyKinds
<1>7. NoneRevived
  BY <1>5 DEF NoneRevived
<1>8. Unbegun(c)' => ~Began(FrameOf(c)')
  BY <1>1, <1>4 DEF FrameOf, Keeps
<1>9. /\ FrameOf(c)' = FrameOf(c)
      /\ \A o \in Operations : /\ Busy(c, o)' <=> Busy(c, o) /\ conn'[c].at = "gate"
                               /\ o # p => ~Busy(c, o)
      /\ \A d, o, s : Ran(d, o, s)' <=> Ran(d, o, s)
  BY <1>1, <1>3, <1>4 DEF Busy, FrameOf, Keeps, Ran
<1>10. KeyInv' /\ RecordInv'
  <2>1. ASSUME c = current, NEW o \in Operations
        PROVE  OperationOf(c, o)'
    <3>1. OperationOf(c, o) /\ epoch = conn[c].gen
      BY <1>1, <2>1 DEF CInv, FramesInv, KeyInv
    <3>2. CASE o # p
      BY <3>1, <3>2, <1>3, <1>4, <1>5, <1>9, OperationLike
    <3>3. CASE o = p
      <4>1. keys[p].epoch # 0
        BY <3>1, <3>3, <1>1 DEF OperationOf
      <4>2. CASE conn'[c].at = "gate"
        BY <3>1, <3>3, <4>1, <4>2, <1>1, <1>3, <1>4, <1>5, <1>9 DEF OperationOf, At
      <4>3. CASE conn'[c].at = "write"
        <5>1. ~keys'[p].active
          BY <4>1, <4>3, <1>1, <1>4, <1>5
        <5>2. QED
          BY <3>1, <3>3, <4>3, <5>1, <1>3, <1>4, <1>5, <1>9, OperationLike
      <4>4. QED
        BY <4>2, <4>3, <1>4
    <3>4. QED
      BY <3>2, <3>3
  <2>2. ASSUME NEW o \in Operations, keys'[o].epoch = conn[c].gen
        PROVE  RecordOf(c, o)'
    <3>1. RecordOf(c, o)
      BY <2>2, <1>1, <1>5 DEF CInv, FramesInv, RecordInv
    <3>2. \A s \in Steps : keys'[o].receipts[s] = "executed" => Ran(c, o, s)'
      BY <3>1, <1>5, <1>9 DEF RecordOf
    <3>3. ASSUME keys'[o].receipts[1] = "none"
          PROVE  Busy(c, o)' /\ FrameOf(c)'.step = 1
      <4>1. 1 \in Steps
        BY SessionAssumption DEF Steps, SessionAssumption
      <4>2. Busy(c, o) /\ FrameOf(c).step = 1 /\ o = p
        BY <3>1, <3>3, <4>1, <1>5, <1>9 DEF RecordOf
      <4>3. conn'[c].at = "gate"
        BY <3>3, <4>2, <2>2, <1>1, <1>4, <1>5
      <4>4. QED
        BY <4>2, <4>3, <1>9
    <3>4. QED
      BY <3>2, <3>3 DEF RecordOf
  <2>3. KeysMove(c)
    BY <1>5 DEF KeysMove
  <2>4. \A o \in Operations, s \in Steps : keys'[o].receipts[s] # "cancelled"
    BY <1>5 DEF CInv, FramesInv, RecordInv
  <2>5. QED
    BY <2>1, <2>2, <2>3, <2>4, <1>1, <1>3, <1>4, <1>5, KeysMoved DEF Keeps
<1>11. QED
  BY <1>1, <1>3, <1>5, <1>6, <1>7, <1>8, <1>10, HandlerStepRest

LEMMA FinishStep ==
  ASSUME CInv, NEW c \in Connections, Finish(c)
  PROVE  CInv'
<1> DEFINE f == FrameOf(c)
           p == FrameOf(c).op
           r == conn[c].result
<1>1. /\ Framed(c) /\ f.kind \in KeyKinds /\ p \in Operations
      /\ f.step \in Steps /\ conn[c].gen \in Nat /\ conn[c].gen # 0
      /\ c = current <=> conn[c].gen = epoch
      /\ Pass(c).epoch = conn[c].gen
      /\ f = conn[c].frame /\ conn[c].at = "finish"
      /\ r \in {"executed", "uncertain", "rejected"}
      /\ r = "rejected" => ~Began(f)
      /\ r = "executed" => Ran(c, p, f.step)
      /\ Busy(c, p) /\ Of(c) = keys[p]
  BY FrameFacts DEF Finish, At, Framed, Working, CInv, FramesInv, FrameInv, RanInv, RecordInv,
                    Unbegun, FrameOf, Busy, Of
<1>2. KeyTypes /\ HostTypes /\ keys[p] \in Operation
  BY <1>1, TypeParts DEF CInv, KeyTypes
<1>3. /\ UNCHANGED <<ran, epoch, current, gate, device, told>> /\ events' = events
      /\ UNCHANGED <<todo, session, incomplete, closing, broken, announces, talk>>
  BY DEF Finish, Quiet, control, session, device
<1>4. /\ Alone(c) /\ Keeps(c) /\ conn'[c].result = r /\ conn'[c].at = "write"
      /\ \/ keys[p].epoch # conn[c].gen /\ keys' = keys
         \/ keys[p].epoch = conn[c].gen /\ keys' = [keys EXCEPT ![p] = Note(keys[p], f.step, r)]
  BY <1>1, <1>2, GoesEffect DEF Finish, HostTypes, Places
<1>5. /\ KeyTypes'
      /\ \A o \in Operations :
           /\ keys'[o].epoch = keys[o].epoch /\ keys'[o].next = keys[o].next
           /\ o # p \/ keys[p].epoch # conn[c].gen => keys'[o] = keys[o]
      /\ keys[p].epoch = conn[c].gen =>
           /\ keys'[p].active <=> keys[p].active /\ r = "executed"
           /\ \A s \in Steps : keys'[p].receipts[s] = IF s = f.step THEN r ELSE keys[p].receipts[s]
  <2>1. CASE keys[p].epoch # conn[c].gen /\ keys' = keys
    BY <2>1, <1>2 DEF KeyTypes
  <2> DEFINE n == Note(keys[p], f.step, r)
  <2>2. CASE keys[p].epoch = conn[c].gen /\ keys' = [keys EXCEPT ![p] = n]
    <3>1. /\ n \in Operation /\ n.epoch = keys[p].epoch /\ n.next = keys[p].next
          /\ n.active <=> keys[p].active /\ r = "executed"
          /\ \A s \in Steps : n.receipts[s] = IF s = f.step THEN r ELSE keys[p].receipts[s]
      <4>1. r \in Results /\ r # "none"
        BY <1>1 DEF Results
      <4>2. QED
        BY <4>1, <1>1, <1>2, NoteEffect
    <3> HIDE DEF n
    <3>2. QED
      BY <2>2, <3>1, <1>1, <1>2 DEF KeyTypes
  <2>3. QED
    BY <1>4, <2>1, <2>2
<1>6. HandlerStep(c) /\ Fits(c)
  BY <1>1, <1>3, <1>4
     DEF HandlerStep, Moves, Permitted, Seated, Working, Keeps, Fits, Framed, KeyKinds
<1>7. NoneRevived
  BY <1>5 DEF NoneRevived
<1>8. Unbegun(c)' => ~Began(FrameOf(c)')
  BY <1>1, <1>4 DEF FrameOf, Keeps, Unbegun
<1>9. /\ FrameOf(c)' = FrameOf(c)
      /\ \A o \in Operations : ~Busy(c, o)' /\ (o # p => ~Busy(c, o))
      /\ \A d, o, s : Ran(d, o, s)' <=> Ran(d, o, s)
  BY <1>1, <1>3, <1>4 DEF Busy, FrameOf, Keeps, Ran
<1>10. KeyInv' /\ RecordInv'
  <2>1. ASSUME c = current, NEW o \in Operations
        PROVE  OperationOf(c, o)'
    <3>1. OperationOf(c, o) /\ epoch = conn[c].gen
      BY <1>1, <2>1 DEF CInv, FramesInv, KeyInv
    <3>2. CASE o # p
      BY <3>1, <3>2, <1>1, <1>3, <1>4, <1>5, <1>9, OperationLike
    <3>3. CASE o = p
      <4>1. keys[p].epoch = conn[c].gen /\ f.step + 1 = keys[p].next
        BY <3>1, <3>3, <1>1 DEF OperationOf
      <4>2. f.step \in Nat /\ f.step = keys[p].next - 1
        BY <4>1, <1>1, SessionAssumption DEF Steps, SessionAssumption
      <4>3. keys'[p].active => Ran(c, o, keys'[p].next - 1)
        BY <4>1, <4>2, <3>3, <1>1, <1>5
      <4>4. \A s \in Steps : Ran(c, o, s)' => keys'[o].epoch = epoch' /\ s < keys'[o].next
        BY <3>1, <1>1, <1>3, <1>5, <1>9 DEF OperationOf
      <4>5. conn'[c].result # "cancelled"
        BY <1>1, <1>4
      <4>6. QED
        BY <3>3, <4>3, <4>4, <4>5, <1>9 DEF OperationOf
    <3>4. QED
      BY <3>2, <3>3
  <2>2. ASSUME NEW o \in Operations, keys'[o].epoch = conn[c].gen
        PROVE  RecordOf(c, o)'
    <3>1. RecordOf(c, o)
      BY <2>2, <1>1, <1>5 DEF CInv, FramesInv, RecordInv
    <3>2. CASE o # p
      BY <3>1, <3>2, <1>1, <1>3, <1>5, <1>9, RecordLike
    <3>3. CASE o = p
      <4>1. \A s \in Steps : keys'[o].receipts[s] = IF s = f.step THEN r ELSE keys[o].receipts[s]
        BY <2>2, <3>3, <1>1, <1>5
      <4>2. \A s \in Steps : keys'[o].receipts[s] = "executed" => Ran(c, o, s)'
        BY <3>1, <3>3, <4>1, <1>1, <1>9 DEF RecordOf
      <4>3. keys'[o].receipts[1] # "none"
        <5>1. 1 \in Steps
          BY SessionAssumption DEF Steps, SessionAssumption
        <5>2. CASE f.step = 1
          BY <4>1, <5>1, <5>2, <1>1
        <5>3. CASE f.step # 1
          BY <3>1, <4>1, <5>1, <5>3 DEF RecordOf
        <5>4. QED
          BY <5>2, <5>3
      <4>4. QED
        BY <4>2, <4>3 DEF RecordOf
    <3>4. QED
      BY <3>2, <3>3
  <2>3. KeysMove(c)
    BY <1>1, <1>5 DEF KeysMove
  <2>4. \A o \in Operations, s \in Steps : keys'[o].receipts[s] # "cancelled"
    <3>1. \A o \in Operations, s \in Steps : keys[o].receipts[s] # "cancelled"
      BY DEF CInv, FramesInv, RecordInv
    <3>2. QED
      BY <3>1, <1>1, <1>5
  <2>5. QED
    BY <2>1, <2>2, <2>3, <2>4, <1>1, <1>3, <1>4, <1>5, <1>9, KeysMoved DEF Keeps
<1>11. QED
  BY <1>1, <1>3, <1>5, <1>6, <1>7, <1>8, <1>10, HandlerStepRest

\* The steps of a handler that leave all operations alone, and none of whose frames is
\* under way then that was not before.
LEMMA KeysAside ==
  ASSUME CInv, NEW c \in Connections, Alone(c), conn'[c].gen = conn[c].gen, keys' = keys,
         UNCHANGED <<ran, epoch, current>>,
         \/ \A o \in Operations : ~Busy(c, o) /\ ~Busy(c, o)'
         \/ FrameOf(c)' = FrameOf(c) /\ conn[c].at = "gate" /\ conn'[c].at \in {"run", "finish"}
         \/ FrameOf(c)' = FrameOf(c) /\ conn[c].at = "run" /\ conn'[c].at = "finish",
         conn'[c].at \in {"finish", "write"} /\ conn'[c].result = "executed" =>
           Ran(c, FrameOf(c)'.op, FrameOf(c)'.step),
         conn'[c].at = "write" => conn'[c].result # "cancelled"
  PROVE  KeyInv' /\ RecordInv'
<1>1. \A d, o, s : Ran(d, o, s)' <=> Ran(d, o, s)
  BY DEF Ran
<1>2. \A d \in Connections, o \in Operations :
        /\ Busy(d, o)' <=> Busy(d, o)
        /\ Busy(d, o) => FrameOf(d)' = FrameOf(d)
        /\ d # c => conn'[d] = conn[d]
  BY DEF Alone, Busy, FrameOf
<1>3. ASSUME NEW o \in Operations, OperationOf(c, o)
      PROVE  OperationOf(c, o)'
  <2>1. /\ keys[o].epoch = epoch /\ keys[o].active /\ ~Busy(c, o)' => Ran(c, o, keys[o].next - 1)
        /\ \A s \in Steps : Ran(c, o, s) => keys[o].epoch = epoch /\ s < keys[o].next
    BY <1>2, <1>3 DEF OperationOf
  <2>2. Busy(c, o)' =>
          /\ keys[o].epoch = epoch /\ FrameOf(c)'.step + 1 = keys[o].next
          /\ FrameOf(c)'.step > 1 => Ran(c, o, FrameOf(c)'.step - 1)
          /\ conn'[c].at \notin {"admit", "gate"}
          /\ conn'[c].at = "run" => keys[o].active
    <3> SUFFICES ASSUME Busy(c, o)'
                 PROVE  /\ keys[o].epoch = epoch /\ FrameOf(c)'.step + 1 = keys[o].next
                        /\ FrameOf(c)'.step > 1 => Ran(c, o, FrameOf(c)'.step - 1)
                        /\ conn'[c].at \notin {"admit", "gate"}
                        /\ conn'[c].at = "run" => keys[o].active
      OBVIOUS
    <3>1. Busy(c, o) /\ FrameOf(c)' = FrameOf(c)
      BY <1>2
    <3>2. \/ conn[c].at = "gate" /\ conn'[c].at \in {"run", "finish"}
          \/ conn[c].at = "run" /\ conn'[c].at = "finish"
      BY <3>1
    <3>3. QED
      BY <3>1, <3>2, <1>3 DEF OperationOf
  <2>3. QED
    BY <2>1, <2>2, <1>1 DEF OperationOf, At
<1>4. KeyInv'
  BY <1>2, <1>3, OperationKept DEF KeyInv, CInv, FramesInv
<1>5. RecordInv'
  <2>1. ASSUME NEW d \in Connections, NEW o \in Operations, RecordOf(d, o)
        PROVE  RecordOf(d, o)'
    BY <2>1, <1>2, RecordLike
  <2>2. ASSUME NEW d \in Connections
        PROVE  /\ conn'[d].gen = conn[d].gen
               /\ conn'[d].at \in {"finish", "write"} /\ conn'[d].result = "executed" =>
                    Ran(d, FrameOf(d)'.op, FrameOf(d)'.step)
               /\ At(d, "write")' /\ conn'[d].result = "cancelled" => FrameOf(d)'.kind = "cancel"
    <3>1. CASE d = c
      BY <3>1 DEF At
    <3>2. CASE d # c
      <4>1. conn'[d] = conn[d] /\ FrameOf(d)' = FrameOf(d)
        BY <3>2 DEF Alone, FrameOf
      <4>2. RecordInv
        BY DEF CInv, FramesInv
      <4>3. QED
        BY <4>1, <4>2 DEF RecordInv, At
    <3>3. QED
      BY <3>1, <3>2
  <2>3. QED
    BY <2>1, <2>2, <1>1 DEF RecordInv, CInv, FramesInv, At, FrameOf
<1>6. QED
  BY <1>4, <1>5

LEMMA WriteStep ==
  ASSUME CInv, NEW c \in Connections, Write(c)
  PROVE  CInv'
<1> DEFINE f == FrameOf(c)
           t == [from |-> c, frame |-> f, result |-> conn[c].result, ran |-> Len(ran)]
<1>0. GateTypes /\ HostTypes /\ KeyTypes /\ DeviceTypes /\ ToldTypes
  BY TypeParts DEF CInv
<1>1. /\ Framed(c) /\ f \in Frames /\ f.id \in Nat /\ conn[c].at = "write"
      /\ f.kind \notin {"down", "up"} => f.op \in Operations
      /\ events \in Nat /\ conn[c].result \in Results /\ f.id <= events
      /\ c = current => epoch = conn[c].gen
  <2>1. Framed(c) /\ conn[c].at = "write"
    BY DEF Write, At, Framed, Working
  <2>2. f.kind \notin {"down", "up"} => f.kind \in KeyKinds \cup {"cancel"}
    BY <2>1, FrameFacts DEF Frames, KeyKinds
  <2>3. f.id \in 1..events
    BY <2>1 DEF CInv, FramesInv, FrameInv
  <2>4. QED
    BY <2>1, <2>2, <2>3, FrameFacts
<1>2. /\ Alone(c) /\ conn'[c].gen = conn[c].gen /\ conn'[c].at \in {"loop", "ending"}
      /\ told' = told \/ (f.kind \notin {"down", "up"} /\ told' = told \cup {t})
  BY <1>0, RestsEffect DEF Write, HostTypes, Places, FrameOf
<1>3. /\ UNCHANGED <<keys, ran, epoch, current, gate, device>> /\ events' = events
      /\ UNCHANGED <<todo, session, incomplete, closing, broken, announces, talk>>
  BY DEF Write, control, session, device
<1>4. HandlerStep(c) /\ Fits(c)
  BY <1>1, <1>2, <1>3 DEF HandlerStep, Moves, Permitted, Seated, Working, Fits, Framed
<1>5. /\ SessionInv' /\ TalkInv' /\ GateTypes' /\ HostTypes' /\ TalkTypes'
      /\ LineInv' /\ QuietInv' /\ DeviceTypes' /\ FrameInv' /\ KeyTypes'
  <2>1. FrameInv'
    BY <1>3, <1>4, FrameKept DEF HandlerStep, CInv, FramesInv
  <2>2. KeyTypes'
    BY <1>0, <1>3 DEF KeyTypes
  <2>3. QED
    BY <1>1, <1>3, <1>4, <2>1, <2>2, HandlerStepKeeps, DeviceAside
<1>6. RanInv'
  BY <1>1, <1>2, <1>3, <1>4, RanKept DEF HandlerStep, Unbegun
<1>7. KeyInv' /\ RecordInv'
  BY <1>1, <1>2, <1>3, KeysAside DEF Busy
<1>8. ToldTypes'
  <2>1. t \in Told
    BY <1>1, EntryTypes DEF Told, CInv
  <2>2. QED
    BY <1>0, <1>2, <1>3, <2>1 DEF ToldTypes
<1>9. ToldInv'
  <2>1. \A u \in told : ToldOf(u)'
    <3>1. NoneRevived
      BY <1>3 DEF NoneRevived
    <3>2. ~Framed(c)'
      BY <1>2 DEF Framed, Working
    <3>3. QED
      BY <1>1, <1>3, <1>4, <3>1, <3>2, ToldKept DEF HandlerStep
  <2>2. ASSUME f.kind \notin {"down", "up"}, NEW u, u = t
        PROVE  ToldOf(u)'
    <3>1. /\ u.from = c /\ u.frame = f /\ u.result = conn[c].result /\ u.ran = Len(ran)
      BY <2>2
    <3>2. \A d \in Connections : Framed(d)' => FrameOf(d)'.id # f.id
      BY <1>1, <1>2 DEF Alone, CInv, FramesInv, FrameInv, Framed, FrameOf, Working
    <3>3. u.result = "executed" => Ran(c, f.op, f.step)
      BY <1>1, <3>1 DEF CInv, FramesInv, RecordInv
    <3>4. u.result = "rejected" => ~Began(f)
      BY <1>1, <3>1 DEF CInv, FramesInv, RanInv, Unbegun
    <3>5. u.result = "cancelled" /\ c = current => keys[f.op].epoch = epoch /\ ~keys[f.op].active
      BY <1>1, <2>2, <3>1 DEF CInv, FramesInv, KeyInv, OperationOf, At
    <3>6. \A i \in DOMAIN ran : i <= Len(ran)
      BY EntryTypes DEF CInv
    <3>7. Len(ran) \in Nat
      BY EntryTypes DEF CInv
    <3>8. /\ \A d, o, s : Ran(d, o, s)' <=> Ran(d, o, s)
          /\ \A g : Began(g)' <=> Began(g)
      BY <1>3 DEF Ran, Began
    <3> HIDE DEF t, f
    <3>9. QED
      BY <1>1, <1>2, <1>3, <2>2, <3>1, <3>2, <3>3, <3>4, <3>5, <3>6, <3>7, <3>8
         DEF ToldOf, session
  <2>3. QED
    BY <1>2, <2>1, <2>2 DEF ToldInv
<1>10. QED
  BY <1>5, <1>6, <1>7, <1>8, <1>9, TypePartsNext DEF CInv, FramesInv

\* The actions of the frames and of the gate are those of a step of its handler.
LEMMA FrameStep ==
  ASSUME CInv, NEW c \in Connections, NEW m \in Sendable, Frame(c, m.kind, m.op, m.step)
  PROVE  CInv'
<1> DEFINE f == [kind |-> m.kind, op |-> m.op, step |-> m.step, id |-> events + 1]
           h == [at |-> Route(m.kind), gen |-> conn[c].gen, result |-> "rejected",
                 frame |-> f, permit |-> Permit("input")]
<1>0. GateTypes /\ HostTypes /\ KeyTypes /\ DeviceTypes /\ ToldTypes
  BY TypeParts DEF CInv
<1>1. /\ m.kind \in {"down", "up", "press", "repeat", "cancel"}
      /\ m.op \in Operations \cup {Nobody} /\ m.step \in Steps
      /\ m.kind \notin {"down", "up"} => m.op \in Operations
      /\ m.kind = "press" => m.step = 1
  BY SessionAssumption DEF Sendable, Steps, SessionAssumption
<1>2. events \in Nat /\ events + 1 \in 0..MaxEvents /\ epoch \in Nat /\ gen \in Nat
      /\ revision \in Nat /\ conn[c].gen \in Nat
  BY <1>0, SessionAssumption
     DEF ToldTypes, Frame, SessionAssumption, GateTypes, GateTypeOK, HostTypes, Handler
<1>3. f \in Frames
  BY <1>1, <1>2 DEF Frames
<1>4. /\ Route(m.kind) \in {"write", "gate", "cancel", "reserve"}
      /\ Route(m.kind) = "cancel" <=> m.kind = "cancel"
      /\ Route(m.kind) = "gate" => m.kind \in {"down", "up"}
      /\ Route(m.kind) = "reserve" => m.kind \in KeyKinds
  BY <1>1 DEF Route, KeyKinds
<1>5. Permit("input") \in [scope: Scopes, revision: Nat, gen: Nat, epoch: Nat]
  BY <1>2 DEF Permit, Scopes
<1>6. h \in Handler
  BY <1>2, <1>3, <1>4, <1>5 DEF Handler, Places, Results
<1>7. conn' = [conn EXCEPT ![c] = h]
  BY DEF Frame
<1>8. /\ Alone(c) /\ conn'[c].at = Route(m.kind) /\ conn'[c].gen = conn[c].gen
      /\ conn'[c].result = "rejected" /\ FrameOf(c)' = f /\ conn'[c].permit = Permit("input")
  <2> HIDE DEF h
  <2>1. Alone(c) /\ conn'[c] = h
    BY <1>0, <1>6, <1>7 DEF HostTypes, Alone
  <2>2. QED
    BY <2>1 DEF h, FrameOf
<1>9. f.kind = m.kind /\ f.op = m.op /\ f.step = m.step /\ f.id = events + 1
  OBVIOUS
<1> HIDE DEF f, h
<1>10. /\ UNCHANGED <<keys, ran, epoch, current, gate, device, told>> /\ events' = events + 1
       /\ UNCHANGED <<todo, session, incomplete, closing, broken, announces, talk>>
       /\ current = c /\ gen = conn[c].gen /\ conn[c].at = "loop"
  BY DEF Frame, Quiet, control, session, device, At
<1>11. epoch = gen /\ epoch # 0
  BY <1>0, <1>10, SessionAssumption
     DEF HostTypes, GateTypes, CInv, SessionInv, GenInv, SessionAssumption
<1>12. HandlerStep(c)
  BY <1>4, <1>8, <1>10, <1>11
     DEF HandlerStep, Moves, Permitted, Seated, Working, Framed
<1>13. /\ SessionInv' /\ TalkInv' /\ GateTypes' /\ HostTypes' /\ TalkTypes'
       /\ LineInv' /\ QuietInv' /\ DeviceTypes' /\ KeyTypes' /\ ToldTypes'
  <2>1. KeyTypes' /\ ToldTypes'
    BY <1>0, <1>2, <1>10 DEF KeyTypes, ToldTypes
  <2>2. QED
    BY <1>10, <1>12, <2>1, HandlerStepKeeps, DeviceAside
<1>14. \A d \in Connections : d # c => conn'[d] = conn[d]
  BY <1>8 DEF Alone
<1>15. FrameInv'
  <2>1. FrameInv
    BY DEF CInv, FramesInv
  <2>2. \A d \in Connections : d # c /\ Framed(d)' =>
          /\ Framed(d) /\ FrameOf(d)' = FrameOf(d) /\ conn'[d] = conn[d]
          /\ FrameOf(d).id \in 1..events
    BY <1>14, <2>1 DEF Framed, FrameOf, FrameInv
  <2>3. \A d \in Connections : Framed(d)' => FrameOf(d)'.id \in 1..events'
    BY <2>2, <1>2, <1>8, <1>9, <1>10
  <2>4. \A d, e \in Connections : d # e /\ Framed(d)' /\ Framed(e)' =>
          FrameOf(d)'.id # FrameOf(e)'.id
    <3>1. \A d \in Connections : d # c /\ Framed(d)' => FrameOf(d)'.id # FrameOf(c)'.id
      BY <2>2, <1>2, <1>8, <1>9
    <3>2. \A d, e \in Connections : d # e /\ d # c /\ e # c /\ Framed(d)' /\ Framed(e)' =>
            FrameOf(d)'.id # FrameOf(e)'.id
      BY <2>1, <2>2 DEF FrameInv
    <3>3. QED
      BY <3>1, <3>2
  <2>5. ASSUME NEW d \in Connections, Framed(d)'
        PROVE  /\ FrameOf(d)'.kind \in KeyKinds \cup {"cancel"} => FrameOf(d)'.op \in Operations
               /\ FrameOf(d)'.kind = "press" => FrameOf(d)'.step = 1
               /\ At(d, "cancel")' => FrameOf(d)'.kind = "cancel"
               /\ At(d, "gate")' => FrameOf(d)'.kind # "cancel"
               /\ conn'[d].at \in {"reserve", "admit", "run", "finish"} =>
                    FrameOf(d)'.kind \in KeyKinds
               /\ conn'[d].at \in {"reserve", "admit", "gate", "cancel"} =>
                    conn'[d].result = "rejected"
               /\ At(d, "finish")' => conn'[d].result \in {"executed", "uncertain", "rejected"}
    <3>1. CASE d = c
      BY <3>1, <1>1, <1>4, <1>8, <1>9 DEF KeyKinds, At
    <3>2. CASE d # c
      BY <3>2, <2>1, <2>2, <2>5 DEF FrameInv, At
    <3>3. QED
      BY <3>1, <3>2
  <2>6. QED
    BY <2>3, <2>4, <2>5 DEF FrameInv
<1>16. RanInv'
  <2>1. ~Began(f)
    <3>1. \A k \in DOMAIN ran : ran[k].frame.id <= events /\ ran[k].frame.id \in Nat
      BY EntryTypes DEF CInv, FramesInv, RanInv
    <3>2. QED
      BY <3>1, <1>2, <1>9 DEF Began
  <2>2. QED
    BY <2>1, <1>2, <1>8, <1>10, <1>12, RanKept DEF HandlerStep
<1>17. KeyInv' /\ RecordInv'
  <2>1. \A o \in Operations : ~Busy(c, o) /\ ~Busy(c, o)'
    BY <1>4, <1>8, <1>9, <1>10 DEF Busy, KeyKinds
  <2>2. QED
    BY <2>1, <1>4, <1>8, <1>10, KeysAside
<1>18. ToldInv'
  <2>1. NoneRevived
    BY <1>10 DEF NoneRevived
  <2>2. QED
    BY <2>1, <1>2, <1>8, <1>9, <1>10, <1>12, ToldKept DEF ToldInv, HandlerStep
<1>19. QED
  BY <1>13, <1>15, <1>16, <1>17, <1>18, TypePartsNext DEF CInv, FramesInv

-----------------------------------------------------------------------------
(* The steps of the injector, and those that give it something.            *)

\* Less of the line, and no key frame in it.
Thinned == /\ line' \in Seq(Items)
           /\ \A i \in DOMAIN line' : /\ line'[i].frame.kind \notin KeyKinds
                                      /\ \E k \in DOMAIN line : line'[i] = line[k]

\* A key frame in the line is that of the handler that holds the gate.
LEMMA KeyInLine ==
  ASSUME CInv, NEW i \in DOMAIN line, line[i].frame.kind \in KeyKinds
  PROVE  /\ i = Len(line) /\ line[i].from \in Connections
         /\ conn[line[i].from].at = "run" /\ FrameOf(line[i].from) = line[i].frame
         /\ gate = line[i].from /\ current = line[i].from
         /\ ~Began(line[i].frame)
         /\ ~Ran(line[i].from, line[i].frame.op, line[i].frame.step)
<1>1. line[i].from \in Connections
  BY EntryTypes DEF CInv
<1>2. /\ i = Len(line)
      /\ conn[line[i].from].at = "run" /\ FrameOf(line[i].from) = line[i].frame
      /\ ~Began(line[i].frame)
      /\ ~Ran(line[i].from, line[i].frame.op, line[i].frame.step)
  BY DEF CInv, FramesInv, LineInv, At
<1>3. gate = line[i].from
  BY <1>1, <1>2, TypeParts DEF CInv, HostTypes
<1>4. current = line[i].from
  BY <1>1, <1>3 DEF CInv, SessionInv, GenInv
<1>5. QED
  BY <1>1, <1>2, <1>3, <1>4

LEMMA AnsweredKeeps ==
  ASSUME CInv, NEW c \in Connections, conn[c].at = "run", Alone(c), Keeps(c),
         conn'[c].at = "finish", conn'[c].result \in {"executed", "uncertain", "rejected"},
         conn'[c].result = "rejected" => ~Began(FrameOf(c)),
         conn'[c].result = "executed" => Ran(c, FrameOf(c).op, FrameOf(c).step),
         gate' = "free", Thinned, running' \in {running, NoItem},
         UNCHANGED <<todo, session, incomplete, closing, current, broken, announces, talk,
                     keys, pressed, ran, events, told>>
  PROVE  CInv'
<1>0. KeyTypes /\ DeviceTypes /\ ToldTypes
  BY TypeParts DEF CInv
<1>1. /\ Framed(c) /\ FrameOf(c).kind \in KeyKinds /\ events \in Nat
      /\ FrameOf(c)' = FrameOf(c)
  BY FrameFacts DEF Framed, Working, CInv, FramesInv, FrameInv, Keeps, FrameOf
<1>2. HandlerStep(c) /\ Fits(c)
  BY <1>1
     DEF HandlerStep, Moves, Permitted, Seated, Working, Keeps, Fits, Framed, KeyKinds
<1>3. SessionInv' /\ TalkInv' /\ GateTypes' /\ HostTypes' /\ TalkTypes'
  BY <1>2, HandlerStepKeeps
<1>4. KeyTypes' /\ DeviceTypes' /\ ToldTypes'
  BY <1>0 DEF KeyTypes, DeviceTypes, ToldTypes, Thinned
<1>5. FrameInv'
  BY <1>2, FrameKept DEF HandlerStep, CInv, FramesInv
<1>6. RanInv'
  BY <1>1, <1>2, RanKept DEF HandlerStep, Unbegun
<1>7. KeyInv' /\ RecordInv'
  BY <1>1, KeysAside DEF session, Keeps
<1>8. ToldInv'
  <2>1. NoneRevived
    BY DEF NoneRevived
  <2>2. QED
    BY <2>1, <1>1, <1>2, ToldKept DEF ToldInv, HandlerStep, session
<1>9. LineInv'
  BY DEF Thinned, LineInv, CInv, FramesInv, NoItem
<1>10. QuietInv'
  <2>1. Lighter
    BY DEF Lighter, Thinned
  <2>2. QED
    BY <2>1, QuietKept DEF CInv, session
<1>11. QED
  BY <1>3, <1>4, <1>5, <1>6, <1>7, <1>8, <1>9, <1>10, TypePartsNext DEF CInv, FramesInv

\* One entry is taken out of a sequence.
LEMMA CutEffect ==
  ASSUME NEW S, NEW s \in Seq(S), NEW k \in 1..Len(s), NEW r,
         r = SubSeq(s, 1, k - 1) \o SubSeq(s, k + 1, Len(s))
  PROVE  /\ r \in Seq(S) /\ Len(r) = Len(s) - 1
         /\ \A i \in 1..Len(r) : r[i] = IF i < k THEN s[i] ELSE s[i + 1]
<1>1. /\ Len(s) \in Nat /\ k \in Nat /\ 1 <= k /\ k <= Len(s)
      /\ \A i \in 1..Len(s) : s[i] \in S
  OBVIOUS
<1>2. PICK a : a = SubSeq(s, 1, k - 1)
  OBVIOUS
<1>3. PICK b : b = SubSeq(s, k + 1, Len(s))
  OBVIOUS
<1>4. a \in Seq(S) /\ Len(a) = k - 1 /\ \A i \in 1..(k - 1) : a[i] = s[i]
  BY <1>1, <1>2
<1>5. b \in Seq(S) /\ Len(b) = Len(s) - k /\ \A i \in 1..(Len(s) - k) : b[i] = s[i + k]
  <2>1. 1..(Len(s) - (k + 1) + 1) = 1..(Len(s) - k)
    BY <1>1
  <2>2. \A i \in (k + 1)..Len(s) : s[i] \in S
    BY <1>1
  <2>3. /\ b \in Seq(S)
        /\ Len(b) = IF k + 1 <= Len(s) THEN Len(s) - (k + 1) + 1 ELSE 0
        /\ \A i \in 1..(Len(s) - (k + 1) + 1) : b[i] = s[k + 1 + i - 1]
    BY <1>1, <1>3, <2>2, SubSeqProperties
  <2>4. Len(b) = Len(s) - k
    BY <1>1, <2>3
  <2>5. ASSUME NEW i \in 1..(Len(s) - k)
        PROVE  b[i] = s[i + k]
    <3>1. i \in 1..(Len(s) - (k + 1) + 1)
      BY <2>1
    <3>2. k + 1 + i - 1 = i + k
      BY <1>1
    <3>3. QED
      BY <2>3, <3>1, <3>2
  <2>6. QED
    BY <2>3, <2>4, <2>5
<1>6. /\ a \o b \in Seq(S) /\ Len(a \o b) = Len(a) + Len(b)
      /\ \A i \in 1..(Len(a) + Len(b)) :
           (a \o b)[i] = IF i <= Len(a) THEN a[i] ELSE b[i - Len(a)]
  BY <1>4, <1>5, ConcatProperties, Zenon
<1>7. r = a \o b
  BY <1>2, <1>3
<1>8. r \in Seq(S) /\ Len(r) = Len(s) - 1
      /\ \A i \in 1..(Len(s) - 1) : r[i] = IF i <= k - 1 THEN a[i] ELSE b[i - (k - 1)]
  <2>1. Len(a) + Len(b) = Len(s) - 1
    BY <1>1, <1>4, <1>5
  <2>2. Len(a) = k - 1
    BY <1>4
  <2>3. QED
    BY <1>6, <1>7, <2>1, <2>2, Zenon
<1>9. ASSUME NEW i \in 1..(Len(s) - 1)
      PROVE  r[i] = IF i < k THEN s[i] ELSE s[i + 1]
  <2>2. CASE i < k
    <3>1. i <= k - 1 /\ i \in 1..(k - 1)
      BY <2>2, <1>1
    <3>2. QED
      BY <2>2, <3>1, <1>8, <1>4
  <2>3. CASE ~(i < k)
    <3>1. i - (k - 1) \in 1..(Len(s) - k) /\ i - (k - 1) + k = i + 1 /\ ~(i <= k - 1)
      BY <2>3, <1>1
    <3>2. QED
      BY <2>3, <3>1, <1>8, <1>5
  <2>4. QED
    BY <2>2, <2>3
<1>10. QED
  BY <1>8, <1>9

LEMMA TimeoutStep ==
  ASSUME CInv, NEW c \in Connections, Timeout(c)
  PROVE  CInv'
<1> DEFINE item == [from |-> c, frame |-> conn[c].frame]
<1>1. conn[c].at = "run" /\ gate = c
  BY TypeParts DEF Timeout, At, CInv, HostTypes
<1>2. /\ Alone(c) /\ Keeps(c) /\ conn'[c].at = "finish" /\ conn'[c].result = "uncertain"
  BY TakesEffect, TypeParts DEF Timeout, CInv, HostTypes, Places, Results
<1>3. \A i \in DOMAIN line : line[i].frame.kind \in KeyKinds => i = Len(line) /\ line[i] = item
  <2> SUFFICES ASSUME NEW i \in DOMAIN line, line[i].frame.kind \in KeyKinds
               PROVE  i = Len(line) /\ line[i] = item
    OBVIOUS
  <2>1. i = Len(line) /\ line[i].from = c /\ line[i].frame = conn[c].frame
    BY <1>1, KeyInLine DEF FrameOf
  <2>2. line[i] \in Items
    BY EntryTypes DEF CInv
  <2>3. QED
    BY <2>1, <2>2 DEF Items
<1>4. Thinned
  <2>1. line \in Seq(Items) /\ Withdrawn(item)
    BY TypeParts DEF CInv, DeviceTypes, Timeout
  <2> HIDE DEF item
  <2>2. CASE (\A k \in DOMAIN line : line[k] # item) /\ line' = line
    BY <2>1, <2>2, <1>3 DEF Thinned
  <2>3. CASE \E k \in DOMAIN line : /\ line[k] = item
                                    /\ line' = SubSeq(line, 1, k - 1) \o SubSeq(line, k + 1, Len(line))
    <3>1. DOMAIN line = 1..Len(line) /\ Len(line) \in Nat
      BY EntryTypes DEF CInv
    <3>2. PICK k \in 1..Len(line) :
            line[k] = item /\ line' = SubSeq(line, 1, k - 1) \o SubSeq(line, k + 1, Len(line))
      BY <3>1, <2>3
    <3>3. /\ line' \in Seq(Items) /\ Len(line') = Len(line) - 1
          /\ \A i \in 1..Len(line') : line'[i] = IF i < k THEN line[i] ELSE line[i + 1]
      BY <3>2, <2>1, CutEffect, ZenonT(30)
    <3>4. DOMAIN line' = 1..Len(line')
      BY <3>3
    <3>5. ASSUME NEW i \in DOMAIN line'
          PROVE  \E j \in 1..Len(line) : j # k /\ line'[i] = line[j]
      <4>1. i \in 1..(Len(line) - 1)
        BY <3>3, <3>4
      <4>2. CASE i < k
        BY <4>1, <4>2, <3>1, <3>3
      <4>3. CASE ~(i < k)
        <5>1. i + 1 \in 1..Len(line) /\ i + 1 # k /\ line'[i] = line[i + 1]
          BY <4>1, <4>3, <3>1, <3>3
        <5>2. QED
          BY <5>1
      <4>4. QED
        BY <4>2, <4>3
    <3>6. \A j \in 1..Len(line) : j # k => line[j].frame.kind \notin KeyKinds
      BY <3>1, <3>2, <1>3
    <3>7. QED
      BY <3>1, <3>3, <3>5, <3>6 DEF Thinned
  <2>4. QED
    BY <2>1, <2>2, <2>3 DEF Withdrawn
<1>5. /\ gate' = "free" /\ running' = running
      /\ UNCHANGED <<todo, session, incomplete, closing, current, broken, announces, talk,
                     keys, pressed, ran, events, told>>
  BY DEF Timeout, Quiet
<1>6. QED
  BY <1>1, <1>2, <1>4, <1>5, AnsweredKeeps

\* A key frame that is begun or refused was the only one in the line.
LEMMA HeadFacts ==
  ASSUME CInv, line # <<>>
  PROVE  /\ Head(line) \in Items /\ Head(line) = line[1] /\ 1 \in DOMAIN line
         /\ Tail(line) \in Seq(Items)
         /\ \A i \in DOMAIN Tail(line) : \E k \in DOMAIN line : Tail(line)[i] = line[k]
         /\ Head(line).frame.kind \in KeyKinds => Tail(line) = <<>> /\ Len(line) = 1
<1>1. line \in Seq(Items) /\ Len(line) \in Nat /\ DOMAIN line = 1..Len(line)
  BY EntryTypes DEF CInv, TypeInv, TypeOK
<1>2. /\ Len(line) # 0 /\ Head(line) = line[1] /\ Head(line) \in Items
      /\ Tail(line) \in Seq(Items) /\ Len(Tail(line)) = Len(line) - 1
      /\ \A i \in 1..(Len(line) - 1) : Tail(line)[i] = line[i + 1]
  BY <1>1
<1>3. 1 \in DOMAIN line /\ DOMAIN Tail(line) = 1..(Len(line) - 1)
  BY <1>1, <1>2
<1>4. \A i \in DOMAIN Tail(line) : i + 1 \in DOMAIN line /\ Tail(line)[i] = line[i + 1]
  BY <1>1, <1>2, <1>3
<1>5. Head(line).frame.kind \in KeyKinds => 1 = Len(line)
  BY <1>2, <1>3, KeyInLine
<1>6. Len(line) = 1 => Tail(line) = <<>>
  <2>1. \A q \in Seq(Items) : Len(q) = 0 => q = <<>>
    BY EmptySeq
  <2>2. Len(line) = 1 => Len(Tail(line)) = 0
    BY <1>2
  <2>3. QED
    BY <1>2, <2>1, <2>2
<1>7. QED
  BY <1>2, <1>3, <1>4, <1>5, <1>6

LEMMA RefusesStep ==
  ASSUME CInv, InjectorRefuses
  PROVE  CInv'
<1> DEFINE i == Head(line)
           c == i.from
<1>1. line # <<>> /\ i.frame.kind \in KeyKinds
  BY DEF InjectorRefuses, KeyKinds
<1>2. i = line[1] /\ 1 \in DOMAIN line /\ Tail(line) = <<>>
  BY <1>1, HeadFacts
<1>3. c \in Connections /\ conn[c].at = "run" /\ ~Began(FrameOf(c))
  BY <1>1, <1>2, KeyInLine
<1>4. /\ line' = <<>> /\ Takes(c, "rejected", "finish") /\ gate' = "free"
      /\ running' = running
      /\ UNCHANGED <<todo, session, incomplete, closing, current, broken, announces, talk,
                     keys, pressed, ran, events, told>>
  BY <1>2 DEF InjectorRefuses, Gives, Takes
<1>5. Thinned
  BY <1>4 DEF Thinned
<1>6. Alone(c) /\ Keeps(c) /\ conn'[c].at = "finish" /\ conn'[c].result = "rejected"
  BY <1>3, <1>4, TakesEffect, TypeParts DEF CInv, HostTypes, Places, Results
<1> HIDE DEF c
<1>7. QED
  BY <1>3, <1>4, <1>5, <1>6, AnsweredKeeps

-----------------------------------------------------------------------------
\* Steps of the device that no handler hears of.
Unheeded == UNCHANGED <<control, hosts, talk, keys, events, told>>

LEMMA UnheededKeeps ==
  ASSUME CInv, Unheeded
  PROVE  /\ SessionInv' /\ TalkInv' /\ GateTypes' /\ HostTypes' /\ TalkTypes' /\ KeyTypes'
         /\ ToldTypes'
         /\ UNCHANGED <<conn, current, epoch, keys, told, events, granted, incomplete, closing,
                        todo>>
         /\ events \in Nat /\ conn \in [Connections -> Handler]
<1> USE DEF Unheeded, control, hosts, session
<1>1. GateTypes /\ HostTypes /\ TalkTypes /\ KeyTypes /\ ToldTypes
  BY TypeParts DEF CInv
<1>2. SessionInv'
  BY DEF CInv, SessionInv, GateInv, JoinInv, GenInv, At, Framed, Pass
<1>3. TalkInv'
  <2>1. TalkAside
    BY DEF TalkAside
  <2>2. QED
    BY <2>1, TalkKept DEF CInv
<1>4. GateTypes' /\ HostTypes' /\ TalkTypes' /\ KeyTypes' /\ ToldTypes'
  BY <1>1 DEF GateTypes, GateTypeOK, HostTypes, TalkTypes, KeyTypes, ToldTypes, talk
<1>5. events \in Nat /\ conn \in [Connections -> Handler]
  BY <1>1, SessionAssumption DEF ToldTypes, HostTypes, SessionAssumption
<1>6. QED
  BY <1>2, <1>3, <1>4, <1>5

LEMMA LateResetStep ==
  ASSUME CInv, LateReset
  PROVE  CInv'
<1>1. Unheeded /\ UNCHANGED <<line, running, ran>> /\ pressed' = Nobody /\ incomplete
  BY DEF LateReset, Unheeded
<1>2. FramesInv'
  <2>1. FramesAside
    BY <1>1, UnheededKeeps DEF FramesAside
  <2>2. QED
    BY <2>1, FramesKept DEF CInv
<1>3. QuietInv'
  BY <1>1, UnheededKeeps DEF QuietInv
<1>4. DeviceTypes'
  BY <1>1, TypeParts DEF CInv, DeviceTypes
<1>5. QED
  BY <1>1, <1>2, <1>3, <1>4, UnheededKeeps, TypePartsNext DEF CInv

LEMMA EndsStep ==
  ASSUME CInv, InjectorEnds
  PROVE  CInv'
<1> DEFINE c == running.from
<1>1. /\ running \in Items /\ c \in Connections /\ running # NoItem /\ running' = NoItem
      /\ UNCHANGED <<todo, session, incomplete, closing, current, broken, announces, talk, keys,
                     line, pressed, ran, events, told>>
  BY TypeParts DEF CInv, DeviceTypes, InjectorEnds, Idle, Items
<1> HIDE DEF c
<1>2. CASE conn[c].at = "run" /\ conn[c].frame = running.frame
  <2>1. PICK result \in {"executed", "uncertain"} : Takes(c, result, "finish")
    BY <1>2 DEF InjectorEnds, Gives, Takes, Waits, c
  <2>2. gate' = "free"
    BY <1>2 DEF InjectorEnds, Waits, c
  <2>3. Alone(c) /\ Keeps(c) /\ conn'[c].at = "finish" /\ conn'[c].result = result
    BY <1>1, <2>1, TakesEffect, TypeParts DEF CInv, HostTypes, Places, Results
  <2>4. FrameOf(c) = running.frame /\ running.frame.kind \in KeyKinds
    BY <1>1, <1>2 DEF FrameOf, CInv, FramesInv, FrameInv, Framed, Working
  <2>5. Began(FrameOf(c)) /\ Ran(c, FrameOf(c).op, FrameOf(c).step)
    <3>1. PICK k \in DOMAIN ran : ran[k] = running
      BY <1>1, <2>4 DEF CInv, FramesInv, LineInv
    <3>2. QED
      BY <3>1, <2>4 DEF Began, Ran, c
  <2>6. Thinned
    <3>1. \A i \in DOMAIN line : line[i].frame.kind \notin KeyKinds
      <4> SUFFICES ASSUME NEW i \in DOMAIN line, line[i].frame.kind \in KeyKinds
                   PROVE  FALSE
        OBVIOUS
      <4>1. /\ gate = line[i].from /\ FrameOf(line[i].from) = line[i].frame
            /\ ~Began(line[i].frame)
        BY KeyInLine
      <4>2. gate = c
        BY <1>1, <1>2, TypeParts DEF CInv, HostTypes
      <4>3. QED
        BY <4>1, <4>2, <2>5
    <3>2. QED
      BY <3>1, <1>1, TypeParts DEF Thinned, CInv, DeviceTypes
  <2>7. QED
    BY <1>1, <1>2, <2>2, <2>3, <2>5, <2>6, AnsweredKeeps
<1>3. CASE ~(conn[c].at = "run" /\ conn[c].frame = running.frame)
  <2>1. Unheeded
    BY <1>1, <1>3 DEF Unheeded, InjectorEnds, Waits, control, hosts, c
  <2>2. FramesInv'
    <3>1. FramesAside
      BY <1>1, <2>1, UnheededKeeps DEF FramesAside
    <3>2. QED
      BY <3>1, FramesKept DEF CInv
  <2>3. QuietInv'
    <3>1. Lighter
      BY <1>1 DEF Lighter
    <3>2. QED
      BY <2>1, <3>1, QuietKept, UnheededKeeps DEF CInv
  <2>4. DeviceTypes'
    BY <1>1, TypeParts DEF CInv, DeviceTypes
  <2>5. QED
    BY <2>1, <2>2, <2>3, <2>4, UnheededKeeps, TypePartsNext DEF CInv
<1>4. QED
  BY <1>2, <1>3

\* The first of the line is begun.  A plain frame changes no history.
LEMMA BeginsPlain ==
  ASSUME CInv, InjectorBegins, Head(line).frame.kind \notin KeyKinds
  PROVE  FramesInv'
<1>1. /\ Unheeded /\ line # <<>> /\ line' = Tail(line) /\ running' = Head(line) /\ ran' = ran
  BY DEF InjectorBegins, Unheeded, KeyKinds
<1>2. FramesAside
  BY <1>1, UnheededKeeps DEF FramesAside
<1>3. QED
  BY <1>2, FramesKept DEF CInv

\* What the beginning of a key frame adds to the history.
LEMMA AppendEffect ==
  ASSUME TypeInv, NEW e \in Items, ran' = Append(ran, e)
  PROVE  /\ ran' \in Seq(Items) /\ Len(ran') = Len(ran) + 1 /\ ran'[Len(ran) + 1] = e
         /\ DOMAIN ran' = 1..(Len(ran) + 1)
         /\ \A k \in DOMAIN ran : k \in DOMAIN ran' /\ ran'[k] = ran[k]
         /\ \A k \in DOMAIN ran' : k \in DOMAIN ran \/ (k = Len(ran) + 1 /\ ran'[k] = e)
         /\ \A f : Began(f)' <=> Began(f) \/ f = e.frame
         /\ \A d, o, s : Ran(d, o, s)' <=>
              Ran(d, o, s) \/ (d = e.from /\ o = e.frame.op /\ s = e.frame.step)
<1>1. ran \in Seq(Items) /\ Len(ran) \in Nat /\ DOMAIN ran = 1..Len(ran)
  BY EntryTypes DEF TypeInv, TypeOK, Items
<1>2. /\ ran' \in Seq(Items) /\ Len(ran') = Len(ran) + 1 /\ ran'[Len(ran) + 1] = e
      /\ \A k \in 1..Len(ran) : ran'[k] = ran[k]
  BY <1>1, AppendProperties
<1>3. DOMAIN ran' = 1..(Len(ran) + 1)
  BY <1>2
<1>4. /\ \A k \in DOMAIN ran : k \in DOMAIN ran' /\ ran'[k] = ran[k]
      /\ \A k \in DOMAIN ran' : k \in DOMAIN ran \/ (k = Len(ran) + 1 /\ ran'[k] = e)
      /\ Len(ran) + 1 \in DOMAIN ran'
  BY <1>1, <1>2, <1>3
<1>5. \A f : Began(f)' <=> Began(f) \/ f = e.frame
  BY <1>2, <1>4 DEF Began
<1>6. \A d, o, s : Ran(d, o, s)' <=>
        Ran(d, o, s) \/ (d = e.from /\ o = e.frame.op /\ s = e.frame.step)
  BY <1>2, <1>4 DEF Ran
<1>7. QED
  BY <1>2, <1>3, <1>4, <1>5, <1>6

LEMMA BeginsKey ==
  ASSUME CInv, InjectorBegins, Head(line).frame.kind \in KeyKinds
  PROVE  FramesInv'
<1> DEFINE e == Head(line)
           c == Head(line).from
           f == Head(line).frame
<1>1. /\ Unheeded /\ line # <<>> /\ line' = <<>> /\ running' = e /\ ran' = Append(ran, e)
      /\ e \in Items /\ e = line[1] /\ 1 \in DOMAIN line
  BY HeadFacts DEF InjectorBegins, Unheeded, KeyKinds
<1>2. /\ c \in Connections /\ conn[c].at = "run" /\ FrameOf(c) = f /\ current = c
      /\ ~Began(f) /\ ~Ran(c, f.op, f.step) /\ f.kind \in KeyKinds
  BY <1>1, KeyInLine
<1>3. /\ Framed(c) /\ f.step \in Steps /\ f.op \in Operations /\ f.id \in Nat
      /\ f.id \in 1..events /\ events \in Nat
      /\ Busy(c, f.op)
  BY <1>2, FrameFacts DEF Framed, Working, CInv, FramesInv, FrameInv, Busy
<1>4. /\ keys[f.op].epoch = epoch /\ f.step + 1 = keys[f.op].next /\ keys[f.op].active
      /\ f.step > 1 => Ran(c, f.op, f.step - 1)
  BY <1>2, <1>3 DEF CInv, FramesInv, KeyInv, OperationOf
<1>5. /\ ran' \in Seq(Items) /\ Len(ran') = Len(ran) + 1 /\ ran'[Len(ran) + 1] = e
      /\ DOMAIN ran' = 1..(Len(ran) + 1)
      /\ \A k \in DOMAIN ran : k \in DOMAIN ran' /\ ran'[k] = ran[k]
      /\ \A k \in DOMAIN ran' : k \in DOMAIN ran \/ (k = Len(ran) + 1 /\ ran'[k] = e)
      /\ \A g : Began(g)' <=> Began(g) \/ g = f
      /\ \A d, o, s : Ran(d, o, s)' <=>
           Ran(d, o, s) \/ (d = c /\ o = f.op /\ s = f.step)
  BY <1>1, AppendEffect DEF CInv
<1>6. UNCHANGED <<conn, current, epoch, keys, told, events>>
  BY <1>1, UnheededKeeps
<1>7. /\ DOMAIN ran = 1..Len(ran) /\ Len(ran) \in Nat
      /\ \A k \in DOMAIN ran : ran[k].frame.id \in Nat
  BY EntryTypes DEF CInv
<1>8. \A d \in Connections : /\ FrameOf(d)' = FrameOf(d)
                             /\ Framed(d) /\ d # c => FrameOf(d) # f
                             /\ \A o : Busy(d, o)' <=> Busy(d, o)
  BY <1>2, <1>3, <1>6 DEF FrameOf, CInv, FramesInv, FrameInv, Busy
<1> HIDE DEF e, c, f
<1>9. FrameInv'
  BY <1>6 DEF CInv, FramesInv, FrameInv, Framed, FrameOf, At
<1>10. LineInv'
  BY <1>1, <1>5, <1>7 DEF LineInv
<1>11. RanInv'
  <2>1. ASSUME NEW k \in DOMAIN ran'
        PROVE  ran'[k].frame.id <= events /\ conn[ran'[k].from].at \notin {"new", "joining"}
    <3>1. CASE k \in DOMAIN ran
      BY <3>1, <1>5 DEF CInv, FramesInv, RanInv
    <3>2. CASE ran'[k] = e
      <4>1. ran'[k].frame = f /\ ran'[k].from = c
        BY <3>2 DEF e, f, c
      <4>2. QED
        BY <4>1, <1>2, <1>3
    <3>3. QED
      BY <2>1, <3>1, <3>2, <1>5
  <2>2. ASSUME NEW d \in Connections, Unbegun(d)
        PROVE  ~Began(FrameOf(d))'
    <3>1. d # c /\ Framed(d) /\ ~Began(FrameOf(d))
      BY <2>2, <1>2 DEF Unbegun, Framed, Working, CInv, FramesInv, RanInv
    <3>2. FrameOf(d)' = FrameOf(d) /\ FrameOf(d) # f
      BY <3>1, <1>8
    <3>3. \A g : g = FrameOf(d) => ~Began(g)'
      BY <3>1, <3>2, <1>5
    <3>4. QED
      BY <3>2, <3>3 DEF Began
  <2>3. KeysInOrder'
    <3> DEFINE Before(j) ==
          /\ \A i \in 1..(j - 1) : ~Same(ran'[i], ran'[j])
          /\ ran'[j].frame.step > 1 =>
               \E i \in 1..(j - 1) : Same(ran'[i], [ran'[j] EXCEPT !.frame.step = @ - 1])
    <3>1. ASSUME NEW j \in DOMAIN ran
          PROVE  Before(j)
      <4>1. \A i \in 1..(j - 1) : i \in DOMAIN ran /\ ran'[i] = ran[i]
        BY <1>5, <1>7
      <4>2. ran'[j] = ran[j]
        BY <1>5
      <4>3. /\ \A i \in 1..(j - 1) : ~Same(ran[i], ran[j])
            /\ ran[j].frame.step > 1 =>
                 \E i \in 1..(j - 1) : Same(ran[i], [ran[j] EXCEPT !.frame.step = @ - 1])
        BY DEF CInv, FramesInv, RanInv, KeysInOrder
      <4>4. QED
        BY <4>1, <4>2, <4>3
    <3>2. Before(Len(ran) + 1)
      <4>1. ran'[Len(ran) + 1] = e /\ e.from = c /\ e.frame = f
        BY <1>5 DEF e, c, f
      <4>2. \A i \in 1..(Len(ran) + 1 - 1) : i \in DOMAIN ran /\ ran'[i] = ran[i]
        BY <1>5, <1>7
      <4>3. \A i \in DOMAIN ran : ~Same(ran[i], e)
        BY <4>1, <1>2 DEF Same, Ran
      <4> DEFINE b == [e EXCEPT !.frame.step = @ - 1]
      <4>4. b.from = c /\ b.frame.op = f.op /\ b.frame.step = f.step - 1
        <5>1. b = [e EXCEPT !.frame = [f EXCEPT !.step = f.step - 1]]
          BY <4>1
        <5>2. e \in Items /\ f \in Frames
          BY <1>1, <4>1 DEF Items
        <5>3. QED
          BY <5>1, <5>2, <4>1 DEF Items, Frames
      <4> HIDE DEF b
      <4>5. f.step > 1 => \E i \in DOMAIN ran : Same(ran[i], b)
        BY <4>4, <1>4 DEF Ran, Same
      <4>6. DOMAIN ran = 1..(Len(ran) + 1 - 1)
        BY <1>7
      <4>7. QED
        BY <4>1, <4>2, <4>3, <4>5, <4>6 DEF b
    <3>3. \A j \in DOMAIN ran' : Before(j)
      BY <3>1, <3>2, <1>5
    <3>4. QED
      BY <3>3 DEF KeysInOrder, Same
  <2>4. QED
    BY <2>1, <2>2, <2>3, <1>6 DEF RanInv, Unbegun
<1>12. KeyInv'
  <2> SUFFICES ASSUME NEW d \in Connections, NEW o \in Operations, d = current
               PROVE  OperationOf(d, o)'
    BY <1>6 DEF KeyInv
  <2>1. OperationOf(d, o) /\ d = c
    BY <1>2 DEF CInv, FramesInv, KeyInv
  <2>2. ASSUME NEW s \in Steps, Ran(d, o, s)'
        PROVE  keys[o].epoch = epoch /\ s < keys[o].next
    <3>1. CASE Ran(d, o, s)
      BY <3>1, <2>1 DEF OperationOf
    <3>2. CASE o = f.op /\ s = f.step
      BY <3>2, <1>3, <1>4, SessionAssumption DEF Steps, SessionAssumption
    <3>3. QED
      BY <3>1, <3>2, <2>1, <2>2, <1>5
  <2>3. /\ Busy(d, o)' <=> Busy(d, o)
        /\ FrameOf(d)' = FrameOf(d)
    BY <1>8
  <2>4. \A s : Ran(d, o, s) => Ran(d, o, s)'
    BY <1>5
  <2>5. QED
    BY <2>1, <2>2, <2>3, <2>4, <1>2, <1>6 DEF OperationOf, At
<1>13. RecordInv'
  <2>1. \A d, o, s : Ran(d, o, s) => Ran(d, o, s)'
    BY <1>5
  <2>2. ASSUME NEW d \in Connections, NEW o \in Operations, RecordOf(d, o)
        PROVE  RecordOf(d, o)'
    BY <2>1, <2>2, <1>6, <1>8 DEF RecordOf
  <2>3. ASSUME NEW d \in Connections, conn[d].at \in {"finish", "write"},
               conn[d].result = "executed"
        PROVE  Ran(d, FrameOf(d).op, FrameOf(d).step)'
    <3>1. Ran(d, FrameOf(d).op, FrameOf(d).step)
      BY <2>3 DEF CInv, FramesInv, RecordInv
    <3>2. \A o, s : o = FrameOf(d).op /\ s = FrameOf(d).step => Ran(d, o, s)'
      BY <3>1, <2>1
    <3>3. QED
      BY <3>2, <1>8 DEF Ran
  <2>4. QED
    BY <2>2, <2>3, <1>6, <1>8 DEF CInv, FramesInv, RecordInv, At, FrameOf
<1>14. ToldInv'
  <2> SUFFICES ASSUME NEW t \in told
               PROVE  ToldOf(t)'
    BY <1>6 DEF ToldInv
  <2>1. ToldOf(t) /\ t.from \in Connections /\ t.ran \in Nat
    BY DEF CInv, FramesInv, ToldInv, TypeInv, Told
  <2>2. t.frame # f
    BY <2>1, <1>2, <1>3 DEF ToldOf
  <2>3. t.frame.op \in Operations /\ t.frame.id <= events
        /\ conn[t.from].at \notin {"new", "joining"}
        /\ \A d \in Connections : Framed(d) => FrameOf(d).id # t.frame.id
    BY <2>1 DEF ToldOf
  <2>4. t.ran <= Len(ran')
    BY <2>1, <1>5, <1>7 DEF ToldOf
  <2>5. t.result = "executed" => Ran(t.from, t.frame.op, t.frame.step)'
    BY <2>1, <1>5 DEF ToldOf
  <2>6. t.result = "rejected" => ~Began(t.frame)'
    BY <2>1, <2>2, <1>5 DEF ToldOf
  <2>7. ASSUME t.result = "cancelled"
        PROVE  /\ t.from = current => keys[t.frame.op].epoch = epoch /\ ~keys[t.frame.op].active
               /\ \A i \in DOMAIN ran' :
                    ran'[i].from = t.from /\ ran'[i].frame.op = t.frame.op => i <= t.ran
    <3>1. t.from = current => keys[t.frame.op].epoch = epoch /\ ~keys[t.frame.op].active
      BY <2>1, <2>7 DEF ToldOf
    <3>2. ~(e.from = t.from /\ e.frame.op = t.frame.op)
      BY <3>1, <1>2, <1>4 DEF e, c, f
    <3>3. \A i \in DOMAIN ran' :
            ran'[i].from = t.from /\ ran'[i].frame.op = t.frame.op => i \in DOMAIN ran
      BY <3>2, <1>5
    <3>4. QED
      BY <2>1, <2>7, <3>1, <3>3, <1>5 DEF ToldOf
  <2>8. QED
    BY <2>3, <2>4, <2>5, <2>6, <2>7, <1>6 DEF ToldOf, Framed, FrameOf
<1>15. QED
  BY <1>9, <1>10, <1>11, <1>12, <1>13, <1>14 DEF FramesInv

LEMMA BeginsStep ==
  ASSUME CInv, InjectorBegins
  PROVE  CInv'
<1> DEFINE e == Head(line)
<1>1. /\ Unheeded /\ line # <<>> /\ line' = Tail(line) /\ running' = e /\ running = NoItem
      /\ pressed' \in {e.from, Nobody, pressed}
      /\ ran' \in {ran, Append(ran, e)}
  BY DEF InjectorBegins, Unheeded, Idle
<1>2. /\ e \in Items /\ e = line[1] /\ 1 \in DOMAIN line /\ Tail(line) \in Seq(Items)
      /\ \A i \in DOMAIN Tail(line) : \E k \in DOMAIN line : Tail(line)[i] = line[k]
  BY <1>1, HeadFacts
<1> HIDE DEF e
<1>3. FramesInv'
  BY BeginsPlain, BeginsKey
<1>4. DeviceTypes'
  <2>1. e.from \in Connections /\ DeviceTypes
    BY <1>2, TypeParts DEF Items, CInv
  <2>2. ran' \in Seq(Items)
    <3>1. ran \in Seq(Items)
      BY <2>1 DEF DeviceTypes, Items
    <3>2. Append(ran, e) \in Seq(Items)
      BY <3>1, <1>2, AppendProperties
    <3>3. QED
      BY <3>1, <3>2, <1>1
  <2>3. QED
    BY <1>1, <1>2, <2>1, <2>2 DEF DeviceTypes, Items
<1>5. QuietInv'
  <2>1. Present' \subseteq Present
    BY <1>1, <1>2 DEF Present
  <2>2. QED
    BY <1>1, <2>1, UnheededKeeps DEF CInv, QuietInv, Unheeded, control, session
<1>6. QED
  BY <1>1, <1>3, <1>4, <1>5, UnheededKeeps, TypePartsNext DEF CInv

-----------------------------------------------------------------------------
(* A frame gets to the gate.                                               *)

\* What all the ways through Enter have in common.
EnterStep(c) ==
  /\ HandlerStep(c) /\ Fits(c) /\ conn[c].at = "gate"
  /\ Unbegun(c)' => ~Began(FrameOf(c)')
  /\ \/ FrameOf(c).kind \notin KeyKinds /\ conn'[c].at \in {"loop", "write"}
     \/ FrameOf(c)' = FrameOf(c) /\ conn'[c].at \in {"run", "finish"}
  /\ conn'[c].at \in {"finish", "write"} => conn'[c].result = "rejected"
  /\ UNCHANGED <<keys, running, pressed, ran, events, told>>

LEMMA EnterStepKeeps ==
  ASSUME CInv, NEW c \in Connections, EnterStep(c), LineInv', QuietInv', line' \in Seq(Items)
  PROVE  CInv'
<1> USE DEF EnterStep
<1>1. /\ SessionInv' /\ TalkInv' /\ GateTypes' /\ HostTypes' /\ TalkTypes'
  BY HandlerStepKeeps
<1>2. KeyTypes' /\ DeviceTypes' /\ ToldTypes' /\ events \in Nat
  BY TypeParts, SessionAssumption
     DEF CInv, KeyTypes, DeviceTypes, ToldTypes, SessionAssumption
<1>3. FrameInv'
  BY FrameKept DEF HandlerStep, CInv, FramesInv
<1>4. RanInv'
  BY <1>2, RanKept DEF HandlerStep
<1>5. UNCHANGED <<ran, epoch, current>> /\ Alone(c) /\ conn'[c].gen = conn[c].gen
  BY DEF HandlerStep, session, Moves
<1>6. KeyInv' /\ RecordInv'
  <2>1. CASE FrameOf(c).kind \notin KeyKinds /\ conn'[c].at \in {"loop", "write"}
    <3>1. \A o \in Operations : ~Busy(c, o) /\ ~Busy(c, o)'
      BY <2>1 DEF Busy
    <3>2. QED
      BY <2>1, <3>1, <1>5, KeysAside
  <2>2. CASE FrameOf(c)' = FrameOf(c) /\ conn'[c].at \in {"run", "finish"}
    BY <2>2, <1>5, KeysAside
  <2>3. QED
    BY <2>1, <2>2
<1>7. ToldInv'
  <2>1. NoneRevived
    BY DEF NoneRevived
  <2>2. QED
    BY <2>1, <1>2, <1>5, ToldKept DEF HandlerStep, Fits, Framed, Keeps, FrameOf, ToldInv
<1>8. QED
  BY <1>1, <1>2, <1>3, <1>4, <1>6, <1>7, TypePartsNext DEF CInv, FramesInv

LEMMA EnterHandlerStep ==
  ASSUME CInv, NEW c \in Connections, Enter(c)
  PROVE  EnterStep(c)
<1> DEFINE f == FrameOf(c)
<1>1. /\ Framed(c) /\ conn[c].at = "gate" /\ f = conn[c].frame /\ conn[c] \in Handler
      /\ f.kind \in {"down", "up"} \cup KeyKinds
      /\ conn[c].result = "rejected" /\ ~Began(f) /\ conn[c].gen # 0
      /\ Pass(c).gen = conn[c].gen /\ Pass(c).epoch = conn[c].gen
  <2>1. conn[c].at = "gate" /\ Framed(c)
    BY DEF Enter, At, Framed, Working
  <2>2. f.kind # "cancel" /\ conn[c].result = "rejected" /\ ~Began(f)
    BY <2>1 DEF CInv, FramesInv, FrameInv, RanInv, Unbegun, At
  <2>3. f \in Frames /\ conn[c] \in Handler
    BY <2>1, FrameFacts
  <2>4. Pass(c).gen = conn[c].gen /\ Pass(c).epoch = conn[c].gen /\ conn[c].gen # 0
    BY <2>1 DEF CInv, SessionInv, GenInv
  <2>5. QED
    BY <2>1, <2>2, <2>3, <2>4 DEF Frames, KeyKinds, FrameOf
<1>2. /\ UNCHANGED <<todo, session, incomplete, closing, current, broken, announces, talk>>
      /\ UNCHANGED <<keys, running, pressed, ran, events, told>>
      /\ gate = "free" /\ HostTypes /\ GateTypes
  BY TypeParts DEF Enter, Quiet, CInv
<1>3. \/ /\ Rests(c, "loop") /\ gate' = gate /\ f.kind \in {"down", "up"}
      \/ /\ Goes(c, "write") /\ gate' = gate /\ f.kind \in {"down", "up"}
      \/ /\ Takes(c, "rejected", "finish") /\ gate' = gate /\ f.kind \in KeyKinds
      \/ /\ Goes(c, "run") /\ gate' = c /\ f.kind \in KeyKinds /\ Honoured(Pass(c))
  BY <1>1 DEF Enter, FrameOf
<1>4. CASE Rests(c, "loop") /\ gate' = gate /\ f.kind \in {"down", "up"}
  <2>1. Alone(c) /\ conn'[c].at = "loop" /\ conn'[c].gen = conn[c].gen
    BY <1>2, <1>4, RestsEffect DEF HostTypes, Places
  <2>2. QED
    BY <2>1, <1>1, <1>2, <1>4 DEF EnterStep, HandlerStep, Moves, Permitted, Seated, Working,
                                  Fits, Unbegun, KeyKinds
<1>5. CASE Goes(c, "write") /\ gate' = gate /\ f.kind \in {"down", "up"}
  <2>1. Alone(c) /\ Keeps(c) /\ conn'[c].at = "write" /\ conn'[c].result = conn[c].result
    BY <1>2, <1>5, GoesEffect DEF HostTypes, Places
  <2>2. FrameOf(c)' = FrameOf(c)
    BY <2>1 DEF Keeps, FrameOf
  <2>3. QED
    BY <2>1, <2>2, <1>1, <1>2, <1>5 DEF EnterStep, HandlerStep, Moves, Permitted, Seated,
                                  Working, Fits, Unbegun, KeyKinds, Keeps, Framed
<1>6. CASE Takes(c, "rejected", "finish") /\ gate' = gate /\ f.kind \in KeyKinds
  <2>1. Alone(c) /\ Keeps(c) /\ conn'[c].at = "finish" /\ conn'[c].result = "rejected"
    BY <1>2, <1>6, TakesEffect DEF HostTypes, Places, Results
  <2>2. FrameOf(c)' = FrameOf(c)
    BY <2>1 DEF Keeps, FrameOf
  <2>3. QED
    BY <2>1, <2>2, <1>1, <1>2, <1>6 DEF EnterStep, HandlerStep, Moves, Permitted, Seated,
                                  Working, Fits, Unbegun, KeyKinds, Keeps, Framed
<1>7. CASE Goes(c, "run") /\ gate' = c /\ f.kind \in KeyKinds /\ Honoured(Pass(c))
  <2>1. Alone(c) /\ Keeps(c) /\ conn'[c].at = "run" /\ conn'[c].result = conn[c].result
    BY <1>2, <1>7, GoesEffect DEF HostTypes, Places
  <2>2. FrameOf(c)' = FrameOf(c)
    BY <2>1 DEF Keeps, FrameOf
  <2>3. current = c
    BY <1>1, <1>7, FrameFacts DEF Honoured
  <2>4. QED
    BY <2>1, <2>2, <2>3, <1>1, <1>2, <1>7 DEF EnterStep, HandlerStep, Moves, Permitted, Seated,
                                  Working, Fits, Unbegun, KeyKinds, Keeps, Framed
<1>8. QED
  BY <1>3, <1>4, <1>5, <1>6, <1>7

LEMMA EnterKeeps ==
  ASSUME CInv, NEW c \in Connections, Enter(c)
  PROVE  CInv'
<1> DEFINE item == [from |-> c, frame |-> FrameOf(c)]
<1>1. EnterStep(c)
  BY EnterHandlerStep
<1>2. UNCHANGED <<current, granted, closing, incomplete, todo, running, pressed, ran>>
      /\ conn[c].at = "gate" /\ Framed(c) /\ line \in Seq(Items) /\ gate = "free"
  BY <1>1, TypeParts
     DEF EnterStep, HandlerStep, session, Framed, Working, CInv, DeviceTypes, Enter
<1>3. \/ line' = line
      \/ /\ line' = Append(line, item) /\ Honoured(Pass(c))
         /\ \/ FrameOf(c).kind \in {"down", "up"}
            \/ conn'[c].at = "run"
  <2>1. Goes(c, "run") => conn'[c].at = "run"
    BY <1>2, GoesEffect, TypeParts DEF CInv, HostTypes, Places
  <2>2. QED
    BY <2>1 DEF Enter, FrameOf
<1>4. CASE line' = line
  <2>1. UNCHANGED device
    BY <1>2, <1>4 DEF device
  <2>2. QED
    BY <1>1, <1>2, <1>4, <2>1, DeviceAside, EnterStepKeeps DEF EnterStep
<1>5. CASE /\ line' = Append(line, item) /\ Honoured(Pass(c))
           /\ \/ FrameOf(c).kind \in {"down", "up"}
              \/ conn'[c].at = "run"
  <2>1. c = current /\ "input" \in granted /\ item \in Items
        /\ item.from = c /\ item.frame = FrameOf(c)
    <3>1. Pass(c).epoch # 0 /\ Pass(c).epoch = conn[c].gen /\ FrameOf(c) \in Frames
      BY <1>2, FrameFacts
    <3>2. Pass(c).scope = "input"
      BY <1>2 DEF CInv, SessionInv, GenInv
    <3>3. QED
      BY <1>2, <1>5, <3>1, <3>2, FrameFacts DEF Honoured, Allowed, Items
  <2> HIDE DEF item
  <2>2. /\ line' \in Seq(Items) /\ DOMAIN line' = 1..(Len(line) + 1) /\ Len(line) \in Nat
        /\ Len(line') = Len(line) + 1
        /\ \A i \in DOMAIN line' : \/ i \in DOMAIN line /\ line'[i] = line[i]
                                   \/ i = Len(line') /\ line'[i] = item
    <3>1. line' \in Seq(Items) /\ Len(line') = Len(line) + 1 /\ line'[Len(line) + 1] = item
          /\ \A i \in 1..Len(line) : line'[i] = line[i]
      BY <1>2, <1>5, <2>1, AppendProperties
    <3>2. Len(line) \in Nat /\ DOMAIN line = 1..Len(line) /\ DOMAIN line' = 1..Len(line')
      BY <3>1, <1>2
    <3>3. QED
      BY <3>1, <3>2
  <2>3. \A i \in DOMAIN line : line[i].frame.kind \notin KeyKinds
    BY <1>2, KeyInLine, SessionAssumption DEF SessionAssumption
  <2>4. LineInv'
    <3>1. ASSUME NEW i \in DOMAIN line', line'[i].frame.kind \in KeyKinds
          PROVE  /\ i = Len(line') /\ conn'[line'[i].from].at = "run"
                 /\ conn'[line'[i].from].frame = line'[i].frame
                 /\ ~Began(line'[i].frame)
                 /\ ~Ran(line'[i].from, line'[i].frame.op, line'[i].frame.step)
      <4>1. i = Len(line') /\ line'[i].from = c /\ line'[i].frame = FrameOf(c)
        BY <2>1, <2>2, <2>3, <3>1
      <4>2. FrameOf(c).kind \in KeyKinds /\ conn'[c].at = "run"
        BY <3>1, <4>1, <1>5 DEF KeyKinds
      <4>3. conn'[c].frame = FrameOf(c)
        BY <4>2, <1>1 DEF EnterStep, Fits, Working, Keeps, FrameOf
      <4>4. ~Began(FrameOf(c))
        BY <1>2 DEF CInv, FramesInv, RanInv, Unbegun
      <4>5. ~Ran(c, FrameOf(c).op, FrameOf(c).step)
        <5>1. FrameOf(c).op \in Operations
          BY <4>2, <1>2, FrameFacts
        <5>2. Busy(c, FrameOf(c).op)
          BY <4>2, <1>2 DEF Busy
        <5>3. QED
          BY <5>1, <5>2, <1>2, <2>1 DEF CInv, FramesInv, KeyInv, OperationOf
      <4>6. QED
        BY <4>1, <4>2, <4>3, <4>4, <4>5
    <3>2. running # NoItem /\ running.frame.kind \in KeyKinds =>
            \E k \in DOMAIN ran : ran[k] = running
      BY DEF CInv, FramesInv, LineInv
    <3>3. QED
      BY <3>1, <3>2, <1>2 DEF LineInv, At, FrameOf, Began, Ran
  <2>5. QuietInv'
    <3>1. Present' \subseteq Present \cup {c}
      BY <1>2, <2>1, <2>2 DEF Present
    <3>2. QED
      BY <3>1, <1>2, <2>1 DEF CInv, QuietInv
  <2>6. QED
    BY <1>1, <2>2, <2>4, <2>5, EnterStepKeeps
<1>6. QED
  BY <1>3, <1>4, <1>5

-----------------------------------------------------------------------------
(* The transitions.                                                        *)

\* What all of them but the one that makes a session have in common.
Transits ==
  /\ conn' \in [Connections -> Handler]
  /\ \A c \in Connections :
       /\ conn'[c].at = "run" <=> conn[c].at = "run"
       /\ conn'[c].at = "greet" <=> conn[c].at = "greet"
       /\ conn'[c].gen = conn[c].gen \/ (conn'[c].gen = 0 /\ c # current')
       /\ Framed(c)' => conn'[c] = conn[c]
       /\ conn'[c].at \in {"new", "closed"} => conn'[c].gen = 0
  /\ gate' = gate \/ (gate \notin Connections /\ gate' \in {"free", "control"})
  /\ sender' = sender
  /\ \/ gen' = gen /\ epoch' = epoch /\ current' = current
     \/ gen' = gen + 1 /\ epoch' = 0 /\ current' = Nobody /\ gate \notin Connections

LEMMA TransitsKeep ==
  ASSUME CInv, Transits
  PROVE  HostTypes' /\ GenInv'
<1> USE SessionAssumption DEF SessionAssumption
<1>1. GateTypes /\ HostTypes /\ GenInv
  BY TypeParts DEF CInv, SessionInv
<1>2. HostTypes'
  <2>1. epoch' # 0 => epoch' = epoch /\ current' = current /\ current \in Connections
    BY <1>1 DEF Transits, GateTypes, HostTypes
  <2>2. epoch' # 0 => conn'[current'].gen = epoch'
    BY <1>1, <2>1 DEF Transits, HostTypes
  <2>3. epoch' = 0 <=> current' = Nobody
    BY <1>1 DEF Transits, HostTypes
  <2>4. \A c \in Connections : /\ conn'[c].at = "run" <=> gate' = c
                               /\ conn'[c].at = "greet" <=> sender' = c
    BY <1>1 DEF Transits, HostTypes
  <2>5. QED
    BY <2>2, <2>3, <2>4 DEF HostTypes, Transits
<1>3. GenInv'
  <2>1. gen \in Nat /\ gen' \in Nat /\ gen <= gen' /\ \A c \in Connections : conn[c].gen \in Nat
    BY <1>1 DEF Transits, GateTypes, GateTypeOK, HostTypes, Handler
  <2>2. epoch' # 0 => epoch' = gen'
    BY <1>1 DEF Transits, GenInv
  <2>3. ASSUME NEW c \in Connections
        PROVE  /\ conn'[c].gen <= gen'
               /\ conn'[c].at \in {"new", "closed"} => conn'[c].gen = 0
               /\ Framed(c)' => /\ conn'[c].gen # 0
                                /\ Pass(c)'.gen = conn'[c].gen /\ Pass(c)'.epoch = conn'[c].gen
                                /\ Pass(c)'.scope = "input"
               /\ gate' = c => current' = c
    <3>1. conn'[c].gen <= gen'
      BY <1>1, <2>1 DEF Transits, GenInv
    <3>2. Framed(c)' => Framed(c) /\ conn'[c] = conn[c]
      BY DEF Transits, Framed
    <3>3. gate' = c => gate = c
      BY DEF Transits
    <3>4. gate = c => current = c /\ (gate' = c => current' = c)
      BY <1>1, <2>1 DEF Transits, GenInv, HostTypes
    <3>5. QED
      BY <1>1, <3>1, <3>2, <3>3, <3>4 DEF Transits, GenInv, Pass
  <2>4. \A c, d \in Connections : c # d /\ conn'[c].gen = conn'[d].gen => conn'[c].gen = 0
    BY <1>1 DEF Transits, GenInv
  <2>5. QED
    BY <2>2, <2>3, <2>4 DEF GenInv
<1>4. QED
  BY <1>2, <1>3

\* Less of the device, or as much of it, while the histories stay as they are.
LEMMA TransitionRest ==
  ASSUME CInv, FramesAside, HostTypes', GateTypes', TalkTypes', SessionInv', TalkInv', QuietInv',
         line' \in {line, <<>>}, running' = running, pressed' \in {pressed, Nobody},
         events' = events
  PROVE  CInv'
<1>1. FramesInv'
  BY FramesKept DEF CInv
<1>2. KeyTypes /\ DeviceTypes /\ ToldTypes
  BY TypeParts DEF CInv
<1>3. KeyTypes' /\ ToldTypes'
  BY <1>2 DEF KeyTypes, ToldTypes, FramesAside
<1>4. DeviceTypes'
  <2>1. line \in Seq(Items) /\ <<>> \in Seq(Items)
    BY <1>2, EmptySeq DEF DeviceTypes
  <2>2. ran' = ran
    BY DEF FramesAside
  <2>3. QED
    BY <1>2, <2>1, <2>2 DEF DeviceTypes
<1>5. QED
  BY <1>1, <1>3, <1>4, TypePartsNext DEF CInv

LEMMA TransitionTalk ==
  ASSUME CInv, UNCHANGED talk
  PROVE  TalkTypes'
BY TypeParts DEF CInv, TalkTypes, talk

\* Nobody has seen the next revision: the connection in force is told of it, or has not
\* heard anything.
LEMMA TalkRenewed ==
  ASSUME CInv, capability' = capability + 1, Untold,
         \A c \in Connections :
           /\ conn'[c].at = "greet" <=> conn[c].at = "greet"
           /\ conn'[c].at \in {"new", "joining", "hello"} => view[c].revision = 0
           /\ c = current' => \/ c = current /\ announces'
                              \/ view[c].revision = 0 /\ conn[c].at # "greet"
  PROVE  TalkInv' /\ TalkTypes'
<1> USE DEF Untold
<1>1. TalkTypes /\ MessageInv /\ OrderInv
  BY TypeParts DEF CInv, TalkInv
<1>2. capability \in Nat /\ sent \in Nat
  BY <1>1 DEF TalkTypes
<1>3. MessageInv'
  <2>1. \A m : m.revision \in Nat /\ Sound(m) => m.revision <= capability /\ m.revision # capability'
    BY <1>2 DEF Sound
  <2>2. /\ \A u \in updates : u.revision \in Nat
        /\ \A c \in Connections : view[c].revision \in Nat
        /\ outbox \in Message => outbox.revision \in Nat
    BY <1>1 DEF TalkTypes, Message
  <2>3. \A u \in updates' : Sound(u)'
    <3> SUFFICES ASSUME NEW u \in updates
                 PROVE  /\ u.revision <= capability'
                        /\ u.revision # capability'
      BY DEF Sound
    <3>1. QED
      BY <1>1, <1>2, <2>1, <2>2 DEF MessageInv
  <2>4. \A c \in Connections : /\ view[c].revision <= capability'
                               /\ view[c].revision # capability'
    BY <1>1, <1>2, <2>1, <2>2 DEF MessageInv
  <2>5. sender # Nobody => outbox \in Message /\ outbox.revision <= capability'
                           /\ outbox.revision # capability'
    BY <1>1, <1>2, <2>1, <2>2 DEF MessageInv
  <2>6. QED
    BY <1>1, <1>2, <2>3, <2>4, <2>5 DEF MessageInv, Sound
<1>4. OrderInv'
  <2>1. sender = "update" => outbox.revision > sent
    BY <1>1 DEF OrderInv
  <2>2. ASSUME NEW c \in Connections
        PROVE  /\ sender = c => outbox.to = c /\ outbox.revision >= sent
               /\ conn'[c].at \in {"new", "joining", "hello", "greet"} => view[c].revision = 0
               /\ c = current' => /\ view[c].revision # 0 => view[c].revision >= sent
                                  /\ sender = "update" /\ outbox.to # c => view[c].revision = 0
    BY <1>1 DEF OrderInv
  <2>3. QED
    BY <2>1, <2>2 DEF OrderInv
<1>5. DueInv'
  BY DEF DueInv, Due, Knows, At
<1>6. TalkTypes'
  BY <1>1, <1>2 DEF TalkTypes
<1>7. QED
  BY <1>3, <1>4, <1>5, <1>6 DEF TalkInv

\* While the gate is free no transition is under way, and no connection joins.
LEMMA FreeGate ==
  ASSUME CInv, gate = "free"
  PROVE  /\ todo = <<>> /\ ~announces /\ gate \notin Connections
         /\ todo \in Settled /\ todo \notin BeforeJoin
         /\ \A c \in Connections : conn[c].at \notin {"joining", "run"}
<1>1. todo = <<>> /\ ~announces
  BY DEF CInv, SessionInv, GateInv
<1>2. gate \notin Connections
  BY SessionAssumption DEF SessionAssumption
<1>3. \A c \in Connections : conn[c].at \notin {"joining", "run"}
  BY <1>2, TypeParts DEF CInv, SessionInv, JoinInv, HostTypes, At
<1>4. <<>> \in Settled /\ <<>> \notin BeforeJoin
  BY DEF Settled, BeforeJoin
<1>5. QED
  BY <1>1, <1>2, <1>3, <1>4

\* While there is a plan the transition holds the gate.
LEMMA TakenGate ==
  ASSUME CInv, gate = "control" \/ todo # <<>>
  PROVE  /\ gate = "control" /\ gate \notin Connections
         /\ todo \in Plans
         /\ \A i \in DOMAIN line : line[i].frame.kind \notin KeyKinds
<1>1. gate = "control" /\ todo \in Plans
  BY DEF CInv, SessionInv, GateInv
<1>2. gate \notin Connections
  BY <1>1, SessionAssumption DEF SessionAssumption
<1>3. \A i \in DOMAIN line : line[i].frame.kind \notin KeyKinds
  BY <1>2, KeyInLine
<1>4. QED
  BY <1>1, <1>2, <1>3

LEMMA OpenStep ==
  ASSUME CInv, NEW c \in Connections, Open(c)
  PROVE  CInv'
<1> USE SessionAssumption DEF SessionAssumption
<1>1. /\ gate = "free" /\ gate' = "control" /\ todo' = <<"geometry", "theirs", "reset">>
      /\ conn[c].at = "new" /\ Goes(c, "joining")
      /\ UNCHANGED <<session, incomplete, closing, current, broken, announces, talk, keys, device,
                     events, told>>
      /\ GateTypes /\ HostTypes /\ ToldTypes
  BY TypeParts DEF Open, Connect, At, CInv
<1>2. Alone(c) /\ Keeps(c) /\ conn'[c].at = "joining"
  BY <1>1, GoesEffect DEF HostTypes, Places
<1>3. conn[c].gen = 0
  BY <1>1 DEF CInv, SessionInv, GenInv
<1>4. todo' \in Plans /\ todo' \in BeforeJoin /\ todo \in Settled /\ ~announces
      /\ \A d \in Connections : conn[d].at \notin {"joining", "run"}
  BY <1>1, FreeGate DEF Plans, BeforeJoin
<1>5. HostTypes' /\ GenInv'
  <2>1. Transits
    BY <1>1, <1>2, <1>3, <1>4
       DEF Transits, Alone, Keeps, Framed, Working, session, talk, CInv, SessionInv, GenInv
  <2>2. QED
    BY <2>1, TransitsKeep
<1>6. SessionInv'
  <2>1. GateInv'
    BY <1>1, <1>4 DEF GateInv
  <2>2. JoinInv'
    BY <1>1, <1>2, <1>3, <1>4 DEF JoinInv, At, Alone, Keeps
  <2>3. QED
    BY <2>1, <2>2, <1>5 DEF SessionInv
<1>7. FramesAside
  BY <1>1, <1>2 DEF FramesAside, Alone, Keeps, Working, session, device, ToldTypes
<1>8. TalkInv' /\ TalkTypes'
  <2>1. TalkAside
    BY <1>1, <1>2 DEF TalkAside, Alone, session
  <2>2. QED
    BY <1>1, <2>1, TalkKept, TransitionTalk DEF CInv
<1>9. QuietInv'
  BY <1>1, <1>4, QuietKept, DeviceKept DEF CInv, session, device
<1>10. GateTypes'
  BY <1>1, <1>4, PlanTypes DEF GateTypes, GateTypeOK, session
<1>11. QED
  BY <1>1, <1>5, <1>6, <1>7, <1>8, <1>9, <1>10, TransitionRest DEF device

LEMMA RefusedStep ==
  ASSUME CInv, GeometryRefused
  PROVE  CInv'
<1> USE SessionAssumption DEF SessionAssumption
<1>1. /\ Len(todo) = 3 /\ gate' = "free" /\ todo' = <<>> /\ Over(Joining)
      /\ line' = <<>> /\ pressed' \in {pressed, Nobody}
      /\ UNCHANGED <<session, incomplete, closing, current, announces, talk, keys, running,
                     ran, events, told>>
      /\ GateTypes /\ HostTypes /\ ToldTypes
  BY TypeParts DEF GeometryRefused, Neutral, CInv
<1>2. todo # <<>> /\ todo \in Plans
  BY <1>1 DEF CInv, SessionInv, GateInv
<1>3. todo \in BeforeJoin /\ todo \in Settled
  BY <1>1, <1>2, PlanHeads
<1>4. gate = "control" /\ gate \notin Connections /\ ~announces
  BY <1>2, <1>3, TakenGate DEF CInv, SessionInv, GateInv
<1>5. PICK c \in Connections :
        /\ c = Joining /\ conn[c].at = "joining" /\ conn[c].gen = 0
        /\ \A d \in Connections : conn[d].at = "joining" => d = c
  BY <1>3 DEF Joining, CInv, SessionInv, JoinInv, At
<1>6. Alone(c) /\ conn'[c].at = "closed" /\ conn'[c].gen = 0
  BY <1>1, <1>5, OverEffect DEF HostTypes
<1>7. c # current /\ broken' = broken \ {c}
  BY <1>1, <1>5 DEF HostTypes, Over
<1>8. HostTypes' /\ GenInv'
  <2>1. Transits
    BY <1>1, <1>4, <1>5, <1>6, <1>7
       DEF Transits, Alone, Framed, Working, session, talk, CInv, SessionInv, GenInv
  <2>2. QED
    BY <2>1, TransitsKeep
<1>9. SessionInv'
  <2>1. GateInv'
    BY <1>1, <1>4 DEF GateInv, Plans
  <2>2. \A d \in Connections : conn'[d].at # "joining"
    BY <1>5, <1>6 DEF Alone
  <2>3. JoinInv'
    BY <1>1, <2>2 DEF JoinInv, At, BeforeJoin
  <2>4. QED
    BY <2>1, <2>3, <1>8 DEF SessionInv
<1>10. FramesAside
  BY <1>1, <1>5, <1>6, <1>7 DEF FramesAside, Alone, Working, session, ToldTypes
<1>11. TalkInv' /\ TalkTypes'
  <2>1. TalkAside
    BY <1>1, <1>5, <1>6 DEF TalkAside, Alone, session
  <2>2. QED
    BY <1>1, <1>7, <2>1, TalkKept, TransitionTalk DEF CInv
<1>12. QuietInv'
  <2>1. Lighter
    BY <1>1 DEF Lighter
  <2>2. QED
    BY <1>1, <1>3, <2>1, QuietKept DEF CInv, session
<1>13. GateTypes'
  BY <1>1, <1>7, PlanTypes DEF GateTypes, GateTypeOK, session
<1>14. QED
  BY <1>1, <1>8, <1>9, <1>10, <1>11, <1>12, <1>13, TransitionRest

LEMMA PolicyStep ==
  ASSUME CInv, NEW p \in Policies, ChangePolicy(p)
  PROVE  CInv'
<1> USE SessionAssumption DEF SessionAssumption
<1>1. /\ gate = "free" /\ gate' = "control" /\ granted' = p /\ revision' = revision + 1
      /\ capability' = capability + 1 /\ announces' = TRUE /\ Untold
      /\ UNCHANGED <<gen, epoch, incomplete, closing, current, conn, broken, keys, device, events,
                     told>>
      /\ GateTypes /\ HostTypes /\ ToldTypes
  BY TypeParts DEF ChangePolicy, SetPermissions, CInv
<1>2. /\ todo' \in {<<>>, <<"reset">>, <<"geometry">>, <<"reset", "geometry">>}
      /\ todo' \in Settled => ~Revokes(p) /\ ~(incomplete /\ "input" \in p)
  <2> DEFINE a == IF Revokes(p) \/ (incomplete /\ "input" \in p) THEN <<"reset">> ELSE <<>>
             b == IF Revokes(p) \/ Restores(p) THEN <<"geometry">> ELSE <<>>
  <2>1. todo' = a \o b
    BY DEF ChangePolicy, SetPermissions
  <2>2. /\ <<>> \o <<>> = <<>> /\ <<"reset">> \o <<>> = <<"reset">>
        /\ <<>> \o <<"geometry">> = <<"geometry">>
        /\ <<"reset">> \o <<"geometry">> = <<"reset", "geometry">>
    <3>1. /\ <<>> \in Seq(Step) /\ <<"reset">> \in Seq(Step) /\ <<"geometry">> \in Seq(Step)
          /\ <<"reset", "geometry">> \in Seq(Step)
      BY DEF Step
    <3>2. \A s \in Seq(Step) : s \o <<>> = s /\ <<>> \o s = s
      BY ConcatEmptySeq, Zenon
    <3>3. PICK s : s = <<"reset">> \o <<"geometry">>
      OBVIOUS
    <3>4. /\ s \in Seq(Step) /\ Len(s) = 2
          /\ \A i \in 1..2 : s[i] = IF i <= 1 THEN <<"reset">>[i] ELSE <<"geometry">>[i - 1]
      <4> DEFINE x == <<"reset">>
                 y == <<"geometry">>
      <4>1. x \in Seq(Step) /\ y \in Seq(Step) /\ Len(x) = 1 /\ Len(y) = 1
        BY <3>1
      <4> HIDE DEF x, y
      <4>2. s = x \o y
        BY <3>3 DEF x, y
      <4>3. /\ s \in Seq(Step) /\ Len(s) = Len(x) + Len(y)
            /\ \A i \in 1..(Len(x) + Len(y)) : s[i] = IF i <= Len(x) THEN x[i] ELSE y[i - Len(x)]
        BY <4>1, <4>2, ConcatProperties, ZenonT(30)
      <4>4. Len(x) + Len(y) = 2
        BY <4>1
      <4>5. s \in Seq(Step) /\ Len(s) = 2
            /\ \A i \in 1..2 : s[i] = IF i <= 1 THEN x[i] ELSE y[i - 1]
        BY <4>1, <4>3, <4>4, Zenon
      <4>6. QED
        BY <4>5 DEF x, y
    <3>5. s[1] = "reset" /\ s[2] = "geometry"
      BY <3>4
    <3>6. s = <<"reset", "geometry">>
      BY <3>4, <3>5
    <3>7. QED
      BY <3>1, <3>2, <3>3, <3>6
  <2>3. CASE Revokes(p) \/ (incomplete /\ "input" \in p)
    <3>1. todo' \in {<<"reset">>, <<"reset", "geometry">>}
      BY <2>1, <2>2, <2>3
    <3>2. <<"reset">> \notin Settled /\ <<"reset", "geometry">> \notin Settled
      BY DEF Settled
    <3>3. QED
      BY <3>1, <3>2
  <2>4. CASE ~(Revokes(p) \/ (incomplete /\ "input" \in p))
    <3>1. todo' \in {<<>>, <<"geometry">>}
      BY <2>1, <2>2, <2>4
    <3>2. QED
      BY <2>4, <3>1
  <2>5. QED
    BY <2>3, <2>4
<1>3. todo \in Settled /\ \A d \in Connections : conn[d].at \notin {"joining", "run"}
  BY <1>1, FreeGate
<1>4. todo' \in Plans /\ todo' \notin BeforeJoin
  BY <1>2 DEF Plans, BeforeJoin
<1>5. HostTypes' /\ GenInv'
  <2>1. Transits
    BY <1>1, <1>3 DEF Transits, HostTypes, CInv, SessionInv, GenInv, Untold
  <2>2. QED
    BY <2>1, TransitsKeep
<1>6. SessionInv'
  <2>1. GateInv'
    BY <1>1, <1>4 DEF GateInv
  <2>2. JoinInv'
    BY <1>1, <1>3, <1>4 DEF JoinInv, At
  <2>3. QED
    BY <2>1, <2>2, <1>5 DEF SessionInv
<1>7. FramesAside
  BY <1>1 DEF FramesAside, HostTypes, device, ToldTypes
<1>8. TalkInv' /\ TalkTypes'
  BY <1>1, TalkRenewed DEF CInv, TalkInv, OrderInv, At
<1>9. QuietInv'
  <2> SUFFICES ASSUME closing = "open", ~incomplete, todo' \in Settled
               PROVE  Present \subseteq {current} /\ ("input" \notin p => Present = {})
    BY <1>1 DEF QuietInv, Present, device
  <2>1. Present \subseteq {current} /\ ("input" \notin granted => Present = {})
    BY <1>3 DEF CInv, QuietInv
  <2>2. "input" \notin p => "input" \notin granted
    BY <1>2 DEF Revokes, Allowed, AllowedBy
  <2>3. QED
    BY <2>1, <2>2
<1>10. GateTypes'
  <2>1. p \subseteq Scopes
    BY GateAssumption DEF GateAssumption
  <2>2. QED
    BY <1>1, <1>4, <2>1, PlanTypes DEF GateTypes, GateTypeOK
<1>11. QED
  BY <1>1, <1>5, <1>6, <1>7, <1>8, <1>9, <1>10, TransitionRest DEF device

\* The sections of a transition that reset the device or set its geometry.
LEMMA SectionRest ==
  ASSUME CInv, todo # <<>>, todo' = Tail(todo), Head(todo) \in {"reset", "geometry"},
         UNCHANGED <<gate, session, closing, hosts, talk, keys, running, ran, events, told>>,
         incomplete' \in BOOLEAN, line' \in {line, <<>>}, pressed' \in {pressed, Nobody}, QuietInv'
  PROVE  CInv'
<1>1. /\ gate' = "control" /\ gate = "control" /\ GateTypes /\ HostTypes /\ ToldTypes
      /\ UNCHANGED <<gen, epoch, current, conn, broken, announces, revision, granted>>
  BY TakenGate, TypeParts DEF CInv, session, hosts
<1>2. todo \in Plans /\ todo' \in Plans /\ (todo \in BeforeJoin <=> todo' \in BeforeJoin)
  BY PlanHeads DEF CInv, SessionInv, GateInv
<1>3. SessionInv' /\ HostTypes'
  <2>1. GateInv'
    BY <1>1, <1>2 DEF CInv, SessionInv, GateInv
  <2>2. JoinInv'
    BY <1>1, <1>2 DEF CInv, SessionInv, JoinInv, At
  <2>3. Transits
    BY <1>1 DEF Transits, HostTypes, CInv, SessionInv, GenInv, talk
  <2>4. QED
    BY <2>1, <2>2, <2>3, TransitsKeep DEF SessionInv
<1>4. FramesAside
  BY <1>1, SessionAssumption DEF FramesAside, HostTypes, ToldTypes, SessionAssumption
<1>5. TalkInv' /\ TalkTypes'
  <2>1. TalkAside
    BY <1>1 DEF TalkAside
  <2>2. QED
    BY <1>1, <2>1, TalkKept, TransitionTalk DEF CInv
<1>6. GateTypes'
  BY <1>1, <1>2, PlanTypes DEF GateTypes, GateTypeOK
<1>7. QED
  BY <1>3, <1>4, <1>5, <1>6, TransitionRest

LEMMA ResetStep ==
  ASSUME CInv, ResetDevice
  PROVE  CInv'
<1>1. /\ todo # <<>> /\ todo' = Tail(todo) /\ Head(todo) = "reset"
      /\ UNCHANGED <<gate, session, closing, hosts, talk, keys, running, ran, events, told>>
      /\ line' = <<>> /\ pressed' \in {pressed, Nobody}
      /\ incomplete' \in BOOLEAN
      /\ ~incomplete' => running = NoItem /\ pressed' = Nobody
  BY DEF ResetDevice, Reset, Neutral, Idle
<1>2. QuietInv'
  <2> SUFFICES ASSUME ~incomplete'
               PROVE  Present' = {}
    BY DEF QuietInv
  <2>1. DOMAIN line' = {}
    BY <1>1
  <2>2. QED
    BY <1>1, <2>1 DEF Present, NoItem
<1>3. QED
  BY <1>1, <1>2, SectionRest

LEMMA ConfigureStep ==
  ASSUME CInv, ConfigureDevice
  PROVE  CInv'
<1>1. /\ todo # <<>> /\ todo' = Tail(todo) /\ Head(todo) = "geometry"
      /\ UNCHANGED <<gate, session, closing, hosts, talk, keys, running, ran, events, told>>
      /\ line' \in {line, <<>>} /\ pressed' \in {pressed, Nobody} /\ incomplete' = incomplete
  BY DEF ConfigureDevice, Geometry, Neutral
<1>2. incomplete \in BOOLEAN /\ line \in Seq(Items)
  BY TypeParts DEF CInv, GateTypes, GateTypeOK, DeviceTypes
<1>3. QuietInv'
  <2>1. Lighter
    BY <1>1, <1>2 DEF Lighter
  <2>2. todo' \in Settled => todo \in Settled
    BY <1>1, PlanHeads DEF CInv, SessionInv, GateInv
  <2>3. QED
    BY <1>1, <2>1, <2>2, QuietKept DEF CInv, session, hosts
<1>4. QED
  BY <1>1, <1>2, <1>3, SectionRest

LEMMA LeaveStep ==
  ASSUME CInv, LeaveGate
  PROVE  CInv'
<1> USE SessionAssumption DEF SessionAssumption
<1>1. /\ gate = "control" /\ todo = <<>> /\ gate' = "free"
      /\ conn' = [c \in Connections |-> IF conn[c].at = "joining" /\ conn[c].gen = gen
                                         THEN [conn[c] EXCEPT !.at = "hello"] ELSE conn[c]]
      /\ announces' = FALSE
      /\ UNCHANGED <<todo, session, incomplete, closing, current, broken, capability, media, sender,
                     outbox, sent, view, keys, device, events, told>>
      /\ GateTypes /\ HostTypes /\ ToldTypes /\ TalkTypes
  BY TypeParts DEF LeaveGate, Release, CInv
<1>2. todo \notin BeforeJoin /\ todo \in Plans /\ gate \notin Connections
  BY <1>1, TakenGate DEF BeforeJoin
<1>3. \A c \in Connections : conn[c].at = "joining" => conn[c].gen = gen /\ current = c
  BY <1>2 DEF CInv, SessionInv, JoinInv, At
<1>4. /\ conn' \in [Connections -> Handler]
      /\ \A c \in Connections :
           IF conn[c].at = "joining"
           THEN conn'[c].at = "hello" /\ conn'[c].gen = conn[c].gen
           ELSE conn'[c] = conn[c]
  <2>1. ASSUME NEW c \in Connections, conn[c].at = "joining"
        PROVE  /\ [conn[c] EXCEPT !.at = "hello"] \in Handler
               /\ conn'[c].at = "hello" /\ conn'[c].gen = conn[c].gen
    <3> DEFINE h == [conn[c] EXCEPT !.at = "hello"]
    <3>1. conn[c] \in Handler
      BY <1>1 DEF HostTypes
    <3>2. h \in Handler /\ h.at = "hello" /\ h.gen = conn[c].gen
      BY <3>1 DEF Handler, Places
    <3>3. conn'[c] = h
      BY <1>1, <1>3, <2>1
    <3>4. QED
      BY <3>2, <3>3
  <2>2. QED
    BY <1>1, <2>1, ZenonT(30) DEF HostTypes
<1>5. HostTypes' /\ GenInv'
  <2>1. Transits
    BY <1>1, <1>2, <1>4 DEF Transits, Framed, Working, session, CInv, SessionInv, GenInv
  <2>2. QED
    BY <2>1, TransitsKeep
<1>6. SessionInv'
  <2>1. GateInv'
    BY <1>1, <1>2 DEF GateInv
  <2>2. \A c \in Connections : conn'[c].at # "joining"
    BY <1>4
  <2>3. JoinInv'
    BY <1>1, <1>2, <2>2 DEF JoinInv, At
  <2>4. QED
    BY <2>1, <2>3, <1>5 DEF SessionInv
<1>7. FramesAside
  BY <1>1, <1>4 DEF FramesAside, Working, session, device, ToldTypes
<1> DEFINE tells == announces /\ current # Nobody
<1>8. /\ updates' = IF tells THEN updates \cup {Payload(current)} ELSE updates
      /\ tells => /\ Payload(current) \in Message /\ Payload(current).to = current
                  /\ Payload(current).revision = capability
                  /\ Payload(current).policy = granted
                  /\ Payload(current).media = media.applied /\ Payload(current).epoch = epoch
  BY <1>1, PayloadType DEF LeaveGate, CInv, GateTypes
<1>9. TalkTypes'
  <2>1. updates' \subseteq Message
    BY <1>1, <1>8 DEF TalkTypes
  <2>2. QED
    BY <1>1, <2>1 DEF TalkTypes
<1>10. TalkInv'
  <2>1. MessageInv /\ OrderInv /\ DueInv /\ UNCHANGED <<granted, epoch>>
    BY <1>1 DEF CInv, TalkInv, session
  <2>2. MessageInv'
    <3>1. \A m : Sound(m) => m.revision <= capability
                             /\ (m.revision = capability =>
                                   m.policy = granted /\ m.media = media.applied /\ m.epoch = epoch)
      BY DEF Sound
    <3>2. \A u \in updates' : u.revision <= capability
                              /\ (u.revision = capability =>
                                    u.policy = granted /\ u.media = media.applied /\ u.epoch = epoch)
      BY <2>1, <3>1, <1>8, <1>1 DEF MessageInv, TalkTypes
    <3>3. QED
      BY <1>1, <2>1, <3>2 DEF MessageInv, Sound
  <2>3. OrderInv'
    BY <1>1, <1>4, <2>1 DEF OrderInv
  <2>4. DueInv'
    <3> SUFFICES ASSUME NEW c \in Connections, c = current, c \notin broken,
                        Knows(c)' # 0, Knows(c)' < capability
                 PROVE  Due(c)'
      BY <1>1 DEF DueInv
    <3>1. Knows(c)' = Knows(c)
      BY <1>1, <1>4 DEF Knows, At
    <3>2. Due(c)
      BY <2>1, <3>1 DEF DueInv
    <3>3. CASE announces
      BY <1>1, <1>8, <3>3 DEF Due
    <3>4. CASE ~announces
      BY <1>1, <1>8, <3>2, <3>4 DEF Due
    <3>5. QED
      BY <3>3, <3>4
  <2>5. QED
    BY <2>2, <2>3, <2>4 DEF TalkInv
<1>11. QuietInv'
  BY <1>1, QuietKept, DeviceKept DEF CInv, session, device
<1>12. GateTypes'
  BY <1>1 DEF GateTypes, GateTypeOK, session
<1>13. QED
  BY <1>1, <1>5, <1>6, <1>7, <1>9, <1>10, <1>11, <1>12, TransitionRest DEF device

\* The socket of a session that ends is not waited for.
LEMMA EndStep ==
  ASSUME CInv, NEW c \in Connections, End(c)
  PROVE  CInv'
<1> USE SessionAssumption DEF SessionAssumption
<1>1. /\ conn[c].at \in {"ending", "loop"} /\ Over(c) /\ broken' = broken \ {c} /\ Untold
      /\ UNCHANGED <<announces, keys, device, events, told>> /\ gate = "free"
      /\ GateTypes /\ HostTypes /\ ToldTypes
  BY TypeParts DEF End, Leaves, At, Over, Disconnect, CInv
<1>2. Alone(c) /\ conn'[c].at = "closed" /\ conn'[c].gen = 0
  BY <1>1, OverEffect DEF HostTypes
<1>3. /\ todo = <<>> /\ todo \in Settled /\ ~announces /\ gate \notin Connections
      /\ todo \notin BeforeJoin
      /\ \A d \in Connections : conn[d].at \notin {"joining", "run"}
  BY <1>1, FreeGate
<1>4. \/ /\ gate' = "control" /\ todo' = <<"reset", "geometry">> /\ current = c
         /\ gen' = gen + 1 /\ epoch' = 0 /\ current' = Nobody /\ capability' = capability + 1
         /\ UNCHANGED <<revision, granted, incomplete, closing>>
      \/ current # c /\ UNCHANGED <<control, current, capability>>
  BY <1>1 DEF End, Disconnect
<1>5. HostTypes' /\ GenInv'
  <2>1. Transits
    BY <1>1, <1>2, <1>3, <1>4 DEF Transits, Alone, Framed, Working, CInv, SessionInv, GenInv,
                                  control, session, Untold
  <2>2. QED
    BY <2>1, TransitsKeep
<1>6. todo' \in Plans /\ todo' \notin BeforeJoin
  BY <1>3, <1>4 DEF Plans, BeforeJoin, control
<1>7. SessionInv'
  <2>1. GateInv'
    BY <1>1, <1>3, <1>4, <1>6 DEF GateInv, control
  <2>2. JoinInv'
    BY <1>2, <1>3, <1>6 DEF JoinInv, At, Alone
  <2>3. QED
    BY <2>1, <2>2, <1>5 DEF SessionInv
<1>8. FramesAside
  BY <1>1, <1>2, <1>4 DEF FramesAside, Alone, Working, control, session, device, ToldTypes
<1>9. TalkInv' /\ TalkTypes'
  <2>1. CASE current = c /\ current' = Nobody /\ capability' = capability + 1
    <3>1. \A d \in Connections :
            /\ conn'[d].at = "greet" <=> conn[d].at = "greet"
            /\ conn'[d].at \in {"new", "joining", "hello"} => view[d].revision = 0
      BY <1>1, <1>2 DEF Alone, CInv, TalkInv, OrderInv
    <3>2. QED
      BY <2>1, <3>1, <1>1, TalkRenewed
  <2>2. CASE current # c /\ UNCHANGED <<control, current, capability>>
    <3>1. TalkAside
      BY <2>2, <1>1, <1>2 DEF TalkAside, Alone, control, session, talk, Untold
    <3>2. UNCHANGED talk
      BY <2>2, <1>1 DEF talk, Untold
    <3>3. QED
      BY <2>2, <3>1, <3>2, <1>1, TalkKept, TransitionTalk DEF CInv
  <2>3. QED
    BY <1>4, <2>1, <2>2
<1>10. QuietInv'
  <2>1. CASE todo' = <<"reset", "geometry">>
    BY <2>1 DEF QuietInv, Settled
  <2>2. CASE UNCHANGED <<control, current>>
    BY <2>2, <1>1, QuietKept, DeviceKept DEF CInv, control, session, device
  <2>3. QED
    BY <1>4, <2>1, <2>2
<1>11. GateTypes'
  BY <1>1, <1>4, <1>6, PlanTypes DEF GateTypes, GateTypeOK, control, session
<1>12. QED
  BY <1>1, <1>5, <1>7, <1>8, <1>9, <1>10, <1>11, TransitionRest DEF device

LEMMA AdmissionStep ==
  ASSUME CInv, CloseAdmission
  PROVE  CInv'
<1>1. /\ closing' = "closing" /\ UNCHANGED <<gate, todo, session, incomplete>>
      /\ UNCHANGED <<hosts, talk, keys, device, events, told>>
      /\ GateTypes /\ HostTypes /\ ToldTypes
  BY TypeParts DEF CloseAdmission, Shutdown, CInv
<1>2. SessionInv'
  BY <1>1 DEF CInv, SessionInv, GateInv, JoinInv, GenInv, At, Framed, Pass, session, hosts
<1>3. HostTypes'
  BY <1>1 DEF HostTypes, session, hosts, talk
<1>4. FramesAside
  BY <1>1, SessionAssumption
     DEF FramesAside, HostTypes, session, hosts, device, ToldTypes, SessionAssumption
<1>5. TalkInv' /\ TalkTypes'
  <2>1. TalkAside
    BY <1>1 DEF TalkAside, hosts, session
  <2>2. QED
    BY <1>1, <2>1, TalkKept, TransitionTalk DEF CInv, hosts
<1>6. QuietInv'
  BY <1>1 DEF QuietInv
<1>7. GateTypes'
  BY <1>1 DEF GateTypes, GateTypeOK, session, hosts
<1>8. QED
  BY <1>1, <1>2, <1>3, <1>4, <1>5, <1>6, <1>7, TransitionRest DEF device

LEMMA CloseStep ==
  ASSUME CInv, CloseSession
  PROVE  CInv'
<1> USE SessionAssumption DEF SessionAssumption
<1>1. /\ gate = "free" /\ closing' = "closed" /\ gen' = gen + 1 /\ epoch' = 0
      /\ UNCHANGED <<gate, todo, revision, granted, incomplete>>
      /\ current' = Nobody /\ capability' = capability + 1 /\ Untold
      /\ broken' = IF current = Nobody THEN broken ELSE broken \cup {current}
      /\ UNCHANGED <<conn, announces, keys, device, events, told>>
      /\ GateTypes /\ HostTypes /\ ToldTypes
  BY TypeParts DEF CloseSession, ShutdownResources, CInv
<1>2. /\ todo = <<>> /\ ~announces /\ gate \notin Connections /\ todo \notin BeforeJoin
      /\ \A d \in Connections : conn[d].at \notin {"joining", "run"}
  BY <1>1, FreeGate
<1>3. HostTypes' /\ GenInv'
  <2>1. Transits
    BY <1>1, <1>2 DEF Transits, HostTypes, CInv, SessionInv, GenInv, Untold
  <2>2. QED
    BY <2>1, TransitsKeep
<1>4. SessionInv'
  <2>1. GateInv'
    BY <1>1 DEF CInv, SessionInv, GateInv
  <2>2. JoinInv'
    BY <1>1, <1>2 DEF JoinInv, At
  <2>3. QED
    BY <2>1, <2>2, <1>3 DEF SessionInv
<1>5. FramesAside
  BY <1>1 DEF FramesAside, HostTypes, device, ToldTypes
<1>6. TalkInv' /\ TalkTypes'
  <2>1. \A d \in Connections :
          conn'[d].at \in {"new", "joining", "hello"} => view[d].revision = 0
    BY <1>1 DEF CInv, TalkInv, OrderInv
  <2>2. QED
    BY <1>1, <2>1, TalkRenewed
<1>7. QuietInv'
  BY <1>1 DEF QuietInv
<1>8. GateTypes'
  BY <1>1 DEF GateTypes, GateTypeOK
<1>9. QED
  BY <1>1, <1>3, <1>4, <1>5, <1>6, <1>7, <1>8, TransitionRest DEF device

\* A new session: the operations of the one before are forgotten.
LEMMA JoinStep ==
  ASSUME CInv, JoinSession
  PROVE  CInv'
<1> USE SessionAssumption DEF SessionAssumption
<1>1. /\ todo # <<>> /\ Head(todo) \in {"mine", "theirs"}
      /\ gen' = gen + 1 /\ epoch' = gen + 1 /\ todo' = Tail(todo)
      /\ UNCHANGED <<gate, revision, granted, incomplete, closing>>
      /\ current' = Joining /\ conn' = [conn EXCEPT ![Joining].gen = gen + 1]
      /\ keys' = [o \in Operations |-> Absent] /\ capability' = capability + 1
      /\ Untold /\ UNCHANGED <<broken, announces, device, events, told>>
      /\ GateTypes /\ HostTypes /\ KeyTypes /\ DeviceTypes /\ ToldTypes
  BY TypeParts DEF JoinSession, Join, CInv
<1>2. /\ todo \in Plans /\ gate = "control" /\ gate \notin Connections
      /\ \A i \in DOMAIN line : line[i].frame.kind \notin KeyKinds
  BY <1>1, TakenGate
<1>3. todo \in BeforeJoin /\ todo' \in Plans /\ todo' \notin BeforeJoin /\ todo' \notin Settled
  BY <1>1, <1>2, PlanHeads
<1>4. PICK c \in Connections :
        /\ c = Joining /\ conn[c].at = "joining" /\ conn[c].gen = 0
        /\ \A d \in Connections : conn[d].at = "joining" => d = c
  BY <1>3 DEF Joining, CInv, SessionInv, JoinInv, At
<1>5. gen \in Nat /\ gen + 1 # 0 /\ gen + 1 \in Nat /\ events \in Nat
      /\ \A d \in Connections : conn[d].gen \in Nat /\ conn[d].gen <= gen
  BY <1>1, SMTT(20) DEF GateTypes, GateTypeOK, HostTypes, Handler, ToldTypes, CInv, SessionInv, GenInv
<1>6. /\ conn' \in [Connections -> Handler]
      /\ conn'[c].at = "joining" /\ conn'[c].gen = gen + 1
      /\ \A d \in Connections : d # c => conn'[d] = conn[d]
      /\ \A d \in Connections : /\ conn'[d].at = conn[d].at /\ conn'[d].frame = conn[d].frame
                                /\ conn'[d].result = conn[d].result
  <2> DEFINE h == [conn[c] EXCEPT !.gen = gen + 1]
  <2>1. conn[c] \in Handler
    BY <1>1 DEF HostTypes
  <2>2. /\ h \in Handler /\ h.gen = gen + 1 /\ h.at = conn[c].at /\ h.frame = conn[c].frame
        /\ h.result = conn[c].result
    BY <2>1, <1>5 DEF Handler
  <2>3. conn' = [conn EXCEPT ![c] = h]
    BY <1>1, <1>4
  <2> HIDE DEF h
  <2>4. QED
    BY <2>2, <2>3, <1>1, <1>4 DEF HostTypes
<1>7. HostTypes'
  BY <1>1, <1>4, <1>5, <1>6 DEF HostTypes, Untold
<1>8. SessionInv'
  <2>1. GateInv'
    BY <1>1, <1>2, <1>3 DEF GateInv
  <2>2. JoinInv'
    BY <1>1, <1>2, <1>3, <1>4, <1>6 DEF JoinInv, At
  <2>3. GenInv'
    <3>1. \A d \in Connections :
            /\ conn'[d].gen <= gen + 1
            /\ conn'[d].at \in {"new", "closed"} => conn'[d].gen = 0
            /\ Framed(d)' => /\ conn'[d].gen # 0
                             /\ Pass(d)'.gen = conn'[d].gen /\ Pass(d)'.epoch = conn'[d].gen
                             /\ Pass(d)'.scope = "input"
            /\ gate # d
      BY <1>2, <1>4, <1>5, <1>6 DEF Framed, Working, Pass, CInv, SessionInv, GenInv
    <3>2. \A d, e \in Connections :
            d # e /\ conn'[d].gen = conn'[e].gen => conn'[d].gen = 0
      BY <1>4, <1>5, <1>6 DEF CInv, SessionInv, GenInv
    <3>3. QED
      BY <1>1, <3>1, <3>2 DEF GenInv
  <2>4. QED
    BY <2>1, <2>2, <2>3 DEF SessionInv
<1>9. /\ UNCHANGED <<line, running, pressed, ran, events, told>>
      /\ \A f : Began(f)' <=> Began(f)
      /\ \A d, o, s : Ran(d, o, s)' <=> Ran(d, o, s)
      /\ \A d \in Connections : /\ FrameOf(d)' = FrameOf(d) /\ Framed(d)' = Framed(d)
                                /\ Unbegun(d)' = Unbegun(d)
                                /\ \A o : Busy(d, o)' = Busy(d, o)
  BY <1>1, <1>6 DEF device, Began, Ran, FrameOf, Framed, Unbegun, Busy
<1>10. /\ \A o \in Operations : /\ keys'[o].epoch = 0 /\ keys'[o].active = FALSE
                                /\ \A s \in Steps : keys'[o].receipts[s] = "none"
       /\ KeyTypes'
  <2>1. Absent \in Operation
    BY DEF Absent, Operation, Results, Steps
  <2>2. Absent.epoch = 0 /\ Absent.active = FALSE /\ \A s \in Steps : Absent.receipts[s] = "none"
    BY DEF Absent
  <2>3. QED
    BY <1>1, <2>1, <2>2 DEF KeyTypes
<1>11. FramesInv'
  <2>1. FrameInv'
    BY <1>6, <1>9 DEF CInv, FramesInv, FrameInv, At
  <2>2. LineInv'
    BY <1>2, <1>9 DEF CInv, FramesInv, LineInv
  <2>3. RanInv'
    <3>1. KeysInOrder'
      BY <1>9 DEF CInv, FramesInv, RanInv, KeysInOrder
    <3>2. \A k \in DOMAIN ran : /\ ran[k].frame.id <= events
                                /\ conn'[ran[k].from].at \notin {"new", "joining"}
      BY <1>6, EntryTypes DEF CInv, FramesInv, RanInv
    <3>3. \A d \in Connections : Unbegun(d)' => ~Began(FrameOf(d))'
      BY <1>9 DEF CInv, FramesInv, RanInv, Began
    <3>4. QED
      BY <1>9, <3>1, <3>2, <3>3 DEF RanInv
  <2>4. KeyInv'
    <3> SUFFICES ASSUME NEW o \in Operations, NEW d \in Connections, d = c
                 PROVE  OperationOf(d, o)'
      BY <1>1, <1>4 DEF KeyInv
    <3>1. \A s : ~Ran(c, o, s)
      BY <1>4 DEF Ran, CInv, FramesInv, RanInv
    <3>2. ~Busy(c, o)
      BY <1>4 DEF Busy
    <3>3. conn'[d].at = "joining" /\ keys'[o].active = FALSE
      BY <1>6, <1>10
    <3>4. QED
      BY <3>1, <3>2, <3>3, <1>9 DEF OperationOf, At
  <2>5. RecordInv'
    <3>1. RecordInv
      BY DEF CInv, FramesInv
    <3>2. \A o \in Operations, s \in Steps : keys'[o].receipts[s] # "cancelled"
      BY <1>10
    <3>3. \A d \in Connections, o \in Operations : ~(keys'[o].epoch = conn'[d].gen /\ conn'[d].gen # 0)
      BY <1>10
    <3>4. \A d \in Connections :
            /\ conn'[d].at \in {"finish", "write"} /\ conn'[d].result = "executed" =>
                 Ran(d, FrameOf(d).op, FrameOf(d).step)
            /\ conn'[d].at = "write" /\ conn'[d].result = "cancelled" => FrameOf(d).kind = "cancel"
      BY <3>1, <1>6 DEF RecordInv, At
    <3>5. QED
      BY <3>2, <3>3, <3>4, <1>9 DEF RecordInv, At, Ran
  <2>6. ToldInv'
    <3> SUFFICES ASSUME NEW t \in told
                 PROVE  ToldOf(t)'
      BY <1>9 DEF ToldInv
    <3>1. ToldOf(t) /\ t.from \in Connections
      BY DEF CInv, FramesInv, ToldInv, TypeInv, Told
    <3>2. t.from # c
      BY <3>1, <1>4 DEF ToldOf
    <3>3. QED
      BY <3>1, <3>2, <1>1, <1>4, <1>6, <1>9 DEF ToldOf
  <2>7. QED
    BY <2>1, <2>2, <2>3, <2>4, <2>5, <2>6 DEF FramesInv
<1>12. TalkInv' /\ TalkTypes'
  <2>1. view[c].revision = 0
    BY <1>4 DEF CInv, TalkInv, OrderInv
  <2>2. \A d \in Connections :
          conn'[d].at \in {"new", "joining", "hello"} => view[d].revision = 0
    BY <1>6 DEF CInv, TalkInv, OrderInv
  <2>3. QED
    BY <1>1, <1>4, <1>6, <2>1, <2>2, TalkRenewed
<1>13. QuietInv'
  BY <1>3 DEF QuietInv
<1>14. GateTypes'
  BY <1>1, <1>3, <1>4, <1>5, PlanTypes DEF GateTypes, GateTypeOK
<1>15. DeviceTypes' /\ ToldTypes'
  BY <1>1, <1>9 DEF DeviceTypes, ToldTypes
<1>16. QED
  BY <1>7, <1>8, <1>10, <1>11, <1>12, <1>13, <1>14, <1>15, TypePartsNext DEF CInv

-----------------------------------------------------------------------------
(* The theorems.                                                           *)

LEMMA InitKeeps == Init => CInv
<1> SUFFICES ASSUME Init
             PROVE  CInv
  OBVIOUS
<1> USE SessionAssumption DEF Init, GateInit, SessionAssumption
<1>1. NoFrame \in Frames
  BY DEF NoFrame, Frames, Steps
<1>2. Fresh \in Handler /\ Fresh.at = "new" /\ Fresh.gen = 0
  BY <1>1 DEF Fresh, Handler, Places, Results, Scopes
<1>3. \A c \in Connections : conn[c] = Fresh /\ conn[c].at = "new" /\ conn[c].gen = 0
  BY <1>2
<1>4. Absent \in Operation /\ \A s \in Steps : Absent.receipts[s] = "none"
  BY DEF Absent, Operation, Results, Steps
<1>5. /\ line = <<>> /\ DOMAIN line = {} /\ ran = <<>> /\ DOMAIN ran = {} /\ told = {}
      /\ running = NoItem /\ pressed = Nobody /\ current = Nobody /\ gate = "free"
  OBVIOUS
<1>6. TypeInv
  <2>1. GateTypes
    <3>1. <<>> \in Seq(Step)
      BY EmptySeq
    <3>2. QED
      BY <3>1 DEF GateTypes, GateTypeOK
  <2>2. HostTypes
    BY <1>2, <1>3 DEF HostTypes
  <2>3. TalkTypes
    <3>1. Unheard \in [revision: Nat, epoch: Nat, policy: SUBSET Scopes, media: Nat]
      BY DEF Unheard
    <3> HIDE DEF Unheard
    <3>2. media \in [begun: Nat, open: SUBSET Observation, applied: Nat]
          /\ media.applied <= media.begun /\ media.open = {}
      OBVIOUS
    <3>3. QED
      BY <3>1, <3>2 DEF TalkTypes
  <2>4. KeyTypes
    BY <1>4 DEF KeyTypes
  <2>5. DeviceTypes
    BY <1>5, EmptySeq DEF DeviceTypes
  <2>6. ToldTypes
    BY DEF ToldTypes
  <2>7. QED
    BY <2>1, <2>2, <2>3, <2>4, <2>5, <2>6, TypeParts
<1>7. SessionInv
  <2>1. GateInv
    BY DEF GateInv, Plans, BeforeJoin
  <2>2. JoinInv
    BY <1>3 DEF JoinInv, BeforeJoin, At
  <2>3. GenInv
    BY <1>3, <1>5 DEF GenInv, Framed, Working
  <2>4. QED
    BY <2>1, <2>2, <2>3 DEF SessionInv
<1>8. FramesInv
  <2>1. FrameInv
    BY <1>3 DEF FrameInv, Framed, Working, At
  <2>2. LineInv
    BY <1>5 DEF LineInv
  <2>3. RanInv
    BY <1>3, <1>5 DEF RanInv, Unbegun, KeysInOrder
  <2>4. KeyInv
    BY DEF KeyInv
  <2>5. RecordInv
    BY <1>3, <1>4 DEF RecordInv, At
  <2>6. ToldInv
    BY <1>5 DEF ToldInv
  <2>7. QED
    BY <2>1, <2>2, <2>3, <2>4, <2>5, <2>6 DEF FramesInv
<1>9. QuietInv
  BY <1>5 DEF QuietInv, Present, NoItem
<1>10. TalkInv
  <2>1. \A c \in Connections : view[c].revision = 0
    BY DEF Unheard
  <2>2. MessageInv
    BY <2>1 DEF MessageInv, Sound
  <2>3. OrderInv
    BY <2>1 DEF OrderInv
  <2>4. DueInv
    BY DEF DueInv
  <2>5. QED
    BY <2>2, <2>3, <2>4 DEF TalkInv
<1>11. QED
  BY <1>6, <1>7, <1>8, <1>9, <1>10 DEF CInv

LEMMA StutterKeeps ==
  ASSUME CInv, UNCHANGED vars
  PROVE  CInv'
<1>1. UNCHANGED <<control, hosts, talk, keys, device, events, told>>
  BY DEF vars
<1>2. Unheeded /\ UNCHANGED <<line, running, pressed, ran>>
  BY <1>1 DEF Unheeded, device
<1>3. FramesInv'
  <2>1. FramesAside
    BY <1>2, UnheededKeeps DEF FramesAside
  <2>2. QED
    BY <2>1, FramesKept DEF CInv
<1>4. QuietInv'
  BY <1>2, UnheededKeeps, QuietKept, DeviceKept DEF CInv
<1>5. DeviceTypes'
  BY <1>2, TypeParts DEF CInv, DeviceTypes
<1>6. QED
  BY <1>2, <1>3, <1>4, <1>5, UnheededKeeps, TypePartsNext DEF CInv

LEMMA NextKeeps ==
  ASSUME CInv, [Next]_vars
  PROVE  CInv'
<1>1. ASSUME NEW c \in Connections, Handle(c)
      PROVE  CInv'
  BY <1>1, HelloStep, GreetStep, CancelStep, ReserveStep, AdmitStep, EnterKeeps, TimeoutStep,
     FinishStep, WriteStep, OpenStep, EndStep DEF Handle
<1>2. ASSUME NEW c \in Connections, NEW m \in Sendable, Frame(c, m.kind, m.op, m.step)
      PROVE  CInv'
  BY <1>2, FrameStep
<1>3. ASSUME NEW u \in updates, Send(u)
      PROVE  CInv'
  BY <1>3, SendStep
<1>4. CASE Written
  BY <1>4, WrittenStep
<1>5. ASSUME NEW e \in {0, epoch}, Observe(e)
      PROVE  CInv'
  BY <1>5, ObserveStep
<1>6. ASSUME NEW o \in media.open, Observed(o)
      PROVE  CInv'
  BY <1>6, ObservedStep
<1>7. CASE GeometryRefused
  BY <1>7, RefusedStep
<1>8. CASE JoinSession
  BY <1>8, JoinStep
<1>9. CASE ResetDevice
  BY <1>9, ResetStep
<1>10. CASE ConfigureDevice
  BY <1>10, ConfigureStep
<1>11. CASE LeaveGate
  BY <1>11, LeaveStep
<1>12. ASSUME NEW p \in Policies, ChangePolicy(p)
       PROVE  CInv'
  BY <1>12, PolicyStep
<1>13. CASE CloseAdmission
  BY <1>13, AdmissionStep
<1>14. CASE CloseSession
  BY <1>14, CloseStep
<1>15. CASE Injector
  BY <1>15, BeginsStep, RefusesStep, EndsStep, LateResetStep DEF Injector
<1>16. CASE UNCHANGED vars
  BY <1>16, StutterKeeps
<1>17. QED
  BY <1>1, <1>2, <1>3, <1>4, <1>5, <1>6, <1>7, <1>8, <1>9, <1>10, <1>11, <1>12, <1>13, <1>14,
     <1>15, <1>16 DEF Next

\* The inductive invariant holds in every reachable state: what each of the parts above says
\* of the gate, the handlers, the line, the keys, the receipts and the messages.
THEOREM ControlInvariant == Spec => []CInv
BY InitKeeps, NextKeeps, PTL DEF Spec

\* Types: the gate belongs to the handler that waits for the device, the writer's lock to the
\* one that writes its hello, and the session in force to the connection of its epoch.
THEOREM ControlTypes == Spec => []TypeOK
<1>1. CInv => TypeOK
  BY DEF CInv, TypeInv
<1>2. QED
  BY <1>1, ControlInvariant, PTL

\* The sequences of a key operation reach the device once each and in order, for any number
\* of connections, operations and repetitions (routeKeyOperation).
THEOREM KeysOrdered == Spec => []KeysInOrder
<1>1. CInv => KeysInOrder
  BY DEF CInv, FramesInv, RanInv
<1>2. QED
  BY <1>1, ControlInvariant, PTL

\* What a receipt says of the device is true and stays true (executeKeyAction, finishQueuedAction).
THEOREM ReceiptsHold == Spec => []ReceiptsTrue
<1>1. CInv => ReceiptsTrue
  BY DEF CInv, FramesInv, ToldInv, ToldOf, ReceiptsTrue, Ran, Began, Same
<1>2. QED
  BY <1>1, ControlInvariant, PTL

\* No sequence of an operation is begun once its cancellation has been confirmed to the phone
\* (routeKeyOperation, admitActionProvider).
THEOREM CancellationsHold == Spec => []CancelStops
<1>1. CInv => CancelStops
  BY DEF CInv, FramesInv, ToldInv, ToldOf, CancelStops
<1>2. QED
  BY <1>1, ControlInvariant, PTL

\* After a transition whose reset is confirmed, and until the next, nothing with the device is
\* of another session, and nothing at all while input is not granted (setCurrent, clearCurrent,
\* SetPermissions).
THEOREM DeviceOfSession == Spec => []SessionsQuiet
<1>1. CInv => SessionsQuiet
  <2> SUFFICES ASSUME CInv, gate \in {"free"} \cup Connections, closing = "open", ~incomplete
               PROVE  Present \subseteq {current} /\ ("input" \notin granted => Present = {})
    BY DEF SessionsQuiet
  <2>1. gate # "control"
    BY SessionAssumption DEF SessionAssumption
  <2>2. todo \in Settled
    BY <2>1 DEF CInv, SessionInv, GateInv, Settled
  <2>3. QED
    BY <2>2 DEF CInv, QuietInv
<1>2. QED
  BY <1>1, ControlInvariant, PTL

\* When nothing is on its way to the phone, what it shows of the policy and of the media is
\* what is in force (sendCapabilityUpdate, observeMedia, SetPermissions, handleWS).
THEOREM ViewOfForce == Spec => []ViewSound
<1>1. CInv => ViewSound
  <2> SUFFICES ASSUME CInv, gate = "free", updates = {}, sender = Nobody,
                      current # Nobody, current \notin broken, view[current].revision # 0
               PROVE  /\ view[current].policy = granted
                      /\ view[current].media = media.applied
                      /\ view[current].epoch = epoch
    BY DEF ViewSound
  <2>1. current \in Connections /\ sender # "update" /\ conn[current].at # "greet"
        /\ view[current].revision \in Nat /\ capability \in Nat
    BY TypeParts, SessionAssumption
       DEF CInv, GateTypes, HostTypes, TalkTypes, SessionAssumption
  <2>2. ~Due(current)
    BY <2>1, FreeGate DEF Due
  <2>3. ~(view[current].revision < capability)
    BY <2>1, <2>2 DEF CInv, TalkInv, DueInv, Knows, At
  <2>4. view[current].revision = capability
    BY <2>1, <2>3 DEF CInv, TalkInv, MessageInv, Sound
  <2>5. QED
    BY <2>1, <2>4 DEF CInv, TalkInv, MessageInv, Sound
<1>2. QED
  BY <1>1, ControlInvariant, PTL
=============================================================================
